-------------------------- MODULE FileWriteProofs ---------------------------
(* What filewrite()'s chunks keep to, for every file, offset and length. *)
EXTENDS FileWrite, FiniteSetTheorems, TLAPS

\* Quotients of numbers less than k blocks apart differ by k at most.
LEMMA BlocksApart ==
    ASSUME NEW B \in Nat \ {0}, NEW off \in Nat, NEW end \in Nat, NEW k \in Nat,
           off <= end, end < off + k * B
    PROVE  /\ off \div B \in Nat /\ end \div B \in Nat
           /\ off \div B <= end \div B
           /\ end \div B <= off \div B + k
<1> DEFINE q == off \div B
           r == end \div B
<1>1. q \in Int /\ B * q <= off /\ off < B * q + B BY SMT
<1>2. r \in Int /\ B * r <= end /\ end < B * r + B BY SMT
<1> HIDE DEF q, r
<1>3. \A x, y, a, b \in Int : a = B * x /\ b = B * y /\ x + 1 <= y => a + B <= b BY SMT
<1> QED BY <1>1, <1>2, <1>3, SMT

\* Every chunk of a write makes progress, and what it touches of the file spans one
\* block more than a chunk holds at most: the chunk need not be aligned.
LEMMA ChunkSpan ==
    ASSUME Sizes, NEW off \in Nat, NEW n \in Nat, NEW i \in Nat, i < n,
           NEW k, k = (MAXOPBLOCKS - 1 - 1 - 2) \div 2
    PROVE  /\ k \in Nat /\ k + 6 <= MAXOPBLOCKS
           /\ Chunk(n, i) \in Nat \ {0}
           /\ IsFiniteSet(Touched(off, Chunk(n, i)))
           /\ Touched(off, Chunk(n, i)) \subseteq Nat
           /\ Cardinality(Touched(off, Chunk(n, i))) <= k + 1
<1> DEFINE c == Chunk(n, i)
           first == off \div BSIZE
           last == (off + c - 1) \div BSIZE
<1>1. k \in Nat /\ k >= 1 /\ k + 6 <= MAXOPBLOCKS BY DEF Sizes
<1>2. BSIZE \in Nat \ {0} BY DEF Sizes
<1>3. k * BSIZE \in Nat \ {0}
  <2>1. \A a, b \in Nat : a >= 1 /\ b >= 1 => a * b \in Nat /\ a * b >= 1 BY SMT
  <2> QED BY <1>1, <1>2, <2>1
<1>4. c \in Nat \ {0} /\ c <= k * BSIZE BY <1>3 DEF Chunk, MaxChunk
<1> HIDE DEF c
<1>5. off + c - 1 \in Nat /\ off <= off + c - 1 /\ off + c - 1 < off + k * BSIZE BY <1>3, <1>4
<1>6. first \in Nat /\ last \in Nat /\ first <= last /\ last <= first + k
  BY <1>1, <1>2, <1>5, BlocksApart
<1>7. Touched(off, c) = first..last BY <1>4 DEF Touched
<1> HIDE DEF first, last
<1>8. IsFiniteSet(first..last) /\ Cardinality(first..last) <= k + 1
  <2>1. first \in Int /\ last \in Int BY <1>6
  <2>2. /\ IsFiniteSet(first..last)
        /\ Cardinality(first..last) = IF first > last THEN 0 ELSE last - first + 1
    BY <2>1, FS_Interval
  <2> QED BY <1>1, <1>6, <2>2
<1> QED BY <1>1, <1>4, <1>6, <1>7, <1>8 DEF c

\* One element more.
LEMMA AddOne ==
    ASSUME NEW A, IsFiniteSet(A), NEW m \in Nat, Cardinality(A) <= m, NEW x
    PROVE  IsFiniteSet(A \cup {x}) /\ Cardinality(A \cup {x}) <= m + 1
<1> DEFINE a == Cardinality(A)
           b == Cardinality(A \cup {x})
<1>1. a \in Nat BY FS_CardinalityType
<1>2. IsFiniteSet(A \cup {x}) BY FS_AddElement
<1>3. b = IF x \in A THEN a ELSE a + 1 BY FS_AddElement
<1>4. a <= m OBVIOUS
<1> HIDE DEF a, b
<1>5. b <= m + 1 BY <1>1, <1>3, <1>4
<1> QED BY <1>2, <1>5 DEF b

\* A chunk of filewrite() (file.c:138-147) logs few enough blocks, wherever it starts and
\* whatever writei() has to allocate, to leave two of those begin_op() reserved: what
\* keeps the log from overflowing when every call does.
THEOREM ChunkFits ==
    ASSUME Sizes, NEW f, NEW off \in Nat, NEW n \in Nat, NEW i \in Nat, i < n
    PROVE  /\ Chunk(n, i) > 0
           /\ IsFiniteSet(Logged(f, off, Chunk(n, i)))
           /\ Cardinality(Logged(f, off, Chunk(n, i))) + 2 <= MAXOPBLOCKS
<1> DEFINE k == (MAXOPBLOCKS - 1 - 1 - 2) \div 2
           c == Chunk(n, i)
           T == Touched(off, c)
           S == T \cup {Bitmap}
           R == S \cup {Indirect}
           All == R \cup {InodeBlock}
<1>1. /\ k \in Nat /\ k + 6 <= MAXOPBLOCKS /\ c \in Nat \ {0}
      /\ IsFiniteSet(T) /\ Cardinality(T) <= k + 1
  BY ChunkSpan
<1>2. Logged(f, off, c) \subseteq All
  <2> SUFFICES ASSUME NEW b \in Logged(f, off, c) PROVE b \in All OBVIOUS
  <2>1. CASE \E bn \in T : b \in BmapLogs(f, bn)
    <3>1. PICK bn \in T : b \in BmapLogs(f, bn) BY <2>1
    <3>2. b \in {bn, Bitmap, Indirect} BY <3>1 DEF BmapLogs
    <3> QED BY <3>1, <3>2
  <2>2. CASE b \in T BY <2>2
  <2>3. CASE b = InodeBlock BY <2>3
  <2>4. (\E bn \in T : b \in BmapLogs(f, bn)) \/ b \in T \/ b = InodeBlock
    <3> HIDE DEF c
    <3> QED BY DEF Logged
  <2> QED BY <2>1, <2>2, <2>3, <2>4
<1> HIDE DEF k, c, T
<1>3. IsFiniteSet(S) /\ Cardinality(S) <= k + 2
  BY <1>1, k + 1 \in Nat, k + 1 + 1 = k + 2, AddOne
<1> HIDE DEF S
<1>4. IsFiniteSet(R) /\ Cardinality(R) <= k + 3
  BY <1>1, <1>3, k + 2 \in Nat, k + 2 + 1 = k + 3, AddOne
<1> HIDE DEF R
<1>5. IsFiniteSet(All) /\ Cardinality(All) <= k + 4
  BY <1>1, <1>4, k + 3 \in Nat, k + 3 + 1 = k + 4, AddOne
<1> HIDE DEF All
<1>6. /\ IsFiniteSet(Logged(f, off, c))
      /\ Cardinality(Logged(f, off, c)) <= Cardinality(All)
  BY <1>2, <1>5, FS_Subset
<1> QED BY <1>1, <1>5, <1>6, FS_CardinalityType DEF c, Sizes

\* A write that passes writei()'s tests (fs.c:506-509) never asks bmap() for a block past
\* the indirect one, its panic "out of range", although the sum of two uints may wrap.
THEOREM BmapInRange ==
    ASSUME Sizes, NEW f, NEW off \in 0..(UintRange - 1), NEW n \in 0..(UintRange - 1),
           Accepts(f, off, n)
    PROVE  Touched(off, n) \subseteq 0..(MAXFILE - 1)
<1> USE DEF Sizes
<1>1. CASE n = 0 BY <1>1 DEF Touched
<1>2. CASE n # 0
  <2> DEFINE end == off + n - 1
  <2>1. end \in Nat /\ off <= end /\ end < MAXFILE * BSIZE
    BY <1>2 DEF Accepts, Sum, MAXFILE
  <2>2. MAXFILE \in Nat BY DEF MAXFILE
  <2> HIDE DEF end
  <2>3. end < 0 + MAXFILE * BSIZE BY <2>1, <2>2
  <2>4. end \div BSIZE \in Nat /\ BSIZE * (end \div BSIZE) <= end BY <2>1, SMT
  <2>5. off \div BSIZE \in Nat BY SMT
  <2>6. \A x, m \in Nat : BSIZE * x < m * BSIZE => x < m BY SMT
  <2>7. end \div BSIZE < MAXFILE
    <3> DEFINE x == end \div BSIZE
    <3> HIDE DEF x
    <3>1. x \in Nat /\ BSIZE * x < MAXFILE * BSIZE
      <4>1. BSIZE * x \in Int /\ MAXFILE * BSIZE \in Int BY <2>2, <2>4 DEF x
      <4> QED BY <2>1, <2>4, <4>1 DEF x
    <3> QED BY <2>2, <2>6, <3>1 DEF x
  <2> QED BY <1>2, <2>2, <2>4, <2>5, <2>7 DEF Touched, end
<1> QED BY <1>1, <1>2
=============================================================================
