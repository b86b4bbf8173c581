----------------------------- MODULE PipeProofs -----------------------------
(***************************************************************************)
(* What holds of Pipe for any number of processes, files, descriptors and  *)
(* pages, any payloads and any ring: the reference counts are exact, the   *)
(* ends of a pipe are those of its files, wakeups are lost to kill() only, *)
(* and a pipe is a byte stream.                                            *)
(***************************************************************************)
EXTENDS Pipe, FiniteSetTheorems, TLAPS

InRead == {"read", "rdoze", "rsleep"}
InWrite == {"write", "wdoze", "wsleep"}
Waiting == {"rdoze", "rsleep", "wdoze", "wsleep"}
InShut == {"pipeclose", "exit_pipeclose"}

\* What the position of a process says of its call: how many files it has in hand, and
\* that a reader or writer keeps its file open.
CallOk(p) ==
    /\ pc[p] \in {"absent", "gone", "user"} => arg[p] = <<>>
    /\ pc[p] \in {"absent", "gone"} => \A fd \in Fd : ofile[p][fd] = NoFile
    /\ At(p, "pipe1") => Len(arg[p]) = 1
    /\ At(p, "pipe2") => Len(arg[p]) = 2
    /\ Len(arg[p]) <= 2 /\ (Len(arg[p]) = 2 => arg[p][1] # arg[p][2])
    /\ pc[p] \in InRead \cup InWrite =>
          /\ Len(arg[p]) = 1 /\ \E fd \in Fd : ofile[p][fd] = arg[p][1]
          /\ writable[arg[p][1]] <=> pc[p] \in InWrite
    /\ pc[p] \in InShut => shut[p].pipe \in Page
    /\ pc[p] \notin InShut => shut[p] = NoShut
CallInv == \A p \in Proc : CallOk(p)

\* A free file is no pipe, an open one is, and one that sys_pipe() has not finished is
\* not, and nobody else has it.
FileInv ==
    /\ \A f \in File : /\ ref[f] = 0 => type[f] = "FD_NONE"
                       /\ type[f] = "FD_PIPE" => pipe[f] \in Page
    /\ \A p \in Proc, fd \in Fd : ofile[p][fd] # NoFile => type[ofile[p][fd]] = "FD_PIPE"
    /\ \A p \in Proc : pc[p] \in {"pipe1", "pipe2"} =>
          \A i \in 1 .. Len(arg[p]) : type[arg[p][i]] = "FD_NONE" /\ ref[arg[p][i]] = 1

\* f is the end w of pipe q; p is about to close it.
IsEnd(f, q, w) == type[f] = "FD_PIPE" /\ pipe[f] = q /\ writable[f] = w
Shuts(p, q, w) == shut[p] = [pipe |-> q, writable |-> w]
IsOpen(q, w) == used[q] /\ IF w THEN writeopen[q] ELSE readopen[q]

\* Each end of a pipe has one file, or one process that is about to close it.
UniqueInv ==
    \A q \in Page, w \in BOOLEAN :
        /\ \A f, g \in File : IsEnd(f, q, w) /\ IsEnd(g, q, w) => f = g
        /\ \A p, r \in Proc : Shuts(p, q, w) /\ Shuts(r, q, w) => p = r
        /\ \A f \in File, p \in Proc : ~(IsEnd(f, q, w) /\ Shuts(p, q, w))

\* An end is open exactly while it has one of them.
EndInv ==
    \A q \in Page, w \in BOOLEAN :
        IsOpen(q, w) <=> \/ \E f \in File : IsEnd(f, q, w)
                         \/ \E p \in Proc : Shuts(p, q, w)

RefInv == \A f \in File : ref[f] = Holders(f)

\* A ring never holds more than it can.
RingInv == \A q \in Page : Held(q) <= PIPESIZE

\* SleeperBlocked, of one process.
SleepOk(p) ==
    LET q == PipeOf(p)
    IN  /\ pc[p] \in {"wdoze", "wsleep"} => Held(q) = PIPESIZE /\ readopen[q]
        /\ pc[p] \in {"rdoze", "rsleep"} => writeopen[q]
        /\ pc[p] = "rdoze" => Held(q) = 0

IndInv == TypeOK /\ CallInv /\ FileInv /\ UniqueInv /\ EndInv /\ RefInv /\ RingInv /\ SleeperBlocked

\* The two sets that Holders counts: descriptors, and files that a call has in hand.
Opens(f) == {h \in Proc \X Fd : ofile[h[1]][h[2]] = f}
InHand == {"pipe1", "pipe2", "pipeclose", "exit_pipeclose", "close", "exit"}
Hands(f) == {h \in Proc \X (1 .. 2) : pc[h[1]] \in InHand /\ h[2] \in DOMAIN arg[h[1]] /\ arg[h[1]][h[2]] = f}
-----------------------------------------------------------------------------
LEMMA MinPair ==
    ASSUME NEW a \in Nat, NEW b \in Nat
    PROVE  Min({a, b}) = IF a <= b THEN a ELSE b
<1>1. \E x \in {a, b} : \A y \in {a, b} : x <= y OBVIOUS
<1>2. Min({a, b}) \in {a, b} /\ \A y \in {a, b} : Min({a, b}) <= y BY <1>1 DEF Min
<1> QED BY <1>2

LEMMA MinIn ==
    ASSUME NEW S \in SUBSET Nat, S # {}
    PROVE  Min(S) \in S
<1>1. PICK x \in S : \A y \in S : <<y, x>> \notin OpToRel(<, Nat) BY WFMin, NatLessThanWellFounded
<1>2. OpToRel(<, Nat) = {s \in Nat \X Nat : s[1] < s[2]} BY Zenon DEF OpToRel
<1>3. \A y \in S : <<y, x>> \notin {s \in Nat \X Nat : s[1] < s[2]} BY <1>1, <1>2, Zenon
<1>4. ASSUME NEW y \in S PROVE x <= y
  <2>1. x \in Nat /\ y \in Nat /\ <<y, x>>[1] = y /\ <<y, x>>[2] = x /\ <<y, x>> \in Nat \X Nat OBVIOUS
  <2>2. ~(y < x) BY <1>3, <2>1, Zenon
  <2> QED BY <2>1, <2>2
<1> QED BY <1>4 DEF Min

LEMMA ModSmall ==
    ASSUME NEW W \in Nat, NEW x \in Nat, W > 0, x < 2 * W
    PROVE  x % W = IF x < W THEN x ELSE x - W
  OBVIOUS

LEMMA Gain ==
    ASSUME NEW A, NEW B, NEW x, IsFiniteSet(A), x \notin A, B = A \cup {x}
    PROVE  Cardinality(A) \in Nat /\ Cardinality(B) = Cardinality(A) + 1
  BY FS_AddElement, FS_CardinalityType

LEMMA Lose ==
    ASSUME NEW A, NEW B, NEW x, IsFiniteSet(A), x \in A, B = A \ {x}
    PROVE  Cardinality(A) \in Nat /\ Cardinality(B) \in Nat /\ Cardinality(A) = Cardinality(B) + 1
<1>1. IsFiniteSet(B) /\ x \notin B /\ A = B \cup {x} BY FS_RemoveElement
<1> QED BY <1>1, Gain

LEMMA Counts ==
    \A f \in File : /\ Holders(f) = Cardinality(Opens(f)) + Cardinality(Hands(f))
                     /\ IsFiniteSet(Opens(f)) /\ IsFiniteSet(Hands(f))
<1> SUFFICES ASSUME NEW f \in File PROVE /\ Holders(f) = Cardinality(Opens(f)) + Cardinality(Hands(f))
                     /\ IsFiniteSet(Opens(f)) /\ IsFiniteSet(Hands(f))
  OBVIOUS
<1>1. IsFiniteSet(Proc \X Fd) /\ IsFiniteSet(Proc \X (1 .. 2))
  <2>1. IsFiniteSet(Fd) BY PipeAssumption, FS_Interval DEF Fd
  <2>2. 1 \in Int /\ 2 \in Int OBVIOUS
  <2>3. IsFiniteSet(1 .. 2) BY <2>2, FS_Interval, Zenon
  <2> QED BY <2>1, <2>3, PipeAssumption, FS_Product
<1>2. Opens(f) \in SUBSET (Proc \X Fd) BY DEF Opens
<1>3. Hands(f) \in SUBSET (Proc \X (1 .. 2)) BY DEF Hands
<1>4. InHand = {"pipe1", "pipe2", "pipeclose", "exit_pipeclose"} \cup Closing BY DEF InHand, Closing
<1>5. Holders(f) = Cardinality(Opens(f)) + Cardinality(Hands(f)) BY <1>4, Zenon DEF Holders, Opens, Hands
<1> QED BY <1>1, <1>2, <1>3, <1>5, FS_Subset

LEMMA CountsNext ==
    (\A f \in File : /\ Holders(f) = Cardinality(Opens(f)) + Cardinality(Hands(f))
                      /\ IsFiniteSet(Opens(f)) /\ IsFiniteSet(Hands(f)))'
  BY Counts, PTL

\* A process in read() or write(): its file, which is open, and the end of the pipe it is.
LEMMA CallerEnd ==
    ASSUME IndInv, NEW p \in Proc, pc[p] \in InRead \cup InWrite
    PROVE  LET f == arg[p][1]
           IN  /\ Head(arg[p]) = f /\ f \in File /\ \E fd \in Fd : ofile[p][fd] = f
               /\ pipe[f] \in Page /\ (writable[f] <=> pc[p] \in InWrite)
               /\ IsEnd(f, pipe[f], pc[p] \in InWrite) /\ IsOpen(pipe[f], pc[p] \in InWrite)
<1> DEFINE f == arg[p][1]
<1>1. arg[p] \in Seq(File) /\ Len(arg[p]) = 1 BY DEF IndInv, TypeOK, CallInv, CallOk
<1>2. Head(arg[p]) = f /\ f \in File BY <1>1
<1>3. PICK fd \in Fd : ofile[p][fd] = f BY DEF IndInv, CallInv, CallOk
<1>4. f # NoFile BY <1>2 DEF File, NoFile
<1>5. type[f] = "FD_PIPE" /\ pipe[f] \in Page BY <1>2, <1>3, <1>4 DEF IndInv, FileInv
<1>6. writable[f] <=> pc[p] \in InWrite BY DEF IndInv, CallInv, CallOk
<1>7. writable[f] \in BOOLEAN BY <1>2 DEF IndInv, TypeOK
<1>8. writable[f] = (pc[p] \in InWrite) BY <1>6, <1>7
<1>9. IsEnd(f, pipe[f], writable[f]) BY <1>5 DEF IsEnd
<1>10. IsOpen(pipe[f], writable[f]) BY <1>2, <1>5, <1>7, <1>9 DEF IndInv, EndInv
<1> QED BY <1>2, <1>3, <1>5, <1>6, <1>8, <1>9, <1>10

LEMMA InitInv == Init => IndInv
<1> SUFFICES ASSUME Init PROVE IndInv
  OBVIOUS
<1> USE PipeAssumption DEF Init
<1>1. TypeOK
  <2>1. <<>> \in Seq(File) /\ <<>> \in Seq(Byte) OBVIOUS
  <2> QED BY <2>1 DEF TypeOK, PC, Filled, NoShut, NoFile
<1>2. CallInv BY DEF CallInv, CallOk, At, InRead, InWrite, InShut, NoShut, NoFile
<1>3. FileInv BY DEF FileInv, NoFile, At
<1>4. UniqueInv BY DEF UniqueInv, IsEnd, Shuts, NoShut
<1>5. EndInv BY DEF EndInv, IsEnd, Shuts, NoShut, IsOpen
<1>6. RefInv
  <2> SUFFICES ASSUME NEW f \in File PROVE ref[f] = Cardinality(Opens(f)) + Cardinality(Hands(f))
    BY Counts DEF RefInv
  <2>1. Opens(f) = {}
    <3> SUFFICES ASSUME NEW h \in Proc \X Fd, ofile[h[1]][h[2]] = f PROVE FALSE
      BY DEF Opens
    <3> QED BY DEF File, NoFile
  <2>2. Hands(f) = {}
    <3> SUFFICES ASSUME NEW h \in Proc \X (1 .. 2), h[2] \in DOMAIN arg[h[1]] PROVE FALSE
      BY DEF Hands
    <3> QED OBVIOUS
  <2> QED BY <2>1, <2>2, FS_EmptySet
<1>7. RingInv BY DEF RingInv, Held
<1>8. SleeperBlocked BY DEF SleeperBlocked, At
<1> QED BY <1>1, <1>2, <1>3, <1>4, <1>5, <1>6, <1>7, <1>8 DEF IndInv
-----------------------------------------------------------------------------
\* What an action that leaves these parts of the state alone cannot disturb.
LEMMA EndsKept ==
    ASSUME UniqueInv, EndInv, UNCHANGED <<type, writable, pipe, shut, used, readopen, writeopen>>
    PROVE  UniqueInv' /\ EndInv'
  BY DEF UniqueInv, EndInv, IsEnd, Shuts, IsOpen

LEMMA RingKept ==
    ASSUME RingInv, UNCHANGED <<nread, nwrite>>
    PROVE  RingInv' /\ \A q \in Page : Held(q)' = Held(q)
  BY DEF RingInv, Held

LEMMA CountKept ==
    ASSUME RefInv, UNCHANGED ref,
           \A f \in File : Opens(f)' = Opens(f) /\ Hands(f)' = Hands(f)
    PROVE  RefInv'
<1> SUFFICES ASSUME NEW f \in File PROVE ref[f] = Holders(f)'
  BY DEF RefInv
<1>1. ref[f] = Cardinality(Opens(f)) + Cardinality(Hands(f)) BY Counts DEF RefInv
<1>2. Holders(f)' = Cardinality(Opens(f)') + Cardinality(Hands(f)') BY CountsNext
<1> QED BY <1>1, <1>2

\* The holders of f after one of the two sets grew, shrank or stayed.
LEMMA CountStep ==
    ASSUME RefInv, NEW f \in File, NEW a \in Int, NEW b \in Int,
           Cardinality(Opens(f)') = Cardinality(Opens(f)) + a,
           Cardinality(Hands(f)') = Cardinality(Hands(f)) + b,
           ref'[f] = ref[f] + a + b
    PROVE  ref'[f] = Holders(f)'
<1>1. ref[f] = Cardinality(Opens(f)) + Cardinality(Hands(f)) BY Counts DEF RefInv
<1>2. Holders(f)' = Cardinality(Opens(f)') + Cardinality(Hands(f)') BY CountsNext
<1>3. Cardinality(Opens(f)) \in Nat /\ Cardinality(Hands(f)) \in Nat BY Counts, FS_CardinalityType
<1> DEFINE m == Cardinality(Opens(f))
           n == Cardinality(Hands(f))
           m1 == Cardinality(Opens(f)')
           n1 == Cardinality(Hands(f)')
<1> HIDE DEF m, n, m1, n1
<1>4. ref[f] = m + n /\ Holders(f)' = m1 + n1 /\ m \in Nat /\ n \in Nat /\ m1 = m + a /\ n1 = n + b
  BY <1>1, <1>2, <1>3 DEF m, n, m1, n1
<1> QED BY <1>4

\* A file in nobody's hands and descriptors is free.
LEMMA CountAtLeast ==
    ASSUME RefInv, NEW f \in File
    PROVE  /\ \A x \in Opens(f) : ref[f] > 0
           /\ \A x \in Hands(f) : ref[f] > 0
           /\ \A x, y \in Hands(f) : ref[f] = 1 => x = y
           /\ \A x \in Hands(f) : ref[f] = 1 => Opens(f) = {}
           /\ ref[f] \in Nat
<1> DEFINE m == Cardinality(Opens(f))
           n == Cardinality(Hands(f))
<1>1. ref[f] = m + n /\ IsFiniteSet(Opens(f)) /\ IsFiniteSet(Hands(f)) BY Counts DEF RefInv
<1>2. m \in Nat /\ n \in Nat BY <1>1, FS_CardinalityType
<1>3. (m = 0 <=> Opens(f) = {}) /\ (n = 0 <=> Hands(f) = {}) BY <1>1, FS_EmptySet
<1>4. n = 1 <=> \E x : Hands(f) = {x} BY <1>1, FS_Singleton
<1> HIDE DEF m, n
<1>5. ASSUME NEW x \in Hands(f), ref[f] = 1 PROVE n = 1 /\ m = 0 BY <1>1, <1>2, <1>3, <1>5
<1> QED BY <1>1, <1>2, <1>3, <1>4, <1>5

\* One process that is awake goes on, awake.
LEMMA SleepersKept ==
    ASSUME SleeperBlocked, NEW p \in Proc, NEW x, pc' = [pc EXCEPT ![p] = x],
           x \notin Waiting, pc \in [Proc -> PC],
           \A r \in Proc \ {p} : arg'[r] = arg[r],
           UNCHANGED <<pipe, nread, nwrite, readopen, writeopen>>
    PROVE  SleeperBlocked'
  BY DEF SleeperBlocked, At, Held, PipeOf, Waiting

\* One process goes on to close files, or back to user mode with none in hand, or ends.
LEMMA MovesInv ==
    ASSUME IndInv, NEW p \in Proc, NEW x \in {"close", "exit", "user", "gone"},
           pc' = [pc EXCEPT ![p] = x],
           pc[p] \in {"user", "pipe1", "pipe2", "close", "exit"},
           arg[p] = <<>> \/ (pc[p] # "user" /\ x = "close"),
           x = "gone" => \A fd \in Fd : ofile[p][fd] = NoFile,
           UNCHANGED <<fileVars, ofile, pipeVars, killed, callVars>>
    PROVE  IndInv'
<1> USE DEF IndInv, fileVars, pipeVars, callVars
<1>1. TypeOK' BY DEF TypeOK, PC
<1>2. CallInv' BY DEF CallInv, CallOk, TypeOK, At, InRead, InWrite, InShut
<1>3. FileInv' BY DEF FileInv, TypeOK
<1>4. UniqueInv' /\ EndInv' BY EndsKept
<1>5. RefInv'
  <2>1. \A f \in File : Opens(f)' = Opens(f) /\ Hands(f)' = Hands(f) BY DEF Opens, Hands, InHand, TypeOK
  <2> QED BY <2>1, CountKept
<1>6. RingInv' BY RingKept
<1>7. SleeperBlocked'
  <2>1. x \notin Waiting /\ pc \in [Proc -> PC] BY DEF TypeOK, Waiting
  <2>2. \A r \in Proc \ {p} : arg'[r] = arg[r] OBVIOUS
  <2>3. UNCHANGED <<pipe, nread, nwrite, readopen, writeopen>> OBVIOUS
  <2> QED BY <2>1, <2>2, <2>3, SleepersKept
<1> QED BY <1>1, <1>2, <1>3, <1>4, <1>5, <1>6, <1>7

LEMMA PipeBeginInv ==
    ASSUME IndInv, NEW p \in Proc, PipeBegin(p)
    PROVE  IndInv'
<1> DEFINE f0 == Min(Free)
<1>1. f0 \in File /\ ref[f0] = 0
  <2>1. Free \in SUBSET Nat /\ Free # {} BY DEF Free, File, PipeBegin
  <2> QED BY <2>1, MinIn DEF Free
<1> HIDE DEF f0
<1>2. /\ pc[p] = "user" /\ arg[p] = <<>>
      /\ ref' = [ref EXCEPT ![f0] = 1] /\ arg' = [arg EXCEPT ![p] = <<f0>>]
      /\ pc' = [pc EXCEPT ![p] = "pipe1"]
      /\ UNCHANGED <<type, writable, pipe, ofile, pipeVars, killed, rest, want, shut>>
  BY DEF PipeBegin, At, Goto, f0, IndInv, CallInv, CallOk
<1> USE <1>1, <1>2 DEF IndInv, pipeVars
<1>3. TypeOK'
  <2>1. <<f0>> \in Seq(File) OBVIOUS
  <2> QED BY <2>1 DEF TypeOK, PC
<1>4. CallInv' BY DEF CallInv, CallOk, TypeOK, At, InRead, InWrite, InShut
<1>5. FileInv'
  <2>1. \A r \in Proc : pc[r] \in {"pipe1", "pipe2"} => \A i \in 1 .. Len(arg[r]) : arg[r][i] # f0
    BY DEF FileInv
  <2> QED BY SMTT(60), <2>1 DEF FileInv, TypeOK
<1>6. UniqueInv' /\ EndInv' BY EndsKept
<1>7. RefInv'
  <2> SUFFICES ASSUME NEW f \in File PROVE ref'[f] = Holders(f)'
    BY DEF RefInv
  <2>1. Opens(f)' = Opens(f) BY DEF Opens
  <2>2. Hands(f)' = IF f = f0 THEN Hands(f) \cup {<<p, 1>>} ELSE Hands(f)
    BY SMTT(60) DEF Hands, InHand, TypeOK
  <2>3. <<p, 1>> \notin Hands(f) BY DEF Hands, InHand
  <2>4. IsFiniteSet(Hands(f)) BY Counts
  <2>5. CASE f = f0
    <3>1. Cardinality(Hands(f)') = Cardinality(Hands(f)) + 1 BY <2>2, <2>3, <2>4, <2>5, Gain
    <3>2. ref'[f] = ref[f] + 0 + 1 BY <2>5 DEF TypeOK
    <3>3. Cardinality(Opens(f)') = Cardinality(Opens(f)) + 0 BY <2>1, Counts, FS_CardinalityType
    <3> QED BY <3>1, <3>2, <3>3, CountStep
  <2>6. CASE f # f0
    BY <2>1, <2>2, <2>6, Counts, CountsNext DEF TypeOK, RefInv
  <2> QED BY <2>5, <2>6
<1>8. RingInv' BY RingKept
<1>9. SleeperBlocked' BY SleepersKept DEF TypeOK, Waiting
<1> QED BY <1>3, <1>4, <1>5, <1>6, <1>7, <1>8, <1>9

LEMMA PipeSecondInv ==
    ASSUME IndInv, NEW p \in Proc, PipeSecond(p)
    PROVE  IndInv'
<1> USE DEF IndInv, pipeVars
<1>1. CASE Free = {}
  <2>1. pc[p] = "pipe1" /\ pc' = [pc EXCEPT ![p] = "close"]
        /\ UNCHANGED <<fileVars, ofile, pipeVars, killed, callVars>>
    BY <1>1 DEF PipeSecond, At, Goto, fileVars, callVars
  <2> QED BY <2>1, MovesInv
<1>2. CASE Free # {}
  <2> DEFINE f0 == Min(Free)
  <2>1. f0 \in File /\ ref[f0] = 0
    <3>1. Free \in SUBSET Nat /\ Free # {} BY <1>2 DEF Free, File
    <3> QED BY <3>1, MinIn DEF Free
  <2> HIDE DEF f0
  <2>2. /\ pc[p] = "pipe1" /\ Len(arg[p]) = 1
        /\ ref' = [ref EXCEPT ![f0] = 1] /\ arg' = [arg EXCEPT ![p] = Append(@, f0)]
        /\ pc' = [pc EXCEPT ![p] = "pipe2"]
        /\ UNCHANGED <<type, writable, pipe, ofile, pipeVars, killed, rest, want, shut>>
    BY <1>2 DEF PipeSecond, At, Goto, f0, CallInv, CallOk
  <2>3. arg[p] \in Seq(File) /\ arg'[p] = Append(arg[p], f0) BY <2>2 DEF TypeOK
  <2>4. arg'[p] \in Seq(File) /\ Len(arg'[p]) = 2 /\ arg'[p][1] = arg[p][1] /\ arg'[p][2] = f0
    BY <2>1, <2>2, <2>3
  <2>5. arg[p][1] # f0
    <3>1. <<p, 1>> \in Hands(arg[p][1]) BY <2>2, <2>3 DEF Hands, InHand
    <3> QED BY <3>1, <2>1, <2>2, <2>3, CountAtLeast
  <2> USE <2>1, <2>2, <2>4, <2>5
  <2>6. TypeOK' BY DEF TypeOK, PC
  <2>7. CallInv' BY DEF CallInv, CallOk, TypeOK, At, InRead, InWrite, InShut
  <2>8. FileInv'
    <3>1. ASSUME NEW r \in Proc, pc[r] \in {"pipe1", "pipe2"}, NEW i \in 1 .. Len(arg[r])
          PROVE  arg[r][i] # f0
      BY <3>1 DEF FileInv
    <3>2. \A r \in Proc : pc[r] \in {"pipe1", "pipe2"} => \A i \in 1 .. Len(arg[r]) : arg[r][i] \in File
      BY DEF TypeOK
    <3>3. ASSUME NEW r \in Proc, pc'[r] \in {"pipe1", "pipe2"}, NEW i \in 1 .. Len(arg'[r])
          PROVE  type'[arg'[r][i]] = "FD_NONE" /\ ref'[arg'[r][i]] = 1
      <4>1. CASE r = p
        <5>1. i \in {1, 2} BY <4>1, <3>3
        <5>2. type[arg[p][1]] = "FD_NONE" /\ ref[arg[p][1]] = 1 BY DEF FileInv
        <5>3. type[f0] = "FD_NONE" BY DEF FileInv
        <5> QED BY <4>1, <5>1, <5>2, <5>3 DEF TypeOK
      <4>2. CASE r # p
        BY <4>2, <3>1, <3>2, <3>3 DEF FileInv, TypeOK
      <4> QED BY <4>1, <4>2
    <3> QED BY <3>3 DEF FileInv, TypeOK
  <2>9. UniqueInv' /\ EndInv' BY EndsKept
  <2>10. RefInv'
    <3> SUFFICES ASSUME NEW f \in File PROVE ref'[f] = Holders(f)'
      BY DEF RefInv
    <3>1. Opens(f)' = Opens(f) BY DEF Opens
    <3>2. Hands(f)' = IF f = f0 THEN Hands(f) \cup {<<p, 2>>} ELSE Hands(f)
      BY <2>3 DEF Hands, InHand, TypeOK
    <3>3. <<p, 2>> \notin Hands(f) BY <2>3 DEF Hands, InHand
    <3>4. IsFiniteSet(Hands(f)) BY Counts
    <3>5. CASE f = f0
      <4>1. Cardinality(Hands(f)') = Cardinality(Hands(f)) + 1 BY <3>2, <3>3, <3>4, <3>5, Gain
      <4>2. ref'[f] = ref[f] + 0 + 1 BY <3>5 DEF TypeOK
      <4>3. Cardinality(Opens(f)') = Cardinality(Opens(f)) + 0 BY <3>1, Counts, FS_CardinalityType
      <4> QED BY <4>1, <4>2, <4>3, CountStep
    <3>6. CASE f # f0
      BY <3>1, <3>2, <3>6, Counts, CountsNext DEF TypeOK, RefInv
    <3> QED BY <3>5, <3>6
  <2>11. RingInv' BY RingKept
  <2>12. SleeperBlocked' BY SleepersKept DEF TypeOK, Waiting
  <2> QED BY <2>6, <2>7, <2>8, <2>9, <2>10, <2>11, <2>12
<1> QED BY <1>1, <1>2

LEMMA PipeNoMemoryInv ==
    ASSUME IndInv, NEW p \in Proc, PipeNoMemory(p)
    PROVE  IndInv'
<1>1. pc[p] = "pipe2" /\ pc' = [pc EXCEPT ![p] = "close"]
      /\ UNCHANGED <<fileVars, ofile, pipeVars, killed, callVars>>
  BY DEF PipeNoMemory, At, Goto
<1> QED BY <1>1, MovesInv

LEMMA ExitInv ==
    ASSUME IndInv, NEW p \in Proc, Exit(p)
    PROVE  IndInv'
<1>1. pc[p] = "user" /\ arg[p] = <<>> /\ pc' = [pc EXCEPT ![p] = "exit"]
      /\ UNCHANGED <<fileVars, ofile, pipeVars, killed, callVars>>
  BY DEF Exit, At, Goto, IndInv, CallInv, CallOk
<1> QED BY <1>1, MovesInv

LEMMA ClosedInv ==
    ASSUME IndInv, NEW p \in Proc, Closed(p)
    PROVE  IndInv'
<1> DEFINE x == IF At(p, "exit") THEN "gone" ELSE "user"
<1>1. /\ pc[p] \in {"close", "exit"} /\ arg[p] = <<>> /\ pc' = [pc EXCEPT ![p] = x]
      /\ UNCHANGED <<fileVars, ofile, pipeVars, killed, callVars>>
  BY DEF Closed, Closing, Goto
<1>2. x = "gone" => \A fd \in Fd : ofile[p][fd] = NoFile BY DEF Closed, FreeFds
<1>3. x \in {"close", "exit", "user", "gone"} OBVIOUS
<1> HIDE DEF x
<1> QED BY <1>1, <1>2, <1>3, MovesInv

\* A descriptor is cleared and its file taken in hand, to be closed.
LEMMA HandOver ==
    ASSUME IndInv, NEW p \in Proc, NEW fd \in Fd, ofile[p][fd] # NoFile, arg[p] = <<>>,
           pc[p] \in {"user", "exit"}, NEW x \in {"close", "exit"},
           pc' = [pc EXCEPT ![p] = x],
           ofile' = [ofile EXCEPT ![p][fd] = NoFile],
           arg' = [arg EXCEPT ![p] = <<ofile[p][fd]>>],
           UNCHANGED <<fileVars, pipeVars, killed, rest, want, shut>>
    PROVE  IndInv'
<1> DEFINE f0 == ofile[p][fd]
<1>1. f0 \in File /\ <<f0>> \in Seq(File) BY DEF IndInv, TypeOK
<1>2. arg' = [arg EXCEPT ![p] = <<f0>>] OBVIOUS
<1>3. /\ ofile' \in [Proc -> [Fd -> File \cup {NoFile}]]
      /\ \A r \in Proc, d \in Fd : ofile'[r][d] = IF r = p /\ d = fd THEN NoFile ELSE ofile[r][d]
  BY DEF IndInv, TypeOK
<1> HIDE DEF f0
<1> USE <1>1, <1>2 DEF IndInv, fileVars, pipeVars
<1>4. TypeOK' BY <1>3 DEF TypeOK, PC
<1>5. CallInv' BY <1>3 DEF CallInv, CallOk, TypeOK, At, InRead, InWrite, InShut
<1>6. FileInv' BY SMTT(90), <1>3 DEF FileInv, TypeOK
<1>7. UniqueInv' /\ EndInv' BY EndsKept
<1>8. RefInv'
  <2> SUFFICES ASSUME NEW f \in File PROVE ref'[f] = Holders(f)'
    BY DEF RefInv
  <2>1. f # NoFile BY DEF File, NoFile
  <2>2. Opens(f)' = IF f = f0 THEN Opens(f) \ {<<p, fd>>} ELSE Opens(f) BY <1>3, <2>1 DEF Opens, f0
  <2>3. Hands(f)' = IF f = f0 THEN Hands(f) \cup {<<p, 1>>} ELSE Hands(f) BY SMTT(60) DEF Hands, InHand, TypeOK
  <2>4. <<p, 1>> \notin Hands(f) /\ <<p, fd>> \in Opens(f0) BY DEF Hands, Opens, f0
  <2>5. IsFiniteSet(Hands(f)) /\ IsFiniteSet(Opens(f)) BY Counts
  <2>6. CASE f = f0
    <3>1. Cardinality(Hands(f)') = Cardinality(Hands(f)) + 1 BY <2>3, <2>4, <2>5, <2>6, Gain
    <3>2. Cardinality(Opens(f)') = Cardinality(Opens(f)) + (-1) BY <2>2, <2>4, <2>5, <2>6, Lose
    <3>3. ref'[f] = ref[f] + (-1) + 1 BY DEF TypeOK
    <3>4. -1 \in Int /\ 1 \in Int OBVIOUS
    <3> QED BY ONLY RefInv, <3>1, <3>2, <3>3, <3>4, CountStep, Zenon
  <2>7. CASE f # f0
    BY <2>2, <2>3, <2>7, Counts, CountsNext DEF TypeOK, RefInv
  <2> QED BY <2>6, <2>7
<1>9. RingInv' BY RingKept
<1>10. SleeperBlocked'
  <2>1. x \notin Waiting /\ pc \in [Proc -> PC] BY DEF TypeOK, Waiting
  <2>2. \A r \in Proc \ {p} : arg'[r] = arg[r] BY DEF TypeOK
  <2>3. UNCHANGED <<pipe, nread, nwrite, readopen, writeopen>> OBVIOUS
  <2> QED BY <2>1, <2>2, <2>3, SleepersKept
<1> QED BY <1>4, <1>5, <1>6, <1>7, <1>8, <1>9, <1>10

LEMMA CloseInv ==
    ASSUME IndInv, NEW p \in Proc, NEW fd \in Fd, Close(p, fd)
    PROVE  IndInv'
<1>1. /\ ofile[p][fd] # NoFile /\ arg[p] = <<>> /\ pc[p] = "user"
      /\ pc' = [pc EXCEPT ![p] = "close"]
      /\ ofile' = [ofile EXCEPT ![p][fd] = NoFile] /\ arg' = [arg EXCEPT ![p] = <<ofile[p][fd]>>]
      /\ UNCHANGED <<fileVars, pipeVars, killed, rest, want, shut>>
  BY DEF Close, At, Goto, IndInv, CallInv, CallOk
<1> QED BY <1>1, HandOver

LEMMA ExitNextInv ==
    ASSUME IndInv, NEW p \in Proc, ExitNext(p)
    PROVE  IndInv'
<1> DEFINE fd == Min(Fd \ FreeFds(p))
<1>1. fd \in Fd /\ ofile[p][fd] # NoFile
  <2>1. Fd \ FreeFds(p) \in SUBSET Nat /\ Fd \ FreeFds(p) # {} BY PipeAssumption DEF ExitNext, Fd
  <2> QED BY <2>1, MinIn DEF FreeFds
<1>2. /\ pc[p] = "exit" /\ arg[p] = <<>> /\ pc' = [pc EXCEPT ![p] = "exit"]
      /\ ofile' = [ofile EXCEPT ![p][fd] = NoFile] /\ arg' = [arg EXCEPT ![p] = <<ofile[p][fd]>>]
      /\ UNCHANGED <<fileVars, pipeVars, killed, rest, want, shut>>
  BY DEF ExitNext, At, IndInv, TypeOK
<1> HIDE DEF fd
<1> QED BY <1>1, <1>2, HandOver

LEMMA DupInv ==
    ASSUME IndInv, NEW p \in Proc, NEW fd \in Fd, Dup(p, fd)
    PROVE  IndInv'
<1> DEFINE f0 == ofile[p][fd]
           new == Min(FreeFds(p))
<1>1. new \in Fd /\ ofile[p][new] = NoFile
  <2>1. FreeFds(p) \in SUBSET Nat /\ FreeFds(p) # {} BY PipeAssumption DEF Dup, FreeFds, Fd
  <2> QED BY <2>1, MinIn DEF FreeFds
<1>2. f0 \in File BY DEF IndInv, TypeOK, Dup
<1>3. /\ pc[p] = "user" /\ ref' = [ref EXCEPT ![f0] = @ + 1]
      /\ ofile' = [ofile EXCEPT ![p][new] = f0]
      /\ UNCHANGED <<type, writable, pipe, pipeVars, pc, killed, callVars>>
  BY DEF Dup, At
<1> HIDE DEF f0, new
<1>4. /\ ofile' \in [Proc -> [Fd -> File \cup {NoFile}]]
      /\ \A r \in Proc, d \in Fd : ofile'[r][d] = IF r = p /\ d = new THEN f0 ELSE ofile[r][d]
  BY <1>1, <1>2, <1>3 DEF IndInv, TypeOK
<1>5. type[f0] = "FD_PIPE" /\ ofile[p][fd] = f0 /\ f0 # NoFile BY DEF IndInv, FileInv, f0, Dup
<1> USE <1>1, <1>2, <1>3, <1>4, <1>5 DEF IndInv, callVars, pipeVars
<1>6. TypeOK' BY DEF TypeOK
<1>7. CallInv' BY DEF CallInv, CallOk, TypeOK, At, InRead, InWrite, InShut
<1>8. FileInv' BY SMTT(60) DEF FileInv, TypeOK
<1>9. UniqueInv' /\ EndInv' BY EndsKept
<1>10. RefInv'
  <2> SUFFICES ASSUME NEW f \in File PROVE ref'[f] = Holders(f)'
    BY DEF RefInv
  <2>1. f # NoFile BY DEF File, NoFile
  <2>2. Opens(f)' = IF f = f0 THEN Opens(f) \cup {<<p, new>>} ELSE Opens(f) BY <2>1 DEF Opens
  <2>3. Hands(f)' = Hands(f) BY DEF Hands
  <2>4. <<p, new>> \notin Opens(f) BY <2>1 DEF Opens
  <2>5. IsFiniteSet(Hands(f)) /\ IsFiniteSet(Opens(f)) BY Counts
  <2>6. CASE f = f0
    <3>1. Cardinality(Opens(f)') = Cardinality(Opens(f)) + 1 BY <2>2, <2>4, <2>5, <2>6, Gain
    <3>2. Cardinality(Hands(f)') = Cardinality(Hands(f)) + 0 BY <2>3, <2>5, FS_CardinalityType
    <3>3. ref'[f] = ref[f] + 1 + 0 BY <2>6 DEF TypeOK
    <3> QED BY <3>1, <3>2, <3>3, CountStep
  <2>7. CASE f # f0
    BY <2>2, <2>3, <2>7, Counts, CountsNext DEF TypeOK, RefInv
  <2> QED BY <2>6, <2>7
<1>11. RingInv' BY RingKept
<1>12. SleeperBlocked' BY DEF SleeperBlocked, At, Held, PipeOf
<1> QED BY <1>6, <1>7, <1>8, <1>9, <1>10, <1>11, <1>12

LEMMA ForkInv ==
    ASSUME IndInv, NEW p \in Proc, NEW child \in Proc, Fork(p, child)
    PROVE  IndInv'
<1>1. /\ pc[p] = "user" /\ pc[child] = "absent" /\ p # child
      /\ arg[child] = <<>> /\ \A fd \in Fd : ofile[child][fd] = NoFile
      /\ ofile' = [ofile EXCEPT ![child] = ofile[p]]
      /\ ref' = [f \in File |-> ref[f] + Copies(p, f)]
      /\ pc' = [pc EXCEPT ![child] = "user"]
      /\ UNCHANGED <<type, writable, pipe, pipeVars, killed, callVars>>
  BY DEF Fork, At, IndInv, CallInv, CallOk
<1>2. /\ ofile' \in [Proc -> [Fd -> File \cup {NoFile}]]
      /\ \A r \in Proc : ofile'[r] = IF r = child THEN ofile[p] ELSE ofile[r]
  BY <1>1 DEF IndInv, TypeOK
<1>3. \A f \in File : /\ IsFiniteSet({fd \in Fd : ofile[p][fd] = f}) /\ Copies(p, f) \in Nat
                      /\ (\A fd \in Fd : ofile[p][fd] # f) => Copies(p, f) = 0
  <2> SUFFICES ASSUME NEW f \in File
               PROVE  /\ IsFiniteSet({fd \in Fd : ofile[p][fd] = f}) /\ Copies(p, f) \in Nat
                      /\ (\A fd \in Fd : ofile[p][fd] # f) => Copies(p, f) = 0
    OBVIOUS
  <2>1. IsFiniteSet(Fd) BY PipeAssumption, FS_Interval DEF Fd
  <2>2. IsFiniteSet({fd \in Fd : ofile[p][fd] = f}) BY <2>1, FS_Subset
  <2>3. (\A fd \in Fd : ofile[p][fd] # f) => {fd \in Fd : ofile[p][fd] = f} = {} OBVIOUS
  <2> QED BY <2>2, <2>3, FS_CardinalityType, FS_EmptySet DEF Copies
<1>11. \A f \in File : ref[f] \in Nat /\ Copies(p, f) \in Nat BY <1>3 DEF IndInv, TypeOK
<1>12. ref' \in [File -> Nat] /\ \A f \in File : ref'[f] = ref[f] + Copies(p, f)
  BY ONLY <1>11, <1>1
<1> USE <1>1, <1>2 DEF IndInv, callVars, pipeVars
<1>4. TypeOK'
  <2>1. pc' \in [Proc -> PC] BY DEF TypeOK, PC
  <2> QED BY <2>1, <1>12 DEF TypeOK
<1>5. CallInv' BY DEF CallInv, CallOk, TypeOK, At, InRead, InWrite, InShut
<1>6. FileInv'
  <2>1. \A f \in File : ref'[f] = 0 => ref[f] = 0 BY ONLY <1>11, <1>12
  <2>2. \A r \in Proc : pc'[r] \in {"pipe1", "pipe2"} => pc[r] = pc'[r] BY DEF TypeOK
  <2>3. ASSUME NEW r \in Proc, pc[r] \in {"pipe1", "pipe2"}, NEW i \in 1 .. Len(arg[r])
        PROVE  ref'[arg[r][i]] = 1
    <3>1. type[arg[r][i]] = "FD_NONE" /\ ref[arg[r][i]] = 1 BY <2>3 DEF FileInv
    <3>2. arg[r][i] \in File BY <2>3 DEF TypeOK
    <3>3. \A fd \in Fd : ofile[p][fd] # arg[r][i] BY <3>1, <3>2 DEF FileInv, File, NoFile
    <3>4. Copies(p, arg[r][i]) = 0 BY <1>3, <3>2, <3>3
    <3> QED BY <3>1, <3>2, <3>4
  <2> QED BY <2>1, <2>2, <2>3 DEF FileInv
<1>7. UniqueInv' /\ EndInv' BY EndsKept
<1>8. RefInv'
  <2> SUFFICES ASSUME NEW f \in File PROVE ref'[f] = Holders(f)'
    BY DEF RefInv
  <2> DEFINE S == {fd \in Fd : ofile[p][fd] = f}
  <2>1. f # NoFile BY DEF File, NoFile
  <2>2. Opens(f)' = Opens(f) \cup ({child} \X S) BY <2>1 DEF Opens
  <2>3. Opens(f) \cap ({child} \X S) = {} BY <2>1 DEF Opens
  <2>4. IsFiniteSet(Opens(f)) /\ IsFiniteSet(S) /\ IsFiniteSet({child}) /\ Cardinality({child}) = 1
    BY <1>3, Counts, FS_Singleton
  <2>5. IsFiniteSet({child} \X S) /\ Cardinality({child} \X S) = 1 * Cardinality(S) BY <2>4, FS_Product
  <2>6. Cardinality(S) = Copies(p, f) BY DEF Copies
  <2> HIDE DEF S
  <2>7. /\ Cardinality(Opens(f)) \in Nat
        /\ Cardinality(Opens(f)') = Cardinality(Opens(f)) + Cardinality({child} \X S) - Cardinality({})
    BY <2>2, <2>3, <2>4, <2>5, FS_Union, FS_CardinalityType
  <2>8. Copies(p, f) \in Nat BY <1>3
  <2>9. Cardinality(Opens(f)') = Cardinality(Opens(f)) + Copies(p, f) BY <2>5, <2>6, <2>7, <2>8, FS_EmptySet
  <2>10. Hands(f)' = Hands(f) BY DEF Hands, InHand, TypeOK
  <2>11. Cardinality(Hands(f)') = Cardinality(Hands(f)) + 0 BY <2>10, Counts, FS_CardinalityType
  <2>12. ref'[f] = ref[f] + Copies(p, f) + 0 BY <2>8 DEF TypeOK
  <2> QED BY <2>8, <2>9, <2>11, <2>12, CountStep
<1>9. RingInv' BY RingKept
<1>10. SleeperBlocked'
  <2>1. "user" \notin Waiting /\ pc \in [Proc -> PC] BY DEF TypeOK, Waiting
  <2>2. \A r \in Proc \ {child} : arg'[r] = arg[r] OBVIOUS
  <2>3. UNCHANGED <<pipe, nread, nwrite, readopen, writeopen>> OBVIOUS
  <2> QED BY <2>1, <2>2, <2>3, SleepersKept
<1> QED BY <1>4, <1>5, <1>6, <1>7, <1>8, <1>9, <1>10

LEMMA KillInv ==
    ASSUME IndInv, NEW p \in Proc, Kill(p)
    PROVE  IndInv'
<1> DEFINE x == IF pc[p] = "rsleep" THEN "read" ELSE IF pc[p] = "wsleep" THEN "write" ELSE pc[p]
<1>1. /\ ~killed[p] /\ killed' = [killed EXCEPT ![p] = TRUE] /\ pc' = [pc EXCEPT ![p] = x]
      /\ UNCHANGED <<fileVars, ofile, pipeVars, callVars>>
  BY DEF Kill, IndInv, TypeOK
<1> USE DEF IndInv, fileVars, callVars, pipeVars
<1>2. /\ x \in PC /\ x \notin {"rsleep", "wsleep"}
      /\ x # pc[p] => x \in {"read", "write"} /\ pc[p] \in {"rsleep", "wsleep"}
      /\ (x \in InRead <=> pc[p] \in InRead) /\ (x \in InWrite <=> pc[p] \in InWrite)
  BY DEF TypeOK, PC, InRead, InWrite
<1> HIDE DEF x
<1> USE <1>1, <1>2
<1>3. TypeOK' BY DEF TypeOK
<1>4. CallInv' BY DEF CallInv, CallOk, TypeOK, At, InRead, InWrite, InShut
<1>5. FileInv' BY DEF FileInv, TypeOK
<1>6. UniqueInv' /\ EndInv' BY EndsKept
<1>7. RefInv'
  <2>1. \A r \in Proc : pc'[r] \in InHand <=> pc[r] \in InHand BY DEF InHand, TypeOK
  <2>2. \A f \in File : Opens(f)' = Opens(f) /\ Hands(f)' = Hands(f) BY <2>1 DEF Opens, Hands
  <2> QED BY <2>2, CountKept
<1>8. RingInv' BY RingKept
<1>9. SleeperBlocked' BY DEF SleeperBlocked, At, Held, PipeOf, TypeOK
<1> QED BY <1>3, <1>4, <1>5, <1>6, <1>7, <1>8, <1>9

\* read() and write() begin: the file stays open, in the descriptor.
LEMMA BeginInv ==
    ASSUME IndInv, NEW p \in Proc, NEW fd \in Fd, ofile[p][fd] # NoFile, pc[p] = "user",
           NEW x \in {"read", "write"}, pc' = [pc EXCEPT ![p] = x],
           writable[ofile[p][fd]] <=> x = "write",
           arg' = [arg EXCEPT ![p] = <<ofile[p][fd]>>],
           rest' \in [Proc -> Seq(Byte)], want' \in [Proc -> Nat],
           UNCHANGED <<fileVars, ofile, pipeVars, killed, shut>>
    PROVE  IndInv'
<1> DEFINE f0 == ofile[p][fd]
<1>1. f0 \in File /\ <<f0>> \in Seq(File) BY DEF IndInv, TypeOK
<1>2. arg' = [arg EXCEPT ![p] = <<f0>>] /\ ofile[p][fd] = f0 OBVIOUS
<1> HIDE DEF f0
<1> USE <1>1, <1>2 DEF IndInv, fileVars, pipeVars
<1>3. TypeOK'
  <2>1. pc' \in [Proc -> PC] /\ arg' \in [Proc -> Seq(File)] BY DEF TypeOK, PC
  <2> QED BY <2>1 DEF TypeOK
<1>4. CallInv' BY DEF CallInv, CallOk, TypeOK, At, InRead, InWrite, InShut
<1>5. FileInv' BY SMTT(60) DEF FileInv, TypeOK
<1>6. UniqueInv' /\ EndInv' BY EndsKept
<1>7. RefInv'
  <2>1. \A f \in File : Opens(f)' = Opens(f) /\ Hands(f)' = Hands(f) BY SMTT(60) DEF Opens, Hands, InHand, TypeOK
  <2> QED BY <2>1, CountKept
<1>8. RingInv' BY RingKept
<1>9. SleeperBlocked'
  <2>1. x \notin Waiting /\ pc \in [Proc -> PC] BY DEF TypeOK, Waiting
  <2>2. \A r \in Proc \ {p} : arg'[r] = arg[r] BY DEF TypeOK
  <2>3. UNCHANGED <<pipe, nread, nwrite, readopen, writeopen>> OBVIOUS
  <2> QED BY <2>1, <2>2, <2>3, SleepersKept
<1> QED BY <1>3, <1>4, <1>5, <1>6, <1>7, <1>8, <1>9

LEMMA ReadInv ==
    ASSUME IndInv, NEW p \in Proc, NEW fd \in Fd, NEW n \in Nat, Read(p, fd, n)
    PROVE  IndInv'
<1>1. /\ ofile[p][fd] # NoFile /\ pc[p] = "user" /\ pc' = [pc EXCEPT ![p] = "read"]
      /\ ~writable[ofile[p][fd]]
      /\ arg' = [arg EXCEPT ![p] = <<ofile[p][fd]>>]
      /\ UNCHANGED <<fileVars, ofile, pipeVars, killed, shut>>
  BY DEF Read, At, Goto
<1>2. rest' \in [Proc -> Seq(Byte)] /\ want' \in [Proc -> Nat] BY DEF Read, IndInv, TypeOK
<1> QED BY <1>1, <1>2, BeginInv

LEMMA WriteInv ==
    ASSUME IndInv, NEW p \in Proc, NEW fd \in Fd, NEW s \in Payload, Write(p, fd, s)
    PROVE  IndInv'
<1>1. /\ ofile[p][fd] # NoFile /\ pc[p] = "user" /\ pc' = [pc EXCEPT ![p] = "write"]
      /\ writable[ofile[p][fd]]
      /\ arg' = [arg EXCEPT ![p] = <<ofile[p][fd]>>]
      /\ UNCHANGED <<fileVars, ofile, pipeVars, killed, shut>>
  BY DEF Write, At, Goto
<1>2. rest' \in [Proc -> Seq(Byte)] /\ want' \in [Proc -> Nat] BY PipeAssumption DEF Write, IndInv, TypeOK
<1> QED BY <1>1, <1>2, BeginInv

\* A sequence of one or two files, and what follows its head.
LEMMA ShortSeq ==
    ASSUME NEW s \in Seq(File), s # <<>>, Len(s) <= 2
    PROVE  /\ Head(s) = s[1] /\ s[1] \in File /\ Len(s) \in {1, 2} /\ Tail(s) \in Seq(File)
           /\ Len(Tail(s)) <= 2 /\ Len(Tail(s)) # 2
           /\ Len(s) = 1 => DOMAIN Tail(s) = {}
           /\ Len(s) = 2 => DOMAIN Tail(s) = {1} /\ Tail(s)[1] = s[2]
<1>1. Len(s) \in Nat /\ Len(s) # 0 /\ DOMAIN s = 1 .. Len(s) OBVIOUS
<1>2. Len(s) \in {1, 2} BY <1>1
<1>3. Head(s) = s[1] /\ s[1] \in File BY <1>2
<1>4. Tail(s) \in Seq(File) /\ Len(Tail(s)) = Len(s) - 1 /\ DOMAIN Tail(s) = 1 .. Len(s) - 1 OBVIOUS
<1>5. ASSUME Len(s) = 2 PROVE Tail(s)[1] = s[2]
  <2>1. \A i \in 1 .. Len(s) - 1 : Tail(s)[i] = s[i + 1] OBVIOUS
  <2>2. 1 \in 1 .. Len(s) - 1 /\ 1 + 1 = 2 BY <1>5
  <2> QED BY <2>1, <2>2
<1> QED BY <1>2, <1>3, <1>4, <1>5

LEMMA FileCloseInv ==
    ASSUME IndInv, NEW p \in Proc, FileClose(p)
    PROVE  IndInv'
<1> DEFINE f0 == Head(arg[p])
           last == ref[f0] = 1
           ends == last /\ type[f0] = "FD_PIPE"
           x == IF ends THEN IF pc[p] = "exit" THEN "exit_pipeclose" ELSE "pipeclose" ELSE pc[p]
           q0 == pipe[f0]
           w0 == writable[f0]
<1>1. /\ pc[p] \in {"close", "exit"} /\ arg[p] # <<>> /\ arg[p] \in Seq(File) /\ Len(arg[p]) <= 2
      /\ Len(arg[p]) = 2 => arg[p][1] # arg[p][2]
  BY DEF FileClose, Closing, IndInv, CallInv, CallOk, TypeOK
<1>2. /\ f0 = arg[p][1] /\ f0 \in File /\ Len(arg[p]) \in {1, 2} /\ Tail(arg[p]) \in Seq(File)
      /\ Len(Tail(arg[p])) <= 2 /\ Len(Tail(arg[p])) # 2
      /\ Len(arg[p]) = 1 => DOMAIN Tail(arg[p]) = {}
      /\ Len(arg[p]) = 2 => DOMAIN Tail(arg[p]) = {1} /\ Tail(arg[p])[1] = arg[p][2]
  BY <1>1, ShortSeq
<1>3. <<p, 1>> \in Hands(f0) BY <1>1, <1>2 DEF Hands, InHand
<1>4. ref[f0] > 0 /\ (last => Opens(f0) = {} /\ \A h \in Hands(f0) : h = <<p, 1>>)
  BY <1>2, <1>3, CountAtLeast DEF IndInv
<1>5. q0 \in Page \cup {NoPage} /\ w0 \in BOOLEAN /\ (ends => q0 \in Page)
  BY <1>2 DEF IndInv, TypeOK, FileInv
<1>6. /\ ref' = [ref EXCEPT ![f0] = @ - 1]
      /\ type' = IF last THEN [type EXCEPT ![f0] = "FD_NONE"] ELSE type
      /\ arg' = [arg EXCEPT ![p] = Tail(arg[p])]
      /\ shut' = IF ends THEN [shut EXCEPT ![p] = [pipe |-> q0, writable |-> w0]] ELSE shut
      /\ UNCHANGED <<writable, pipe, ofile, pipeVars, killed, rest, want>>
  BY DEF FileClose
<1>7. pc' = [pc EXCEPT ![p] = x]
  <2>1. CASE ends BY <2>1 DEF FileClose, Goto, At
  <2>2. CASE ~ends BY <2>2 DEF FileClose, IndInv, TypeOK
  <2> QED BY <2>1, <2>2
<1>8. /\ x \in {"close", "exit", "pipeclose", "exit_pipeclose"} /\ (ends <=> x \in InShut)
      /\ shut[p] = NoShut
  BY <1>1 DEF InShut, IndInv, CallInv, CallOk
<1> HIDE DEF f0, ends, x, q0, w0
<1>10. type' = IF ends THEN [type EXCEPT ![f0] = "FD_NONE"] ELSE type
  BY ZenonT(60), <1>2, <1>6 DEF ends, IndInv, TypeOK
<1> USE DEF IndInv, pipeVars
<1>11. TypeOK'
  <2>1. ref' \in [File -> Nat] BY <1>2, <1>4, <1>6 DEF TypeOK
  <2>2. arg' \in [Proc -> Seq(File)] BY <1>2, <1>6 DEF TypeOK
  <2>3. shut' \in [Proc -> [pipe : Page \cup {NoPage}, writable : BOOLEAN]] BY <1>5, <1>6 DEF TypeOK
  <2>4. pc' \in [Proc -> PC] BY <1>7, <1>8 DEF TypeOK, PC
  <2>5. type' \in [File -> {"FD_NONE", "FD_PIPE"}] BY <1>10 DEF TypeOK
  <2> QED BY <2>1, <2>2, <2>3, <2>4, <2>5, <1>6 DEF TypeOK
<1>12. CallInv'
  <2> SUFFICES ASSUME NEW r \in Proc PROVE CallOk(r)'
    BY DEF CallInv
  <2>1. CASE r = p
    <3>1. pc'[p] = x /\ arg'[p] = Tail(arg[p]) BY <1>2, <1>6, <1>7 DEF TypeOK
    <3>2. IF ends THEN shut'[p].pipe = q0 ELSE shut'[p] = NoShut BY <1>6, <1>8 DEF TypeOK
    <3>3. (x \in InShut => shut'[p].pipe \in Page) /\ (x \notin InShut => shut'[p] = NoShut) BY <3>2, <1>5, <1>8
    <3>4. x \notin {"absent", "gone", "user", "pipe1", "pipe2"} \cup InRead \cup InWrite
      BY <1>8 DEF InRead, InWrite
    <3>5. pc'[p] \notin {"absent", "gone", "user", "pipe1", "pipe2"} BY ONLY <3>1, <3>4
    <3>6. pc'[p] \notin InRead \cup InWrite BY ONLY <3>1, <3>4
    <3>7. Len(arg'[p]) <= 2 /\ Len(arg'[p]) # 2 BY <1>2, <3>1, Zenon
    <3>8. (pc'[p] \in InShut => shut'[p].pipe \in Page) /\ (pc'[p] \notin InShut => shut'[p] = NoShut) BY ONLY <3>1, <3>3
    <3> QED BY ONLY <2>1, <3>5, <3>6, <3>7, <3>8 DEF CallOk, At
  <2>2. CASE r # p
    <3>1. pc'[r] = pc[r] /\ arg'[r] = arg[r] /\ shut'[r] = shut[r] BY <2>2, <1>6, <1>7 DEF TypeOK
    <3> QED BY <3>1, <1>6 DEF CallInv, CallOk, At
  <2> QED BY <2>1, <2>2
<1>13. FileInv'
  <2>1. ASSUME NEW f \in File
        PROVE  (ref'[f] = 0 => type'[f] = "FD_NONE") /\ (type'[f] = "FD_PIPE" => pipe'[f] \in Page)
    <3>1. CASE f = f0 BY <3>1, <1>2, <1>4, <1>6 DEF FileInv, TypeOK
    <3>2. CASE f # f0 BY <3>2, <1>6 DEF FileInv, TypeOK
    <3> QED BY <3>1, <3>2
  <2>2. ASSUME NEW r \in Proc, NEW d \in Fd, ofile'[r][d] # NoFile
        PROVE  type'[ofile'[r][d]] = "FD_PIPE"
    <3>1. ofile[r][d] \in File /\ type[ofile[r][d]] = "FD_PIPE" BY <2>2, <1>6 DEF FileInv, TypeOK
    <3>2. last => ofile[r][d] # f0
      <4>1. ofile[r][d] = f0 => <<r, d>> \in Opens(f0) BY DEF Opens
      <4> QED BY <4>1, <1>4
    <3> QED BY <3>1, <3>2, <1>6 DEF TypeOK
  <2>3. ASSUME NEW r \in Proc, pc'[r] \in {"pipe1", "pipe2"}, NEW i \in 1 .. Len(arg'[r])
        PROVE  type'[arg'[r][i]] = "FD_NONE" /\ ref'[arg'[r][i]] = 1
    <3>1. r # p BY <2>3, <1>7, <1>8 DEF TypeOK
    <3>2. pc'[r] = pc[r] /\ arg'[r] = arg[r] BY <3>1, <1>6, <1>7 DEF TypeOK
    <3>3. /\ arg[r][i] \in File /\ type[arg[r][i]] = "FD_NONE" /\ ref[arg[r][i]] = 1 /\ i \in 1 .. 2
      BY <2>3, <3>2 DEF FileInv, TypeOK, CallInv, CallOk
    <3>4. arg[r][i] # f0
      <4>1. arg[r][i] = f0 => <<r, i>> \in Hands(f0) BY <2>3, <3>2, <3>3 DEF Hands, InHand, TypeOK
      <4> QED BY <4>1, <3>1, <3>3, <1>4
    <3> QED BY <3>2, <3>3, <3>4, <1>6 DEF TypeOK
  <2> QED BY <2>1, <2>2, <2>3 DEF FileInv
<1>14. UniqueInv' /\ EndInv'
  <2>1. CASE ends
    <3>1. \A f \in File, q \in Page, w \in BOOLEAN : IsEnd(f, q, w)' <=> f # f0 /\ IsEnd(f, q, w)
      BY <2>1, <1>2, <1>6, <1>10 DEF IsEnd, TypeOK
    <3>2. IsEnd(f0, q0, w0) /\ \A q \in Page, w \in BOOLEAN : IsEnd(f0, q, w) => q = q0 /\ w = w0
      BY <2>1 DEF IsEnd, ends, q0, w0
    <3>3. \A q \in Page, w \in BOOLEAN :
             /\ ~Shuts(p, q, w) /\ (Shuts(p, q, w)' <=> q = q0 /\ w = w0)
             /\ \A r \in Proc \ {p} : Shuts(r, q, w)' <=> Shuts(r, q, w)
      BY SMTT(60), <2>1, <1>6, <1>8, PipeAssumption DEF Shuts, NoShut, TypeOK
    <3>4. \A q \in Page, w \in BOOLEAN : IsOpen(q, w)' <=> IsOpen(q, w) BY <1>6 DEF IsOpen
    <3>5. UniqueInv' BY <3>1, <3>2, <3>3, <1>2, <1>5, <2>1 DEF UniqueInv
    <3>6. EndInv'
      <4> SUFFICES ASSUME NEW q \in Page, NEW w \in BOOLEAN
                   PROVE  IsOpen(q, w)' <=> \/ \E f \in File : IsEnd(f, q, w)'
                                            \/ \E r \in Proc : Shuts(r, q, w)'
        BY DEF EndInv
      <4>1. IsOpen(q, w) <=> \/ \E f \in File : IsEnd(f, q, w)
                             \/ \E r \in Proc : Shuts(r, q, w)
        BY DEF EndInv
      <4>2. CASE q = q0 /\ w = w0 BY <4>1, <4>2, <3>2, <3>3, <3>4, <1>2
      <4>3. CASE ~(q = q0 /\ w = w0) BY <4>1, <4>3, <3>1, <3>2, <3>3, <3>4, <1>2
      <4> QED BY <4>2, <4>3
    <3> QED BY <3>5, <3>6
  <2>2. CASE ~ends
    BY <2>2, <1>6, <1>10, EndsKept
  <2> QED BY <2>1, <2>2
<1>15. RefInv'
  <2> SUFFICES ASSUME NEW f \in File PROVE ref'[f] = Holders(f)'
    BY DEF RefInv
  <2>1. Opens(f)' = Opens(f) BY <1>6 DEF Opens
  <2>2. Cardinality(Opens(f)') = Cardinality(Opens(f)) + 0 BY <2>1, Counts, FS_CardinalityType
  <2> DEFINE Slots == Proc \X (1 .. 2)
             second == Len(arg[p]) = 2 /\ arg[p][2] = f
  <2>3. \A h \in Slots : h \in Hands(f)' <=> IF h[1] = p THEN h[2] = 1 /\ second ELSE h \in Hands(f)
    <3> SUFFICES ASSUME NEW h \in Slots
                 PROVE  h \in Hands(f)' <=> IF h[1] = p THEN h[2] = 1 /\ second ELSE h \in Hands(f)
      OBVIOUS
    <3>1. CASE h[1] = p
      <4>1. pc'[p] \in InHand /\ arg'[p] = Tail(arg[p]) BY <1>6, <1>7, <1>8 DEF InHand, TypeOK
      <4>2. h[2] \in DOMAIN Tail(arg[p]) <=> h[2] = 1 /\ Len(arg[p]) = 2 BY <1>1, <1>2
      <4> QED BY <3>1, <4>1, <4>2, <1>2 DEF Hands
    <3>2. CASE h[1] # p
      <4>1. pc'[h[1]] = pc[h[1]] /\ arg'[h[1]] = arg[h[1]] BY <3>2, <1>6, <1>7 DEF TypeOK
      <4> QED BY <3>2, <4>1 DEF Hands
    <3> QED BY <3>1, <3>2
  <2>4. \A h \in Slots : h[1] = p => (h \in Hands(f) <=> (h[2] = 1 /\ f = f0) \/ (h[2] = 2 /\ second))
    <3>1. DOMAIN arg[p] = 1 .. Len(arg[p]) BY <1>1
    <3> QED BY <3>1, <1>1, <1>2 DEF Hands, InHand
  <2>5. /\ Hands(f) \subseteq Slots /\ Hands(f)' \subseteq Slots
        /\ <<p, 1>> \in Slots /\ <<p, 2>> \in Slots /\ <<p, 1>> # <<p, 2>>
        /\ \A h \in Slots : (h = <<p, 1>> <=> h[1] = p /\ h[2] = 1) /\ (h = <<p, 2>> <=> h[1] = p /\ h[2] = 2)
    BY DEF Hands
  <2>9. f = f0 => ~second BY <1>1, <1>2
  <2> HIDE DEF Slots, second
  <2>6. IsFiniteSet(Hands(f)) BY Counts
  <2>7. CASE f = f0
    <3>1. Hands(f)' = Hands(f) \ {<<p, 1>>} BY ONLY <2>3, <2>4, <2>5, <2>7, <2>9
    <3>2. Cardinality(Hands(f)') = Cardinality(Hands(f)) + (-1) BY <3>1, <2>6, <2>7, <1>3, Lose
    <3>3. ref'[f] = ref[f] + 0 + (-1) BY <2>7, <1>6 DEF TypeOK
    <3>4. -1 \in Int /\ 0 \in Int OBVIOUS
    <3> QED BY ONLY RefInv, <2>2, <3>2, <3>3, <3>4, CountStep, Zenon
  <2>8. CASE f # f0
    <3>1. ref'[f] = ref[f] + 0 + 0 BY <2>8, <1>6 DEF TypeOK
    <3>2. Cardinality(Hands(f)') = Cardinality(Hands(f)) + 0
      <4>1. CASE second
        <5> DEFINE S == Hands(f) \ {<<p, 2>>}
        <5>1. <<p, 2>> \in Hands(f) /\ <<p, 1>> \notin Hands(f) BY ONLY <2>4, <2>5, <2>8, <4>1
        <5>2. Hands(f)' = S \cup {<<p, 1>>} /\ <<p, 1>> \notin S BY ONLY <2>3, <2>4, <2>5, <2>8, <4>1
        <5>3. IsFiniteSet(S) BY <2>6, FS_RemoveElement
        <5>4. Cardinality(Hands(f)) = Cardinality(S) + 1 /\ Cardinality(S) \in Nat BY <5>1, <2>6, Lose
        <5>5. Cardinality(Hands(f)') = Cardinality(S) + 1 BY <5>2, <5>3, Gain
        <5> QED BY <5>4, <5>5
      <4>2. CASE ~second
        <5>1. Hands(f)' = Hands(f) BY ONLY <2>3, <2>4, <2>5, <2>8, <4>2
        <5> QED BY <5>1, <2>6, FS_CardinalityType
      <4> QED BY <4>1, <4>2
    <3> QED BY <3>1, <3>2, <2>2, CountStep
  <2> QED BY <2>7, <2>8
<1>16. RingInv' BY <1>6, RingKept
<1>17. SleeperBlocked'
  <2>1. x \notin Waiting /\ pc \in [Proc -> PC] BY <1>8 DEF TypeOK, Waiting
  <2>2. \A r \in Proc \ {p} : arg'[r] = arg[r] BY <1>6 DEF TypeOK
  <2>3. UNCHANGED <<pipe, nread, nwrite, readopen, writeopen>> BY <1>6
  <2> QED BY <2>1, <2>2, <2>3, <1>7, SleepersKept
<1> QED BY <1>11, <1>12, <1>13, <1>14, <1>15, <1>16, <1>17

\* A sleeper whose pipe looks as before.
LEMMA SleepSame ==
    ASSUME NEW r \in Proc, NEW qq, pipe[Head(arg[r])] = qq, pipe'[Head(arg'[r])] = qq,
           SleepOk(r), pc'[r] = pc[r],
           Held(qq)' = Held(qq), readopen'[qq] = readopen[qq], writeopen'[qq] = writeopen[qq]
    PROVE  SleepOk(r)'
  BY DEF SleepOk, Held, PipeOf

\* What pipealloc() and the two fdalloc()s find: two files that nobody else knows of,
\* and a page without a pipe.
LEMMA FreshPipe ==
    ASSUME IndInv, NEW p \in Proc, pc[p] = "pipe2", NEW q \in Page, ~used[q]
    PROVE  LET rf == arg[p][1]
               wf == arg[p][2]
           IN  /\ arg[p] \in Seq(File) /\ Len(arg[p]) = 2 /\ rf \in File /\ wf \in File /\ rf # wf
               /\ rf # NoFile /\ wf # NoFile
               /\ \A f \in {rf, wf} :
                     /\ type[f] = "FD_NONE" /\ ref[f] = 1
                     /\ \A r \in Proc, d \in Fd : ofile[r][d] # f
                     /\ \A r \in Proc, i \in 1 .. 2 :
                           r # p /\ pc[r] \in {"pipe1", "pipe2"} /\ i \in 1 .. Len(arg[r]) => arg[r][i] # f
               /\ \A w \in BOOLEAN : /\ \A f \in File : ~IsEnd(f, q, w)
                                     /\ \A r \in Proc : ~Shuts(r, q, w)
<1> DEFINE rf == arg[p][1]
           wf == arg[p][2]
<1>1. arg[p] \in Seq(File) /\ Len(arg[p]) = 2 /\ rf # wf BY DEF IndInv, TypeOK, CallInv, CallOk, At
<1>2. rf \in File /\ wf \in File BY <1>1
<1>3. rf # NoFile /\ wf # NoFile BY <1>2 DEF File, NoFile
<1>4. \A f \in {rf, wf} : type[f] = "FD_NONE" /\ ref[f] = 1 BY <1>1 DEF IndInv, FileInv
<1>5. \A f \in {rf, wf} : \A r \in Proc, d \in Fd : ofile[r][d] # f BY <1>3, <1>4 DEF IndInv, FileInv
<1>6. ASSUME NEW k \in 1 .. 2, NEW r \in Proc, NEW i \in 1 .. 2, r # p, pc[r] \in {"pipe1", "pipe2"},
             i \in 1 .. Len(arg[r])
      PROVE  arg[r][i] # arg[p][k]
  <2>1. <<p, k>> \in Hands(arg[p][k]) BY <1>1 DEF Hands, InHand
  <2>2. arg[r][i] = arg[p][k] => <<r, i>> \in Hands(arg[p][k])
    <3>1. arg[r] \in Seq(File) BY DEF IndInv, TypeOK
    <3> QED BY <3>1, <1>6 DEF Hands, InHand
  <2>3. arg[p][k] \in File /\ ref[arg[p][k]] = 1 BY <1>2, <1>4
  <2> QED BY <2>1, <2>2, <2>3, <1>6, CountAtLeast DEF IndInv
<1>7. \A w \in BOOLEAN : ~IsOpen(q, w) BY DEF IsOpen
<1>8. \A w \in BOOLEAN : (\A f \in File : ~IsEnd(f, q, w)) /\ \A r \in Proc : ~Shuts(r, q, w)
  BY <1>7 DEF IndInv, EndInv
<1> QED BY <1>1, <1>2, <1>3, <1>4, <1>5, <1>6, <1>8

LEMMA PipeMadeInv ==
    ASSUME IndInv, NEW p \in Proc, NEW q \in Page, PipeMade(p, q)
    PROVE  IndInv'
<1> DEFINE rf == arg[p][1]
           wf == arg[p][2]
           few == Cardinality(FreeFds(p)) < 2
           fd0 == Min(FreeFds(p))
           fd1 == Min(FreeFds(p) \ {fd0})
           x == IF few THEN "close" ELSE "user"
<1>1. /\ pc[p] = "pipe2" /\ ~used[q]
      /\ used' = [used EXCEPT ![q] = TRUE]
      /\ nread' = [nread EXCEPT ![q] = 0] /\ nwrite' = [nwrite EXCEPT ![q] = 0]
      /\ readopen' = [readopen EXCEPT ![q] = TRUE] /\ writeopen' = [writeopen EXCEPT ![q] = TRUE]
      /\ type' = [type EXCEPT ![rf] = "FD_PIPE", ![wf] = "FD_PIPE"]
      /\ writable' = [writable EXCEPT ![rf] = FALSE, ![wf] = TRUE]
      /\ pipe' = [pipe EXCEPT ![rf] = q, ![wf] = q]
      /\ pc' = [pc EXCEPT ![p] = x]
      /\ UNCHANGED <<ref, data, killed, rest, want, shut>>
  BY DEF PipeMade, At, Goto
<1>2. /\ few => UNCHANGED <<ofile, arg>>
      /\ ~few => /\ ofile' = [ofile EXCEPT ![p][fd0] = rf, ![p][fd1] = wf]
                 /\ arg' = [arg EXCEPT ![p] = <<>>]
  BY DEF PipeMade
<1>3. /\ arg[p] \in Seq(File) /\ Len(arg[p]) = 2 /\ rf \in File /\ wf \in File /\ rf # wf
      /\ rf # NoFile /\ wf # NoFile
      /\ \A f \in {rf, wf} :
            /\ type[f] = "FD_NONE" /\ ref[f] = 1
            /\ \A r \in Proc, d \in Fd : ofile[r][d] # f
            /\ \A r \in Proc, i \in 1 .. 2 :
                  r # p /\ pc[r] \in {"pipe1", "pipe2"} /\ i \in 1 .. Len(arg[r]) => arg[r][i] # f
      /\ \A w \in BOOLEAN : /\ \A f \in File : ~IsEnd(f, q, w)
                            /\ \A r \in Proc : ~Shuts(r, q, w)
  BY <1>1, FreshPipe
<1>4. ASSUME ~few
      PROVE  /\ fd0 \in Fd /\ fd1 \in Fd /\ fd0 # fd1
             /\ ofile[p][fd0] = NoFile /\ ofile[p][fd1] = NoFile
  <2>1. FreeFds(p) \subseteq Fd /\ Fd \subseteq Nat /\ IsFiniteSet(FreeFds(p))
    <3>1. IsFiniteSet(Fd) BY PipeAssumption, FS_Interval DEF Fd
    <3>2. FreeFds(p) \in SUBSET Fd BY DEF FreeFds
    <3>3. Fd \subseteq Nat BY PipeAssumption DEF Fd
    <3> QED BY <3>1, <3>2, <3>3, FS_Subset
  <2>2. FreeFds(p) # {} BY <1>4, FS_EmptySet
  <2>3. fd0 \in FreeFds(p) BY <2>1, <2>2, MinIn
  <2>4. FreeFds(p) # {fd0} BY SMTT(30), <1>4, FS_Singleton
  <2>5. FreeFds(p) \ {fd0} # {} BY <2>3, <2>4
  <2>6. fd1 \in FreeFds(p) \ {fd0}
    <3>1. FreeFds(p) \ {fd0} \in SUBSET Nat BY <2>1
    <3> QED BY <3>1, <2>5, MinIn
  <2> QED BY <2>3, <2>6 DEF FreeFds
<1> HIDE DEF rf, wf, few, fd0, fd1
<1>5. /\ few => ofile' = ofile
      /\ ofile' \in [Proc -> [Fd -> File \cup {NoFile}]]
      /\ ~few => \A r \in Proc, d \in Fd :
            ofile'[r][d] = IF r = p /\ d = fd0 THEN rf ELSE IF r = p /\ d = fd1 THEN wf ELSE ofile[r][d]
  BY <1>2, <1>3, <1>4 DEF IndInv, TypeOK
<1>6. /\ arg' \in [Proc -> Seq(File)]
      /\ \A r \in Proc : arg'[r] = IF r = p /\ ~few THEN <<>> ELSE arg[r]
  <2>1. <<>> \in Seq(File) OBVIOUS
  <2> QED BY <2>1, <1>2 DEF IndInv, TypeOK
<1>7. \A f \in File : /\ type'[f] = IF f \in {rf, wf} THEN "FD_PIPE" ELSE type[f]
                      /\ pipe'[f] = IF f \in {rf, wf} THEN q ELSE pipe[f]
                      /\ writable'[f] = IF f = rf THEN FALSE ELSE IF f = wf THEN TRUE ELSE writable[f]
  BY <1>1, <1>3 DEF IndInv, TypeOK
<1>8. x \in {"close", "user"} /\ (few <=> x = "close") BY DEF x
<1> HIDE DEF x
<1> USE DEF IndInv
<1>9. TypeOK'
  <2>1. pc' \in [Proc -> PC] BY <1>1, <1>8 DEF TypeOK, PC
  <2>2. nread' \in [Page -> 0 .. WRAP - 1] /\ nwrite' \in [Page -> 0 .. WRAP - 1]
    BY <1>1, PipeAssumption DEF TypeOK
  <2>3. /\ type' \in [File -> {"FD_NONE", "FD_PIPE"}] /\ writable' \in [File -> BOOLEAN]
        /\ pipe' \in [File -> Page \cup {NoPage}]
    BY <1>1 DEF TypeOK
  <2>4. used' \in [Page -> BOOLEAN] /\ readopen' \in [Page -> BOOLEAN] /\ writeopen' \in [Page -> BOOLEAN]
    BY <1>1 DEF TypeOK
  <2> QED BY <1>1, <1>5, <1>6, <2>1, <2>2, <2>3, <2>4 DEF TypeOK
<1>10. CallInv'
  <2> SUFFICES ASSUME NEW r \in Proc PROVE CallOk(r)'
    BY DEF CallInv
  <2>1. CallOk(r) BY DEF CallInv
  <2>2. CASE r = p
    <3>1. pc'[p] = x /\ shut'[p] = shut[p] BY <1>1 DEF TypeOK
    <3>2. shut[p] = NoShut BY <2>1, <2>2, <1>1 DEF CallOk, InShut
    <3>3. arg'[p] = arg[p] \/ (x = "user" /\ arg'[p] = <<>>) BY <1>6, <1>8
    <3>4. /\ pc'[p] \notin {"absent", "gone", "pipe1", "pipe2"} \cup InRead \cup InWrite \cup InShut
          /\ pc'[p] = "user" => arg'[p] = <<>>
      BY <3>1, <1>6, <1>8 DEF InRead, InWrite, InShut
    <3> QED BY <3>1, <3>2, <3>3, <3>4, <2>1, <2>2 DEF CallOk, At
  <2>3. CASE r # p
    <3>1. pc'[r] = pc[r] /\ arg'[r] = arg[r] /\ shut'[r] = shut[r] BY <2>3, <1>1, <1>6 DEF TypeOK
    <3>2. \A d \in Fd : ofile'[r][d] = ofile[r][d] BY <2>3, <1>5
    <3>3. pc[r] \in InRead \cup InWrite => writable'[arg[r][1]] = writable[arg[r][1]]
      <4> SUFFICES ASSUME pc[r] \in InRead \cup InWrite PROVE writable'[arg[r][1]] = writable[arg[r][1]]
        OBVIOUS
      <4>1. arg[r][1] \in File /\ \E d \in Fd : ofile[r][d] = arg[r][1] BY CallerEnd
      <4> QED BY <4>1, <1>3, <1>7
    <3> QED BY <3>1, <3>2, <3>3, <2>1 DEF CallOk, At
  <2> QED BY <2>2, <2>3
<1>11. FileInv'
  <2>1. \A f \in File : /\ ref'[f] = 0 => type'[f] = "FD_NONE"
                        /\ type'[f] = "FD_PIPE" => pipe'[f] \in Page
    <3> SUFFICES ASSUME NEW f \in File
                 PROVE  /\ ref'[f] = 0 => type'[f] = "FD_NONE"
                        /\ type'[f] = "FD_PIPE" => pipe'[f] \in Page
      OBVIOUS
    <3>1. CASE f \in {rf, wf}
      <4>1. ref'[f] = 1 /\ pipe'[f] = q BY <3>1, <1>1, <1>3, <1>7
      <4> QED BY <4>1
    <3>2. CASE f \notin {rf, wf}
      <4>1. ref'[f] = ref[f] /\ type'[f] = type[f] /\ pipe'[f] = pipe[f] BY <3>2, <1>1, <1>7
      <4>2. (ref[f] = 0 => type[f] = "FD_NONE") /\ (type[f] = "FD_PIPE" => pipe[f] \in Page) BY DEF FileInv
      <4> QED BY <4>1, <4>2
    <3> QED BY <3>1, <3>2
  <2>2. ASSUME NEW r \in Proc, NEW d \in Fd, ofile'[r][d] # NoFile
        PROVE  type'[ofile'[r][d]] = "FD_PIPE"
    <3>1. ofile'[r][d] \in {rf, wf, ofile[r][d]} BY <1>5
    <3>2. ofile'[r][d] \in File BY <2>2, <1>5
    <3>3. ofile'[r][d] = ofile[r][d] => type[ofile'[r][d]] = "FD_PIPE" BY <2>2 DEF FileInv
    <3> QED BY <3>1, <3>2, <3>3, <1>7
  <2>3. ASSUME NEW r \in Proc, pc'[r] \in {"pipe1", "pipe2"}, NEW i \in 1 .. Len(arg'[r])
        PROVE  type'[arg'[r][i]] = "FD_NONE" /\ ref'[arg'[r][i]] = 1
    <3>1. r # p BY <2>3, <1>1, <1>8 DEF TypeOK
    <3>2. pc'[r] = pc[r] /\ arg'[r] = arg[r] BY <3>1, <1>1, <1>6 DEF TypeOK
    <3>3. /\ arg[r][i] \in File /\ type[arg[r][i]] = "FD_NONE" /\ ref[arg[r][i]] = 1 /\ i \in 1 .. 2
      BY <2>3, <3>2 DEF FileInv, TypeOK, CallInv, CallOk
    <3>4. arg[r][i] \notin {rf, wf} BY <2>3, <3>1, <3>2, <3>3, <1>3
    <3> QED BY <3>2, <3>3, <3>4, <1>1, <1>7
  <2> QED BY <2>1, <2>2, <2>3 DEF FileInv
<1>12. UniqueInv' /\ EndInv'
  <2>1. \A f \in File, q2 \in Page, w \in BOOLEAN :
           IsEnd(f, q2, w)' <=> IF f \in {rf, wf} THEN q2 = q /\ (f = wf <=> w) ELSE IsEnd(f, q2, w)
    BY <1>3, <1>7 DEF IsEnd
  <2>2. \A r \in Proc, q2 \in Page, w \in BOOLEAN : Shuts(r, q2, w)' <=> Shuts(r, q2, w) BY <1>1 DEF Shuts
  <2>3. \A q2 \in Page, w \in BOOLEAN : IsOpen(q2, w)' <=> q2 = q \/ IsOpen(q2, w)
    BY <1>1 DEF IsOpen, TypeOK
  <2>4. \A q2 \in Page, w \in BOOLEAN : ~IsEnd(rf, q2, w) /\ ~IsEnd(wf, q2, w) BY <1>3 DEF IsEnd
  <2>5. UniqueInv'
    <3> SUFFICES ASSUME NEW q2 \in Page, NEW w \in BOOLEAN
                 PROVE  /\ \A f, g \in File : IsEnd(f, q2, w)' /\ IsEnd(g, q2, w)' => f = g
                        /\ \A r, s \in Proc : Shuts(r, q2, w)' /\ Shuts(s, q2, w)' => r = s
                        /\ \A f \in File, r \in Proc : ~(IsEnd(f, q2, w)' /\ Shuts(r, q2, w)')
      BY DEF UniqueInv
    <3>1. /\ \A f, g \in File : IsEnd(f, q2, w) /\ IsEnd(g, q2, w) => f = g
          /\ \A r, s \in Proc : Shuts(r, q2, w) /\ Shuts(s, q2, w) => r = s
          /\ \A f \in File, r \in Proc : ~(IsEnd(f, q2, w) /\ Shuts(r, q2, w))
      BY DEF UniqueInv
    <3>2. CASE q2 = q BY <3>1, <3>2, <2>1, <2>2, <1>3
    <3>3. CASE q2 # q BY <3>1, <3>3, <2>1, <2>2
    <3> QED BY <3>2, <3>3
  <2>6. EndInv'
    <3> SUFFICES ASSUME NEW q2 \in Page, NEW w \in BOOLEAN
                 PROVE  IsOpen(q2, w)' <=> \/ \E f \in File : IsEnd(f, q2, w)'
                                           \/ \E r \in Proc : Shuts(r, q2, w)'
      BY DEF EndInv
    <3>1. IsOpen(q2, w) <=> \/ \E f \in File : IsEnd(f, q2, w)
                            \/ \E r \in Proc : Shuts(r, q2, w)
      BY DEF EndInv
    <3>2. CASE q2 = q
      <4>1. \E f \in File : IsEnd(f, q2, w)' BY <3>2, <2>1, <1>3
      <4> QED BY <4>1, <3>2, <2>3, <1>3
    <3>3. CASE q2 # q BY <3>1, <3>3, <2>1, <2>2, <2>3, <2>4
    <3> QED BY <3>2, <3>3
  <2> QED BY <2>5, <2>6
<1>13. RefInv'
  <2> SUFFICES ASSUME NEW f \in File PROVE ref'[f] = Holders(f)'
    BY DEF RefInv
  <2>1. CASE few
    <3>1. Opens(f)' = Opens(f) BY <2>1, <1>5 DEF Opens
    <3>2. Hands(f)' = Hands(f) BY <2>1, <1>1, <1>6, <1>8 DEF Hands, InHand, TypeOK
    <3> QED BY <3>1, <3>2, <1>1, Counts, CountsNext DEF RefInv
  <2>2. CASE ~few
    <3> DEFINE Slots == Proc \X (1 .. 2)
    <3>1. DOMAIN arg[p] = 1 .. 2 BY <1>3
    <3>2. /\ \A h \in Slots : h \in Hands(f)' <=> h[1] # p /\ h \in Hands(f)
          /\ \A h \in Slots : h[1] = p => (h \in Hands(f) <=> (h[2] = 1 /\ f = rf) \/ (h[2] = 2 /\ f = wf))
          /\ Hands(f) \subseteq Slots /\ Hands(f)' \subseteq Slots
      <4>1. \A r \in Proc : /\ pc'[r] = IF r = p THEN "user" ELSE pc[r]
                            /\ arg'[r] = IF r = p THEN <<>> ELSE arg[r]
        BY <2>2, <1>1, <1>6, <1>8 DEF TypeOK
      <4>2. \A h \in Slots : h \in Hands(f)' <=> h[1] # p /\ h \in Hands(f) BY <4>1 DEF Hands, InHand
      <4>3. \A h \in Slots : h[1] = p => (h \in Hands(f) <=> (h[2] = 1 /\ f = rf) \/ (h[2] = 2 /\ f = wf))
        BY <3>1, <1>1, <1>3 DEF Hands, InHand, rf, wf
      <4>4. Hands(f) \subseteq Slots /\ Hands(f)' \subseteq Slots BY DEF Hands
      <4> QED BY <4>2, <4>3, <4>4
    <3>3. /\ <<p, 1>> \in Slots /\ <<p, 2>> \in Slots /\ <<p, 1>> # <<p, 2>>
          /\ \A h \in Slots : /\ h = <<p, 1>> <=> h[1] = p /\ h[2] = 1
                              /\ h = <<p, 2>> <=> h[1] = p /\ h[2] = 2
      OBVIOUS
    <3>4. f # NoFile BY DEF File, NoFile
    <3>5. /\ f = rf => Opens(f)' = Opens(f) \cup {<<p, fd0>>} /\ <<p, fd0>> \notin Opens(f)
          /\ f = wf => Opens(f)' = Opens(f) \cup {<<p, fd1>>} /\ <<p, fd1>> \notin Opens(f)
          /\ f \notin {rf, wf} => Opens(f)' = Opens(f)
      BY <2>2, <3>4, <1>3, <1>4, <1>5 DEF Opens
    <3> HIDE DEF Slots
    <3>6. /\ f = rf => Hands(f)' = Hands(f) \ {<<p, 1>>} /\ <<p, 1>> \in Hands(f)
          /\ f = wf => Hands(f)' = Hands(f) \ {<<p, 2>>} /\ <<p, 2>> \in Hands(f)
          /\ f \notin {rf, wf} => Hands(f)' = Hands(f)
      BY <1>3, <3>2, <3>3
    <3>7. IsFiniteSet(Opens(f)) /\ IsFiniteSet(Hands(f)) BY Counts
    <3>8. ASSUME f \in {rf, wf} PROVE ref'[f] = Holders(f)'
      <4>1. Cardinality(Opens(f)') = Cardinality(Opens(f)) + 1 BY <3>5, <3>7, <3>8, Gain
      <4>2. Cardinality(Hands(f)') = Cardinality(Hands(f)) + (-1) BY <3>6, <3>7, <3>8, Lose
      <4>3. ref'[f] = ref[f] + 1 + (-1) BY <1>1 DEF TypeOK
      <4>4. -1 \in Int /\ 1 \in Int OBVIOUS
      <4> QED BY ONLY RefInv, <4>1, <4>2, <4>3, <4>4, CountStep, Zenon
    <3>9. ASSUME f \notin {rf, wf} PROVE ref'[f] = Holders(f)'
      BY <3>5, <3>6, <3>9, <1>1, Counts, CountsNext DEF RefInv
    <3> QED BY <3>8, <3>9
  <2> QED BY <2>1, <2>2
<1>14. \A q2 \in Page : Held(q2)' = IF q2 = q THEN 0 ELSE Held(q2)
  BY <1>1, PipeAssumption DEF Held, TypeOK
<1>15. RingInv' BY <1>14, PipeAssumption DEF RingInv
<1>16. SleeperBlocked'
  <2> SUFFICES ASSUME NEW r \in Proc PROVE SleepOk(r)'
    BY DEF SleeperBlocked, SleepOk, At
  <2> SUFFICES ASSUME pc'[r] \in Waiting PROVE SleepOk(r)'
    BY DEF SleepOk, Waiting
  <2>1. r # p BY <1>1, <1>8 DEF TypeOK, Waiting
  <2>2. pc'[r] = pc[r] /\ arg'[r] = arg[r] BY <2>1, <1>1, <1>6 DEF TypeOK
  <2>3. PICK f \in File, qq \in Page :
           /\ Head(arg[r]) = f /\ pipe[f] = qq /\ \E d \in Fd : ofile[r][d] = f
           /\ IsOpen(qq, pc[r] \in InWrite)
    BY <2>2, CallerEnd DEF InRead, InWrite, Waiting
  <2>4. qq # q BY <2>3, <1>1 DEF IsOpen
  <2>5. pipe'[f] = qq BY <2>3, <1>3, <1>7
  <2>6. SleepOk(r) BY DEF SleeperBlocked, SleepOk, At
  <2>7. readopen'[qq] = readopen[qq] /\ writeopen'[qq] = writeopen[qq] /\ Held(qq)' = Held(qq)
    BY <2>4, <1>1, <1>14 DEF TypeOK
  <2> QED BY <2>2, <2>3, <2>5, <2>6, <2>7, SleepSame
<1> QED BY <1>9, <1>10, <1>11, <1>12, <1>13, <1>15, <1>16

\* Others may be woken by what p does; nothing else happens to them.
OthersWake(p) ==
    \A r \in Proc \ {p} : \/ pc'[r] = pc[r]
                          \/ pc[r] = "rsleep" /\ pc'[r] = "read"
                          \/ pc[r] = "wsleep" /\ pc'[r] = "write"

LEMMA WakeOthers ==
    ASSUME TypeOK, NEW p \in Proc, NEW q, NEW from, NEW to, NEW next \in PC,
           (from = "rsleep" /\ to = "read") \/ (from = "wsleep" /\ to = "write"),
           WakeGoto(q, from, to, p, next)
    PROVE  /\ OthersWake(p) /\ pc' \in [Proc -> PC] /\ pc'[p] = next
           /\ \A r \in Proc \ {p} : pc[r] = from /\ pipe[Head(arg[r])] = q => pc'[r] = to
  BY DEF WakeGoto, OthersWake, TypeOK, PC, PipeOf

LEMMA OthersCall ==
    ASSUME NEW p \in Proc, OthersWake(p), NEW r \in Proc, r # p, CallOk(r),
           arg'[r] = arg[r], ofile'[r] = ofile[r], shut'[r] = shut[r], writable' = writable
    PROVE  CallOk(r)'
<1>1. /\ pc'[r] \in InRead <=> pc[r] \in InRead
      /\ pc'[r] \in InWrite <=> pc[r] \in InWrite
      /\ pc'[r] # pc[r] => pc[r] \in InRead \cup InWrite /\ pc'[r] \in InRead \cup InWrite
      /\ (InRead \cup InWrite) \cap ({"absent", "gone", "user", "pipe1", "pipe2"} \cup InShut) = {}
  BY DEF OthersWake, InRead, InWrite, InShut
<1> HIDE DEF InRead, InWrite, InShut
<1>2. CASE pc'[r] = pc[r] BY <1>2 DEF CallOk, At
<1>3. CASE pc'[r] # pc[r]
  <2>1. /\ pc[r] \in InRead \cup InWrite /\ pc'[r] \in InRead \cup InWrite
        /\ pc[r] \notin {"absent", "gone", "user", "pipe1", "pipe2"} \cup InShut
        /\ pc'[r] \notin {"absent", "gone", "user", "pipe1", "pipe2"} \cup InShut
    BY <1>1, <1>3
  <2> QED BY <2>1, <1>1 DEF CallOk, At
<1> QED BY <1>2, <1>3

LEMMA OthersFile ==
    ASSUME IndInv, NEW p \in Proc, OthersWake(p), pc'[p] \notin {"pipe1", "pipe2"},
           \A r \in Proc \ {p} : arg'[r] = arg[r],
           UNCHANGED <<fileVars, ofile>>
    PROVE  FileInv'
<1>1. \A r \in Proc : pc'[r] \in {"pipe1", "pipe2"} => pc[r] = pc'[r] /\ arg'[r] = arg[r] BY DEF OthersWake
<1> QED BY <1>1 DEF IndInv, FileInv, fileVars

LEMMA OthersCount ==
    ASSUME IndInv, NEW p \in Proc, OthersWake(p), UNCHANGED <<ref, ofile>>,
           \A r \in Proc \ {p} : arg'[r] = arg[r],
           (pc[p] \in InHand /\ pc'[p] \in InHand /\ arg'[p] = arg[p]) \/ (pc[p] \notin InHand /\ pc'[p] \notin InHand)
    PROVE  RefInv'
<1>1. \A r \in Proc \ {p} : pc'[r] \in InHand <=> pc[r] \in InHand BY DEF OthersWake, InHand
<1>2. \A f \in File : Opens(f)' = Opens(f) BY DEF Opens
<1>3. \A f \in File : Hands(f)' = Hands(f) BY <1>1 DEF Hands
<1> QED BY <1>2, <1>3, CountKept DEF IndInv

LEMMA PipeCloseInv ==
    ASSUME IndInv, NEW p \in Proc, PipeClose(p)
    PROVE  IndInv'
<1> DEFINE x == IF At(p, "pipeclose") THEN "close" ELSE "exit"
<1>1. PICK q \in Page, w \in BOOLEAN : shut[p] = [pipe |-> q, writable |-> w] /\ shut[p].pipe = q /\ shut[p].writable = w
  BY DEF PipeClose, InShut, IndInv, TypeOK, CallInv, CallOk
<1>2. /\ pc[p] \in InShut
      /\ writeopen' = [writeopen EXCEPT ![q] = @ /\ ~w] /\ readopen' = [readopen EXCEPT ![q] = @ /\ w]
      /\ used' = [used EXCEPT ![q] = ~BothClosed(q, w)]
      /\ IF BothClosed(q, w)
         THEN /\ data' = [data EXCEPT ![q] = Filled]
              /\ nread' = [nread EXCEPT ![q] = 0] /\ nwrite' = [nwrite EXCEPT ![q] = 0]
         ELSE UNCHANGED <<data, nread, nwrite>>
      /\ WakeGoto(q, IF w THEN "rsleep" ELSE "wsleep", IF w THEN "read" ELSE "write", p, x)
      /\ shut' = [shut EXCEPT ![p] = NoShut]
      /\ UNCHANGED <<fileVars, ofile, killed, arg, rest, want>>
      /\ \A r \in Proc : pc[r] \in Dozing => pipe[Head(arg[r])] # q
  BY <1>1 DEF PipeClose, InShut, Locked, PipeOf
<1>3. x \in {"close", "exit"} /\ x \in PC BY DEF PC
<1> HIDE DEF x
<1>4. /\ OthersWake(p) /\ pc' \in [Proc -> PC] /\ pc'[p] = x
      /\ \A r \in Proc \ {p} : pc[r] = (IF w THEN "rsleep" ELSE "wsleep") /\ pipe[Head(arg[r])] = q
                                 => pc'[r] = (IF w THEN "read" ELSE "write")
  <2>1. CASE w
    <3>1. WakeGoto(q, "rsleep", "read", p, x) BY <2>1, <1>2
    <3> QED BY <3>1, <2>1, <1>3, WakeOthers DEF IndInv
  <2>2. CASE ~w
    <3>1. WakeGoto(q, "wsleep", "write", p, x) BY <2>2, <1>2
    <3> QED BY <3>1, <2>2, <1>3, WakeOthers DEF IndInv
  <2> QED BY <2>1, <2>2
<1>5. Shuts(p, q, w) /\ IsOpen(q, w) /\ used[q] BY <1>1 DEF Shuts, IndInv, EndInv, IsOpen
<1>6. /\ \A f \in File : ~IsEnd(f, q, w)
      /\ \A r \in Proc \ {p} : ~Shuts(r, q, w)
  BY <1>5 DEF IndInv, UniqueInv
<1> USE DEF IndInv
<1>7. \A q2 \in Page, w2 \in BOOLEAN : IsOpen(q2, w2)' <=> IsOpen(q2, w2) /\ ~(q2 = q /\ w2 = w)
  <2>1. /\ used'[q] <=> ~BothClosed(q, w)
        /\ writeopen'[q] <=> writeopen[q] /\ ~w
        /\ readopen'[q] <=> readopen[q] /\ w
    BY <1>2 DEF TypeOK
  <2>2. ASSUME NEW q2 \in Page, q2 # q, NEW w2 \in BOOLEAN PROVE IsOpen(q2, w2)' <=> IsOpen(q2, w2)
    BY <2>2, <1>2 DEF IsOpen, TypeOK
  <2>3. ASSUME NEW w2 \in BOOLEAN PROVE IsOpen(q, w2)' <=> IsOpen(q, w2) /\ w2 # w
    <3>1. CASE w BY <3>1, <2>1, <1>5 DEF IsOpen, BothClosed
    <3>2. CASE ~w BY <3>2, <2>1, <1>5 DEF IsOpen, BothClosed
    <3> QED BY <3>1, <3>2
  <2> QED BY <2>2, <2>3
<1>8. TypeOK'
  <2>1. NoShut \in [pipe : Page \cup {NoPage}, writable : BOOLEAN] BY DEF NoShut
  <2>2. Filled \in [0 .. PIPESIZE - 1 -> Byte] BY PipeAssumption DEF Filled
  <2>3. 0 \in 0 .. WRAP - 1 BY PipeAssumption
  <2>4. shut' \in [Proc -> [pipe : Page \cup {NoPage}, writable : BOOLEAN]] BY <2>1, <1>2 DEF TypeOK
  <2>5. /\ data' \in [Page -> [0 .. PIPESIZE - 1 -> Byte]]
        /\ nread' \in [Page -> 0 .. WRAP - 1] /\ nwrite' \in [Page -> 0 .. WRAP - 1]
    BY <2>2, <2>3, <1>2 DEF TypeOK
  <2>6. /\ used' \in [Page -> BOOLEAN] /\ readopen' \in [Page -> BOOLEAN] /\ writeopen' \in [Page -> BOOLEAN]
    BY <1>2 DEF TypeOK, BothClosed
  <2> QED BY <2>4, <2>5, <2>6, <1>2, <1>4 DEF TypeOK, fileVars
<1>9. CallInv'
  <2> SUFFICES ASSUME NEW r \in Proc PROVE CallOk(r)'
    BY DEF CallInv
  <2>1. CallOk(r) BY DEF CallInv
  <2>2. CASE r = p
    <3>1. shut'[p] = NoShut /\ arg'[p] = arg[p] BY <1>2 DEF TypeOK
    <3>2. pc'[p] \notin {"absent", "gone", "user", "pipe1", "pipe2"} \cup InRead \cup InWrite \cup InShut
      BY <1>3, <1>4 DEF InRead, InWrite, InShut
    <3> QED BY <3>1, <3>2, <2>1, <2>2 DEF CallOk, At
  <2>3. CASE r # p BY <2>1, <2>3, <1>2, <1>4, OthersCall DEF fileVars, TypeOK
  <2> QED BY <2>2, <2>3
<1>10. FileInv' BY <1>2, <1>3, <1>4, OthersFile
<1>11. UniqueInv' /\ EndInv'
  <2>1. \A f \in File, q2 \in Page, w2 \in BOOLEAN : IsEnd(f, q2, w2)' <=> IsEnd(f, q2, w2)
    BY <1>2 DEF IsEnd, fileVars
  <2>2. \A r \in Proc, q2 \in Page, w2 \in BOOLEAN : Shuts(r, q2, w2)' <=> r # p /\ Shuts(r, q2, w2)
    BY <1>2, PipeAssumption DEF Shuts, NoShut, TypeOK
  <2>3. \A q2 \in Page, w2 \in BOOLEAN : Shuts(p, q2, w2) <=> q2 = q /\ w2 = w BY <1>1 DEF Shuts
  <2>4. UniqueInv' BY <2>1, <2>2 DEF UniqueInv
  <2>5. EndInv'
    <3> SUFFICES ASSUME NEW q2 \in Page, NEW w2 \in BOOLEAN
                 PROVE  IsOpen(q2, w2)' <=> \/ \E f \in File : IsEnd(f, q2, w2)'
                                            \/ \E r \in Proc : Shuts(r, q2, w2)'
      BY DEF EndInv
    <3>1. IsOpen(q2, w2) <=> \/ \E f \in File : IsEnd(f, q2, w2)
                             \/ \E r \in Proc : Shuts(r, q2, w2)
      BY DEF EndInv
    <3>2. CASE q2 = q /\ w2 = w BY <3>2, <2>1, <2>2, <1>6, <1>7
    <3>3. CASE ~(q2 = q /\ w2 = w) BY <3>1, <3>3, <2>1, <2>2, <2>3, <1>7
    <3> QED BY <3>2, <3>3
  <2> QED BY <2>4, <2>5
<1>12. RefInv'
  <2>1. pc[p] \in InHand /\ pc'[p] \in InHand BY <1>2, <1>3, <1>4 DEF InHand, InShut
  <2> QED BY <2>1, <1>2, <1>4, OthersCount DEF fileVars
<1>13. Held(q)' = Held(q) \/ Held(q)' = 0
  <2>1. CASE BothClosed(q, w)
    <3>1. nread'[q] = 0 /\ nwrite'[q] = 0 BY <2>1, <1>2 DEF TypeOK
    <3>2. (0 + WRAP - 0) % WRAP = 0 BY PipeAssumption
    <3> QED BY <3>1, <3>2 DEF Held
  <2>2. CASE ~BothClosed(q, w) BY <2>2, <1>2 DEF Held
  <2> QED BY <2>1, <2>2
<1>14. \A q2 \in Page : q2 # q => Held(q2)' = Held(q2)
  BY <1>2 DEF Held, TypeOK
<1>15. RingInv' BY <1>13, <1>14, PipeAssumption DEF RingInv
<1>16. SleeperBlocked'
  <2> SUFFICES ASSUME NEW r \in Proc PROVE SleepOk(r)'
    BY DEF SleeperBlocked, SleepOk, At
  <2> SUFFICES ASSUME pc'[r] \in Waiting PROVE SleepOk(r)'
    BY DEF SleepOk, Waiting
  <2>1. r # p BY <1>3, <1>4 DEF Waiting
  <2>2. pc'[r] = pc[r] /\ arg'[r] = arg[r] BY <2>1, <1>2, <1>4 DEF OthersWake, Waiting
  <2>3. PICK f \in File, qq \in Page :
           /\ Head(arg[r]) = f /\ pipe[f] = qq /\ IsEnd(f, qq, pc[r] \in InWrite)
    BY <2>2, CallerEnd DEF InRead, InWrite, Waiting
  <2>4. qq # q
    <3> SUFFICES ASSUME qq = q PROVE FALSE
      OBVIOUS
    <3>1. pc[r] \in {"rsleep", "wsleep"} BY <2>2, <2>3, <1>2 DEF Waiting, Dozing
    <3>2. CASE w = (pc[r] \in InWrite) BY <3>2, <2>3, <1>6
    <3>3. CASE w # (pc[r] \in InWrite)
      <4>1. pc[r] = IF w THEN "rsleep" ELSE "wsleep" BY <3>1, <3>3 DEF InWrite
      <4> QED BY <4>1, <2>1, <2>2, <2>3, <1>4
    <3> QED BY <3>2, <3>3
  <2>5. pipe'[Head(arg'[r])] = qq BY <2>2, <2>3, <1>2 DEF fileVars
  <2>6. SleepOk(r) BY DEF SleeperBlocked, SleepOk, At
  <2>7. readopen'[qq] = readopen[qq] /\ writeopen'[qq] = writeopen[qq] /\ Held(qq)' = Held(qq)
    BY <2>4, <1>2, <1>14 DEF TypeOK
  <2> QED BY <2>2, <2>3, <2>5, <2>6, <2>7, SleepSame
<1> QED BY <1>8, <1>9, <1>10, <1>11, <1>12, <1>15, <1>16

\* The ring, counted modulo WRAP.
LEMMA HeldRange ==
    ASSUME NEW w \in 0 .. WRAP - 1, NEW r \in 0 .. WRAP - 1
    PROVE  /\ (w + WRAP - r) % WRAP \in 0 .. WRAP - 1
           /\ (w + WRAP - r) % WRAP = IF r <= w THEN w - r ELSE w + WRAP - r
<1>1. WRAP \in Nat /\ WRAP > 0 BY PipeAssumption
<1>2. w + WRAP - r \in Nat /\ w + WRAP - r < 2 * WRAP BY <1>1
<1>3. (w + WRAP - r) % WRAP = IF w + WRAP - r < WRAP THEN w + WRAP - r ELSE (w + WRAP - r) - WRAP
  BY <1>1, <1>2, ModSmall
<1> QED BY <1>1, <1>3

LEMMA AdvanceRange ==
    ASSUME NEW k \in 0 .. WRAP - 1, NEW n \in Nat, n < WRAP
    PROVE  (k + n) % WRAP \in 0 .. WRAP - 1 /\ (k + n) % WRAP = IF k + n < WRAP THEN k + n ELSE k + n - WRAP
<1>1. WRAP \in Nat /\ WRAP > 0 BY PipeAssumption
<1>2. k + n \in Nat /\ k + n < 2 * WRAP BY <1>1
<1> QED BY <1>1, <1>2, ModSmall

LEMMA HeldAfterWrite ==
    ASSUME NEW w \in 0 .. WRAP - 1, NEW r \in 0 .. WRAP - 1, NEW n \in Nat,
           ((w + WRAP - r) % WRAP) + n < WRAP
    PROVE  (((w + n) % WRAP) + WRAP - r) % WRAP = ((w + WRAP - r) % WRAP) + n
<1> DEFINE h == (w + WRAP - r) % WRAP
           v == (w + n) % WRAP
<1>1. WRAP \in Nat /\ WRAP > 0 BY PipeAssumption
<1>2. h \in 0 .. WRAP - 1 /\ h = IF r <= w THEN w - r ELSE w + WRAP - r BY HeldRange
<1>3. h + n < WRAP OBVIOUS
<1> HIDE DEF h
<1>4. n < WRAP BY <1>1, <1>2, <1>3
<1>5. v \in 0 .. WRAP - 1 /\ v = IF w + n < WRAP THEN w + n ELSE w + n - WRAP BY <1>4, AdvanceRange
<1> HIDE DEF v
<1>6. (v + WRAP - r) % WRAP = IF r <= v THEN v - r ELSE v + WRAP - r BY <1>5, HeldRange
<1>7. (v + WRAP - r) % WRAP = h + n BY <1>1, <1>2, <1>3, <1>5, <1>6
<1> QED BY <1>7 DEF h, v

LEMMA HeldAfterRead ==
    ASSUME NEW w \in 0 .. WRAP - 1, NEW r \in 0 .. WRAP - 1, NEW n \in Nat,
           n <= (w + WRAP - r) % WRAP
    PROVE  (w + WRAP - ((r + n) % WRAP)) % WRAP = ((w + WRAP - r) % WRAP) - n
<1> DEFINE h == (w + WRAP - r) % WRAP
           v == (r + n) % WRAP
<1>1. WRAP \in Nat /\ WRAP > 0 BY PipeAssumption
<1>2. h \in 0 .. WRAP - 1 /\ h = IF r <= w THEN w - r ELSE w + WRAP - r BY HeldRange
<1>3. n <= h OBVIOUS
<1> HIDE DEF h
<1>4. n < WRAP BY <1>1, <1>2, <1>3
<1>5. v \in 0 .. WRAP - 1 /\ v = IF r + n < WRAP THEN r + n ELSE r + n - WRAP BY <1>4, AdvanceRange
<1> HIDE DEF v
<1>6. (w + WRAP - v) % WRAP = IF v <= w THEN w - v ELSE w + WRAP - v BY <1>5, HeldRange
<1>7. (w + WRAP - v) % WRAP = h - n BY <1>1, <1>2, <1>3, <1>5, <1>6
<1> QED BY <1>7 DEF h, v

LEMMA HeldNat ==
    ASSUME TypeOK, NEW q \in Page
    PROVE  Held(q) \in 0 .. WRAP - 1 /\ nread[q] \in 0 .. WRAP - 1 /\ nwrite[q] \in 0 .. WRAP - 1
<1>1. nread[q] \in 0 .. WRAP - 1 /\ nwrite[q] \in 0 .. WRAP - 1 BY DEF TypeOK
<1> QED BY <1>1, HeldRange DEF Held

\* One turn of piperead(): what it does to the pipe, the reader and the others.
LEMMA PipeReadSteps ==
    ASSUME IndInv, NEW p \in Proc, PipeRead(p)
    PROVE  \E q \in Page, n \in Nat, x \in {"user", "rdoze"} :
              /\ pc[p] = "read" /\ Head(arg[p]) = arg[p][1] /\ pipe[arg[p][1]] = q
              /\ n <= Held(q) /\ nread' \in [Page -> 0 .. WRAP - 1] /\ nread'[q] = Advance(nread[q], n)
              /\ \A q2 \in Page \ {q} : nread'[q2] = nread[q2]
              /\ pc'[p] = x /\ pc' \in [Proc -> PC] /\ OthersWake(p)
              /\ x = "user" => arg' = [arg EXCEPT ![p] = <<>>]
              /\ x = "rdoze" => UNCHANGED arg /\ n = 0 /\ Held(q) = 0 /\ writeopen[q] /\ ~killed[p]
              /\ \A r \in Proc \ {p} : pc[r] = "wsleep" /\ pipe[Head(arg[r])] = q => n = 0 \/ pc'[r] = "write"
              /\ \A r \in Proc : pc[r] \in Dozing => pipe[Head(arg[r])] # q
              /\ want' \in [Proc -> Nat]
              /\ UNCHANGED <<fileVars, ofile, used, data, nwrite, readopen, writeopen, killed, rest, shut>>
<1> DEFINE f == arg[p][1]
           q == pipe[f]
           n == IF EmptyMustWait(q) THEN 0 ELSE Min({want[p], Held(q)})
           x == IF EmptyMustWait(q) /\ ~killed[p] THEN "rdoze" ELSE "user"
<1>1. pc[p] = "read" BY DEF PipeRead, At
<1>10. \A r \in Proc : pc[r] \in Dozing => pipe[Head(arg[r])] # pipe[Head(arg[p])]
  BY DEF PipeRead, Locked, PipeOf
<1>2. Head(arg[p]) = f /\ q \in Page BY <1>1, CallerEnd DEF InRead
<1>3. Held(q) \in 0 .. WRAP - 1 /\ nread[q] \in 0 .. WRAP - 1 BY <1>2, HeldNat DEF IndInv
<1>4. want[p] \in Nat /\ Held(q) \in Nat BY <1>3, PipeAssumption DEF IndInv, TypeOK
<1>5. n \in Nat /\ n <= Held(q) /\ n < WRAP BY <1>3, <1>4, MinPair, PipeAssumption
<1>6. UNCHANGED <<fileVars, ofile, used, data, nwrite, readopen, writeopen, killed, rest, shut>>
  BY DEF PipeRead
<1>7. Advance(nread[q], n) \in 0 .. WRAP - 1 /\ Advance(nread[q], 0) = nread[q]
  <2> HIDE DEF n, q
  <2>1. Advance(nread[q], n) \in 0 .. WRAP - 1 BY <1>3, <1>5, AdvanceRange DEF Advance
  <2>2. ASSUME NEW k \in 0 .. WRAP - 1 PROVE k % WRAP = k /\ k + 0 = k BY PipeAssumption
  <2>3. Advance(nread[q], 0) = nread[q] BY <2>2, <1>3 DEF Advance
  <2> QED BY <2>1, <2>3
<1>8. CASE EmptyMustWait(q)
  <2>1. /\ pc' = [pc EXCEPT ![p] = x] /\ UNCHANGED nread
        /\ x = "user" => arg' = [arg EXCEPT ![p] = <<>>] /\ want' = [want EXCEPT ![p] = 0]
        /\ x = "rdoze" => UNCHANGED <<arg, want>>
    BY <1>2, <1>8 DEF PipeRead, Goto, Return, PipeOf
  <2>2. n = 0 BY <1>8
  <2>3. x \in {"user", "rdoze"} OBVIOUS
  <2>4. x = "rdoze" => Held(q) = 0 /\ writeopen[q] /\ ~killed[p] BY <1>8 DEF EmptyMustWait
  <2> HIDE DEF n, x, q, f
  <2>5. pc' \in [Proc -> PC] /\ OthersWake(p) /\ pc'[p] = x BY <2>1, <2>3 DEF OthersWake, PC, IndInv, TypeOK
  <2>6. want' \in [Proc -> Nat]
    <3>1. want \in [Proc -> Nat] BY DEF IndInv, TypeOK
    <3> QED BY ONLY <2>1, <2>3, <3>1
  <2>7. nread' \in [Page -> 0 .. WRAP - 1] /\ nread'[q] = Advance(nread[q], n) /\ nread' = nread
    BY <2>1, <2>2, <1>7 DEF IndInv, TypeOK
  <2>8. q \in Page /\ pipe[arg[p][1]] = q /\ Head(arg[p]) = arg[p][1] BY <1>2 DEF f, q
  <2>9. \A r \in Proc : pc[r] \in Dozing => pipe[Head(arg[r])] # q BY <1>10, <2>8
  <2> QED BY <2>1, <2>2, <2>3, <2>4, <2>5, <2>6, <2>7, <2>8, <2>9, <1>1, <1>5, <1>6
<1>9. CASE ~EmptyMustWait(q)
  <2>1. /\ nread' = [nread EXCEPT ![q] = Advance(@, n)]
        /\ WakeGoto(q, "wsleep", "write", p, "user")
        /\ arg' = [arg EXCEPT ![p] = <<>>] /\ want' = [want EXCEPT ![p] = 0]
    BY <1>2, <1>9 DEF PipeRead, Return, PipeOf
  <2>2. x = "user" /\ "user" \in PC BY <1>9 DEF PC
  <2> HIDE DEF n, x, q, f
  <2>3. /\ OthersWake(p) /\ pc' \in [Proc -> PC] /\ pc'[p] = "user"
        /\ \A r \in Proc \ {p} : pc[r] = "wsleep" /\ pipe[Head(arg[r])] = q => pc'[r] = "write"
    BY <2>1, <2>2, WakeOthers DEF IndInv
  <2>4. /\ nread' \in [Page -> 0 .. WRAP - 1] /\ nread'[q] = Advance(nread[q], n)
        /\ \A q2 \in Page \ {q} : nread'[q2] = nread[q2]
    BY <2>1, <1>2, <1>7 DEF IndInv, TypeOK
  <2>5. want' \in [Proc -> Nat] BY <2>1 DEF IndInv, TypeOK
  <2>8. q \in Page /\ pipe[arg[p][1]] = q /\ Head(arg[p]) = arg[p][1] BY <1>2 DEF f, q
  <2>9. \A r \in Proc : pc[r] \in Dozing => pipe[Head(arg[r])] # q BY <1>10, <2>8
  <2> QED BY <2>1, <2>3, <2>4, <2>5, <2>8, <2>9, <1>1, <1>5, <1>6
<1> QED BY <1>8, <1>9

LEMMA PipeReadInv ==
    ASSUME IndInv, NEW p \in Proc, PipeRead(p)
    PROVE  IndInv'
<1>1. PICK q \in Page, n \in Nat, x \in {"user", "rdoze"} :
              /\ pc[p] = "read" /\ Head(arg[p]) = arg[p][1] /\ pipe[arg[p][1]] = q
              /\ n <= Held(q) /\ nread' \in [Page -> 0 .. WRAP - 1] /\ nread'[q] = Advance(nread[q], n)
              /\ \A q2 \in Page \ {q} : nread'[q2] = nread[q2]
              /\ pc'[p] = x /\ pc' \in [Proc -> PC] /\ OthersWake(p)
              /\ x = "user" => arg' = [arg EXCEPT ![p] = <<>>]
              /\ x = "rdoze" => UNCHANGED arg /\ n = 0 /\ Held(q) = 0 /\ writeopen[q] /\ ~killed[p]
              /\ \A r \in Proc \ {p} : pc[r] = "wsleep" /\ pipe[Head(arg[r])] = q => n = 0 \/ pc'[r] = "write"
              /\ \A r \in Proc : pc[r] \in Dozing => pipe[Head(arg[r])] # q
              /\ want' \in [Proc -> Nat]
              /\ UNCHANGED <<fileVars, ofile, used, data, nwrite, readopen, writeopen, killed, rest, shut>>
  BY PipeReadSteps
<1>2. Held(q)' = Held(q) - n /\ \A q2 \in Page \ {q} : Held(q2)' = Held(q2)
  <2>1. nread[q] \in 0 .. WRAP - 1 /\ nwrite[q] \in 0 .. WRAP - 1 BY HeldNat DEF IndInv
  <2>2. n <= (nwrite[q] + WRAP - nread[q]) % WRAP BY <1>1 DEF Held
  <2>3. nread'[q] = (nread[q] + n) % WRAP /\ nwrite' = nwrite BY <1>1 DEF Advance
  <2>4. Held(q)' = Held(q) - n BY <2>1, <2>2, <2>3, HeldAfterRead DEF Held
  <2>5. \A q2 \in Page \ {q} : Held(q2)' = Held(q2) BY <1>1 DEF Held
  <2> QED BY <2>4, <2>5
<1>3. /\ arg' \in [Proc -> Seq(File)] /\ \A r \in Proc \ {p} : arg'[r] = arg[r]
      /\ x = "user" => arg'[p] = <<>>
  <2>1. <<>> \in Seq(File) OBVIOUS
  <2> QED BY <2>1, <1>1 DEF IndInv, TypeOK
<1>4. Held(q) \in Nat BY HeldNat, PipeAssumption DEF IndInv
<1> USE DEF IndInv
<1>5. TypeOK' BY <1>1, <1>3 DEF TypeOK, fileVars
<1>6. CallInv'
  <2> SUFFICES ASSUME NEW r \in Proc PROVE CallOk(r)'
    BY DEF CallInv
  <2>1. CallOk(r) BY DEF CallInv
  <2>2. CASE r = p
    <3>1. shut'[p] = NoShut /\ shut' = shut BY <2>1, <2>2, <1>1 DEF CallOk, InShut
    <3>2. CASE x = "user" BY <3>1, <3>2, <2>2, <1>1, <1>3 DEF CallOk, At, InRead, InWrite, InShut
    <3>3. CASE x = "rdoze"
      <4>1. pc'[p] = "rdoze" /\ arg' = arg /\ ofile' = ofile /\ writable' = writable
        BY <3>3, <1>1 DEF fileVars
      <4> QED BY <3>1, <4>1, <2>1, <2>2, <1>1 DEF CallOk, At, InRead, InWrite, InShut
    <3> QED BY <3>2, <3>3
  <2>3. CASE r # p BY <2>1, <2>3, <1>1, <1>3, OthersCall DEF fileVars
  <2> QED BY <2>2, <2>3
<1>7. FileInv' BY <1>1, <1>3, OthersFile
<1>8. UniqueInv' /\ EndInv' BY <1>1, EndsKept DEF fileVars
<1>9. RefInv'
  <2>1. pc[p] \notin InHand /\ pc'[p] \notin InHand BY <1>1 DEF InHand
  <2> QED BY <2>1, <1>1, <1>3, OthersCount DEF fileVars
<1>10. RingInv' BY <1>2, <1>4, PipeAssumption DEF RingInv
<1>11. SleeperBlocked'
  <2> SUFFICES ASSUME NEW r \in Proc PROVE SleepOk(r)'
    BY DEF SleeperBlocked, SleepOk, At
  <2> SUFFICES ASSUME pc'[r] \in Waiting PROVE SleepOk(r)'
    BY DEF SleepOk, Waiting
  <2>1. CASE r = p
    <3>1. x = "rdoze" /\ pc'[p] = "rdoze" BY <2>1, <1>1 DEF Waiting
    <3>2. pipe'[Head(arg'[p])] = q /\ writeopen'[q] BY <3>1, <1>1 DEF fileVars
    <3>3. Held(q)' = 0 BY <3>1, <1>1, <1>2
    <3> QED BY <2>1, <3>1, <3>2, <3>3 DEF SleepOk, Held, PipeOf
  <2>2. CASE r # p
    <3>1. pc'[r] = pc[r] /\ arg'[r] = arg[r] BY <2>2, <1>1, <1>3 DEF OthersWake, Waiting
    <3>2. SleepOk(r) BY DEF SleeperBlocked, SleepOk, At
    <3>3. PICK f \in File, qq \in Page : Head(arg[r]) = f /\ pipe[f] = qq
      BY <3>1, CallerEnd DEF InRead, InWrite, Waiting
    <3>4. pipe'[Head(arg'[r])] = qq /\ readopen' = readopen /\ writeopen' = writeopen
      BY <3>1, <3>3, <1>1 DEF fileVars
    <3>5. CASE Held(qq)' = Held(qq) BY <3>1, <3>2, <3>3, <3>4, <3>5, SleepSame
    <3>6. CASE Held(qq)' # Held(qq)
      <4>1. qq = q /\ n # 0 BY <3>6, <1>2, <1>4
      <4>2. pc[r] # "wsleep" /\ pc[r] \notin Dozing BY <4>1, <2>2, <3>1, <3>3, <1>1
      <4>3. pc[r] = "rsleep" /\ pc'[r] = "rsleep" BY <4>2, <3>1 DEF Waiting, Dozing
      <4>4. writeopen[qq] BY <4>3, <3>2, <3>3 DEF SleepOk, PipeOf
      <4> QED BY <4>3, <4>4, <3>1, <3>4 DEF SleepOk, PipeOf
    <3> QED BY <3>5, <3>6
  <2> QED BY <2>1, <2>2
<1> QED BY <1>5, <1>6, <1>7, <1>8, <1>9, <1>10, <1>11

LEMMA SeqTail ==
    ASSUME NEW s \in Seq(Byte), NEW n \in Nat, n <= Len(s)
    PROVE  SubSeq(s, n + 1, Len(s)) \in Seq(Byte)
<1>1. n + 1 \in Nat /\ Len(s) \in Nat OBVIOUS
<1>2. \A i \in (n + 1) .. Len(s) : s[i] \in Byte OBVIOUS
<1> QED BY <1>1, <1>2

\* One turn of pipewrite().
LEMMA PipeWriteSteps ==
    ASSUME IndInv, NEW p \in Proc, PipeWrite(p)
    PROVE  \E q \in Page, n \in Nat, x \in {"user", "wdoze"} :
              /\ pc[p] = "write" /\ Head(arg[p]) = arg[p][1] /\ pipe[arg[p][1]] = q
              /\ n <= Len(rest[p]) /\ n + Held(q) <= PIPESIZE
              /\ nwrite' \in [Page -> 0 .. WRAP - 1] /\ nwrite'[q] = Advance(nwrite[q], n)
              /\ data' \in [Page -> [0 .. PIPESIZE - 1 -> Byte]]
              /\ \A q2 \in Page \ {q} : nwrite'[q2] = nwrite[q2] /\ data'[q2] = data[q2]
              /\ \A i \in 0 .. PIPESIZE - 1 :
                    LET k == (i + WRAP - nwrite[q]) % PIPESIZE
                    IN  data'[q][i] = IF k < n THEN rest[p][k + 1] ELSE data[q][i]
              /\ pc'[p] = x /\ pc' \in [Proc -> PC] /\ OthersWake(p)
              /\ x = "user" => arg' = [arg EXCEPT ![p] = <<>>]
              /\ x = "wdoze" => UNCHANGED arg /\ n + Held(q) = PIPESIZE /\ readopen[q] /\ ~killed[p]
              /\ \A r \in Proc \ {p} : pc[r] = "rsleep" /\ pipe[Head(arg[r])] = q
                                         => pc'[r] = "read" \/ killed[p] \/ ~readopen[q]
              /\ \A r \in Proc : pc[r] \in Dozing => pipe[Head(arg[r])] # q
              /\ rest' \in [Proc -> Seq(Byte)]
              /\ UNCHANGED <<fileVars, ofile, used, nread, readopen, writeopen, killed, want, shut>>
<1> DEFINE f == arg[p][1]
           q == pipe[f]
           n == Min({Len(rest[p]), Room(q)})
           done == n = Len(rest[p])
           stop == ~done /\ FullMustStop(q, p)
           asleep == ~done /\ ~stop
           x == IF asleep THEN "wdoze" ELSE "user"
           rest1 == IF asleep THEN SubSeq(rest[p], n + 1, Len(rest[p])) ELSE <<>>
<1>1. pc[p] = "write" BY DEF PipeWrite, At
<1>20. \A r \in Proc : pc[r] \in Dozing => pipe[Head(arg[r])] # pipe[Head(arg[p])]
  BY DEF PipeWrite, Locked, PipeOf
<1>2. Head(arg[p]) = f /\ q \in Page BY <1>1, CallerEnd DEF InWrite
<1>3. Held(q) \in 0 .. WRAP - 1 /\ nwrite[q] \in 0 .. WRAP - 1 BY <1>2, HeldNat DEF IndInv
<1>4. Held(q) <= PIPESIZE BY <1>2 DEF IndInv, RingInv
<1>5. rest[p] \in Seq(Byte) /\ Len(rest[p]) \in Nat
  <2>1. rest[p] \in Seq(Byte) BY DEF IndInv, TypeOK
  <2> QED BY <2>1
<1>6. Room(q) \in Nat /\ Room(q) + Held(q) = PIPESIZE BY <1>3, <1>4, PipeAssumption DEF Room
<1>7. /\ n \in Nat /\ n <= Len(rest[p]) /\ n <= Room(q) /\ (n = Len(rest[p]) \/ n = Room(q))
  BY <1>5, <1>6, MinPair
<1>8. /\ data' = [data EXCEPT ![q] = [i \in 0 .. PIPESIZE - 1 |->
                      LET k == (i + WRAP - nwrite[q]) % PIPESIZE
                      IN  IF k < n THEN rest[p][k + 1] ELSE data[q][i]]]
      /\ nwrite' = [nwrite EXCEPT ![q] = Advance(@, n)]
      /\ rest' = [rest EXCEPT ![p] = rest1]
      /\ IF stop THEN pc' = [pc EXCEPT ![p] = "user"] ELSE WakeGoto(q, "rsleep", "read", p, x)
      /\ IF asleep THEN UNCHANGED arg ELSE arg' = [arg EXCEPT ![p] = <<>>]
      /\ UNCHANGED <<fileVars, ofile, used, nread, readopen, writeopen, killed, want, shut>>
  BY <1>2 DEF PipeWrite, Goto, Return, PipeOf
<1>9. x \in {"user", "wdoze"} /\ x \in PC /\ (x = "wdoze" <=> asleep) BY DEF PC
<1>10. asleep => n = Room(q) /\ readopen[q] /\ ~killed[p] BY <1>7 DEF FullMustStop
<1>11. stop => x = "user" /\ (killed[p] \/ ~readopen[q]) BY DEF FullMustStop
<1>12. rest1 \in Seq(Byte)
  <2>1. <<>> \in Seq(Byte) OBVIOUS
  <2>2. SubSeq(rest[p], n + 1, Len(rest[p])) \in Seq(Byte) BY <1>5, <1>7, SeqTail
  <2> QED BY <2>1, <2>2
<1> HIDE DEF f, q, n, done, stop, asleep, x, rest1
<1>13. n + Held(q) <= PIPESIZE /\ n < WRAP BY <1>3, <1>6, <1>7, PipeAssumption
<1>14. /\ nwrite' \in [Page -> 0 .. WRAP - 1] /\ nwrite'[q] = Advance(nwrite[q], n)
       /\ \A q2 \in Page \ {q} : nwrite'[q2] = nwrite[q2]
  <2>1. Advance(nwrite[q], n) \in 0 .. WRAP - 1 BY <1>3, <1>7, <1>13, AdvanceRange DEF Advance
  <2> QED BY <2>1, <1>2, <1>8 DEF IndInv, TypeOK
<1>15. /\ data' \in [Page -> [0 .. PIPESIZE - 1 -> Byte]]
       /\ \A q2 \in Page \ {q} : data'[q2] = data[q2]
       /\ \A i \in 0 .. PIPESIZE - 1 :
             LET k == (i + WRAP - nwrite[q]) % PIPESIZE
             IN  data'[q][i] = IF k < n THEN rest[p][k + 1] ELSE data[q][i]
  <2>1. \A i \in 0 .. PIPESIZE - 1 : (i + WRAP - nwrite[q]) % PIPESIZE \in Nat BY <1>3, PipeAssumption
  <2>2. \A k \in Nat : k < n => rest[p][k + 1] \in Byte
    <3>1. \A k \in Nat : k < n => k + 1 \in 1 .. Len(rest[p]) BY <1>5, <1>7
    <3> QED BY <3>1, <1>5
  <2>3. \A i \in 0 .. PIPESIZE - 1 : data[q][i] \in Byte BY <1>2 DEF IndInv, TypeOK
  <2>4. \A i \in 0 .. PIPESIZE - 1 :
           (LET k == (i + WRAP - nwrite[q]) % PIPESIZE IN IF k < n THEN rest[p][k + 1] ELSE data[q][i]) \in Byte
    BY <2>1, <2>2, <2>3
  <2>5. data \in [Page -> [0 .. PIPESIZE - 1 -> Byte]] BY DEF IndInv, TypeOK
  <2> QED BY <2>4, <2>5, <1>2, <1>8
<1>16. rest' \in [Proc -> Seq(Byte)] BY <1>8, <1>12 DEF IndInv, TypeOK
<1>17. /\ pc'[p] = x /\ pc' \in [Proc -> PC] /\ OthersWake(p)
       /\ \A r \in Proc \ {p} : pc[r] = "rsleep" /\ pipe[Head(arg[r])] = q
                                  => pc'[r] = "read" \/ killed[p] \/ ~readopen[q]
  <2>1. CASE stop
    <3>1. pc' = [pc EXCEPT ![p] = "user"] /\ x = "user" /\ (killed[p] \/ ~readopen[q])
      BY <2>1, <1>8, <1>11
    <3>2. pc \in [Proc -> PC] BY DEF IndInv, TypeOK
    <3>3. pc'[p] = x /\ pc' \in [Proc -> PC] /\ \A r \in Proc \ {p} : pc'[r] = pc[r]
      BY <3>1, <3>2, <1>9
    <3> QED BY <3>1, <3>3 DEF OthersWake
  <2>2. CASE ~stop
    <3>1. WakeGoto(q, "rsleep", "read", p, x) BY <2>2, <1>8
    <3> QED BY <3>1, <1>9, WakeOthers DEF IndInv
  <2> QED BY <2>1, <2>2
<1>18. /\ x = "user" => arg' = [arg EXCEPT ![p] = <<>>]
       /\ x = "wdoze" => UNCHANGED arg /\ n + Held(q) = PIPESIZE /\ readopen[q] /\ ~killed[p]
  BY <1>6, <1>8, <1>9, <1>10
<1>19. q \in Page /\ pipe[arg[p][1]] = q /\ Head(arg[p]) = arg[p][1] BY <1>2 DEF f, q
<1>21. \A r \in Proc : pc[r] \in Dozing => pipe[Head(arg[r])] # q BY <1>19, <1>20
<1> QED BY <1>1, <1>7, <1>8, <1>9, <1>13, <1>14, <1>15, <1>16, <1>17, <1>18, <1>19, <1>21

LEMMA PipeWriteInv ==
    ASSUME IndInv, NEW p \in Proc, PipeWrite(p)
    PROVE  IndInv'
<1>1. PICK q \in Page, n \in Nat, x \in {"user", "wdoze"} :
              /\ pc[p] = "write" /\ Head(arg[p]) = arg[p][1] /\ pipe[arg[p][1]] = q
              /\ n <= Len(rest[p]) /\ n + Held(q) <= PIPESIZE
              /\ nwrite' \in [Page -> 0 .. WRAP - 1] /\ nwrite'[q] = Advance(nwrite[q], n)
              /\ data' \in [Page -> [0 .. PIPESIZE - 1 -> Byte]]
              /\ \A q2 \in Page \ {q} : nwrite'[q2] = nwrite[q2] /\ data'[q2] = data[q2]
              /\ \A i \in 0 .. PIPESIZE - 1 :
                    LET k == (i + WRAP - nwrite[q]) % PIPESIZE
                    IN  data'[q][i] = IF k < n THEN rest[p][k + 1] ELSE data[q][i]
              /\ pc'[p] = x /\ pc' \in [Proc -> PC] /\ OthersWake(p)
              /\ x = "user" => arg' = [arg EXCEPT ![p] = <<>>]
              /\ x = "wdoze" => UNCHANGED arg /\ n + Held(q) = PIPESIZE /\ readopen[q] /\ ~killed[p]
              /\ \A r \in Proc \ {p} : pc[r] = "rsleep" /\ pipe[Head(arg[r])] = q
                                         => pc'[r] = "read" \/ killed[p] \/ ~readopen[q]
              /\ \A r \in Proc : pc[r] \in Dozing => pipe[Head(arg[r])] # q
              /\ rest' \in [Proc -> Seq(Byte)]
              /\ UNCHANGED <<fileVars, ofile, used, nread, readopen, writeopen, killed, want, shut>>
  BY PipeWriteSteps
<1>2. Held(q)' = Held(q) + n /\ \A q2 \in Page \ {q} : Held(q2)' = Held(q2)
  <2>1. nread[q] \in 0 .. WRAP - 1 /\ nwrite[q] \in 0 .. WRAP - 1 /\ Held(q) \in 0 .. WRAP - 1
    BY HeldNat DEF IndInv
  <2>2. Held(q) + n < WRAP BY <1>1, <2>1, PipeAssumption
  <2>3. nwrite'[q] = (nwrite[q] + n) % WRAP /\ nread' = nread BY <1>1 DEF Advance
  <2>4. Held(q)' = Held(q) + n BY <2>1, <2>2, <2>3, HeldAfterWrite DEF Held
  <2>5. \A q2 \in Page \ {q} : Held(q2)' = Held(q2) BY <1>1 DEF Held
  <2> QED BY <2>4, <2>5
<1>3. /\ arg' \in [Proc -> Seq(File)] /\ \A r \in Proc \ {p} : arg'[r] = arg[r]
      /\ x = "user" => arg'[p] = <<>>
  <2>1. <<>> \in Seq(File) OBVIOUS
  <2> QED BY ZenonT(60), <2>1, <1>1 DEF IndInv, TypeOK
<1>4. Held(q) \in Nat BY HeldNat, PipeAssumption DEF IndInv
<1> USE DEF IndInv
<1>5. TypeOK' BY <1>1, <1>3 DEF TypeOK, fileVars
<1>6. CallInv'
  <2> SUFFICES ASSUME NEW r \in Proc PROVE CallOk(r)'
    BY DEF CallInv
  <2>1. CallOk(r) BY DEF CallInv
  <2>2. CASE r = p
    <3>1. shut'[p] = NoShut /\ shut' = shut BY <2>1, <2>2, <1>1 DEF CallOk, InShut
    <3>2. CASE x = "user" BY <3>1, <3>2, <2>2, <1>1, <1>3 DEF CallOk, At, InRead, InWrite, InShut
    <3>3. CASE x = "wdoze"
      <4>1. pc'[p] = "wdoze" /\ arg' = arg /\ ofile' = ofile /\ writable' = writable
        BY <3>3, <1>1 DEF fileVars
      <4> QED BY <3>1, <4>1, <2>1, <2>2, <1>1 DEF CallOk, At, InRead, InWrite, InShut
    <3> QED BY <3>2, <3>3
  <2>3. CASE r # p BY <2>1, <2>3, <1>1, <1>3, OthersCall DEF fileVars
  <2> QED BY <2>2, <2>3
<1>7. FileInv' BY <1>1, <1>3, OthersFile
<1>8. UniqueInv' /\ EndInv' BY <1>1, EndsKept DEF fileVars
<1>9. RefInv'
  <2>1. pc[p] \notin InHand /\ pc'[p] \notin InHand BY <1>1 DEF InHand
  <2> QED BY <2>1, <1>1, <1>3, OthersCount DEF fileVars
<1>10. RingInv'
  <2>1. Held(q)' <= PIPESIZE BY <1>1, <1>2, <1>4
  <2> QED BY <2>1, <1>2 DEF RingInv
<1>11. SleeperBlocked'
  <2> SUFFICES ASSUME NEW r \in Proc PROVE SleepOk(r)'
    BY DEF SleeperBlocked, SleepOk, At
  <2> SUFFICES ASSUME pc'[r] \in Waiting PROVE SleepOk(r)'
    BY DEF SleepOk, Waiting
  <2>1. CASE r = p
    <3>1. x = "wdoze" /\ pc'[p] = "wdoze" BY <2>1, <1>1 DEF Waiting
    <3>2. pipe'[Head(arg'[p])] = q /\ readopen'[q] BY <3>1, <1>1 DEF fileVars
    <3>3. Held(q)' = PIPESIZE BY <3>1, <1>1, <1>2, <1>4
    <3> QED BY <2>1, <3>1, <3>2, <3>3 DEF SleepOk, Held, PipeOf
  <2>2. CASE r # p
    <3>1. pc'[r] = pc[r] /\ arg'[r] = arg[r] BY <2>2, <1>1, <1>3 DEF OthersWake, Waiting
    <3>2. SleepOk(r) BY DEF SleeperBlocked, SleepOk, At
    <3>3. PICK f \in File, qq \in Page :
             Head(arg[r]) = f /\ pipe[f] = qq /\ IsOpen(qq, pc[r] \in InWrite)
      BY <3>1, CallerEnd DEF InRead, InWrite, Waiting
    <3>4. pipe'[Head(arg'[r])] = qq /\ readopen' = readopen /\ writeopen' = writeopen
      BY <3>1, <3>3, <1>1 DEF fileVars
    <3>5. CASE Held(qq)' = Held(qq) BY <3>1, <3>2, <3>3, <3>4, <3>5, SleepSame
    <3>6. CASE Held(qq)' # Held(qq)
      <4>1. qq = q /\ n # 0 BY <3>6, <1>2, <1>4
      <4>2. pc[r] # "wsleep"
        <5>1. pc[r] = "wsleep" => Held(q) = PIPESIZE BY <4>1, <3>2, <3>3 DEF SleepOk, PipeOf
        <5> QED BY <5>1, <4>1, <1>1, PipeAssumption
      <4>3. pc[r] \notin Dozing BY <4>1, <3>3, <1>1
      <4>4. pc[r] = "rsleep" /\ pc'[r] = "rsleep" BY <4>2, <4>3, <3>1 DEF Waiting, Dozing
      <4>5. writeopen[qq] BY <4>4, <3>2, <3>3 DEF SleepOk, PipeOf
      <4> QED BY <4>4, <4>5, <3>1, <3>4 DEF SleepOk, PipeOf
    <3> QED BY <3>5, <3>6
  <2> QED BY <2>1, <2>2
<1> QED BY <1>5, <1>6, <1>7, <1>8, <1>9, <1>10, <1>11

\* Who dozes falls asleep.
LEMMA SleepInv ==
    ASSUME IndInv, NEW p \in Proc, Sleep(p)
    PROVE  IndInv'
<1> DEFINE x == IF pc[p] = "rdoze" THEN "rsleep" ELSE "wsleep"
<1>1. /\ pc[p] \in Dozing /\ pc' = [pc EXCEPT ![p] = x]
      /\ UNCHANGED <<fileVars, ofile, pipeVars, killed, callVars>>
  BY DEF Sleep, At, Goto
<1> USE DEF IndInv, fileVars, callVars, pipeVars
<1>2. /\ x \in PC
      /\ (pc[p] = "rdoze" /\ x = "rsleep") \/ (pc[p] = "wdoze" /\ x = "wsleep")
      /\ (x \in InRead <=> pc[p] \in InRead) /\ (x \in InWrite <=> pc[p] \in InWrite)
  BY <1>1 DEF PC, InRead, InWrite, Dozing
<1> HIDE DEF x
<1> USE <1>1, <1>2
<1>3. TypeOK'
  <2>1. pc' \in [Proc -> PC] BY DEF TypeOK
  <2> QED BY <2>1 DEF TypeOK
<1>4. CallInv' BY DEF CallInv, CallOk, TypeOK, At, InRead, InWrite, InShut
<1>5. FileInv' BY DEF FileInv, TypeOK
<1>6. UniqueInv' /\ EndInv' BY EndsKept
<1>7. RefInv'
  <2>1. \A r \in Proc : pc'[r] \in InHand <=> pc[r] \in InHand BY DEF InHand, TypeOK
  <2>2. \A f \in File : Opens(f)' = Opens(f) /\ Hands(f)' = Hands(f) BY <2>1 DEF Opens, Hands
  <2> QED BY <2>2, CountKept
<1>8. RingInv' BY RingKept
<1>9. SleeperBlocked' BY DEF SleeperBlocked, At, Held, PipeOf, TypeOK
<1> QED BY <1>3, <1>4, <1>5, <1>6, <1>7, <1>8, <1>9

LEMMA StepInv == IndInv /\ [Next]_vars => IndInv'
<1> SUFFICES ASSUME IndInv, [Next]_vars PROVE IndInv'
  OBVIOUS
<1>1. CASE UNCHANGED vars
  <2> USE <1>1 DEF vars, fileVars, pipeVars, callVars, IndInv
  <2>1. TypeOK' BY DEF TypeOK
  <2>2. CallInv' BY DEF CallInv, CallOk, At
  <2>3. FileInv' BY DEF FileInv
  <2>4. UniqueInv' /\ EndInv' BY EndsKept
  <2>5. RefInv'
    <3>1. \A f \in File : Opens(f)' = Opens(f) /\ Hands(f)' = Hands(f) BY DEF Opens, Hands
    <3> QED BY <3>1, CountKept
  <2>6. RingInv' BY RingKept
  <2>7. SleeperBlocked' BY DEF SleeperBlocked, At, Held, PipeOf
  <2> QED BY <2>1, <2>2, <2>3, <2>4, <2>5, <2>6, <2>7
<1>2. CASE Next
  <2> PICK p \in Proc : \/ Calls(p) \/ Exit(p) \/ ExitNext(p) \/ Kill(p)
                        \/ PipeSecond(p) \/ PipeNoMemory(p) \/ \E q \in Page : PipeMade(p, q)
                        \/ FileClose(p) \/ Closed(p) \/ PipeClose(p)
                        \/ PipeWrite(p) \/ PipeRead(p) \/ Sleep(p)
    BY <1>2 DEF Next
  <2>1. CASE Calls(p)
    <3>1. CASE PipeBegin(p) BY <3>1, PipeBeginInv
    <3>2. CASE \E child \in Proc : Fork(p, child) BY <3>2, ForkInv
    <3>3. ASSUME NEW fd \in Fd, Dup(p, fd) PROVE IndInv' BY <3>3, DupInv
    <3>4. ASSUME NEW fd \in Fd, Close(p, fd) PROVE IndInv' BY <3>4, CloseInv
    <3>5. ASSUME NEW fd \in Fd, NEW n \in 1 .. PIPESIZE, Read(p, fd, n) PROVE IndInv'
      <4>1. n \in Nat BY PipeAssumption
      <4> QED BY <3>5, <4>1, ReadInv
    <3>6. ASSUME NEW fd \in Fd, NEW s \in Payload, Write(p, fd, s) PROVE IndInv' BY <3>6, WriteInv
    <3> QED BY <2>1, <3>1, <3>2, <3>3, <3>4, <3>5, <3>6 DEF Calls
  <2>2. CASE Exit(p) BY <2>2, ExitInv
  <2>3. CASE ExitNext(p) BY <2>3, ExitNextInv
  <2>4. CASE Kill(p) BY <2>4, KillInv
  <2>5. CASE PipeSecond(p) BY <2>5, PipeSecondInv
  <2>6. CASE PipeNoMemory(p) BY <2>6, PipeNoMemoryInv
  <2>7. CASE \E q \in Page : PipeMade(p, q) BY <2>7, PipeMadeInv
  <2>8. CASE FileClose(p) BY <2>8, FileCloseInv
  <2>9. CASE Closed(p) BY <2>9, ClosedInv
  <2>10. CASE PipeClose(p) BY <2>10, PipeCloseInv
  <2>11. CASE PipeWrite(p) BY <2>11, PipeWriteInv
  <2>12. CASE PipeRead(p) BY <2>12, PipeReadInv
  <2>13. CASE Sleep(p) BY <2>13, SleepInv
  <2> QED BY <2>1, <2>2, <2>3, <2>4, <2>5, <2>6, <2>7, <2>8, <2>9, <2>10, <2>11, <2>12, <2>13
<1> QED BY <1>1, <1>2

\* The inductive invariant of pipe(), dup(), close(), fork(), exit(), kill(), read() and
\* write(): the position of each process, the files it has in hand, the ends each pipe has and
\* who keeps them open hold together at every step.
THEOREM InductiveInvariant == Spec => []IndInv
<1>1. Init => IndInv BY InitInv
<1>2. IndInv /\ [Next]_vars => IndInv' BY StepInv
<1> QED BY <1>1, <1>2, PTL DEF Spec

\* Every variable keeps its type: no call takes a file, a page or a counter out of range.
THEOREM TypeCorrect == Spec => []TypeOK
<1>1. IndInv => TypeOK BY DEF IndInv
<1> QED BY <1>1, InductiveInvariant, PTL

\* ref of every struct file is the number of descriptors and pending closes that have it,
\* and readopen and writeopen of a pipe say exactly whether a file for that end, or a
\* pipeclose() of it, is left: filedup(), fileclose() and pipeclose() never lose count.
THEOREM EndsCountedHolds == Spec => []EndsCounted
<1>1. IndInv => EndsCounted
  <2> SUFFICES ASSUME IndInv PROVE EndsCounted
    OBVIOUS
  <2>1. \A f \in File : ref[f] = Holders(f) BY DEF IndInv, RefInv
  <2>2. ASSUME NEW q \in Page, NEW w \in BOOLEAN
        PROVE  (used[q] /\ IF w THEN writeopen[q] ELSE readopen[q]) <=>
                 \/ \E f \in File : ref[f] > 0 /\ type[f] = "FD_PIPE" /\ pipe[f] = q /\ writable[f] = w
                 \/ \E p \in Proc : shut[p] = [pipe |-> q, writable |-> w]
    <3>1. \A f \in File : type[f] = "FD_PIPE" => ref[f] > 0 BY DEF IndInv, TypeOK, FileInv
    <3>2. IsOpen(q, w) <=> \/ \E f \in File : IsEnd(f, q, w)
                           \/ \E p \in Proc : Shuts(p, q, w)
      BY DEF IndInv, EndInv
    <3> QED BY <3>1, <3>2, Zenon DEF IsOpen, IsEnd, Shuts
  <2> QED BY <2>1, <2>2, Zenon DEF EndsCounted
<1> QED BY <1>1, InductiveInvariant, PTL

\* Nobody sleeps, or is about to, in pipewrite() on a pipe with room or without a reader,
\* nor in piperead() on one without a writer: the wakeup()s of piperead() and of pipeclose()
\* come neither too early nor not at all.
THEOREM SleeperBlockedHolds == Spec => []SleeperBlocked
<1>1. IndInv => SleeperBlocked BY DEF IndInv
<1> QED BY <1>1, InductiveInvariant, PTL

\* What OnlyKillLosesWakeups says of one process, and a sleeper that a step leaves alone.
LossOk(p) ==
    /\ ~Unread(p) /\ Unread(p)' =>
          \E r \in Proc : /\ At(r, "write") /\ killed[r] /\ PipeOf(r) = PipeOf(p)
                          /\ At(r, "user")'
    /\ ~KilledAsleep(p) /\ KilledAsleep(p)' => pc[p] \in Dozing /\ killed[p]
    /\ pc[p] \notin Dozing /\ pc'[p] \in Dozing => ~killed[p]
Steady(p) == /\ pc'[p] = pc[p]
             /\ pc[p] = "rsleep" /\ Held(PipeOf(p))' > 0 => Held(PipeOf(p)) > 0
             /\ pc[p] \in {"rsleep", "wsleep"} => killed'[p] = killed[p]

LEMMA SteadyLoss ==
    ASSUME NEW p \in Proc, pc'[p] \notin Waiting \/ Steady(p)
    PROVE  LossOk(p)
<1>1. CASE pc'[p] \notin Waiting BY <1>1 DEF LossOk, Unread, KilledAsleep, At, Waiting, Dozing
<1>2. CASE Steady(p) BY <1>2 DEF Steady, LossOk, Unread, KilledAsleep, At
<1> QED BY <1>1, <1>2

\* One process is moved to where nobody waits, and the pipes and calls of the others stay.
LEMMA MoveLoss ==
    ASSUME IndInv, NEW p \in Proc, NEW x, x \notin Waiting, pc' = [pc EXCEPT ![p] = x],
           \A r \in Proc \ {p} : arg'[r] = arg[r] /\ killed'[r] = killed[r],
           UNCHANGED <<pipe, nread, nwrite>>, NEW r \in Proc
    PROVE  LossOk(r)
<1>1. pc \in [Proc -> PC] BY DEF IndInv, TypeOK
<1>2. CASE r = p
  <2>1. pc'[r] \notin Waiting BY <1>1, <1>2
  <2> QED BY <2>1, SteadyLoss
<1>3. CASE r # p
  <2>1. pc'[r] = pc[r] /\ arg'[r] = arg[r] /\ killed'[r] = killed[r] BY <1>1, <1>3
  <2>2. Held(PipeOf(r))' = Held(PipeOf(r)) BY <2>1 DEF Held, PipeOf
  <2>3. Steady(r) BY <2>1, <2>2 DEF Steady
  <2> QED BY <2>3, SteadyLoss
<1> QED BY <1>2, <1>3

\* Steps that leave where everybody is, or put a process where nobody waits.
LEMMA CallLoss ==
    ASSUME IndInv, NEW p \in Proc, Calls(p), NEW r \in Proc
    PROVE  LossOk(r)
<1>1. pc \in [Proc -> PC] /\ arg \in [Proc -> Seq(File)] BY DEF IndInv, TypeOK
<1>2. CASE PipeBegin(p)
  <2>1. pc' = [pc EXCEPT ![p] = "pipe1"] /\ UNCHANGED <<pipe, nread, nwrite, killed>>
        /\ \A s \in Proc \ {p} : arg'[s] = arg[s]
    BY <1>1, <1>2 DEF PipeBegin, Goto, pipeVars
  <2> QED BY <2>1, MoveLoss DEF Waiting
<1>3. ASSUME NEW child \in Proc, Fork(p, child) PROVE LossOk(r)
  <2>1. pc' = [pc EXCEPT ![child] = "user"] /\ UNCHANGED <<pipe, nread, nwrite, killed, arg>>
    BY <1>3 DEF Fork, pipeVars, callVars
  <2> QED BY <2>1, MoveLoss DEF Waiting
<1>4. ASSUME NEW fd \in Fd, Dup(p, fd) PROVE LossOk(r)
  <2>1. UNCHANGED <<pc, pipe, nread, nwrite, killed, arg>> BY <1>4 DEF Dup, pipeVars, callVars
  <2>2. Steady(r) BY <2>1 DEF Steady, Held, PipeOf
  <2> QED BY <2>2, SteadyLoss
<1>5. ASSUME NEW fd \in Fd, Close(p, fd) PROVE LossOk(r)
  <2>1. pc' = [pc EXCEPT ![p] = "close"] /\ UNCHANGED <<pipe, nread, nwrite, killed>>
        /\ \A s \in Proc \ {p} : arg'[s] = arg[s]
    BY <1>1, <1>5 DEF Close, Goto, pipeVars, fileVars
  <2> QED BY <2>1, MoveLoss DEF Waiting
<1>6. ASSUME NEW fd \in Fd, NEW n \in 1 .. PIPESIZE, Read(p, fd, n) PROVE LossOk(r)
  <2>1. pc' = [pc EXCEPT ![p] = "read"] /\ UNCHANGED <<pipe, nread, nwrite, killed>>
        /\ \A s \in Proc \ {p} : arg'[s] = arg[s]
    BY <1>1, <1>6 DEF Read, Goto, pipeVars, fileVars
  <2> QED BY <2>1, MoveLoss DEF Waiting
<1>7. ASSUME NEW fd \in Fd, NEW s \in Payload, Write(p, fd, s) PROVE LossOk(r)
  <2>1. pc' = [pc EXCEPT ![p] = "write"] /\ UNCHANGED <<pipe, nread, nwrite, killed>>
        /\ \A t \in Proc \ {p} : arg'[t] = arg[t]
    BY <1>1, <1>7 DEF Write, Goto, pipeVars, fileVars
  <2> QED BY <2>1, MoveLoss DEF Waiting
<1> QED BY <1>2, <1>3, <1>4, <1>5, <1>6, <1>7 DEF Calls

LEMMA CloseFileLoss ==
    ASSUME IndInv, NEW p \in Proc, NEW r \in Proc,
           Exit(p) \/ ExitNext(p) \/ PipeSecond(p) \/ PipeNoMemory(p) \/ FileClose(p) \/ Closed(p)
    PROVE  LossOk(r)
<1>1. pc \in [Proc -> PC] /\ arg \in [Proc -> Seq(File)] BY DEF IndInv, TypeOK
<1>2. UNCHANGED <<pipe, nread, nwrite, killed>> /\ \A s \in Proc \ {p} : arg'[s] = arg[s]
  <2>1. CASE Exit(p) BY <2>1 DEF Exit, fileVars, pipeVars, callVars
  <2>2. CASE ExitNext(p) BY <2>2, <1>1 DEF ExitNext, fileVars, pipeVars
  <2>3. CASE PipeSecond(p) BY <2>3, <1>1 DEF PipeSecond, pipeVars
  <2>4. CASE PipeNoMemory(p) BY <2>4 DEF PipeNoMemory, fileVars, pipeVars, callVars
  <2>5. CASE FileClose(p) BY <2>5, <1>1 DEF FileClose, pipeVars
  <2>6. CASE Closed(p) BY <2>6 DEF Closed, fileVars, pipeVars, callVars
  <2> QED BY <2>1, <2>2, <2>3, <2>4, <2>5, <2>6
<1>3. \E x \in {"close", "exit", "exit_pipeclose", "pipeclose", "pipe2", "gone", "user"} :
         pc' = [pc EXCEPT ![p] = x]
  <2>1. CASE Exit(p) BY <2>1 DEF Exit, Goto
  <2>2. CASE ExitNext(p)
    <3>1. pc[p] = "exit" /\ pc' = pc BY <2>2 DEF ExitNext, At
    <3>2. pc' = [pc EXCEPT ![p] = "exit"] BY <3>1, <1>1
    <3> QED BY <3>2
  <2>3. CASE PipeSecond(p) BY <2>3 DEF PipeSecond, Goto
  <2>4. CASE PipeNoMemory(p) BY <2>4 DEF PipeNoMemory, Goto
  <2>5. CASE FileClose(p)
    <3>1. /\ pc[p] \in {"close", "exit"}
          /\ \/ pc' = [pc EXCEPT ![p] = IF At(p, "exit") THEN "exit_pipeclose" ELSE "pipeclose"]
             \/ pc' = pc
      BY <2>5 DEF FileClose, Closing, Goto
    <3>2. pc' = pc => pc' = [pc EXCEPT ![p] = pc[p]] BY <1>1
    <3>3. CASE pc' = pc
      <4>1. PICK x \in {"close", "exit"} : x = pc[p] BY <3>1
      <4> QED BY <3>2, <3>3, <4>1
    <3>4. CASE pc' # pc BY <3>1, <3>4
    <3> QED BY <3>3, <3>4
  <2>6. CASE Closed(p) BY <2>6 DEF Closed, Goto
  <2> QED BY <2>1, <2>2, <2>3, <2>4, <2>5, <2>6
<1>4. PICK x \in {"close", "exit", "exit_pipeclose", "pipeclose", "pipe2", "gone", "user"} :
         pc' = [pc EXCEPT ![p] = x]
  BY <1>3
<1>5. x \notin Waiting BY DEF Waiting
<1> QED BY <1>2, <1>4, <1>5, MoveLoss

\* kill() wakes a sleeper; one that dozes stays where it is.
LEMMA KillLoss ==
    ASSUME IndInv, NEW p \in Proc, Kill(p), NEW r \in Proc
    PROVE  LossOk(r)
<1>1. pc \in [Proc -> PC] /\ killed \in [Proc -> BOOLEAN] BY DEF IndInv, TypeOK
<1>2. UNCHANGED <<pipe, nread, nwrite, arg>> /\ killed' = [killed EXCEPT ![p] = TRUE]
  BY DEF Kill, fileVars, pipeVars, callVars
<1>3. pc' = [pc EXCEPT ![p] = IF pc[p] = "rsleep" THEN "read" ELSE IF pc[p] = "wsleep" THEN "write" ELSE pc[p]]
  BY <1>1 DEF Kill
<1>4. CASE r = p
  <2>1. pc'[r] \notin Waiting \/ (pc'[r] = pc[r] /\ pc[r] \notin {"rsleep", "wsleep"})
    BY <1>1, <1>3, <1>4 DEF Waiting
  <2> QED BY <2>1, SteadyLoss DEF Steady
<1>5. CASE r # p
  <2>1. pc'[r] = pc[r] /\ killed'[r] = killed[r] BY <1>1, <1>2, <1>3, <1>5
  <2>2. Steady(r) BY <2>1, <1>2 DEF Steady, Held, PipeOf
  <2> QED BY <2>2, SteadyLoss
<1> QED BY <1>4, <1>5

\* Who falls asleep in piperead() has kept the pipe locked, and empty.
LEMMA SleepLoss ==
    ASSUME IndInv, NEW p \in Proc, Sleep(p), NEW r \in Proc
    PROVE  LossOk(r)
<1>1. pc \in [Proc -> PC] BY DEF IndInv, TypeOK
<1>2. /\ pc[p] \in {"rdoze", "wdoze"} /\ UNCHANGED <<pipe, nread, nwrite, arg, killed>>
      /\ pc' = [pc EXCEPT ![p] = IF pc[p] = "rdoze" THEN "rsleep" ELSE "wsleep"]
  BY DEF Sleep, Dozing, At, Goto, fileVars, pipeVars, callVars
<1>3. CASE r = p
  <2>1. ~Unread(r)'
    <3>1. pc'[r] = "rsleep" => pc[r] = "rdoze" BY <1>1, <1>2, <1>3
    <3>2. pc[r] = "rdoze" => Held(PipeOf(r)) = 0 BY DEF IndInv, SleeperBlocked, At
    <3>3. Held(PipeOf(r))' = Held(PipeOf(r)) BY <1>2 DEF Held, PipeOf
    <3>4. ~(0 > 0) OBVIOUS
    <3> QED BY <3>1, <3>2, <3>3, <3>4 DEF Unread, At
  <2>2. KilledAsleep(r)' => pc[r] \in Dozing /\ killed[r] BY <1>2, <1>3 DEF KilledAsleep, Dozing
  <2>3. pc'[r] \notin Dozing BY <1>1, <1>2, <1>3 DEF Dozing
  <2> QED BY <2>1, <2>2, <2>3 DEF LossOk
<1>4. CASE r # p
  <2>1. pc'[r] = pc[r] BY <1>1, <1>2, <1>4
  <2>2. Steady(r) BY <2>1, <1>2 DEF Steady, Held, PipeOf
  <2> QED BY <2>2, SteadyLoss
<1> QED BY <1>3, <1>4

\* What a reader that sleeps has open, and that nobody is making its pipe.
LEMMA SleeperEnd ==
    ASSUME IndInv, NEW r \in Proc, pc[r] = "rsleep"
    PROVE  /\ Head(arg[r]) \in File /\ type[Head(arg[r])] = "FD_PIPE"
           /\ PipeOf(r) \in Page /\ used[PipeOf(r)]
<1>1. pc[r] \in InRead \cup InWrite BY DEF InRead
<1>2. PICK f \in File : Head(arg[r]) = f /\ pipe[f] \in Page
                       /\ IsEnd(f, pipe[f], pc[r] \in InWrite) /\ IsOpen(pipe[f], pc[r] \in InWrite)
  BY <1>1, CallerEnd
<1> QED BY <1>2 DEF IsEnd, IsOpen, PipeOf

LEMMA MadeLoss ==
    ASSUME IndInv, NEW p \in Proc, NEW q \in Page, PipeMade(p, q), NEW r \in Proc
    PROVE  LossOk(r)
<1> DEFINE rf == arg[p][1]
           wf == arg[p][2]
           x == IF Cardinality(FreeFds(p)) < 2 THEN "close" ELSE "user"
<1>1. /\ pc[p] = "pipe2" /\ ~used[q]
      /\ nread' = [nread EXCEPT ![q] = 0] /\ nwrite' = [nwrite EXCEPT ![q] = 0]
      /\ pipe' = [pipe EXCEPT ![rf] = q, ![wf] = q]
      /\ pc' = [pc EXCEPT ![p] = x] /\ UNCHANGED killed
  BY DEF PipeMade, At, Goto
<1>2. \A s \in Proc \ {p} : arg'[s] = arg[s] BY DEF PipeMade, IndInv, TypeOK
<1>3. x \notin Waiting /\ pc \in [Proc -> PC] BY DEF Waiting, IndInv, TypeOK
<1> HIDE DEF x
<1>4. CASE r = p
  <2>1. pc'[r] \notin Waiting BY <1>1, <1>3, <1>4
  <2> QED BY <2>1, SteadyLoss
<1>5. CASE r # p
  <2>1. pc'[r] = pc[r] /\ arg'[r] = arg[r] BY <1>1, <1>2, <1>3, <1>5
  <2>2. ASSUME pc[r] = "rsleep" PROVE Held(PipeOf(r))' = Held(PipeOf(r))
    <3>1. PICK f \in File, q2 \in Page : Head(arg[r]) = f /\ type[f] = "FD_PIPE" /\ pipe[f] = q2 /\ used[q2]
      BY <2>2, SleeperEnd DEF PipeOf
    <3>2. f # rf /\ f # wf
      <4>1. Len(arg[p]) = 2 BY <1>1 DEF IndInv, CallInv, CallOk, At
      <4>2. type[rf] = "FD_NONE" /\ type[wf] = "FD_NONE" BY <1>1, <4>1 DEF IndInv, FileInv
      <4> QED BY <3>1, <4>2
    <3>3. pipe'[f] = q2
      <4>1. pipe \in [File -> Page \cup {NoPage}] BY DEF IndInv, TypeOK
      <4> QED BY <3>1, <3>2, <4>1, <1>1
    <3>4. q2 # q BY <3>1, <1>1
    <3>5. nread'[q2] = nread[q2] /\ nwrite'[q2] = nwrite[q2] BY <3>4, <1>1 DEF IndInv, TypeOK
    <3>6. PipeOf(r) = q2 /\ PipeOf(r)' = q2 BY <3>1, <3>3, <2>1 DEF PipeOf
    <3> QED BY <3>5, <3>6 DEF Held
  <2>3. Steady(r) BY <2>1, <2>2, <1>1 DEF Steady
  <2> QED BY <2>3, SteadyLoss
<1> QED BY <1>4, <1>5

\* The last pipeclose() empties its pipe, and nobody else's.
LEMMA ShutLoss ==
    ASSUME IndInv, NEW p \in Proc, PipeClose(p), NEW r \in Proc
    PROVE  LossOk(r)
<1> DEFINE x == IF At(p, "pipeclose") THEN "close" ELSE "exit"
<1>1. PICK q \in Page, w \in BOOLEAN : shut[p] = [pipe |-> q, writable |-> w] /\ shut[p].pipe = q /\ shut[p].writable = w
  BY DEF PipeClose, InShut, IndInv, TypeOK, CallInv, CallOk
<1>2. /\ \/ nread' = [nread EXCEPT ![q] = 0] /\ nwrite' = [nwrite EXCEPT ![q] = 0]
         \/ UNCHANGED <<nread, nwrite>>
      /\ UNCHANGED <<pipe, killed, arg>>
  BY <1>1 DEF PipeClose, fileVars
<1>3. WakeGoto(q, IF w THEN "rsleep" ELSE "wsleep", IF w THEN "read" ELSE "write", p, x)
  BY <1>1 DEF PipeClose
<1>4. x \in PC /\ x \notin Waiting BY DEF PC, Waiting
<1> HIDE DEF x
<1>5. OthersWake(p) /\ pc'[p] = x
  <2>1. CASE w
    <3>1. WakeGoto(q, "rsleep", "read", p, x) BY <2>1, <1>3
    <3> QED BY <3>1, <1>4, WakeOthers DEF IndInv
  <2>2. CASE ~w
    <3>1. WakeGoto(q, "wsleep", "write", p, x) BY <2>2, <1>3
    <3> QED BY <3>1, <1>4, WakeOthers DEF IndInv
  <2> QED BY <2>1, <2>2
<1>6. CASE pc'[r] \notin Waiting BY <1>6, SteadyLoss
<1>7. CASE pc'[r] \in Waiting
  <2>1. pc'[r] = pc[r] BY <1>4, <1>5, <1>7 DEF OthersWake, Waiting
  <2>2. ASSUME pc[r] = "rsleep", Held(PipeOf(r))' > 0 PROVE Held(PipeOf(r)) > 0
    <3>1. PICK q2 \in Page : PipeOf(r) = q2 /\ PipeOf(r)' = q2 BY <2>2, <1>2, SleeperEnd DEF PipeOf
    <3>2. Held(q2)' = 0 \/ Held(q2)' = Held(q2)
      <4>1. CASE UNCHANGED <<nread, nwrite>> \/ q2 # q BY <4>1, <1>2 DEF Held, IndInv, TypeOK
      <4>2. CASE ~(UNCHANGED <<nread, nwrite>>) /\ q2 = q
        <5>1. nread'[q2] = 0 /\ nwrite'[q2] = 0 BY <4>2, <1>2 DEF IndInv, TypeOK
        <5>2. (0 + WRAP - 0) % WRAP = 0 BY PipeAssumption
        <5> QED BY <5>1, <5>2 DEF Held
      <4> QED BY <4>1, <4>2
    <3>3. Held(PipeOf(r))' = Held(q2)' /\ Held(PipeOf(r)) = Held(q2) BY <3>1 DEF Held
    <3>4. ~(0 > 0) OBVIOUS
    <3> QED BY <3>2, <3>3, <3>4, <2>2
  <2>3. Steady(r) BY <2>1, <2>2, <1>2 DEF Steady
  <2> QED BY <2>3, SteadyLoss
<1> QED BY <1>6, <1>7

\* piperead() makes no sleeper's pipe fuller, and dozes only if it was not killed.
LEMMA ReadLoss ==
    ASSUME IndInv, NEW p \in Proc, PipeRead(p), NEW r \in Proc
    PROVE  LossOk(r)
<1>1. PICK q \in Page, n \in Nat, x \in {"user", "rdoze"} :
         /\ pc[p] = "read" /\ n <= Held(q) /\ nread'[q] = Advance(nread[q], n)
         /\ \A q2 \in Page \ {q} : nread'[q2] = nread[q2]
         /\ pc'[p] = x /\ OthersWake(p) /\ (x = "rdoze" => ~killed[p])
         /\ (x = "user" => arg' = [arg EXCEPT ![p] = <<>>]) /\ (x = "rdoze" => UNCHANGED arg)
         /\ UNCHANGED <<fileVars, nwrite, killed>>
  BY PipeReadSteps
<1>2. \A s \in Proc \ {p} : arg'[s] = arg[s] BY <1>1 DEF IndInv, TypeOK
<1>3. CASE r = p
  <2>1. pc'[r] \notin {"rsleep", "wsleep"} /\ (pc'[r] \in Dozing => ~killed[r])
    BY <1>1, <1>3 DEF Dozing
  <2> QED BY <2>1 DEF LossOk, Unread, KilledAsleep, At
<1>4. CASE r # p /\ pc'[r] \notin Waiting BY <1>4, SteadyLoss
<1>5. CASE r # p /\ pc'[r] \in Waiting
  <2>1. pc'[r] = pc[r] /\ arg'[r] = arg[r] /\ killed'[r] = killed[r]
    BY <1>1, <1>2, <1>5 DEF OthersWake, Waiting
  <2>2. ASSUME pc[r] = "rsleep", Held(PipeOf(r))' > 0 PROVE Held(PipeOf(r)) > 0
    <3>1. PICK q2 \in Page : PipeOf(r) = q2 /\ PipeOf(r)' = q2
      BY <2>1, <2>2, <1>1, SleeperEnd DEF PipeOf, fileVars
    <3>2. Held(PipeOf(r))' = Held(q2)' /\ Held(PipeOf(r)) = Held(q2) BY <3>1 DEF Held
    <3>3. CASE q2 # q
      <4>1. Held(q2)' = Held(q2) BY <3>3, <1>1 DEF Held
      <4> QED BY <4>1, <3>2, <2>2
    <3>4. CASE q2 = q
      <4>1. /\ nread[q] \in 0 .. WRAP - 1 /\ nwrite[q] \in 0 .. WRAP - 1 /\ Held(q) \in Nat
        BY HeldNat, PipeAssumption DEF IndInv
      <4>2. n <= (nwrite[q] + WRAP - nread[q]) % WRAP BY <1>1 DEF Held
      <4>3. nread'[q] = (nread[q] + n) % WRAP /\ nwrite' = nwrite BY <1>1 DEF Advance
      <4>4. Held(q)' = Held(q) - n BY <4>1, <4>2, <4>3, HeldAfterRead DEF Held
      <4> HIDE DEF Held
      <4>5. Held(q)' > 0 /\ Held(PipeOf(r)) = Held(q) BY <3>2, <3>4, <2>2
      <4>6. Held(q) > 0 BY <4>1, <4>4, <4>5
      <4> QED BY <4>5, <4>6
    <3> QED BY <3>3, <3>4
  <2>3. Steady(r) BY <2>1, <2>2 DEF Steady
  <2> QED BY <2>3, SteadyLoss
<1> QED BY <1>3, <1>4, <1>5

\* pipewrite() leaves a reader asleep on what it wrote only if it was killed and gives up.
LEMMA WriteLoss ==
    ASSUME IndInv, NEW p \in Proc, PipeWrite(p), NEW r \in Proc
    PROVE  LossOk(r)
<1>1. PICK q \in Page, n \in Nat, x \in {"user", "wdoze"} :
              /\ pc[p] = "write" /\ Head(arg[p]) = arg[p][1] /\ pipe[arg[p][1]] = q
              /\ n <= Len(rest[p]) /\ n + Held(q) <= PIPESIZE
              /\ nwrite' \in [Page -> 0 .. WRAP - 1] /\ nwrite'[q] = Advance(nwrite[q], n)
              /\ data' \in [Page -> [0 .. PIPESIZE - 1 -> Byte]]
              /\ \A q2 \in Page \ {q} : nwrite'[q2] = nwrite[q2] /\ data'[q2] = data[q2]
              /\ \A i \in 0 .. PIPESIZE - 1 :
                    LET k == (i + WRAP - nwrite[q]) % PIPESIZE
                    IN  data'[q][i] = IF k < n THEN rest[p][k + 1] ELSE data[q][i]
              /\ pc'[p] = x /\ pc' \in [Proc -> PC] /\ OthersWake(p)
              /\ x = "user" => arg' = [arg EXCEPT ![p] = <<>>]
              /\ x = "wdoze" => UNCHANGED arg /\ n + Held(q) = PIPESIZE /\ readopen[q] /\ ~killed[p]
              /\ \A t \in Proc \ {p} : pc[t] = "rsleep" /\ pipe[Head(arg[t])] = q
                                         => pc'[t] = "read" \/ killed[p] \/ ~readopen[q]
              /\ \A t \in Proc : pc[t] \in Dozing => pipe[Head(arg[t])] # q
              /\ rest' \in [Proc -> Seq(Byte)]
              /\ UNCHANGED <<fileVars, ofile, used, nread, readopen, writeopen, killed, want, shut>>
  BY PipeWriteSteps
<1>2. \A s \in Proc \ {p} : arg'[s] = arg[s] BY <1>1 DEF IndInv, TypeOK
<1>3. CASE r = p
  <2>1. pc'[r] \notin {"rsleep", "wsleep"} /\ (pc'[r] \in Dozing => ~killed[r])
    BY <1>1, <1>3 DEF Dozing
  <2> QED BY <2>1 DEF LossOk, Unread, KilledAsleep, At
<1>4. CASE r # p /\ pc'[r] \notin Waiting BY <1>4, SteadyLoss
<1>5. CASE r # p /\ pc'[r] \in Waiting
  <2>1. pc'[r] = pc[r] /\ arg'[r] = arg[r] /\ killed'[r] = killed[r]
    BY <1>1, <1>2, <1>5 DEF OthersWake, Waiting
  <2>2. CASE pc[r] = "rsleep" /\ PipeOf(r) = q
    <3>1. readopen[q]
      <4>1. pc[r] \in InRead \cup InWrite /\ pc[r] \notin InWrite BY <2>2 DEF InRead, InWrite
      <4>2. IsOpen(pipe[arg[r][1]], pc[r] \in InWrite) /\ Head(arg[r]) = arg[r][1] BY <4>1, CallerEnd
      <4> QED BY <4>1, <4>2, <2>2 DEF IsOpen, PipeOf
    <3>2. killed[p] BY <3>1, <2>1, <2>2, <1>1, <1>5 DEF PipeOf
    <3>3. pc'[p] = "user" BY <3>2, <1>1
    <3>4. At(p, "write") /\ PipeOf(p) = PipeOf(r) /\ At(p, "user")'
      BY <3>3, <2>2, <1>1 DEF At, PipeOf
    <3>5. KilledAsleep(r)' => KilledAsleep(r) BY <2>1 DEF KilledAsleep
    <3>6. pc'[r] \in Dozing => pc[r] \in Dozing BY <2>1
    <3> QED BY <3>2, <3>4, <3>5, <3>6 DEF LossOk
  <2>3. CASE ~(pc[r] = "rsleep" /\ PipeOf(r) = q)
    <3>1. ASSUME pc[r] = "rsleep" PROVE Held(PipeOf(r))' = Held(PipeOf(r))
      <4>1. PICK q2 \in Page : PipeOf(r) = q2 /\ PipeOf(r)' = q2
        BY <3>1, <2>1, <1>1, SleeperEnd DEF PipeOf, fileVars
      <4>2. q2 # q BY <4>1, <3>1, <2>3
      <4> QED BY <4>1, <4>2, <1>1 DEF Held
    <3>2. Steady(r) BY <2>1, <3>1 DEF Steady
    <3> QED BY <3>2, SteadyLoss
  <2> QED BY <2>2, <2>3
<1> QED BY <1>3, <1>4, <1>5

LEMMA StepLoss ==
    ASSUME IndInv, Next, NEW r \in Proc
    PROVE  LossOk(r)
<1> PICK p \in Proc : \/ Calls(p) \/ Exit(p) \/ ExitNext(p) \/ Kill(p)
                      \/ PipeSecond(p) \/ PipeNoMemory(p) \/ \E q \in Page : PipeMade(p, q)
                      \/ FileClose(p) \/ Closed(p) \/ PipeClose(p)
                      \/ PipeWrite(p) \/ PipeRead(p) \/ Sleep(p)
  BY DEF Next
<1>1. CASE Calls(p) BY <1>1, CallLoss
<1>2. CASE Exit(p) \/ ExitNext(p) \/ PipeSecond(p) \/ PipeNoMemory(p) \/ FileClose(p) \/ Closed(p)
  BY <1>2, CloseFileLoss
<1>3. CASE Kill(p) BY <1>3, KillLoss
<1>4. CASE \E q \in Page : PipeMade(p, q) BY <1>4, MadeLoss
<1>5. CASE PipeClose(p) BY <1>5, ShutLoss
<1>6. CASE PipeWrite(p) BY <1>6, WriteLoss
<1>7. CASE PipeRead(p) BY <1>7, ReadLoss
<1>8. CASE Sleep(p) BY <1>8, SleepLoss
<1> QED BY <1>1, <1>2, <1>3, <1>4, <1>5, <1>6, <1>7, <1>8

\* For any number of readers, writers and killers of a pipe: a reader is left asleep on
\* bytes only by a writer that was killed and left its loop without the last wakeup(), and a
\* killed process sleeps only if kill() came after its test of killed, while it held the
\* pipe's lock on its way into sleep().
THEOREM OnlyKillLosesWakeupsHolds == Spec => OnlyKillLosesWakeups
<1>1. IndInv /\ [Next]_vars => [\A p \in Proc : LossOk(p)]_vars BY StepLoss
<1>2. (\A p \in Proc : LossOk(p)) =>
         \A p \in Proc :
          /\ ~Unread(p) /\ Unread(p)' =>
                \E r \in Proc : /\ At(r, "write") /\ killed[r] /\ PipeOf(r) = PipeOf(p)
                                /\ At(r, "user")'
          /\ ~KilledAsleep(p) /\ KilledAsleep(p)' => pc[p] \in Dozing /\ killed[p]
          /\ pc[p] \notin Dozing /\ pc'[p] \in Dozing => ~killed[p]
  BY DEF LossOk
<1> QED BY <1>1, <1>2, InductiveInvariant, PTL DEF Spec, OnlyKillLosesWakeups
-----------------------------------------------------------------------------
\* Each pipe is a byte stream.
LEMMA SmallMultiple == ASSUME NEW P \in Nat, P > 0, NEW d \in Int, -P < P * d, P * d < P PROVE d = 0
<1>1. CASE d >= 1
  <2>1. P * d >= P BY <1>1
  <2> QED BY <2>1
<1>2. CASE d <= -1
  <2>1. P * d <= -P BY <1>2
  <2> QED BY <2>1
<1> QED BY <1>1, <1>2

LEMMA ModUnique == ASSUME NEW P \in Nat, P > 0, NEW k \in Int, NEW r \in 0 .. P - 1
  PROVE ((P * k) + r) % P = r
<1> DEFINE a == (P * k) + r
           d == a \div P
<1>1. a \in Int /\ d \in Int /\ a = (P * d) + (a % P) /\ (a % P) \in 0 .. P - 1 OBVIOUS
<1>2. PICK m \in 0 .. P - 1 : m = a % P BY <1>1
<1>3. (P * k) + r = (P * d) + m BY <1>1, <1>2
<1> HIDE DEF d, a
<1>4. P * (k - d) = m - r BY <1>1, <1>2, <1>3
<1>5. k - d = 0 BY <1>1, <1>4, SmallMultiple
<1>6. m = r BY <1>1, <1>4, <1>5
<1> QED BY <1>2, <1>6 DEF a

LEMMA Concatenation ==
  \A s, t \in Seq(Byte) :
     s \o t = [i \in 1 .. Len(s) + Len(t) |-> IF i <= Len(s) THEN s[i] ELSE t[i - Len(s)]]
<1> TAKE s, t \in Seq(Byte)
<1> DEFINE u == s \o t
<1>1. u \in Seq(Byte) /\ Len(u) = Len(s) + Len(t) OBVIOUS
<1>2. \A i \in 1 .. Len(s) + Len(t) : u[i] = IF i <= Len(s) THEN s[i] ELSE t[i - Len(s)] OBVIOUS
<1>3. Len(u) \in Nat /\ u = [i \in 1 .. Len(u) |-> u[i]]
  <2>1. \A v \in Seq(Byte) : Len(v) \in Nat /\ v = [i \in 1 .. Len(v) |-> v[i]] OBVIOUS
  <2> QED BY <2>1, <1>1, Zenon
<1> HIDE DEF u
<1>4. u = [i \in 1 .. Len(s) + Len(t) |-> u[i]] BY <1>1, <1>3
<1>5. u = [i \in 1 .. Len(s) + Len(t) |-> IF i <= Len(s) THEN s[i] ELSE t[i - Len(s)]] BY <1>2, <1>4
<1> QED BY <1>5 DEF u

LEMMA Wraps == \E M \in Nat : WRAP = PIPESIZE * M
<1>1. PICK M \in Int, r \in Nat : M = WRAP \div PIPESIZE /\ r = WRAP % PIPESIZE
  BY PipeAssumption
<1>2. M \in Nat /\ WRAP = (PIPESIZE * M) + r BY <1>1, PipeAssumption
<1>3. r = 0 BY <1>1, PipeAssumption
<1>4. PIPESIZE * M \in Nat BY <1>2, PipeAssumption
<1> QED BY <1>2, <1>3, <1>4


LEMMA WrapKeepsIndex ==
  ASSUME NEW P \in Nat, P > 0, NEW M \in Nat, NEW x \in Int, NEW e \in {0, 1}
  PROVE  (x - (e * (P * M))) % P = x % P
<1>1. PICK a \in Int, d \in 0 .. P - 1 : x % P = d /\ x = (P * a) + d
  <2>2. (x \div P) \in Int /\ (x % P) \in 0 .. P - 1 /\ x = (P * (x \div P)) + (x % P) OBVIOUS
  <2> QED BY <2>2
<1>2. a - e * M \in Int /\ (x - (e * (P * M))) = (P * (a - e * M)) + d BY <1>1
<1> QED BY <1>1, <1>2, ModUnique

LEMMA WrapIndex ==
    ASSUME NEW x \in Int, NEW e \in {0, 1}
    PROVE  (x - (e * WRAP)) % PIPESIZE = x % PIPESIZE
<1>1. PICK M \in Nat : WRAP = PIPESIZE * M BY Wraps
<1>2. PIPESIZE \in Nat /\ PIPESIZE > 0 BY PipeAssumption
<1>3. (x - (e * (PIPESIZE * M))) % PIPESIZE = x % PIPESIZE BY <1>2, WrapKeepsIndex, Zenon
<1> QED BY <1>1, <1>3, Zenon

\* Where byte i of a pipe lies in the ring, counted from where the next byte is written.
LEMMA WriteIndex ==
    ASSUME NEW r \in Nat, NEW h \in 0 .. PIPESIZE, NEW e \in {0, 1}, NEW i \in 1 .. PIPESIZE
    PROVE  (((r + i - 1) % PIPESIZE) + WRAP - (r + h - (e * WRAP))) % PIPESIZE
              = (IF i <= h THEN PIPESIZE + i - 1 - h ELSE i - 1 - h)
<1>0. PICK P \in Nat, M \in Nat : P = PIPESIZE /\ P > 0 /\ WRAP = P * M
  <2>1. PIPESIZE \in Nat /\ PIPESIZE > 0 BY PipeAssumption
  <2> QED BY <2>1, Wraps, Zenon
<1>1. PICK a \in Int, d \in 0 .. P - 1 : (r + i - 1) % P = d /\ r + i - 1 = (P * a) + d
  <2>1. (r + i - 1) \in Int OBVIOUS
  <2>2. P \in Nat /\ P > 0 BY <1>0
  <2>3. \A x \in Int : (x \div P) \in Int /\ (x % P) \in 0 .. P - 1 /\ x = (P * (x \div P)) + (x % P) BY <2>2
  <2> QED BY <2>1, <2>3
<1>2. ASSUME NEW b \in Int PROVE d + P * M - (r + h - (e * (P * M))) = (P * ((M + e * M - a) - b)) + (P * b + i - 1 - h)
  <2>1. CASE e = 0 BY <2>1, <1>1
  <2>2. CASE e = 1 BY <2>2, <1>1
  <2> QED BY <2>1, <2>2
<1> DEFINE b == IF i <= h THEN 1 ELSE 0
           m == (M + e * M - a) - b
           z == P * b + i - 1 - h
<1>3. b \in Int /\ m \in Int /\ z \in 0 .. P - 1 /\ z = IF i <= h THEN P + i - 1 - h ELSE i - 1 - h BY <1>0
<1>4. d + P * M - (r + h - (e * (P * M))) = (P * m) + z BY <1>2, <1>3
<1> HIDE DEF m, z, b
<1>5. ((P * m) + z) % P = z BY <1>0, <1>3, ModUnique
<1> QED BY <1>0, <1>1, <1>3, <1>4, <1>5

LEMMA ContentsSeq ==
    ASSUME IndInv, NEW q \in Page
    PROVE  /\ Contents(q) \in Seq(Byte)
           /\ used[q] => /\ Len(Contents(q)) = Held(q)
                         /\ \A i \in 1 .. Held(q) : Contents(q)[i] = data[q][(nread[q] + i - 1) % PIPESIZE]
<1> DEFINE s == [i \in 1 .. Held(q) |-> data[q][(nread[q] + i - 1) % PIPESIZE]]
<1>1. Held(q) \in Nat /\ nread[q] \in Nat BY HeldNat, PipeAssumption DEF IndInv
<1>2. \A i \in 1 .. Held(q) : data[q][(nread[q] + i - 1) % PIPESIZE] \in Byte
  <2>1. \A i \in 1 .. Held(q) : (nread[q] + i - 1) % PIPESIZE \in 0 .. PIPESIZE - 1
    BY <1>1, PipeAssumption
  <2>2. \A i \in 0 .. PIPESIZE - 1 : data[q][i] \in Byte BY DEF IndInv, TypeOK
  <2> QED BY <2>1, <2>2
<1>3. s \in Seq(Byte) /\ Len(s) = Held(q) BY <1>1, <1>2
<1>4. <<>> \in Seq(Byte) OBVIOUS
<1>5. CASE used[q]
  <2>1. Contents(q) = s BY <1>5 DEF Contents
  <2> QED BY <2>1, <1>3
<1>6. CASE ~used[q] BY <1>4, <1>6 DEF Contents
<1> QED BY <1>5, <1>6

\* The write counter of a pipe, from its read counter and what it holds.
LEMMA Counters ==
    ASSUME IndInv, NEW q \in Page
    PROVE  \E e \in {0, 1} : nwrite[q] = nread[q] + Held(q) - (e * WRAP)
<1>1. nread[q] \in 0 .. WRAP - 1 /\ nwrite[q] \in 0 .. WRAP - 1 BY HeldNat DEF IndInv
<1>2. Held(q) = IF nread[q] <= nwrite[q] THEN nwrite[q] - nread[q] ELSE nwrite[q] + WRAP - nread[q]
  BY <1>1, HeldRange DEF Held
<1>3. WRAP \in Nat BY PipeAssumption
<1>4. CASE nread[q] <= nwrite[q]
  <2>1. nwrite[q] = nread[q] + Held(q) - (0 * WRAP) BY <1>1, <1>2, <1>3, <1>4
  <2> QED BY <2>1
<1>5. CASE ~(nread[q] <= nwrite[q])
  <2>1. nwrite[q] = nread[q] + Held(q) - (1 * WRAP) BY <1>1, <1>2, <1>3, <1>5
  <2> QED BY <2>1
<1> QED BY <1>4, <1>5

\* A pipe whose counters, page and bytes stay is the same stream.
LEMMA StreamKept ==
    ASSUME NEW q \in Page, used'[q] = used[q], nread'[q] = nread[q], nwrite'[q] = nwrite[q],
           data'[q] = data[q]
    PROVE  UNCHANGED <<used[q], Contents(q)>>
  BY DEF Contents, Held

\* piperead() takes the oldest bytes, or none.
LEMMA ReadStream ==
    ASSUME IndInv, NEW p \in Proc, PipeRead(p), NEW qq \in Page
    PROVE  UNCHANGED <<used[qq], Contents(qq)>> \/ Stream(qq)!Next
<1>1. PICK q \in Page, n \in Nat :
         /\ pc[p] = "read" /\ pipe[arg[p][1]] = q
         /\ n <= Held(q) /\ nread'[q] = Advance(nread[q], n)
         /\ \A q2 \in Page \ {q} : nread'[q2] = nread[q2]
         /\ UNCHANGED <<used, data, nwrite>>
  BY PipeReadSteps
<1>2. CASE qq # q BY <1>1, <1>2, StreamKept
<1>3. CASE qq = q /\ ~used[q] BY <1>1, <1>3 DEF Contents
<1>4. CASE qq = q /\ used[q]
  <2> DEFINE s == Contents(q)
             h == Held(q)
             t == [i \in 1 .. h - n |-> data[q][(nread'[q] + i - 1) % PIPESIZE]]
  <2>1. /\ s \in Seq(Byte) /\ Len(s) = h
        /\ \A i \in 1 .. h : s[i] = data[q][(nread[q] + i - 1) % PIPESIZE]
    BY <1>4, ContentsSeq
  <2>2. h \in 0 .. WRAP - 1 /\ nread[q] \in 0 .. WRAP - 1 /\ nwrite[q] \in 0 .. WRAP - 1
    BY HeldNat DEF IndInv
  <2>3. h \in Nat /\ n <= h /\ n < WRAP BY <1>1, <2>2, PipeAssumption
  <2>4. Held(q)' = h - n
    <3>1. n <= (nwrite[q] + WRAP - nread[q]) % WRAP BY <1>1 DEF Held
    <3>2. nread'[q] = (nread[q] + n) % WRAP /\ nwrite' = nwrite BY <1>1 DEF Advance
    <3> QED BY <2>2, <3>1, <3>2, HeldAfterRead DEF Held
  <2>5. Contents(q)' = t BY <2>4, <1>1, <1>4 DEF Contents
  <2>6. PICK e \in {0, 1} : nread'[q] = nread[q] + n - (e * WRAP)
    <3>1. nread'[q] = IF nread[q] + n < WRAP THEN nread[q] + n ELSE nread[q] + n - WRAP
      BY <1>1, <2>2, <2>3, AdvanceRange DEF Advance
    <3>2. CASE nread[q] + n < WRAP
      <4>1. 0 * WRAP = 0 BY PipeAssumption
      <4>2. nread'[q] = nread[q] + n - 0 BY <3>1, <3>2, <2>2, PipeAssumption
      <4>3. nread'[q] = nread[q] + n - (0 * WRAP) BY ONLY <4>1, <4>2, Zenon
      <4> QED BY <4>3
    <3>3. CASE ~(nread[q] + n < WRAP)
      <4>1. 1 * WRAP = WRAP BY PipeAssumption
      <4>2. nread'[q] = nread[q] + n - WRAP BY <3>1, <3>3, Zenon
      <4>3. nread'[q] = nread[q] + n - (1 * WRAP) BY ONLY <4>1, <4>2, Zenon
      <4> QED BY <4>3
    <3> QED BY <3>2, <3>3
  <2>7. \A i \in 1 .. h - n : (nread'[q] + i - 1) % PIPESIZE = (nread[q] + (i + n) - 1) % PIPESIZE
    <3> SUFFICES ASSUME NEW i \in 1 .. h - n
                 PROVE  (nread'[q] + i - 1) % PIPESIZE = (nread[q] + (i + n) - 1) % PIPESIZE
      OBVIOUS
    <3>1. PICK x \in Int : x = nread[q] + (i + n) - 1 BY <2>2, <2>3, PipeAssumption
    <3>2. nread'[q] + i - 1 = x - (e * WRAP)
      <4>1. e * WRAP \in Int BY PipeAssumption
      <4>2. PICK m \in Int : m = e * WRAP BY <4>1
      <4>3. PICK k \in Int : k = nread[q] BY <2>2, PipeAssumption
      <4>4. nread'[q] = k + n - m /\ x = k + (i + n) - 1 BY <2>6, <3>1, <4>2, <4>3
      <4>5. i \in Int BY <2>3
      <4>6. nread'[q] + i - 1 = x - m BY ONLY <4>4, <4>5, <3>1, n \in Nat, m \in Int, k \in Int
      <4> QED BY <4>2, <4>6
    <3>3. (x - (e * WRAP)) % PIPESIZE = x % PIPESIZE BY WrapIndex
    <3> QED BY <3>1, <3>2, <3>3
  <2>8. \A i \in 1 .. h - n : data[q][(nread'[q] + i - 1) % PIPESIZE] = s[i + n]
    <3> SUFFICES ASSUME NEW i \in 1 .. h - n
                 PROVE  data[q][(nread'[q] + i - 1) % PIPESIZE] = s[i + n]
      OBVIOUS
    <3>1. i + n \in 1 .. h BY <2>3
    <3> HIDE DEF s, h, t
    <3> QED BY <2>1, <2>7, <3>1
  <2>9. t = [i \in 1 .. h - n |-> s[i + n]] BY <2>8
  <2>10. SubSeq(s, n + 1, Len(s)) = [i \in 1 .. Len(s) - n |-> s[i + n]]
    <3> HIDE DEF s, h, t
    <3> QED BY <2>1, <2>3
  <2>11. Contents(q)' = SubSeq(Contents(q), n + 1, Len(Contents(q))) BY <2>1, <2>5, <2>9, <2>10
  <2>12. CASE n = 0
    <3>1. t = s
      <4> HIDE DEF s, h
      <4>1. \A i \in 1 .. h : i + n = i BY <2>3, <2>12
      <4>2. h - n = h BY <2>3, <2>12
      <4>3. t = [i \in 1 .. h |-> s[i]] BY <2>9, <4>1, <4>2
      <4>4. s = [i \in 1 .. h |-> s[i]] BY <2>1
      <4> QED BY <4>3, <4>4
    <3> QED BY <3>1, <2>5, <1>1, <1>4
  <2>13. CASE n # 0
    <3>1. n \in 1 .. Len(Contents(q)) BY <2>1, <2>3, <2>13
    <3>2. Stream(q)!Read BY <3>1, <2>11, <1>1, <1>4 DEF Stream!Read
    <3> QED BY <3>2, <1>4 DEF Stream!Next
  <2> QED BY <2>12, <2>13
<1> QED BY <1>2, <1>3, <1>4

\* pipewrite() appends what fits of the bytes that are left, or nothing.
LEMMA WriteStream ==
    ASSUME IndInv, NEW p \in Proc, PipeWrite(p), NEW qq \in Page
    PROVE  UNCHANGED <<used[qq], Contents(qq)>> \/ Stream(qq)!Next
<1>1. PICK q \in Page, n \in Nat :
         /\ pc[p] = "write" /\ pipe[arg[p][1]] = q
         /\ n <= Len(rest[p]) /\ n + Held(q) <= PIPESIZE
         /\ nwrite'[q] = Advance(nwrite[q], n)
         /\ \A q2 \in Page \ {q} : nwrite'[q2] = nwrite[q2] /\ data'[q2] = data[q2]
         /\ \A i \in 0 .. PIPESIZE - 1 :
               LET k == (i + WRAP - nwrite[q]) % PIPESIZE
               IN  data'[q][i] = IF k < n THEN rest[p][k + 1] ELSE data[q][i]
         /\ UNCHANGED <<used, nread>>
  BY PipeWriteSteps
<1>2. CASE qq # q BY <1>1, <1>2, StreamKept
<1>3. CASE qq = q /\ ~used[q] BY <1>1, <1>3 DEF Contents
<1>4. CASE qq = q /\ used[q]
  <2> DEFINE s == Contents(q)
             h == Held(q)
             b == [i \in 1 .. n |-> rest[p][i]]
             t == [i \in 1 .. h + n |-> data'[q][(nread[q] + i - 1) % PIPESIZE]]
  <2>1. /\ s \in Seq(Byte) /\ Len(s) = h
        /\ \A i \in 1 .. h : s[i] = data[q][(nread[q] + i - 1) % PIPESIZE]
    BY <1>4, ContentsSeq
  <2>2. h \in 0 .. WRAP - 1 /\ nread[q] \in 0 .. WRAP - 1 /\ nwrite[q] \in 0 .. WRAP - 1
    BY HeldNat DEF IndInv
  <2>3. h \in Nat /\ n + h <= PIPESIZE /\ n + h < WRAP BY <1>1, <2>2, PipeAssumption
  <2>4. Held(q)' = h + n
    <3>1. ((nwrite[q] + WRAP - nread[q]) % WRAP) + n < WRAP BY <2>3 DEF Held
    <3>2. nwrite'[q] = (nwrite[q] + n) % WRAP /\ nread' = nread BY <1>1 DEF Advance
    <3> QED BY <2>2, <3>1, <3>2, HeldAfterWrite DEF Held
  <2>5. Contents(q)' = t BY <2>4, <1>1, <1>4 DEF Contents
  <2>6. b \in [1 .. n -> Byte] /\ b \in Seq(Byte) /\ Len(b) = n
    <3>1. rest[p] \in Seq(Byte) BY DEF IndInv, TypeOK
    <3>2. \A i \in 1 .. n : rest[p][i] \in Byte BY <3>1, <1>1
    <3> QED BY <3>2
  <2>7. \A i \in 1 .. h + n :
           t[i] = IF i <= h THEN s[i] ELSE b[i - h]
    <3> SUFFICES ASSUME NEW i \in 1 .. h + n
                 PROVE  t[i] = IF i <= h THEN s[i] ELSE b[i - h]
      OBVIOUS
    <3>1. h \in 0 .. PIPESIZE /\ i \in 1 .. PIPESIZE
      <4> HIDE DEF h
      <4> QED BY <2>3, <1>1, PipeAssumption
    <3>2. PICK e \in {0, 1} : nwrite[q] = nread[q] + h - (e * WRAP) BY Counters
    <3>3. PICK r \in Nat : r = nread[q] BY <2>2, PipeAssumption
    <3>5. PICK d \in 0 .. PIPESIZE - 1 : d = (r + i - 1) % PIPESIZE BY <3>3, <3>1, PipeAssumption
    <3>6. (d + WRAP - nwrite[q]) % PIPESIZE = (IF i <= h THEN PIPESIZE + i - 1 - h ELSE i - 1 - h)
      <4> HIDE DEF h
      <4>1. (((r + i - 1) % PIPESIZE) + WRAP - (r + h - (e * WRAP))) % PIPESIZE
              = (IF i <= h THEN PIPESIZE + i - 1 - h ELSE i - 1 - h)
        BY <3>1, WriteIndex
      <4> QED BY <3>2, <3>3, <3>5, <4>1, Zenon
    <3>7. t[i] = data'[q][d] BY <3>3, <3>5
    <3>8. LET k == (d + WRAP - nwrite[q]) % PIPESIZE
          IN  data'[q][d] = IF k < n THEN rest[p][k + 1] ELSE data[q][d]
      BY <1>1
    <3>9. CASE i <= h
      <4>1. i \in 1 .. h BY <3>9, <2>3
      <4>2. s[i] = data[q][d] BY <4>1, <2>1, <3>3, <3>5
      <4>3. ~(PIPESIZE + i - 1 - h < n) BY <2>3, PipeAssumption
      <4>4. data'[q][d] = data[q][d] BY <3>6, <3>8, <3>9, <4>3
      <4> QED BY <3>7, <3>9, <4>2, <4>4
    <3>10. CASE ~(i <= h)
      <4>1. i - h \in 1 .. n /\ (i - 1 - h) + 1 = i - h /\ i - 1 - h < n BY <3>10, <2>3
      <4>2. data'[q][d] = rest[p][(i - 1 - h) + 1] BY <3>6, <3>8, <3>10, <4>1
      <4>3. b[i - h] = rest[p][i - h] BY <4>1
      <4> QED BY <3>7, <3>10, <4>1, <4>2, <4>3
    <3> QED BY <3>9, <3>10
  <2>8. t = [i \in 1 .. h + n |-> IF i <= h THEN s[i] ELSE b[i - h]]
    <3> DEFINE u == [i \in 1 .. h + n |-> t[i]]
    <3>1. t = u OBVIOUS
    <3> HIDE DEF t, s, b, h
    <3>2. u = [i \in 1 .. h + n |-> IF i <= h THEN s[i] ELSE b[i - h]] BY <2>7
    <3> QED BY <3>1, <3>2
  <2>9. s \o b = [i \in 1 .. h + n |-> IF i <= h THEN s[i] ELSE b[i - h]]
    <3>1. s \in Seq(Byte) /\ b \in Seq(Byte) /\ h = Len(s) /\ n = Len(b) BY <2>1, <2>6
    <3> HIDE DEF s, b, h
    <3> QED BY ONLY <3>1, Concatenation
  <2>10. t = s \o b BY ONLY <2>8, <2>9, Zenon
  <2> HIDE DEF t, b, h
  <2>11. CASE n = 0
    <3>1. t = s
      <4> HIDE DEF s
      <4>1. h + n = h BY <2>3, <2>11
      <4>2. t = [i \in 1 .. h |-> IF i <= h THEN s[i] ELSE b[i - h]] BY <2>8, <4>1
      <4>3. t = [i \in 1 .. h |-> s[i]] BY <4>2
      <4>4. s = [i \in 1 .. h |-> s[i]] BY <2>1
      <4> QED BY <4>3, <4>4
    <3> QED BY <3>1, <2>5, <1>1, <1>4
  <2>12. CASE n # 0
    <3>1. n \in 1 .. PIPESIZE - Len(Contents(q)) BY <2>1, <2>3, <2>12, PipeAssumption
    <3>2. Stream(q)!Write BY <3>1, <2>5, <2>6, <2>10, <1>1, <1>4 DEF Stream!Write
    <3> QED BY <3>2, <1>4 DEF Stream!Next
  <2> QED BY <2>11, <2>12
<1> QED BY <1>2, <1>3, <1>4

\* pipealloc() makes a pipe, empty; pipeclose() of the second end ends it.
LEMMA MadeStream ==
    ASSUME IndInv, NEW p \in Proc, NEW q \in Page, PipeMade(p, q), NEW qq \in Page
    PROVE  UNCHANGED <<used[qq], Contents(qq)>> \/ Stream(qq)!Next
<1>1. /\ ~used[q] /\ used' = [used EXCEPT ![q] = TRUE] /\ UNCHANGED data
      /\ nread' = [nread EXCEPT ![q] = 0] /\ nwrite' = [nwrite EXCEPT ![q] = 0]
  BY DEF PipeMade
<1>2. used \in [Page -> BOOLEAN] /\ nread \in [Page -> 0 .. WRAP - 1] /\ nwrite \in [Page -> 0 .. WRAP - 1]
  BY DEF IndInv, TypeOK
<1>3. CASE qq # q BY <1>1, <1>2, <1>3, StreamKept
<1>4. CASE qq = q
  <2>1. used'[q] /\ nread'[q] = 0 /\ nwrite'[q] = 0 BY <1>1, <1>2
  <2>2. Held(q)' = 0 BY <2>1, PipeAssumption DEF Held
  <2>3. Contents(q)' = <<>> BY <2>1, <2>2 DEF Contents
  <2> QED BY <1>1, <1>4, <2>1, <2>3 DEF Stream!Next, Stream!Create
<1> QED BY <1>3, <1>4

LEMMA CloseStream ==
    ASSUME IndInv, NEW p \in Proc, PipeClose(p), NEW qq \in Page
    PROVE  UNCHANGED <<used[qq], Contents(qq)>> \/ Stream(qq)!Next
<1>1. pc[p] \in InShut BY DEF PipeClose, InShut
<1>2. PICK q \in Page, w \in BOOLEAN : shut[p] = [pipe |-> q, writable |-> w]
  <2>1. shut[p].pipe \in Page BY <1>1 DEF IndInv, CallInv, CallOk
  <2>2. shut[p] \in [pipe : Page \cup {NoPage}, writable : BOOLEAN] BY DEF IndInv, TypeOK
  <2> QED BY <2>1, <2>2
<1>3. used[q]
  <2>1. IsOpen(q, w) BY <1>2 DEF IndInv, EndInv, Shuts
  <2> QED BY <2>1 DEF IsOpen
<1>4. /\ used \in [Page -> BOOLEAN] /\ nread \in [Page -> 0 .. WRAP - 1]
      /\ nwrite \in [Page -> 0 .. WRAP - 1] /\ data \in [Page -> [0 .. PIPESIZE - 1 -> Byte]]
  BY DEF IndInv, TypeOK
<1>5. /\ used' = [used EXCEPT ![q] = ~BothClosed(q, w)]
      /\ IF BothClosed(q, w)
         THEN /\ data' = [data EXCEPT ![q] = Filled]
              /\ nread' = [nread EXCEPT ![q] = 0] /\ nwrite' = [nwrite EXCEPT ![q] = 0]
         ELSE UNCHANGED <<data, nread, nwrite>>
  BY <1>2 DEF PipeClose
<1>6. CASE qq # q
  <2>1. used'[qq] = used[qq] BY <1>5, <1>4, <1>6
  <2>2. nread'[qq] = nread[qq] /\ nwrite'[qq] = nwrite[qq] /\ data'[qq] = data[qq] BY <1>5, <1>4, <1>6
  <2> QED BY <2>1, <2>2, StreamKept
<1>7. CASE qq = q /\ ~BothClosed(q, w)
  <2>1. used'[q] = used[q] BY <1>2, <1>3, <1>4, <1>5, <1>7
  <2> QED BY <2>1, <1>5, <1>7, StreamKept
<1>8. CASE qq = q /\ BothClosed(q, w)
  <2>1. ~used'[q] BY <1>2, <1>4, <1>5, <1>8
  <2>2. Contents(q)' = <<>> BY <2>1 DEF Contents
  <2> QED BY <2>1, <2>2, <1>3, <1>8 DEF Stream!Next, Stream!Destroy
<1> QED BY <1>6, <1>7, <1>8

LEMMA StreamStep ==
    ASSUME IndInv, [Next]_vars, NEW q \in Page
    PROVE  UNCHANGED <<used[q], Contents(q)>> \/ Stream(q)!Next
<1>1. CASE UNCHANGED vars \/ UNCHANGED pipeVars BY <1>1, StreamKept DEF vars, pipeVars
<1>2. CASE Next
  <2> PICK p \in Proc : \/ Calls(p) \/ Exit(p) \/ ExitNext(p) \/ Kill(p)
                        \/ PipeSecond(p) \/ PipeNoMemory(p) \/ \E page \in Page : PipeMade(p, page)
                        \/ FileClose(p) \/ Closed(p) \/ PipeClose(p)
                        \/ PipeWrite(p) \/ PipeRead(p) \/ Sleep(p)
    BY <1>2 DEF Next
  <2>1. CASE Calls(p)
    <3>1. CASE PipeBegin(p) BY <3>1, <1>1 DEF PipeBegin
    <3>2. CASE \E child \in Proc : Fork(p, child) BY <3>2, <1>1 DEF Fork
    <3>3. ASSUME NEW fd \in Fd, Dup(p, fd) PROVE UNCHANGED pipeVars BY <3>3 DEF Dup
    <3>4. ASSUME NEW fd \in Fd, Close(p, fd) PROVE UNCHANGED pipeVars BY <3>4 DEF Close
    <3>5. ASSUME NEW fd \in Fd, NEW n \in 1 .. PIPESIZE, Read(p, fd, n) PROVE UNCHANGED pipeVars
      BY <3>5 DEF Read
    <3>6. ASSUME NEW fd \in Fd, NEW s \in Payload, Write(p, fd, s) PROVE UNCHANGED pipeVars
      BY <3>6 DEF Write
    <3> QED BY <2>1, <1>1, <3>1, <3>2, <3>3, <3>4, <3>5, <3>6 DEF Calls
  <2>2. CASE Exit(p) \/ ExitNext(p) \/ Kill(p) BY <2>2, <1>1 DEF Exit, ExitNext, Kill
  <2>3. CASE PipeSecond(p) \/ PipeNoMemory(p) BY <2>3, <1>1 DEF PipeSecond, PipeNoMemory
  <2>4. CASE \E page \in Page : PipeMade(p, page) BY <2>4, MadeStream
  <2>5. CASE FileClose(p) \/ Closed(p) BY <2>5, <1>1 DEF FileClose, Closed
  <2>6. CASE PipeClose(p) BY <2>6, CloseStream
  <2>7. CASE PipeWrite(p) BY <2>7, WriteStream
  <2>8. CASE PipeRead(p) BY <2>8, ReadStream
  <2>9. CASE Sleep(p) BY <2>9, <1>1 DEF Sleep
  <2> QED BY <2>1, <2>2, <2>3, <2>4, <2>5, <2>6, <2>7, <2>8, <2>9
<1> QED BY <1>1, <1>2

\* Every page that is a pipe is a byte stream, whatever the readers, the writers and the
\* closers of it do and however often its counters wrap: piperead() returns the bytes
\* pipewrite() put in, in order, each once, and no step makes or drops any.
THEOREM ByteStreamImplemented == Spec => ImplementsByteStream
<1>1. Init => \A q \in Page : Stream(q)!Init
  BY DEF Init, Contents, Stream!Init
<1>2. IndInv /\ [Next]_vars
        => [\A q \in Page : UNCHANGED <<used[q], Contents(q)>> \/ Stream(q)!Next]_vars
  BY StreamStep
<1> QED BY <1>1, <1>2, InductiveInvariant, PTL DEF Spec, ImplementsByteStream
=============================================================================
