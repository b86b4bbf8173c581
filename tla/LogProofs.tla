----------------------------- MODULE LogProofs ------------------------------
(***************************************************************************)
(* Proofs about Log, for every number of processes and blocks and every    *)
(* size of the log: it implements AtomicFS, and begin_op()'s reservation    *)
(* keeps the in-memory header within its array.                            *)
(***************************************************************************)
EXTENDS Log, FiniteSetTheorems, TLAPS

Distinct(s) == \A i, j \in DOMAIN s : s[i] = s[j] => i = j

\* The blocks of s from position k on.
From(s, k) == {s[i] : i \in {j \in DOMAIN s : j > k}}

\* The calls under way, and their number.
Calls == {p \in Proc : pc[p] \in InOp}
CountInv == outstanding = Cardinality(Calls)

\* Which process commits, and which buffers are held.
CallInv ==
    /\ booted => (committing <=> \E p \in Proc : pc[p] \in InCommit)
    /\ \A p, q \in Proc : pc[p] \in InCommit /\ pc[q] \in InCommit => p = q
    /\ committing => Calls = {}
    /\ booted /\ Calls = {} /\ ~committing => lh = <<>>
    /\ Calls # {} => booted
    /\ \A p \in Proc : blk[p] # NoBlock <=> pc[p] \in {"modified", "checked", "panic"}
    /\ \A p, q \in Proc : p # q /\ blk[p] # NoBlock => blk[p] # blk[q]
    /\ SleeperHasWaker

\* Until recovery is over nobody but First runs, and the cache mirrors the disk.
BootInv ==
    /\ ~booted => /\ \A p \in Proc \ {First} : pc[p] = "idle"
                  /\ pc[First] \in {"read_head", "install", "erase"}
                  /\ ~committing
                  /\ dirty = {}
                  /\ cache = home
    /\ \A p \in Proc : pc[p] = "read_head" => ~booted /\ lh = <<>> /\ tail[p] = 0

\* No block is in the header twice.
HeaderInv == Distinct(lh) /\ Distinct(hdr)

\* No commit is being installed: the log on disk is empty, and the cache differs
\* from the disk in pinned buffers, or in those a call is changing.
QuietInv ==
    booted /\ (\A p \in Proc : pc[p] \notin {"install", "erase"}) =>
        /\ hdr = <<>>
        /\ dirty = Range(lh)
        /\ \A b \in Block : b \notin Range(lh) /\ (\A q \in Proc : blk[q] # b)
                                => cache[b] = home[b]

\* write_log() has copied the first tail blocks.
WriteInv ==
    \A p \in Proc : pc[p] = "write_log" =>
        \A i \in DOMAIN lh : i <= tail[p] => logd[i] = cache[lh[i]]

\* install_trans() has copied the first tail blocks.
InstallInv ==
    \A p \in Proc : pc[p] = "install" =>
        /\ hdr = lh
        /\ \A i \in DOMAIN lh : i <= tail[p] => home[lh[i]] = logd[i]
        /\ booted => /\ \A i \in DOMAIN lh : cache[lh[i]] = logd[i]
                     /\ dirty = From(lh, tail[p])
                     /\ \A b \in Block : b \notin dirty => cache[b] = home[b]

\* All blocks are installed, the header on disk still names them.
EraseInv ==
    /\ \A p \in Proc : pc[p] = "erase" =>
            /\ lh = <<>>
            /\ \A i \in DOMAIN hdr : home[hdr[i]] = logd[i]
            /\ dirty = {}
            /\ cache = home
    /\ \A p \in Proc : pc[p] = "release" => lh = <<>>

\* The blocks that calls under way have put into the transaction.
Used == {u \in Proc \X Block : u[2] \in mine[u[1]]}

MineInv ==
    /\ \A p \in Proc : mine[p] # {} => p \in Calls
    /\ \A p \in Proc : mine[p] \subseteq Range(lh) /\ Cardinality(mine[p]) <= OpBlocks
    /\ \A p \in Proc : blk[p] # NoBlock => Cardinality(mine[p] \cup {blk[p]}) <= OpBlocks

\* What begin_op() reserved and nobody has used yet still fits.
RoomInv == Len(lh) + outstanding * MAXOPBLOCKS <= LOGSIZE + Cardinality(Used)

IndInv == /\ TypeOK /\ CountInv /\ CallInv /\ BootInv /\ HeaderInv /\ QuietInv
          /\ WriteInv /\ InstallInv /\ EraseInv /\ MineInv /\ RoomInv

\* What the numbers of the code say about the calls under way.
LEMMA CallsFacts ==
    ASSUME TypeOK, CountInv
    PROVE  /\ IsFiniteSet(Calls)
           /\ outstanding = 0 <=> Calls = {}
           /\ \A p \in Calls : outstanding = 1 <=> Calls = {p}
<1>1. IsFiniteSet(Calls) BY LogAssumption, FS_Subset DEF Calls
<1>2. outstanding = 0 <=> Calls = {} BY <1>1, FS_EmptySet DEF CountInv
<1>3. ASSUME NEW p \in Calls PROVE outstanding = 1 <=> Calls = {p}
  <2>1. Cardinality(Calls \ {p}) = outstanding - 1 /\ IsFiniteSet(Calls \ {p})
    BY <1>1, FS_RemoveElement DEF CountInv
  <2>2. outstanding = 1 <=> Cardinality(Calls \ {p}) = 0 BY <2>1 DEF TypeOK
  <2>3. Cardinality(Calls \ {p}) = 0 <=> Calls \ {p} = {} BY <2>1, FS_EmptySet
  <2> QED BY <2>2, <2>3
<1> QED BY <1>1, <1>2, <1>3

\* begin_op() lets nobody in during a commit, and waits for nothing else when the
\* log is empty and unused.
LEMMA WaitFacts ==
    ASSUME TypeOK
    PROVE  /\ ~MustWait => ~committing
           /\ MustWait /\ lh = <<>> /\ outstanding = 0 => committing
<1>1. Len(<<>>) + (0 + 1) * MAXOPBLOCKS <= LOGSIZE BY LogAssumption
<1> QED BY <1>1, LogAssumption DEF MustWait, TypeOK

\* Sets of at most k blocks each for the members of S have at most |S| * k entries.
LEMMA UsedBound ==
    ASSUME NEW S, IsFiniteSet(S), NEW f \in [S -> SUBSET Block], NEW k \in Nat,
           \A s \in S : Cardinality(f[s]) <= k
    PROVE  LET U == {u \in S \X Block : u[2] \in f[u[1]]}
           IN  IsFiniteSet(U) /\ Cardinality(U) <= Cardinality(S) * k
<1> DEFINE U == {u \in S \X Block : u[2] \in f[u[1]]}
           g == [s \in S |-> CHOOSE i \in Injection(f[s], 1 .. k) : TRUE]
           h == [u \in U |-> <<u[1], g[u[1]][u[2]]>>]
<1>1. \A s \in S : g[s] \in Injection(f[s], 1 .. k)
  <2> SUFFICES ASSUME NEW s \in S PROVE Injection(f[s], 1 .. k) # {} OBVIOUS
  <2> DEFINE n == Cardinality(f[s])
  <2>1. IsFiniteSet(f[s]) BY LogAssumption, FS_Subset
  <2>2. n \in Nat /\ ExistsBijection(1 .. n, f[s]) BY <2>1, FS_CardinalityType
  <2>3. PICK e \in Bijection(1 .. n, f[s]) : TRUE BY <2>2 DEF ExistsBijection
  <2>4. e \in [1 .. n -> f[s]] /\ (\A a, b \in 1 .. n : e[a] = e[b] => a = b)
        /\ (\A t \in f[s] : \E a \in 1 .. n : e[a] = t)
    BY <2>3 DEF Bijection, Injection, Surjection, IsInjective
  <2> DEFINE i == [t \in f[s] |-> CHOOSE a \in 1 .. n : e[a] = t]
  <2>5. \A t \in f[s] : i[t] \in 1 .. n /\ e[i[t]] = t BY <2>4
  <2>6. 1 .. n \subseteq 1 .. k BY <2>2
  <2> HIDE DEF i
  <2>7. i \in [f[s] -> 1 .. k] BY <2>5, <2>6 DEF i
  <2>8. i \in Injection(f[s], 1 .. k) BY <2>5, <2>7 DEF Injection, IsInjective
  <2> QED BY <2>8
<1>2. IsFiniteSet(S \X (1 .. k)) /\ Cardinality(S \X (1 .. k)) = Cardinality(S) * k
  <2>1. IsFiniteSet(1 .. k) /\ Cardinality(1 .. k) = k BY FS_Interval
  <2> QED BY <2>1, FS_Product
<1> HIDE DEF g
<1>3. h \in [U -> S \X (1 .. k)] BY <1>1 DEF Injection
<1>4. \A u, v \in U : h[u] = h[v] => u = v BY <1>1 DEF Injection, IsInjective
<1>5. h \in Injection(U, S \X (1 .. k)) BY <1>3, <1>4 DEF Injection, IsInjective
<1> QED BY <1>2, <1>5, FS_Injection

LEMMA UsedFinite ==
    ASSUME TypeOK
    PROVE  IsFiniteSet(Used) /\ Cardinality(Used) \in Nat
<1>1. IsFiniteSet(Proc \X Block) BY LogAssumption, FS_Product
<1>2. IsFiniteSet(Used) BY <1>1, FS_Subset DEF Used
<1> QED BY <1>2, FS_CardinalityType

LEMMA AppendFacts ==
    ASSUME NEW s \in Seq(Block), NEW b \in Block, b \notin Range(s)
    PROVE  /\ Range(Append(s, b)) = Range(s) \cup {b}
           /\ Distinct(s) => Distinct(Append(s, b))
<1>1. \A i \in 1 .. Len(s) : Append(s, b)[i] = s[i] /\ s[i] # b BY DEF Range
<1>2. DOMAIN s = 1 .. Len(s) /\ DOMAIN Append(s, b) = 1 .. Len(s) + 1
      /\ Append(s, b)[Len(s) + 1] = b
  OBVIOUS
<1>3. Range(Append(s, b)) = Range(s) \cup {b}
  <2>1. 1 .. Len(s) + 1 = (1 .. Len(s)) \cup {Len(s) + 1} OBVIOUS
  <2> QED BY <1>1, <1>2, <2>1 DEF Range
<1>4. Distinct(s) => Distinct(Append(s, b)) BY <1>1, <1>2 DEF Distinct
<1> QED BY <1>3, <1>4

\* A commit or a recovery goes on while no call is under way, in one process.
Walking == {"write_log", "install", "erase", "release", "read_head"}
LEMMA Alone ==
    ASSUME IndInv, NEW p \in Proc, pc[p] \in Walking
    PROVE  /\ \A q \in Proc \ {p} : pc[q] \notin Walking
           /\ Calls = {} /\ outstanding = 0
           /\ \A q \in Proc : blk[q] = NoBlock /\ mine[q] = {}
           /\ ~booted <=> ~committing
           /\ ~booted => p = First /\ pc[p] \in {"read_head", "install", "erase"}
<1> USE DEF IndInv
<1>1. ~booted => p = First /\ pc[p] \in {"read_head", "install", "erase"} /\ ~committing
      /\ \A q \in Proc \ {p} : pc[q] = "idle"
  BY DEF BootInv, Walking
<1>2. booted => committing /\ pc[p] \in InCommit
  BY DEF BootInv, CallInv, Walking, InCommit
<1>3. \A q \in Proc \ {p} : pc[q] \notin Walking
  BY <1>1, <1>2 DEF CallInv, BootInv, Walking, InCommit
<1>4. Calls = {} BY <1>1, <1>2 DEF CallInv
<1>5. outstanding = 0 BY <1>4, CallsFacts
<1>6. \A q \in Proc : blk[q] = NoBlock /\ mine[q] = {}
  BY <1>4 DEF CallInv, MineInv, Calls, InOp
<1> QED BY <1>1, <1>2, <1>3, <1>4, <1>5, <1>6

\* While a call is under way, nobody commits or recovers.
LEMMA Calling ==
    ASSUME IndInv, NEW p \in Calls
    PROVE  booted /\ ~committing /\ outstanding > 0 /\ \A q \in Proc : pc[q] \notin Walking
BY CallsFacts DEF IndInv, CallInv, BootInv, Walking, InCommit, TypeOK

\* One lemma per action; in each, one step per conjunct of IndInv.
LEMMA BeginOpKeeps == ASSUME NEW p \in Proc, IndInv, BeginOp(p) PROVE IndInv'
<1> USE DEF IndInv, TypeOK, BeginOp, Reserve, Goto, diskVars, bufVars
<1>0. ~committing /\ outstanding' = outstanding + 1 BY WaitFacts
<1>1. Calls' = Calls \cup {p} /\ p \notin Calls BY DEF Calls, InOp, PC
<1>2. Used' = Used BY DEF Used
<1>3. TypeOK' BY DEF PC
<1>4. CountInv'
  <2>1. Cardinality(Calls \cup {p}) = Cardinality(Calls) + 1
    BY <1>1, CallsFacts, FS_AddElement
  <2> QED BY <1>1, <2>1, <1>0 DEF CountInv
<1>5. CallInv' BY <1>0, <1>1 DEF CallInv, InCommit, SleeperHasWaker
<1>6. BootInv' BY DEF BootInv, CallInv, Calls, InOp, InCommit
<1>7. HeaderInv' BY DEF HeaderInv
<1>8. QuietInv' BY DEF QuietInv, CallInv, BootInv, InCommit, Calls, InOp
<1>9. WriteInv' BY DEF WriteInv, CallInv, InCommit
<1>10. InstallInv' BY DEF InstallInv, CallInv, BootInv, InCommit
<1>11. EraseInv' BY DEF EraseInv, CallInv, InCommit
<1>12. MineInv' BY <1>1 DEF MineInv, Calls, InOp, CallInv, BootInv
<1>13. RoomInv'
  <2>1. Cardinality(Used) \in Nat BY UsedFinite
  <2> QED BY <1>0, <1>2, <2>1, LogAssumption DEF RoomInv, MustWait
<1> QED BY <1>3, <1>4, <1>5, <1>6, <1>7, <1>8, <1>9, <1>10, <1>11, <1>12, <1>13

LEMMA BeginWaitKeeps == ASSUME NEW p \in Proc, IndInv, BeginWait(p) PROVE IndInv'
<1> USE DEF IndInv, TypeOK, BeginWait, Goto, diskVars, logVars, bufVars
<1>1. Calls' = Calls BY DEF Calls, InOp, PC, CallInv, BootInv
<1>2. Used' = Used BY DEF Used
<1>3. TypeOK' BY DEF PC
<1>4. CountInv' BY <1>1 DEF CountInv
<1>5. CallInv'
  <2>1. committing \/ outstanding > 0
    BY WaitFacts, CallsFacts DEF CallInv
  <2> QED BY <1>1, <2>1 DEF CallInv, InCommit, SleeperHasWaker
<1>6. BootInv' BY DEF BootInv, CallInv, Calls, InOp, InCommit
<1>7. HeaderInv' BY DEF HeaderInv
<1>8. QuietInv' BY DEF QuietInv, CallInv, BootInv, InCommit, Calls, InOp
<1>9. WriteInv' BY DEF WriteInv, CallInv, InCommit
<1>10. InstallInv' BY DEF InstallInv, CallInv, BootInv, InCommit
<1>11. EraseInv' BY DEF EraseInv, CallInv, InCommit
<1>12. MineInv' BY <1>1 DEF MineInv, Calls, InOp, CallInv, BootInv
<1>13. RoomInv' BY <1>2 DEF RoomInv, Used, TypeOK
<1> QED BY <1>3, <1>4, <1>5, <1>6, <1>7, <1>8, <1>9, <1>10, <1>11, <1>12, <1>13

LEMMA KillWakesKeeps == ASSUME NEW p \in Proc, IndInv, KillWakes(p) PROVE IndInv'
<1> USE DEF IndInv, TypeOK, KillWakes, Goto, diskVars, logVars, bufVars
<1>1. Calls' = Calls BY DEF Calls, InOp, PC, CallInv, BootInv
<1>2. Used' = Used BY DEF Used
<1>3. TypeOK' BY DEF PC
<1>4. CountInv' BY <1>1 DEF CountInv
<1>5. CallInv' BY <1>1 DEF CallInv, BootInv, Calls, InOp, InCommit, PC, SleeperHasWaker
<1>6. BootInv' BY DEF BootInv, CallInv, Calls, InOp, InCommit
<1>7. HeaderInv' BY DEF HeaderInv
<1>8. QuietInv' BY DEF QuietInv, CallInv, BootInv, InCommit, Calls, InOp
<1>9. WriteInv' BY DEF WriteInv, CallInv, InCommit
<1>10. InstallInv' BY DEF InstallInv, CallInv, BootInv, InCommit
<1>11. EraseInv' BY DEF EraseInv, CallInv, InCommit
<1>12. MineInv' BY <1>1 DEF MineInv, Calls, InOp, CallInv, BootInv
<1>13. RoomInv' BY <1>2 DEF RoomInv, Used, TypeOK
<1> QED BY <1>3, <1>4, <1>5, <1>6, <1>7, <1>8, <1>9, <1>10, <1>11, <1>12, <1>13

LEMMA EndOpKeeps == ASSUME NEW p \in Proc, IndInv, EndOp(p) PROVE IndInv'
<1> USE DEF IndInv, TypeOK, EndOp, EndOpLast, WakeLog, AfterEnd, Goto, diskVars, bufVars
<1>0. p \in Calls BY DEF Calls, InOp
<1>a. ~committing /\ booted /\ outstanding > 0 /\ \A q \in Proc : pc[q] \notin Walking
  BY <1>0, Calling
<1>1. Calls' = Calls \ {p} /\ p \in Calls /\ ~committing
  BY <1>0, <1>a DEF Calls, InOp, PC, TypeOK
<1>2. TypeOK'
  <2>1. outstanding' \in Nat BY <1>a
  <2>2. pc' \in [Proc -> PC] BY <1>a DEF PC
  <2>3. tail' \in [Proc -> 0 .. LOGSIZE] BY LogAssumption
  <2>4. mine' \in [Proc -> SUBSET Block] /\ committing' \in BOOLEAN OBVIOUS
  <2> QED BY <2>1, <2>2, <2>3, <2>4
<1>3. CountInv'
  <2>1. Cardinality(Calls \ {p}) = Cardinality(Calls) - 1
    BY <1>1, CallsFacts, FS_RemoveElement
  <2> QED BY <1>1, <2>1 DEF CountInv
<1>4. CallInv'
  <2>1. CASE outstanding = 1
    <3>1. Calls' = {} BY <1>1, <2>1, CallsFacts
    <3> QED BY ZenonT(60), <1>1, <1>a, <2>1, <3>1 DEF CallInv, InCommit, SleeperHasWaker, Walking
  <2>2. CASE outstanding # 1
    <3>1. Calls' # {} BY ZenonT(60), <1>1, <2>2, CallsFacts
    <3> QED BY ZenonT(60), <1>1, <1>a, <2>2, <3>1 DEF CallInv, InCommit, SleeperHasWaker, Walking
  <2> QED BY <2>1, <2>2
<1>5. BootInv' BY DEF BootInv, CallInv, Calls, InOp, InCommit
<1>6. HeaderInv' BY DEF HeaderInv
<1>7. QuietInv' BY DEF QuietInv, CallInv, BootInv, InCommit, Calls, InOp
<1>8. WriteInv' BY DEF WriteInv, CallInv, InCommit
<1>9. InstallInv' BY DEF InstallInv, CallInv, BootInv, InCommit
<1>10. EraseInv' BY DEF EraseInv, CallInv, InCommit
<1>11. MineInv'
  <2>1. Cardinality({}) = 0 BY FS_EmptySet
  <2>2. \A q \in Proc \ {p} : mine'[q] = mine[q] /\ blk'[q] = blk[q] OBVIOUS
  <2>3. mine'[p] = {} /\ blk'[p] = NoBlock BY DEF CallInv
  <2>4. ASSUME NEW q \in Proc
        PROVE  /\ mine'[q] # {} => q # p /\ mine[q] # {}
               /\ mine'[q] \subseteq Range(lh) /\ Cardinality(mine'[q]) <= OpBlocks
               /\ blk'[q] # NoBlock => Cardinality(mine'[q] \cup {blk'[q]}) <= OpBlocks
    <3>1. CASE q = p
      <4>1. Cardinality(mine'[q]) = 0 BY <2>1, <2>3, <3>1
      <4> QED BY <2>3, <3>1, <4>1, LogAssumption
    <3>2. CASE q # p
      <4>1. mine'[q] = mine[q] /\ blk'[q] = blk[q] BY <2>2, <3>2
      <4> QED BY <3>2, <4>1 DEF MineInv
    <3> QED BY <3>1, <3>2
  <2>5. \A q \in Proc : mine'[q] # {} => q \in Calls' BY <1>1, <2>4 DEF MineInv
  <2>6. lh' = lh OBVIOUS
  <2>7. \A q \in Proc : mine'[q] \subseteq Range(lh') /\ Cardinality(mine'[q]) <= OpBlocks
    BY <2>4, <2>6
  <2>8. \A q \in Proc : blk'[q] # NoBlock => Cardinality(mine'[q] \cup {blk'[q]}) <= OpBlocks
    BY <2>4
  <2> QED BY <2>5, <2>7, <2>8, Zenon DEF MineInv
<1>12. RoomInv'
  <2> DEFINE f == [q \in {p} |-> mine[q]]
             own == {u \in {p} \X Block : u[2] \in f[u[1]]}
  <2>1. Used = Used' \cup own /\ Used' \cap own = {} BY DEF Used
  <2>2. IsFiniteSet({p}) /\ Cardinality({p}) = 1 BY FS_Singleton
  <2>3. IsFiniteSet(own) /\ Cardinality(own) <= 1 * OpBlocks
    <3>1. \A q \in {p} : Cardinality(f[q]) <= OpBlocks BY DEF MineInv
    <3>2. f \in [{p} -> SUBSET Block] OBVIOUS
    <3>3. OpBlocks \in Nat BY LogAssumption
    <3> HIDE DEF f
    <3>4. IsFiniteSet(own) /\ Cardinality(own) <= Cardinality({p}) * OpBlocks
      BY <2>2, <3>1, <3>2, <3>3, UsedBound, Zenon
    <3> QED BY <2>2, <3>4
  <2>4. IsFiniteSet(Used) BY UsedFinite
  <2>5. Used' \subseteq Used BY <2>1
  <2>6. IsFiniteSet(Used') BY <2>4, <2>5, FS_Subset
  <2>7. Cardinality(Used) = Cardinality(Used') + Cardinality(own)
    <3> HIDE DEF own
    <3>1. Cardinality(Used' \cup own)
            = Cardinality(Used') + Cardinality(own) - Cardinality(Used' \cap own)
      BY <2>3, <2>6, FS_Union
    <3>2. Cardinality(Used' \cap own) = 0 BY <2>1, FS_EmptySet
    <3>3. Cardinality(own) \in Nat /\ Cardinality(Used') \in Nat
      BY <2>3, <2>6, FS_CardinalityType
    <3> QED BY <2>1, <3>1, <3>2, <3>3
  <2>8. Cardinality(own) \in Nat /\ Cardinality(Used') \in Nat
    BY <2>3, <2>6, FS_CardinalityType
  <2>9. outstanding' * MAXOPBLOCKS = outstanding * MAXOPBLOCKS - MAXOPBLOCKS
    BY LogAssumption
  <2>10. outstanding * MAXOPBLOCKS \in Nat /\ Len(lh) \in Nat BY LogAssumption
  <2> HIDE DEF own
  <2> QED BY <2>3, <2>7, <2>8, <2>9, <2>10, LogAssumption DEF RoomInv
<1> QED BY <1>2, <1>3, <1>4, <1>5, <1>6, <1>7, <1>8, <1>9, <1>10, <1>11, <1>12

LEMMA ModifyKeeps == ASSUME NEW p \in Proc, NEW b \in Block, IndInv, Modify(p, b) PROVE IndInv'
<1> USE DEF IndInv, TypeOK, Modify, Goto, diskVars, logVars
<1>0. p \in Calls BY DEF Calls, InOp
<1>a. booted /\ ~committing /\ \A q \in Proc : pc[q] \notin Walking /\ pc'[q] \notin Walking
  BY <1>0, Calling DEF Walking
<1>1. Calls' = Calls BY DEF Calls, InOp, PC, CallInv, BootInv
<1>2. Used' = Used BY DEF Used
<1>3. TypeOK' BY DEF PC
<1>4. CountInv' BY <1>1 DEF CountInv
<1>5. CallInv' BY <1>1 DEF CallInv, BootInv, Calls, InOp, InCommit, PC, SleeperHasWaker
<1>6. BootInv' BY DEF BootInv, CallInv, Calls, InOp, InCommit
<1>7. HeaderInv' BY DEF HeaderInv
<1>8. QuietInv'
  <2>1. blk[p] = NoBlock /\ NoBlock \notin Block BY LogAssumption DEF CallInv
  <2> QED BY <1>a, <2>1 DEF QuietInv, Walking
<1>9. WriteInv' BY <1>a DEF WriteInv, Walking
<1>10. InstallInv' BY <1>a DEF InstallInv, Walking
<1>11. EraseInv' BY <1>a DEF EraseInv, Walking
<1>12. MineInv' BY <1>1 DEF MineInv
<1>13. RoomInv' BY <1>2 DEF RoomInv, Used, TypeOK
<1> QED BY <1>3, <1>4, <1>5, <1>6, <1>7, <1>8, <1>9, <1>10, <1>11, <1>12, <1>13

LEMMA LogCheckKeeps == ASSUME NEW p \in Proc, IndInv, LogCheck(p) PROVE IndInv'
<1> USE DEF IndInv, TypeOK, LogCheck, TooBig, Goto, diskVars, logVars, bufVars
<1>1. Calls' = Calls BY DEF Calls, InOp, PC, CallInv, BootInv
<1>2. Used' = Used BY DEF Used
<1>3. TypeOK' BY DEF PC
<1>4. CountInv' BY <1>1 DEF CountInv
<1>5. CallInv' BY <1>1 DEF CallInv, BootInv, Calls, InOp, InCommit, PC, SleeperHasWaker
<1>6. BootInv' BY DEF BootInv, CallInv, Calls, InOp, InCommit
<1>7. HeaderInv' BY DEF HeaderInv
<1>8. QuietInv' BY DEF QuietInv, CallInv, BootInv, InCommit, Calls, InOp
<1>9. WriteInv' BY DEF WriteInv, CallInv, InCommit
<1>10. InstallInv' BY DEF InstallInv, CallInv, BootInv, InCommit
<1>11. EraseInv' BY DEF EraseInv, CallInv, InCommit
<1>12. MineInv' BY <1>1 DEF MineInv, Calls, InOp, CallInv, BootInv
<1>13. RoomInv' BY <1>2 DEF RoomInv, Used, TypeOK
<1> QED BY <1>3, <1>4, <1>5, <1>6, <1>7, <1>8, <1>9, <1>10, <1>11, <1>12, <1>13

LEMMA LogAppendKeeps == ASSUME NEW p \in Proc, IndInv, LogAppend(p) PROVE IndInv'
<1> USE DEF IndInv, TypeOK, LogAppend, Pin, Goto, diskVars
<1>1. Calls' = Calls /\ p \in Calls BY DEF Calls, InOp
<1>2. /\ booted /\ ~committing /\ outstanding > 0
      /\ \A q \in Proc : pc[q] \notin Walking /\ pc'[q] \notin Walking
  BY <1>1, Calling DEF Walking
<1>3. blk[p] \in Block /\ blk[p] # NoBlock BY DEF CallInv
<1>4. \/ blk[p] \in Range(lh) /\ lh' = lh
      \/ blk[p] \notin Range(lh) /\ lh' = Append(lh, blk[p])
  BY DEF Absorb
<1>5. Range(lh') = Range(lh) \cup {blk[p]} /\ Distinct(lh') /\ lh' \in Seq(Block)
  <2>1. CASE blk[p] \in Range(lh)
    <3>1. lh' = lh BY <1>4, <2>1
    <3> QED BY <2>1, <3>1 DEF HeaderInv
  <2>2. CASE blk[p] \notin Range(lh)
    <3>1. lh' = Append(lh, blk[p]) BY <1>4, <2>2
    <3> QED BY <1>3, <2>2, <3>1, AppendFacts DEF HeaderInv
  <2> QED BY <2>1, <2>2
<1>6. MineInv'
  <2>1. \A q \in Proc \ {p} : mine'[q] = mine[q] /\ blk'[q] = blk[q] OBVIOUS
  <2>2. mine'[p] = mine[p] \cup {blk[p]} /\ blk'[p] = NoBlock OBVIOUS
  <2> QED BY <1>1, <1>3, <1>5, <2>1, <2>2 DEF MineInv
<1>7. RoomInv'
  <2>1. CASE blk[p] \in mine[p]
    <3>1. mine' = mine BY <2>1
    <3>2. lh' = lh BY <1>4, <2>1 DEF MineInv
    <3> QED BY <3>1, <3>2 DEF RoomInv, Used
  <2>2. CASE blk[p] \notin mine[p]
    <3>1. Used' = Used \cup {<<p, blk[p]>>} /\ <<p, blk[p]>> \notin Used
      BY <1>3, <2>2 DEF Used
    <3>2. Cardinality(Used') = Cardinality(Used) + 1 /\ Cardinality(Used) \in Nat
      BY <3>1, UsedFinite, FS_AddElement
    <3>3. Len(lh') <= Len(lh) + 1 BY <1>3, <1>4
    <3>4. Len(lh') \in Nat /\ Len(lh) \in Nat BY <1>5
    <3>5. outstanding * MAXOPBLOCKS \in Nat BY LogAssumption
    <3> QED BY <3>2, <3>3, <3>4, <3>5, LogAssumption DEF RoomInv
  <2> QED BY <2>1, <2>2
<1>8. Len(lh') <= LOGSIZE
  <2> DEFINE f == [q \in Calls |-> mine'[q]]
             U == {u \in Calls \X Block : u[2] \in f[u[1]]}
  <2>1. Used' = U BY <1>1, <1>6 DEF Used, MineInv, Calls
  <2>2. f \in [Calls -> SUBSET Block] /\ \A q \in Calls : Cardinality(f[q]) <= OpBlocks
    <3>1. \A q \in Calls : q \in Proc BY DEF Calls
    <3>2. \A q \in Proc : mine'[q] \subseteq Block BY <1>3
    <3> QED BY <1>6, <3>1, <3>2 DEF MineInv
  <2>3. IsFiniteSet(Calls) /\ Cardinality(Calls) = outstanding BY CallsFacts DEF CountInv
  <2> HIDE DEF f
  <2>4. IsFiniteSet(U) /\ Cardinality(U) <= outstanding * OpBlocks
    <3>1. OpBlocks \in Nat BY LogAssumption
    <3>2. IsFiniteSet(U) /\ Cardinality(U) <= Cardinality(Calls) * OpBlocks
      BY <2>2, <2>3, <3>1, UsedBound, Zenon
    <3> QED BY <2>3, <3>2
  <2>5. Cardinality(U) \in Nat BY <2>4, FS_CardinalityType
  <2>6. /\ outstanding * OpBlocks <= outstanding * MAXOPBLOCKS
        /\ outstanding * OpBlocks \in Nat /\ outstanding * MAXOPBLOCKS \in Nat
    BY LogAssumption
  <2>7. Len(lh') + outstanding * MAXOPBLOCKS <= LOGSIZE + Cardinality(U)
    BY <1>7, <2>1 DEF RoomInv
  <2>8. Len(lh') \in Nat BY <1>5
  <2> HIDE DEF U
  <2>9. \A a, b, c, l, n \in Nat : a <= b /\ b <= c /\ l + c <= n + a => l <= n
    OBVIOUS
  <2>10. LOGSIZE \in Nat BY LogAssumption
  <2> QED BY <2>4, <2>5, <2>6, <2>7, <2>8, <2>9, <2>10, Zenon
<1>9. TypeOK' BY <1>3, <1>5, <1>8 DEF PC
<1>10. CountInv' BY <1>1 DEF CountInv
<1>11. CallInv' BY <1>1, <1>2 DEF CallInv, SleeperHasWaker, Walking, InCommit
<1>12. BootInv' BY <1>2 DEF BootInv, Walking
<1>13. HeaderInv' BY <1>5 DEF HeaderInv
<1>14. QuietInv'
  <2>1. \A q \in Proc \ {p} : blk'[q] = blk[q] OBVIOUS
  <2> QED BY <1>2, <1>3, <1>5, <2>1 DEF QuietInv, Walking
<1>15. WriteInv' BY <1>2 DEF WriteInv, Walking
<1>16. InstallInv' BY <1>2 DEF InstallInv, Walking
<1>17. EraseInv' BY <1>2 DEF EraseInv, Walking
<1> QED BY <1>6, <1>7, <1>9, <1>10, <1>11, <1>12, <1>13, <1>14, <1>15, <1>16, <1>17

LEMMA EvictKeeps == ASSUME NEW b \in Block, IndInv, Evict(b) PROVE IndInv'
<1> USE DEF IndInv, TypeOK, Evict, diskVars, logVars, procVars
<1>1. Calls' = Calls BY DEF Calls, InOp, PC, CallInv, BootInv
<1>2. Used' = Used BY DEF Used
<1>3. TypeOK' BY DEF PC
<1>4. CountInv' BY <1>1 DEF CountInv
<1>5. CallInv' BY <1>1 DEF CallInv, BootInv, Calls, InOp, InCommit, PC, SleeperHasWaker
<1>6. BootInv' BY DEF BootInv, CallInv, Calls, InOp, InCommit
<1>7. HeaderInv' BY DEF HeaderInv
<1>8. QuietInv' BY DEF QuietInv, CallInv, BootInv, InCommit, Calls, InOp
<1>9. WriteInv'
  <2> SUFFICES ASSUME NEW p \in Proc, pc[p] = "write_log", NEW i \in DOMAIN lh, i <= tail[p]
               PROVE  logd[i] = cache'[lh[i]]
    BY DEF WriteInv
  <2>1. lh[i] \in dirty BY Alone DEF QuietInv, Walking, Range
  <2> QED BY <2>1 DEF WriteInv
<1>10. InstallInv' BY DEF InstallInv, CallInv, BootInv, InCommit
<1>11. EraseInv' BY DEF EraseInv, CallInv, InCommit
<1>12. MineInv' BY <1>1 DEF MineInv, Calls, InOp, CallInv, BootInv
<1>13. RoomInv' BY <1>2 DEF RoomInv, Used, TypeOK
<1> QED BY <1>3, <1>4, <1>5, <1>6, <1>7, <1>8, <1>9, <1>10, <1>11, <1>12, <1>13

LEMMA WriteLogKeeps == ASSUME NEW p \in Proc, IndInv, WriteLog(p) PROVE IndInv'
<1> USE DEF IndInv, TypeOK, WriteLog, logVars, bufVars
<1>0. /\ \A q \in Proc \ {p} : pc[q] \notin Walking
      /\ Calls = {} /\ outstanding = 0
      /\ \A q \in Proc : blk[q] = NoBlock /\ mine[q] = {}
      /\ ~booted <=> ~committing
      /\ ~booted => p = First /\ pc[p] \in {"read_head", "install", "erase"}
  BY Alone DEF Walking
<1>1. Calls' = Calls BY DEF Calls, InOp, PC, CallInv, BootInv
<1>2. Used' = Used BY DEF Used
<1>3. TypeOK'
  <2>1. tail[p] + 1 \in 1 .. Len(lh) /\ tail[p] + 1 \in 1 .. LOGSIZE BY LogAssumption
  <2>2. cache[lh[tail[p] + 1]] \in Data BY <2>1
  <2> QED BY <2>1, <2>2, LogAssumption
<1>4. CountInv' BY <1>1 DEF CountInv
<1>5. CallInv' BY <1>1 DEF CallInv, BootInv, Calls, InOp, InCommit, PC, SleeperHasWaker
<1>6. BootInv' BY DEF BootInv, CallInv, Calls, InOp, InCommit
<1>7. HeaderInv' BY DEF HeaderInv
<1>8. QuietInv' BY DEF QuietInv, CallInv, BootInv, InCommit, Calls, InOp
<1>9. WriteInv'
  <2> SUFFICES ASSUME NEW q \in Proc, pc[q] = "write_log", NEW i \in DOMAIN lh,
                      i <= tail'[q]
               PROVE  logd'[i] = cache[lh[i]]
    BY DEF WriteInv
  <2>1. q = p BY <1>0 DEF Walking
  <2>2. i \in 1 .. LOGSIZE /\ i <= tail[p] + 1 /\ i \in Nat /\ tail[p] \in Nat
    BY <2>1, LogAssumption
  <2>3. lh[i] \in Block /\ tail[p] + 1 \in 1 .. LOGSIZE BY LogAssumption
  <2>4. CASE i = tail[p] + 1 BY <2>3, <2>4
  <2>5. CASE i # tail[p] + 1
    <3>1. i <= tail[p] /\ logd'[i] = logd[i] BY <2>2, <2>3, <2>5
    <3> QED BY <2>1, <3>1 DEF WriteInv
  <2> QED BY <2>4, <2>5
<1>10. InstallInv' BY DEF InstallInv, CallInv, BootInv, InCommit
<1>11. EraseInv' BY DEF EraseInv, CallInv, InCommit
<1>12. MineInv' BY <1>1 DEF MineInv, Calls, InOp, CallInv, BootInv
<1>13. RoomInv' BY <1>2 DEF RoomInv, Used, TypeOK
<1> QED BY <1>3, <1>4, <1>5, <1>6, <1>7, <1>8, <1>9, <1>10, <1>11, <1>12, <1>13

LEMMA WriteHeadKeeps == ASSUME NEW p \in Proc, IndInv, WriteHead(p) PROVE IndInv'
<1> USE DEF IndInv, TypeOK, WriteHead, WriteLogDone, Goto, logVars, bufVars
<1>0. /\ \A q \in Proc \ {p} : pc[q] \notin Walking
      /\ Calls = {} /\ outstanding = 0
      /\ \A q \in Proc : blk[q] = NoBlock /\ mine[q] = {}
      /\ ~booted <=> ~committing
      /\ ~booted => p = First /\ pc[p] \in {"read_head", "install", "erase"}
  BY Alone DEF Walking
<1>1. Calls' = Calls BY DEF Calls, InOp, PC, CallInv, BootInv
<1>2. Used' = Used BY DEF Used
<1>3. TypeOK' BY <1>0, LogAssumption DEF PC
<1>4. CountInv' BY <1>1 DEF CountInv
<1>5. CallInv' BY <1>1 DEF CallInv, BootInv, Calls, InOp, InCommit, PC, SleeperHasWaker
<1>6. BootInv' BY DEF BootInv, CallInv, Calls, InOp, InCommit
<1>7. HeaderInv' BY DEF HeaderInv
<1>8. QuietInv' BY DEF QuietInv, CallInv, BootInv, InCommit, Calls, InOp
<1>9. WriteInv' BY DEF WriteInv, CallInv, InCommit
<1>10. InstallInv'
  <2>1. booted /\ \A q \in Proc : pc[q] \notin {"install", "erase"} BY <1>0 DEF Walking
  <2>2. \A i \in DOMAIN lh : i <= tail[p] /\ i > 0 /\ i \in Nat BY LogAssumption
  <2>3. \A i \in DOMAIN lh : cache[lh[i]] = logd[i] BY <2>2 DEF WriteInv
  <2>4. From(lh, 0) = Range(lh) BY <2>2 DEF From, Range
  <2>5. dirty = From(lh, 0) /\ \A b \in Block : b \notin dirty => cache[b] = home[b]
    BY <1>0, <2>1, <2>4, LogAssumption DEF QuietInv
  <2>6. \A q \in Proc : pc'[q] = "install" => q = p BY <2>1
  <2> QED BY <2>2, <2>3, <2>5, <2>6 DEF InstallInv
<1>11. EraseInv' BY DEF EraseInv, CallInv, InCommit
<1>12. MineInv' BY <1>1 DEF MineInv, Calls, InOp, CallInv, BootInv
<1>13. RoomInv' BY <1>2 DEF RoomInv, Used, TypeOK
<1> QED BY <1>3, <1>4, <1>5, <1>6, <1>7, <1>8, <1>9, <1>10, <1>11, <1>12, <1>13

LEMMA ReadHeadKeeps == ASSUME NEW p \in Proc, IndInv, ReadHead(p) PROVE IndInv'
<1> USE DEF IndInv, TypeOK, ReadHead, Goto, diskVars, bufVars
<1>0. /\ \A q \in Proc \ {p} : pc[q] \notin Walking
      /\ Calls = {} /\ outstanding = 0
      /\ \A q \in Proc : blk[q] = NoBlock /\ mine[q] = {}
      /\ ~booted <=> ~committing
      /\ ~booted => p = First /\ pc[p] \in {"read_head", "install", "erase"}
  BY Alone DEF Walking
<1>1. Calls' = Calls BY DEF Calls, InOp, PC, CallInv, BootInv
<1>2. Used' = Used BY DEF Used
<1>3. TypeOK' BY <1>0, LogAssumption DEF PC
<1>4. CountInv' BY <1>1 DEF CountInv
<1>5. CallInv' BY <1>1 DEF CallInv, BootInv, Calls, InOp, InCommit, PC, SleeperHasWaker
<1>6. BootInv' BY <1>0 DEF BootInv, Walking
<1>7. HeaderInv' BY DEF HeaderInv
<1>8. QuietInv' BY DEF QuietInv, CallInv, BootInv, InCommit, Calls, InOp
<1>9. WriteInv' BY <1>0 DEF WriteInv, Walking
<1>10. InstallInv' BY DEF InstallInv, CallInv, BootInv, InCommit
<1>11. EraseInv' BY <1>0 DEF EraseInv, Walking, BootInv
<1>12. MineInv' BY <1>1 DEF MineInv, Calls, InOp, CallInv, BootInv
<1>13. RoomInv'
  <2>1. Cardinality(Used) \in Nat BY UsedFinite
  <2>2. Len(lh') \in Nat /\ Len(lh') <= LOGSIZE BY LogAssumption
  <2>3. outstanding' * MAXOPBLOCKS = 0 BY <1>0, LogAssumption
  <2> QED BY <1>2, <2>1, <2>2, <2>3, LogAssumption DEF RoomInv
<1> QED BY <1>3, <1>4, <1>5, <1>6, <1>7, <1>8, <1>9, <1>10, <1>11, <1>12, <1>13

LEMMA InstallKeeps == ASSUME NEW p \in Proc, IndInv, Install(p) PROVE IndInv'
<1> USE DEF IndInv, TypeOK, Install, logVars
<1>0. /\ \A q \in Proc \ {p} : pc[q] \notin Walking
      /\ Calls = {} /\ outstanding = 0
      /\ \A q \in Proc : blk[q] = NoBlock /\ mine[q] = {}
      /\ ~booted <=> ~committing
      /\ ~booted => p = First /\ pc[p] \in {"read_head", "install", "erase"}
  BY Alone DEF Walking
<1>1. Calls' = Calls BY DEF Calls, InOp, PC, CallInv, BootInv
<1>2. Used' = Used BY DEF Used
<1>3. TypeOK'
  <2>1. tail[p] + 1 \in 1 .. Len(lh) /\ tail[p] + 1 \in 1 .. LOGSIZE BY LogAssumption
  <2>2. lh[tail[p] + 1] \in Block /\ logd[tail[p] + 1] \in Data BY <2>1
  <2> QED BY <2>1, <2>2, LogAssumption
<1>4. CountInv' BY <1>1 DEF CountInv
<1>5. CallInv' BY <1>1 DEF CallInv, BootInv, Calls, InOp, InCommit, PC, SleeperHasWaker
<1>6. BootInv' BY DEF BootInv, CallInv, Calls, InOp, InCommit
<1>7. HeaderInv' BY DEF HeaderInv
<1>8. QuietInv' BY DEF QuietInv, CallInv, BootInv, InCommit, Calls, InOp
<1>9. WriteInv' BY DEF WriteInv, CallInv, InCommit
<1>10. InstallInv'
  <2> DEFINE k == tail[p] + 1
  <2>1. k \in 1 .. Len(lh) /\ tail[p] \in Nat /\ tail'[p] = k BY LogAssumption
  <2>2. k \in DOMAIN lh /\ lh[k] \in Block BY <2>1
  <2>3. \A i \in DOMAIN lh : i \in Nat /\ lh[i] \in Block /\ (lh[i] = lh[k] => i = k)
    BY <2>2 DEF HeaderInv, Distinct
  <2> SUFFICES ASSUME NEW q \in Proc, pc[q] = "install"
               PROVE  /\ hdr = lh
                      /\ \A i \in DOMAIN lh : i <= tail'[q] => home'[lh[i]] = logd[i]
                      /\ booted =>
                            /\ \A i \in DOMAIN lh : cache'[lh[i]] = logd[i]
                            /\ dirty' = From(lh, tail'[q])
                            /\ \A b \in Block : b \notin dirty' => cache'[b] = home'[b]
    BY DEF InstallInv
  <2>4. q = p BY <1>0 DEF Walking
  <2>5. hdr = lh BY DEF InstallInv
  <2>6. \A i \in DOMAIN lh : i <= k => home'[lh[i]] = logd[i]
    BY <2>1, <2>2, <2>3 DEF InstallInv
  <2>7. booted => \A i \in DOMAIN lh : cache'[lh[i]] = logd[i]
    BY <2>2, <2>3 DEF InstallInv
  <2>8. From(lh, k) = From(lh, tail[p]) \ {lh[k]}
    <3>1. \A i \in DOMAIN lh : i > k <=> i > tail[p] /\ i # k BY <2>1, <2>3
    <3> QED BY <2>2, <2>3, <3>1 DEF From
  <2>9. booted => dirty' = From(lh, k) BY <2>8 DEF InstallInv
  <2>10. booted => \A b \in Block : b \notin dirty' => cache'[b] = home'[b]
    BY <2>2 DEF InstallInv
  <2> QED BY <2>1, <2>4, <2>5, <2>6, <2>7, <2>9, <2>10
<1>11. EraseInv' BY DEF EraseInv, CallInv, InCommit
<1>12. MineInv' BY <1>1 DEF MineInv, Calls, InOp, CallInv, BootInv
<1>13. RoomInv' BY <1>2 DEF RoomInv, Used, TypeOK
<1> QED BY <1>3, <1>4, <1>5, <1>6, <1>7, <1>8, <1>9, <1>10, <1>11, <1>12, <1>13

LEMMA ClearLhKeeps == ASSUME NEW p \in Proc, IndInv, ClearLh(p) PROVE IndInv'
<1> USE DEF IndInv, TypeOK, ClearLh, InstallDone, Goto, diskVars, bufVars
<1>0. /\ \A q \in Proc \ {p} : pc[q] \notin Walking
      /\ Calls = {} /\ outstanding = 0
      /\ \A q \in Proc : blk[q] = NoBlock /\ mine[q] = {}
      /\ ~booted <=> ~committing
      /\ ~booted => p = First /\ pc[p] \in {"read_head", "install", "erase"}
  BY Alone DEF Walking
<1>1. Calls' = Calls BY DEF Calls, InOp, PC, CallInv, BootInv
<1>2. Used' = Used BY DEF Used
<1>3. TypeOK' BY <1>0, LogAssumption DEF PC
<1>4. CountInv' BY <1>1 DEF CountInv
<1>5. CallInv' BY <1>1 DEF CallInv, BootInv, Calls, InOp, InCommit, PC, SleeperHasWaker
<1>6. BootInv' BY DEF BootInv, CallInv, Calls, InOp, InCommit
<1>7. HeaderInv' BY DEF HeaderInv, Distinct
<1>8. QuietInv' BY DEF QuietInv, CallInv, BootInv, InCommit, Calls, InOp
<1>9. WriteInv' BY DEF WriteInv, CallInv, InCommit
<1>10. InstallInv' BY DEF InstallInv, CallInv, BootInv, InCommit
<1>11. EraseInv'
  <2>1. \A i \in DOMAIN lh : i <= tail[p] /\ i \in Nat /\ ~(i > tail[p]) BY LogAssumption
  <2>2. hdr = lh /\ \A i \in DOMAIN hdr : home[hdr[i]] = logd[i]
    BY <2>1 DEF InstallInv
  <2>3. From(lh, tail[p]) = {} BY <2>1 DEF From
  <2>4. dirty = {} /\ cache = home
    <3>1. CASE ~booted BY <3>1 DEF BootInv
    <3>2. CASE booted
      <4>1. dirty = {} BY <2>3, <3>2 DEF InstallInv
      <4>2. \A b \in Block : cache[b] = home[b] BY <3>2, <4>1 DEF InstallInv
      <4> QED BY <4>1, <4>2
    <3> QED BY <3>1, <3>2
  <2>5. \A q \in Proc : pc'[q] = "erase" => q = p BY <1>0 DEF Walking
  <2>6. \A q \in Proc : pc'[q] # "release" BY <1>0 DEF Walking
  <2> QED BY <2>2, <2>4, <2>5, <2>6 DEF EraseInv
<1>12. MineInv'
  <2>1. Cardinality({}) = 0 BY FS_EmptySet
  <2> QED BY <1>0, <2>1, LogAssumption DEF MineInv
<1>13. RoomInv'
  <2>1. Cardinality(Used) \in Nat BY UsedFinite
  <2>2. Len(lh') \in Nat /\ Len(lh') <= LOGSIZE BY LogAssumption
  <2>3. outstanding' * MAXOPBLOCKS = 0 BY <1>0, LogAssumption
  <2> QED BY <1>2, <2>1, <2>2, <2>3, LogAssumption DEF RoomInv
<1> QED BY <1>3, <1>4, <1>5, <1>6, <1>7, <1>8, <1>9, <1>10, <1>11, <1>12, <1>13

LEMMA EraseKeeps == ASSUME NEW p \in Proc, IndInv, Erase(p) PROVE IndInv'
<1> USE DEF IndInv, TypeOK, Erase, Goto, logVars, bufVars
<1>0. /\ \A q \in Proc \ {p} : pc[q] \notin Walking
      /\ Calls = {} /\ outstanding = 0
      /\ \A q \in Proc : blk[q] = NoBlock /\ mine[q] = {}
      /\ ~booted <=> ~committing
      /\ ~booted => p = First /\ pc[p] \in {"read_head", "install", "erase"}
  BY Alone DEF Walking
<1>1. Calls' = Calls BY DEF Calls, InOp, PC, CallInv, BootInv
<1>2. Used' = Used BY DEF Used
<1>3. TypeOK' BY <1>0, LogAssumption DEF PC
<1>4. CountInv' BY <1>1 DEF CountInv
<1>5. CallInv'
  <2>1. booted => committing BY <1>0
  <2>2. ~booted => \A q \in Proc : pc'[q] = "idle" BY <1>0 DEF BootInv
  <2>3. Calls' = {} BY <1>0, <1>1
  <2>4. lh = <<>> BY DEF EraseInv
  <2> QED BY <1>0, <2>1, <2>2, <2>3, <2>4 DEF CallInv, SleeperHasWaker, Walking, InCommit
<1>6. BootInv' BY DEF BootInv, CallInv, Calls, InOp, InCommit
<1>7. HeaderInv' BY DEF HeaderInv
<1>8. QuietInv'
  <2>1. lh = <<>> /\ dirty = {} /\ cache = home BY DEF EraseInv
  <2>2. Range(<<>>) = {} BY DEF Range
  <2> QED BY <2>1, <2>2 DEF QuietInv
<1>9. WriteInv' BY DEF WriteInv, CallInv, InCommit
<1>10. InstallInv' BY DEF InstallInv, CallInv, BootInv, InCommit
<1>11. EraseInv' BY DEF EraseInv, CallInv, InCommit
<1>12. MineInv' BY <1>1 DEF MineInv, Calls, InOp, CallInv, BootInv
<1>13. RoomInv' BY <1>2 DEF RoomInv, Used, TypeOK
<1> QED BY <1>3, <1>4, <1>5, <1>6, <1>7, <1>8, <1>9, <1>10, <1>11, <1>12, <1>13

LEMMA ReleaseKeeps == ASSUME NEW p \in Proc, IndInv, Release(p) PROVE IndInv'
<1> USE DEF IndInv, TypeOK, Release, WakeLog, diskVars, bufVars
<1>0. /\ \A q \in Proc \ {p} : pc[q] \notin Walking
      /\ Calls = {} /\ outstanding = 0
      /\ \A q \in Proc : blk[q] = NoBlock /\ mine[q] = {}
      /\ ~booted <=> ~committing
      /\ ~booted => p = First /\ pc[p] \in {"read_head", "install", "erase"}
  BY Alone DEF Walking
<1>1. Calls' = Calls BY DEF Calls, InOp, PC, CallInv, BootInv
<1>2. Used' = Used BY DEF Used
<1>3. TypeOK' BY <1>0, LogAssumption DEF PC
<1>4. CountInv' BY <1>1 DEF CountInv
<1>5. CallInv'
  <2>1. lh = <<>> BY DEF EraseInv
  <2>2. \A q \in Proc : pc'[q] # "asleep" /\ pc'[q] \notin InCommit
    BY <1>0 DEF Walking, InCommit
  <2> QED BY <1>0, <1>1, <2>1, <2>2 DEF CallInv, SleeperHasWaker
<1>6. BootInv' BY DEF BootInv, CallInv, Calls, InOp, InCommit
<1>7. HeaderInv' BY DEF HeaderInv
<1>8. QuietInv' BY DEF QuietInv, CallInv, BootInv, InCommit, Calls, InOp
<1>9. WriteInv' BY DEF WriteInv, CallInv, InCommit
<1>10. InstallInv' BY DEF InstallInv, CallInv, BootInv, InCommit
<1>11. EraseInv' BY DEF EraseInv, CallInv, InCommit
<1>12. MineInv' BY <1>1 DEF MineInv, Calls, InOp, CallInv, BootInv
<1>13. RoomInv' BY <1>2 DEF RoomInv, Used, TypeOK
<1> QED BY <1>3, <1>4, <1>5, <1>6, <1>7, <1>8, <1>9, <1>10, <1>11, <1>12, <1>13

LEMMA CrashKeeps == ASSUME IndInv, Crash PROVE IndInv'
<1> USE DEF IndInv, TypeOK, Crash, PowerOn, diskVars
<1>0. lh' = <<>> /\ outstanding' = 0 /\ \A q \in Proc : pc'[q] \in {"read_head", "idle"}
  OBVIOUS
<1>1. Calls' = {} BY DEF Calls, InOp, PC, CallInv, BootInv
<1>2. TypeOK'
  <2>1. lh' \in Seq(Block) /\ Len(lh') <= LOGSIZE BY LogAssumption
  <2>2. pc' \in [Proc -> PC] BY DEF PC
  <2>3. tail' \in [Proc -> 0 .. LOGSIZE] BY LogAssumption
  <2>4. blk' \in [Proc -> Block \cup {NoBlock}] /\ mine' \in [Proc -> SUBSET Block] OBVIOUS
  <2> QED BY <2>1, <2>2, <2>3, <2>4
<1>3. CountInv' BY <1>1, FS_EmptySet DEF CountInv
<1>4. CallInv' BY <1>1 DEF CallInv, BootInv, Calls, InOp, InCommit, PC, SleeperHasWaker
<1>5. BootInv' BY LogAssumption DEF BootInv
<1>6. HeaderInv' BY DEF HeaderInv, Distinct
<1>7. QuietInv' BY DEF QuietInv, CallInv, BootInv, InCommit, Calls, InOp
<1>8. WriteInv' BY DEF WriteInv, CallInv, InCommit
<1>9. InstallInv' BY DEF InstallInv, CallInv, BootInv, InCommit
<1>10. EraseInv' BY DEF EraseInv, CallInv, InCommit
<1>11. MineInv'
  <2>1. Cardinality({}) = 0 BY FS_EmptySet
  <2> QED BY <1>1, <2>1, LogAssumption DEF MineInv
<1>12. RoomInv'
  <2>1. Used' = {} BY DEF Used
  <2>2. Cardinality({}) = 0 BY FS_EmptySet
  <2> QED BY <1>0, <2>1, <2>2, LogAssumption DEF RoomInv
<1> QED BY <1>2, <1>3, <1>4, <1>5, <1>6, <1>7, <1>8, <1>9, <1>10, <1>11, <1>12

LEMMA InitEstablishes == Init => IndInv
<1> SUFFICES ASSUME Init PROVE IndInv OBVIOUS
<1> USE DEF Init
<1>1. TypeOK
  <2>1. logd \in [1 .. LOGSIZE -> Data] OBVIOUS
  <2>2. pc \in [Proc -> PC] BY DEF PC
  <2>3. tail \in [Proc -> 0 .. LOGSIZE] /\ Len(<<>>) <= LOGSIZE BY LogAssumption
  <2>4. hdr \in Seq(Block) /\ Len(hdr) <= LOGSIZE /\ lh \in Seq(Block) /\ Len(lh) <= LOGSIZE
    BY <2>3
  <2>5. /\ blk \in [Proc -> Block \cup {NoBlock}] /\ mine \in [Proc -> SUBSET Block]
        /\ outstanding \in Nat /\ dirty \subseteq Block
    OBVIOUS
  <2> QED BY <2>1, <2>2, <2>3, <2>4, <2>5 DEF TypeOK
<1>2. Calls = {} BY DEF Calls, InOp
<1>3. CountInv BY <1>2, FS_EmptySet DEF CountInv
<1>4. CallInv BY <1>2 DEF CallInv, InCommit, SleeperHasWaker
<1>5. BootInv BY LogAssumption DEF BootInv
<1>6. HeaderInv BY DEF HeaderInv, Distinct
<1>7. QuietInv /\ WriteInv /\ InstallInv /\ EraseInv
  BY DEF QuietInv, WriteInv, InstallInv, EraseInv
<1>8. MineInv
  <2>1. Cardinality({}) = 0 BY FS_EmptySet
  <2> QED BY <2>1, LogAssumption DEF MineInv
<1>9. RoomInv
  <2>1. Used = {} BY DEF Used
  <2>2. Cardinality({}) = 0 BY FS_EmptySet
  <2> QED BY <2>1, <2>2, LogAssumption DEF RoomInv
<1> QED BY <1>1, <1>3, <1>4, <1>5, <1>6, <1>7, <1>8, <1>9 DEF IndInv

LEMMA NextKeeps == IndInv /\ [Next]_vars => IndInv'
<1> SUFFICES ASSUME IndInv, [Next]_vars PROVE IndInv' OBVIOUS
<1>1. CASE UNCHANGED vars
  <2> USE <1>1 DEF vars, diskVars, logVars, bufVars, procVars, IndInv
  <2>1. Calls' = Calls /\ Used' = Used BY DEF Calls, Used
  <2>2. TypeOK' BY DEF TypeOK
  <2>3. CountInv' /\ CallInv' BY <2>1 DEF CountInv, CallInv, SleeperHasWaker
  <2>4. BootInv' /\ HeaderInv' BY DEF BootInv, HeaderInv
  <2>5. QuietInv' /\ WriteInv' BY DEF QuietInv, WriteInv
  <2>6. InstallInv' /\ EraseInv' BY DEF InstallInv, EraseInv
  <2>7. MineInv' /\ RoomInv' BY <2>1 DEF MineInv, RoomInv
  <2> QED BY <2>2, <2>3, <2>4, <2>5, <2>6, <2>7
<1>2. ASSUME NEW p \in Proc,
             \/ BeginOp(p) \/ BeginWait(p) \/ KillWakes(p) \/ EndOp(p)
             \/ LogCheck(p) \/ LogAppend(p) \/ ReadHead(p) \/ CommitStep(p)
             \/ \E b \in Block : Modify(p, b)
      PROVE  IndInv'
  <2>1. CASE BeginOp(p) \/ BeginWait(p) \/ KillWakes(p) \/ EndOp(p)
    BY <2>1, BeginOpKeeps, BeginWaitKeeps, KillWakesKeeps, EndOpKeeps
  <2>2. CASE LogCheck(p) \/ LogAppend(p) \/ ReadHead(p)
    BY <2>2, LogCheckKeeps, LogAppendKeeps, ReadHeadKeeps
  <2>3. CASE CommitStep(p)
    BY <2>3, WriteLogKeeps, WriteHeadKeeps, InstallKeeps, ClearLhKeeps, EraseKeeps,
       ReleaseKeeps DEF CommitStep
  <2>4. CASE \E b \in Block : Modify(p, b) BY <2>4, ModifyKeeps
  <2> QED BY <1>2, <2>1, <2>2, <2>3, <2>4
<1>3. ASSUME NEW b \in Block, Evict(b) PROVE IndInv' BY <1>3, EvictKeeps
<1>4. CASE Crash BY <1>4, CrashKeeps
<1> QED BY <1>1, <1>2, <1>3, <1>4 DEF Next

\* Every reachable state satisfies the inductive invariant: calls, commit, header and
\* disk agree at every point of a commit and of a recovery.
THEOREM InductiveInvariant == Spec => []IndInv
BY InitEstablishes, NextKeeps, PTL DEF Spec

\* The types, and with them that log.lh.n never exceeds the array logheader.block,
\* although log_write() tests it without the lock: begin_op()'s reservation suffices
\* as long as calls keep to MAXOPBLOCKS.
THEOREM TypeCorrect == Spec => []TypeOK
<1>1. IndInv => TypeOK BY DEF IndInv
<1> QED BY <1>1, InductiveInvariant, PTL

\* outstanding counts the calls under way, and end_op() lets one process commit at a
\* time, only while there are none.
THEOREM CommitsAlone == Spec => []OneCommitter
<1>1. IndInv => OneCommitter
  <2> SUFFICES ASSUME IndInv PROVE OneCommitter OBVIOUS
  <2>1. committing => outstanding = 0 BY CallsFacts DEF IndInv, CallInv
  <2> QED BY <2>1 DEF IndInv, CountInv, CallInv, Calls, OneCommitter
<1> QED BY <1>1, InductiveInvariant, PTL

\* begin_op() never sleeps when nobody is left to wake it.
THEOREM SleepersHaveWakers == Spec => []SleeperHasWaker
<1>1. IndInv => SleeperHasWaker BY DEF IndInv, CallInv
<1> QED BY <1>1, InductiveInvariant, PTL

\* The reservation alone does not keep log_write() from "too big a transaction": the
\* header takes a block of the log, and log_write() refuses a full log even when it
\* would absorb the block.  Two unused blocks in every reservation are enough, the
\* "2 blocks of slop" of filewrite() (file.c:129-134).
Slack == OpBlocks + 2 <= MAXOPBLOCKS /\ LOGSIZE <= NLOG

LEMMA RoomLeft ==
    ASSUME IndInv, Slack, NEW p \in Calls
    PROVE  Len(lh) + 2 <= LOGSIZE
<1> USE DEF IndInv
<1> DEFINE f == [q \in Calls |-> mine[q]]
           U == {u \in Calls \X Block : u[2] \in f[u[1]]}
<1>1. Used = U BY DEF Used, MineInv, Calls
<1>2. f \in [Calls -> SUBSET Block] /\ \A q \in Calls : Cardinality(f[q]) <= OpBlocks
  BY DEF MineInv, Calls, TypeOK
<1>3. IsFiniteSet(Calls) /\ Cardinality(Calls) = outstanding BY CallsFacts DEF CountInv
<1>4. OpBlocks \in Nat /\ MAXOPBLOCKS \in Nat /\ LOGSIZE \in Nat BY LogAssumption
<1> HIDE DEF f
<1>5. IsFiniteSet(U) /\ Cardinality(U) <= outstanding * OpBlocks
  <2>1. IsFiniteSet(U) /\ Cardinality(U) <= Cardinality(Calls) * OpBlocks
    BY <1>2, <1>3, <1>4, UsedBound, Zenon
  <2> QED BY <1>3, <2>1
<1>6. Cardinality(U) \in Nat BY <1>5, FS_CardinalityType
<1>7. Len(lh) + outstanding * MAXOPBLOCKS <= LOGSIZE + Cardinality(U)
  BY <1>1 DEF RoomInv
<1>8. outstanding \in Nat /\ outstanding > 0 /\ Len(lh) \in Nat BY Calling DEF TypeOK
<1>9. outstanding * OpBlocks + 2 <= outstanding * MAXOPBLOCKS
      /\ outstanding * OpBlocks \in Nat /\ outstanding * MAXOPBLOCKS \in Nat
  BY <1>4, <1>8 DEF Slack
<1> HIDE DEF U
<1>10. \A a, b, c, l, n \in Nat : a <= b /\ b + 2 <= c /\ l + c <= n + a => l + 2 <= n
  OBVIOUS
<1> QED BY <1>4, <1>5, <1>6, <1>7, <1>8, <1>9, <1>10, Zenon

\* No panic of log.c is reached by calls that keep this slack.
THEOREM SlackAvoidsPanic == ASSUME Slack PROVE Spec => []NoPanic
<1>1. Init => NoPanic BY DEF Init, NoPanic
<1>2. IndInv /\ NoPanic /\ [Next]_vars => NoPanic'
  <2> SUFFICES ASSUME IndInv, NoPanic, [Next]_vars, NEW p \in Proc PROVE pc'[p] # "panic"
    BY DEF NoPanic
  <2> USE DEF NoPanic, IndInv, TypeOK, Goto
  <2>1. CASE UNCHANGED vars BY <2>1 DEF vars, procVars
  <2>2. ASSUME NEW q \in Proc, EndOp(q) PROVE pc'[p] # "panic"
    <3>1. ~committing BY <2>2, Calling DEF EndOp, Calls, InOp
    <3> QED BY <2>2, <3>1 DEF EndOp, AfterEnd, WakeLog
  <2>3. ASSUME NEW q \in Proc, LogCheck(q) PROVE pc'[p] # "panic"
    <3>1. q \in Calls BY <2>3 DEF LogCheck, Calls, InOp
    <3>2. Len(lh) + 2 <= LOGSIZE /\ outstanding > 0 BY <3>1, RoomLeft, Calling
    <3>3. ~TooBig BY <3>2, LogAssumption DEF TooBig, Slack
    <3>4. ~(outstanding < 1) BY <3>2
    <3> QED BY <2>3, <3>3, <3>4 DEF LogCheck
  <2>4. ASSUME NEW q \in Proc,
               BeginOp(q) \/ BeginWait(q) \/ KillWakes(q) \/ LogAppend(q) \/ ReadHead(q)
                 \/ CommitStep(q) \/ \E b \in Block : Modify(q, b)
        PROVE  pc'[p] # "panic"
    BY <2>4 DEF BeginOp, BeginWait, KillWakes, LogAppend, ReadHead, Modify, CommitStep,
       WriteLog, WriteHead, Install, ClearLh, Erase, Release, WakeLog
  <2>5. ASSUME NEW b \in Block, Evict(b) PROVE pc'[p] # "panic"
    BY <2>5 DEF Evict, procVars
  <2>6. CASE Crash BY <2>6 DEF Crash, PowerOn
  <2> QED BY <2>1, <2>2, <2>3, <2>4, <2>5, <2>6 DEF Next
<1> QED BY <1>1, <1>2, InductiveInvariant, PTL DEF Spec

\* The same slack keeps the transaction, in memory and on disk, inside the log.
THEOREM SlackFits == ASSUME Slack PROVE Spec => []LogFits
<1> DEFINE Inv == LogFits /\ Len(hdr) <= NLOG - 1
<1>1. Init => Inv BY LogAssumption DEF Init, LogFits
<1>2. IndInv /\ Inv /\ [Next]_vars => Inv'
  <2> SUFFICES ASSUME IndInv, Inv, [Next]_vars PROVE Inv' OBVIOUS
  <2> USE DEF LogFits, IndInv, TypeOK
  <2>1. CASE UNCHANGED vars BY <2>1 DEF vars, diskVars, logVars
  <2>2. ASSUME NEW p \in Proc, LogAppend(p) PROVE Inv'
    <3>1. p \in Calls BY <2>2 DEF LogAppend, Calls, InOp
    <3>2. Len(lh) + 2 <= LOGSIZE BY <3>1, RoomLeft
    <3>3. blk[p] \in Block BY <2>2 DEF LogAppend, CallInv
    <3>4. Len(lh') <= Len(lh) + 1 /\ Len(lh') \in Nat BY <2>2, <3>3 DEF LogAppend, Absorb
    <3>5. hdr' = hdr BY <2>2 DEF LogAppend, diskVars
    <3> QED BY <3>2, <3>4, <3>5, LogAssumption DEF Slack
  <2>3. ASSUME NEW p \in Proc,
               BeginOp(p) \/ BeginWait(p) \/ KillWakes(p) \/ EndOp(p) \/ LogCheck(p)
                 \/ ReadHead(p) \/ CommitStep(p) \/ \E b \in Block : Modify(p, b)
        PROVE  Inv'
    <3>1. lh' \in {lh, hdr, <<>>} /\ hdr' \in {lh, hdr}
      BY <2>3 DEF BeginOp, BeginWait, KillWakes, EndOp, LogCheck, ReadHead, Modify,
         CommitStep, WriteLog, WriteHead, Install, ClearLh, Erase, Release, diskVars, logVars
    <3> QED BY <3>1, LogAssumption
  <2>4. ASSUME NEW b \in Block, Evict(b) PROVE Inv'
    BY <2>4 DEF Evict, diskVars, logVars
  <2>5. CASE Crash BY <2>5, LogAssumption DEF Crash, PowerOn, diskVars
  <2> QED BY <2>1, <2>2, <2>3, <2>4, <2>5 DEF Next
<1> QED BY <1>1, <1>2, InductiveInvariant, PTL DEF Spec

\* What recovery makes of a block the header names, and of the others.
LEMMA RecoveredBlocks ==
    ASSUME Distinct(hdr)
    PROVE  /\ \A i \in DOMAIN hdr : hdr[i] \in Block => Recovered[hdr[i]] = logd[i]
           /\ \A b \in Block : (\A i \in DOMAIN hdr : hdr[i] # b) => Recovered[b] = home[b]
           /\ Recovered = [b \in Block |-> Recovered[b]]
BY DEF Recovered, Distinct

\* A header that names nothing, or only blocks that are installed.
LEMMA RecoveredIsHome ==
    ASSUME TypeOK, Distinct(hdr), \A i \in DOMAIN hdr : home[hdr[i]] = logd[i]
    PROVE  Recovered = home
<1>1. \A b \in Block : Recovered[b] = home[b] BY RecoveredBlocks DEF TypeOK
<1> QED BY <1>1, RecoveredBlocks DEF TypeOK

\* Once end_op() has committed the last call, its writes survive a crash.
THEOREM QuietIsDurable == Spec => []DurableWhenQuiet
<1>1. IndInv => DurableWhenQuiet
  <2> SUFFICES ASSUME IndInv, booted, outstanding = 0,
                      committing => \E p \in Proc : pc[p] = "release"
               PROVE  Recovered = cache
    BY DEF DurableWhenQuiet
  <2> USE DEF IndInv
  <2>1. Calls = {} BY CallsFacts
  <2>2. \A p \in Proc : blk[p] = NoBlock BY <2>1 DEF CallInv, Calls, InOp
  <2>3. lh = <<>> BY <2>1 DEF CallInv, EraseInv
  <2>4. \A p \in Proc : pc[p] \notin {"install", "erase"}
    BY DEF CallInv, InCommit
  <2>5. hdr = <<>> /\ \A b \in Block : b \notin Range(lh) => cache[b] = home[b]
    BY <2>2, <2>4, LogAssumption DEF QuietInv
  <2>6. Range(lh) = {} BY <2>3 DEF Range
  <2>7. cache = home BY <2>5, <2>6 DEF TypeOK
  <2>8. Recovered = home BY <2>5, RecoveredIsHome DEF HeaderInv
  <2> QED BY <2>7, <2>8
<1> QED BY <1>1, InductiveInvariant, PTL

-----------------------------------------------------------------------------
(* Log implements AtomicFS.                                                 *)

\* The blocks as the running system sees them.
Seen == IF booted THEN cache ELSE Recovered

LEMMA InitRefines == Init => Abs!Init
<1> SUFFICES ASSUME Init PROVE Abs!Init OBVIOUS
<1>1. Recovered = home BY DEF Init, Recovered
<1>2. {p \in Proc : pc[p] \in InOp} = {} BY DEF Init, InOp
<1> QED BY <1>1, <1>2 DEF Init, Abs!Init

\* What a step that the abstract specification does not see leaves unchanged.
LEMMA Stutters ==
    ASSUME Seen' = Seen, Recovered' = Recovered, Calls' = Calls
    PROVE  UNCHANGED Abs!vars
BY DEF Seen, Calls, Abs!vars

LEMMA CallRefines ==
    ASSUME IndInv, NEW p \in Proc, BeginOp(p) \/ EndOp(p)
    PROVE  Abs!Next
<1> USE DEF IndInv, TypeOK, Goto, diskVars, bufVars
<1>1. Recovered' = Recovered /\ Seen' = Seen
  <2>1. UNCHANGED <<home, logd, hdr, cache, booted>> BY DEF BeginOp, EndOp
  <2> QED BY <2>1 DEF Recovered, Seen
<1>2. CASE BeginOp(p)
  <2>1. Calls' = Calls \cup {p} /\ p \notin Calls BY <1>2 DEF BeginOp, Calls, InOp
  <2>2. Abs!Begin(p) BY <1>1, <2>1 DEF Abs!Begin, Calls, Seen
  <2> QED BY <2>2 DEF Abs!Next
<1>3. CASE EndOp(p)
  <2>1. p \in Calls BY <1>3 DEF EndOp, Calls, InOp
  <2>2. ~committing BY <2>1, Calling
  <2>3. Calls' = Calls \ {p}
    BY <1>3, <2>2 DEF EndOp, EndOpLast, AfterEnd, WakeLog, Calls, InOp
  <2>4. Abs!End(p) BY <1>1, <2>1, <2>3 DEF Abs!End, Calls, Seen
  <2> QED BY <2>4 DEF Abs!Next
<1> QED BY <1>2, <1>3

LEMMA ModifyRefines ==
    ASSUME IndInv, NEW p \in Proc, NEW b \in Block, Modify(p, b)
    PROVE  Abs!Next
<1> USE DEF IndInv, TypeOK, Modify, Goto, diskVars
<1>1. p \in Calls /\ Calls' = Calls BY DEF Calls, InOp
<1>2. booted /\ booted' = booted BY <1>1, Calling
<1>3. Recovered' = Recovered BY DEF Recovered
<1>4. PICK v \in Data : cache' = [cache EXCEPT ![b] = v] OBVIOUS
<1>5. Seen' = [Seen EXCEPT ![b] = v] BY <1>2, <1>4 DEF Seen
<1>6. Abs!Write(p, b)
  <2> HIDE DEF IndInv, TypeOK, Modify
  <2> QED BY <1>1, <1>3, <1>4, <1>5 DEF Abs!Write, Calls, Seen
<1> QED BY <1>6 DEF Abs!Next

LEMMA SmallStepRefines ==
    ASSUME IndInv, NEW p \in Proc,
           BeginWait(p) \/ KillWakes(p) \/ LogCheck(p) \/ LogAppend(p) \/ ReadHead(p)
             \/ ClearLh(p) \/ Release(p)
    PROVE  UNCHANGED Abs!vars
<1> USE DEF IndInv, TypeOK, Goto, diskVars, bufVars
<1>1. Calls' = Calls
  BY DEF BeginWait, KillWakes, LogCheck, LogAppend, ReadHead, ClearLh, Release, WakeLog,
     Calls, InOp
<1>2. Recovered' = Recovered /\ Seen' = Seen
  <2>1. UNCHANGED <<home, logd, hdr, cache, booted>>
    BY DEF BeginWait, KillWakes, LogCheck, LogAppend, ReadHead, ClearLh, Release
  <2> QED BY <2>1 DEF Recovered, Seen
<1> QED BY <1>1, <1>2, Stutters

\* bget() recycles a buffer whose block is the same on disk.
LEMMA EvictRefines ==
    ASSUME IndInv, NEW b \in Block, Evict(b)
    PROVE  UNCHANGED Abs!vars
<1> USE DEF IndInv, TypeOK, Evict, diskVars, logVars, procVars
<1>1. Calls' = Calls BY DEF Calls
<1>2. Recovered' = Recovered BY DEF Recovered
<1>3. booted => cache[b] = home[b]
  <2>1. CASE booted /\ \A p \in Proc : pc[p] \notin {"install", "erase"}
    BY <2>1 DEF QuietInv
  <2>2. ASSUME NEW p \in Proc, booted, pc[p] \in {"install", "erase"}
        PROVE  cache[b] = home[b]
    BY <2>2 DEF InstallInv, EraseInv
  <2> QED BY <2>1, <2>2
<1>4. Seen' = Seen BY <1>2, <1>3 DEF Seen
<1> QED BY <1>1, <1>2, <1>4, Stutters

\* While the header on disk is empty the log blocks do not matter.
LEMMA WriteLogRefines ==
    ASSUME IndInv, NEW p \in Proc, WriteLog(p)
    PROVE  UNCHANGED Abs!vars
<1> USE DEF IndInv, TypeOK, WriteLog, bufVars
<1>1. Calls' = Calls BY DEF Calls
<1>2. hdr = <<>> BY Alone DEF QuietInv, Walking
<1>3. Recovered' = Recovered BY <1>2 DEF Recovered
<1> QED BY <1>1, <1>3, Stutters DEF Seen

\* The header write commits.
LEMMA WriteHeadRefines ==
    ASSUME IndInv, NEW p \in Proc, WriteHead(p)
    PROVE  Abs!Next
<1> USE DEF IndInv, TypeOK, WriteHead, WriteLogDone, Goto, bufVars, logVars
<1>1. /\ \A q \in Proc \ {p} : pc[q] \notin Walking
      /\ Calls = {} /\ booted /\ \A q \in Proc : blk[q] = NoBlock
  BY Alone DEF Walking
<1>2. Calls' = {} BY <1>1 DEF Calls, InOp
<1>3. \A i \in DOMAIN lh : cache[lh[i]] = logd[i] BY LogAssumption DEF WriteInv
<1>4. \A b \in Block : b \notin Range(lh) => cache[b] = home[b]
  BY <1>1, LogAssumption DEF QuietInv, Walking
<1>5. \A b \in Block : Recovered'[b] = cache[b]
  <2>1. Distinct(hdr') BY DEF HeaderInv, Distinct
  <2>2. \A b \in Block : (\E i \in DOMAIN lh : lh[i] = b) \/ b \notin Range(lh) BY DEF Range
  <2> QED BY <1>3, <1>4, <2>1, <2>2 DEF Recovered, Distinct, Range
<1>6. Recovered' = cache BY <1>5 DEF Recovered
<1>7. Abs!Commit BY <1>1, <1>2, <1>6 DEF Abs!Commit, Calls
<1> QED BY <1>7 DEF Abs!Next

\* Installing a block changes neither what the system sees nor what a crash leaves.
LEMMA InstallRefines ==
    ASSUME IndInv, NEW p \in Proc, Install(p)
    PROVE  UNCHANGED Abs!vars
<1> USE DEF IndInv, TypeOK, Install, logVars
<1> DEFINE k == tail[p] + 1
<1>1. Calls' = Calls BY DEF Calls
<1>2. k \in DOMAIN lh /\ lh[k] \in Block /\ hdr = lh
  <2>1. k \in 1 .. Len(lh) BY LogAssumption
  <2> QED BY <2>1 DEF InstallInv
<1>3. Recovered[lh[k]] = logd[k] BY <1>2, RecoveredBlocks DEF HeaderInv
<1>4. Recovered' = Recovered
  <2>1. \A b \in Block \ {lh[k]} : home'[b] = home[b] OBVIOUS
  <2>2. \E i \in DOMAIN hdr : hdr[i] = lh[k] BY <1>2
  <2> QED BY <2>1, <2>2 DEF Recovered
<1>5. booted => cache' = cache BY <1>2 DEF InstallInv
<1> QED BY <1>1, <1>4, <1>5, Stutters DEF Seen

\* Erasing the header of an installed transaction changes nothing either, and ends
\* recovery with a cache that agrees with the disk.
LEMMA EraseRefines ==
    ASSUME IndInv, NEW p \in Proc, Erase(p)
    PROVE  UNCHANGED Abs!vars
<1> USE DEF IndInv, TypeOK, Erase, Goto, logVars, bufVars
<1>1. Calls' = Calls BY DEF Calls, InOp
<1>2. lh = <<>> /\ cache = home /\ \A i \in DOMAIN hdr : home[hdr[i]] = logd[i]
  BY DEF EraseInv
<1>3. Recovered = home BY <1>2, RecoveredIsHome DEF HeaderInv
<1>4. Recovered' = home BY <1>2 DEF Recovered
<1> QED BY <1>1, <1>2, <1>3, <1>4, Stutters DEF Seen

LEMMA CrashRefines == ASSUME IndInv, Crash PROVE Abs!Next
<1>1. Recovered' = Recovered BY DEF Crash, diskVars, Recovered
<1>2. {p \in Proc : pc'[p] \in InOp} = {} BY DEF Crash, PowerOn, InOp
<1>3. ~booted' BY DEF Crash, PowerOn
<1>4. Abs!Crash BY <1>1, <1>2, <1>3 DEF Abs!Crash
<1> QED BY <1>4 DEF Abs!Next

\* Every behaviour of the log, with crashes between any two disk writes and during
\* recovery, is one of AtomicFS: group commit is atomic.
THEOREM LogIsAtomic == Spec => ImplementsAtomicFS
<1>1. IndInv /\ [Next]_vars => [Abs!Next]_(Abs!vars)
  <2> SUFFICES ASSUME IndInv, [Next]_vars PROVE Abs!Next \/ UNCHANGED Abs!vars
    OBVIOUS
  <2>1. CASE UNCHANGED vars
    <3>1. Seen' = Seen /\ Recovered' = Recovered /\ Calls' = Calls
      BY <2>1 DEF vars, diskVars, bufVars, procVars, Seen, Recovered, Calls
    <3> QED BY <3>1, Stutters
  <2>2. ASSUME NEW p \in Proc,
               \/ BeginOp(p) \/ BeginWait(p) \/ KillWakes(p) \/ EndOp(p)
               \/ LogCheck(p) \/ LogAppend(p) \/ ReadHead(p) \/ CommitStep(p)
               \/ \E b \in Block : Modify(p, b)
        PROVE  Abs!Next \/ UNCHANGED Abs!vars
    <3>1. CASE BeginOp(p) \/ EndOp(p) BY <3>1, CallRefines
    <3>2. CASE \E b \in Block : Modify(p, b) BY <3>2, ModifyRefines
    <3>3. CASE BeginWait(p) \/ KillWakes(p) \/ LogCheck(p) \/ LogAppend(p) \/ ReadHead(p)
      BY <3>3, SmallStepRefines
    <3>4. CASE ClearLh(p) \/ Release(p) BY <3>4, SmallStepRefines
    <3>5. CASE WriteLog(p) BY <3>5, WriteLogRefines
    <3>6. CASE WriteHead(p) BY <3>6, WriteHeadRefines
    <3>7. CASE Install(p) BY <3>7, InstallRefines
    <3>8. CASE Erase(p) BY <3>8, EraseRefines
    <3> QED BY <2>2, <3>1, <3>2, <3>3, <3>4, <3>5, <3>6, <3>7, <3>8 DEF CommitStep
  <2>3. ASSUME NEW b \in Block, Evict(b) PROVE UNCHANGED Abs!vars BY <2>3, EvictRefines
  <2>4. CASE Crash BY <2>4, CrashRefines
  <2> QED BY <2>1, <2>2, <2>3, <2>4 DEF Next
<1> QED BY <1>1, InitRefines, InductiveInvariant, PTL DEF Spec, ImplementsAtomicFS, Abs!Spec

=============================================================================
