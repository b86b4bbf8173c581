------------------------- MODULE BufferCacheProofs --------------------------
(***************************************************************************)
(* Proofs about BufferCache, for every finite number of processes, any     *)
(* blocks and contents, and any number of buffers: bget() panics only when *)
(* every buffer is in use or pinned, no wakeup is lost, the requests to    *)
(* the disk are in order, and the cache implements BlockStore.             *)
(***************************************************************************)
EXTENDS BufferCache, FiniteSetTheorems, SequenceTheorems, TLAPS

\* The type invariant, without the list lru: no proof needs its order.
Types ==
    /\ disk \in [Block -> Value]
    /\ blockno \in [Buf -> Block \cup {NoBlock}] /\ data \in [Buf -> Value]
    /\ valid \in [Buf -> BOOLEAN] /\ dirty \in [Buf -> BOOLEAN] /\ refcnt \in [Buf -> Nat]
    /\ owner \in [Buf -> Proc \cup {Nobody}]
    /\ idequeue \in Seq(Buf) /\ irq \in BOOLEAN
    /\ device \in [op : {Idle, "read", "write"}, blockno : Block \cup {NoBlock}, data : Value]
    /\ pc \in [Proc -> PC] /\ my \in [Proc -> Buf \cup {NoBuf}]

\* A process has a buffer from bget() to the end of brelse(), and its lock in between.
HasLock == {"locked", "held"} \cup InIderw
OwnerInv ==
    /\ \A p \in Proc : my[p] = NoBuf <=> pc[p] \in {"idle", "panic"}
    /\ \A p \in Proc : pc[p] \in HasLock => owner[my[p]] = p
    /\ \A b \in Buf : owner[b] # Nobody => my[owner[b]] = b /\ pc[owner[b]] \in HasLock
    /\ \A p \in Proc : At(p, "locksleep") => owner[my[p]] # Nobody

\* The reference count of a buffer is the number of its users.
Users(b) == {p \in Proc : my[p] = b}
CountInv == \A b \in Buf : refcnt[b] = Cardinality(Users(b))

\* A block has one buffer at most, and a buffer in use has a block.
UniqueInv ==
    /\ \A b, c \in Buf : blockno[b] = blockno[c] /\ blockno[b] # NoBlock => b = c
    /\ \A p \in Proc : my[p] # NoBuf => blockno[my[p]] # NoBlock
    /\ \A b \in Buf : valid[b] => blockno[b] # NoBlock

\* Queued buffers wait for the disk with a process in iderw(), each once, and the disk
\* works for the first of them.
Elements(s) == {s[i] : i \in DOMAIN s}
Distinct(s) == \A i, j \in DOMAIN s : s[i] = s[j] => i = j
QueueInv ==
    /\ Distinct(idequeue)
    /\ \A b \in Elements(idequeue) :
          ~IoDone(b) /\ owner[b] # Nobody /\ pc[owner[b]] \in InIderw
    /\ \A p \in Proc : pc[p] \in InIderw =>
          my[p] \in Elements(idequeue) \/ (pc[p] = "iotest" /\ IoDone(my[p]))
    /\ device.op = Idle <=> idequeue = <<>>
    /\ idequeue # <<>> => device.blockno = blockno[Head(idequeue)]

\* log_write() leaves buffers for the processes: those pinned and not being written.
PinInv == Cardinality(Pinned \ Elements(idequeue)) <= MaxPinned

\* Where the contents of a block are: a clean buffer has those of the disk, and the
\* command of the disk and its result are those of the first request.
DataInv ==
    /\ \A b \in Buf : /\ dirty[b] => valid[b]
                      /\ valid[b] /\ ~dirty[b] => data[b] = disk[blockno[b]]
    /\ \A p \in Proc : At(p, "held") => valid[my[p]]
    /\ idequeue # <<>> =>
          LET b == Head(idequeue)
          IN  IF dirty[b]
              THEN /\ device.op = "write" /\ device.data = data[b]
                   /\ irq => disk[blockno[b]] = data[b]
              ELSE /\ device.op = "read"
                   /\ irq => device.data = disk[blockno[b]]
    /\ idequeue = <<>> => ~irq

\* The inductive invariant.
IndInv ==
    /\ Types /\ OwnerInv /\ CountInv /\ UniqueInv /\ QueueInv /\ PinInv /\ DataInv

\* What the proofs use of the constants.
LEMMA Constants ==
    /\ Nobody \notin Proc /\ NoBlock \notin Block /\ NoBuf \notin Buf
    /\ IsFiniteSet(Proc) /\ IsFiniteSet(Buf) /\ Cardinality(Buf) = NBUF
    /\ NBUF \in Nat /\ MaxPinned \in Nat /\ Cardinality(Proc) \in Nat
<1>1. IsFiniteSet(Buf) /\ Cardinality(Buf) = NBUF
  BY CacheAssumption, FS_Interval DEF Buf
<1>2. Cardinality(Proc) \in Nat
  BY CacheAssumption, FS_CardinalityType
<1> QED  BY <1>1, <1>2, CacheAssumption DEF Buf, NoBuf

\* iderw() appends a request.
LEMMA Appended ==
    ASSUME NEW s \in Seq(Buf), NEW b \in Buf, b \notin Elements(s), Distinct(s)
    PROVE  LET t == Append(s, b)
           IN  /\ t \in Seq(Buf) /\ t # <<>> /\ Distinct(t)
               /\ Elements(t) = Elements(s) \cup {b}
               /\ Head(t) = IF s = <<>> THEN b ELSE Head(s)
<1> DEFINE t == Append(s, b)
<1>1. /\ t \in Seq(Buf) /\ Len(t) = Len(s) + 1 /\ Len(s) \in Nat
      /\ DOMAIN s = 1 .. Len(s) /\ DOMAIN t = 1 .. Len(s) + 1
      /\ \A i \in 1 .. Len(s) : t[i] = s[i]
      /\ t[Len(s) + 1] = b
  OBVIOUS
<1>2. Distinct(t)
  BY <1>1 DEF Distinct, Elements
<1>3. Elements(t) = Elements(s) \cup {b}
  BY <1>1 DEF Elements
<1>4. t # <<>> /\ Head(t) = IF s = <<>> THEN b ELSE Head(s)
  BY AppendProperties, HeadTailAppend
<1> QED  BY <1>1, <1>2, <1>3, <1>4

\* ideintr() removes the first.
LEMMA HeadServed ==
    ASSUME NEW s \in Seq(Buf), s # <<>>, Distinct(s)
    PROVE  /\ Head(s) \in Buf /\ Tail(s) \in Seq(Buf) /\ Distinct(Tail(s))
           /\ Elements(s) = Elements(Tail(s)) \cup {Head(s)}
           /\ Head(s) \notin Elements(Tail(s))
           /\ Tail(s) # <<>> => Head(Tail(s)) \in Elements(Tail(s))
<1>1. /\ Head(s) = s[1] /\ Head(s) \in Buf /\ Tail(s) \in Seq(Buf)
      /\ Len(Tail(s)) = Len(s) - 1 /\ Len(s) \in Nat \ {0}
      /\ DOMAIN s = 1 .. Len(s) /\ DOMAIN Tail(s) = 1 .. Len(s) - 1
      /\ \A i \in 1 .. Len(s) - 1 : Tail(s)[i] = s[i + 1]
  BY HeadTailProperties, EmptySeq, LenProperties
<1>2. \A i \in 1 .. Len(s) : i = 1 \/ (i - 1 \in 1 .. Len(s) - 1 /\ s[i] = Tail(s)[i - 1])
  BY <1>1
<1>3. Elements(s) = Elements(Tail(s)) \cup {Head(s)}
  <2>1. \A x \in Elements(s) : x \in Elements(Tail(s)) \/ x = Head(s)
    <3> SUFFICES ASSUME NEW i \in 1 .. Len(s)
                 PROVE  s[i] \in Elements(Tail(s)) \/ s[i] = Head(s)
      BY <1>1 DEF Elements
    <3>1. CASE i = 1  BY <3>1, <1>1
    <3>2. CASE i # 1  BY <3>2, <1>1, <1>2 DEF Elements
    <3> QED  BY <3>1, <3>2
  <2>2. \A x \in Elements(Tail(s)) : x \in Elements(s)
    <3> SUFFICES ASSUME NEW i \in 1 .. Len(s) - 1 PROVE s[i + 1] \in Elements(s)
      BY <1>1 DEF Elements
    <3> QED  BY <1>1 DEF Elements
  <2>3. Head(s) \in Elements(s)
    BY <1>1 DEF Elements
  <2> QED  BY <2>1, <2>2, <2>3
<1>4. Head(s) \notin Elements(Tail(s)) /\ Distinct(Tail(s))
  BY <1>1 DEF Elements, Distinct
<1>5. Tail(s) # <<>> => Head(Tail(s)) \in Elements(Tail(s))
  <2> SUFFICES ASSUME Tail(s) # <<>> PROVE Head(Tail(s)) \in Elements(Tail(s))
    OBVIOUS
  <2>1. 1 \in DOMAIN Tail(s) /\ Head(Tail(s)) = Tail(s)[1]
    BY <1>1, EmptySeq, LenProperties
  <2> QED  BY <2>1 DEF Elements
<1> QED  BY <1>1, <1>3, <1>4, <1>5

\* The first request is queued.
LEMMA HeadQueued ==
    ASSUME NEW s \in Seq(Buf), s # <<>>
    PROVE  Head(s) \in Elements(s)
BY DEF Elements

\* Users are finitely many; none use a buffer whose count is zero.
LEMMA UsersFinite == \A b \in Buf : IsFiniteSet(Users(b)) /\ Cardinality(Users(b)) \in Nat
<1> TAKE b \in Buf
<1>1. Users(b) \in SUBSET Proc  BY DEF Users
<1> QED  BY <1>1, Constants, FS_Subset, FS_CardinalityType

LEMMA Unused ==
    ASSUME CountInv, NEW b \in Buf, refcnt[b] = 0
    PROVE  \A p \in Proc : my[p] # b
<1>1. Users(b) = {}
  BY UsersFinite, FS_EmptySet DEF CountInv
<1> QED  BY <1>1 DEF Users

\* bget() counts a new user, brelse() takes it back.
LEMMA Entered ==
    ASSUME Types, NEW p \in Proc, NEW b \in Buf, my[p] = NoBuf, my' = [my EXCEPT ![p] = b]
    PROVE  /\ Cardinality(Users(b)') = Cardinality(Users(b)) + 1
           /\ \A c \in Buf : c # b => Users(c)' = Users(c)
<1>1. Users(b)' = Users(b) \cup {p} /\ p \notin Users(b)
  BY Constants DEF Users, Types
<1>2. \A c \in Buf : c # b => Users(c)' = Users(c)
  BY Constants DEF Users, Types
<1>3. Cardinality(Users(b) \cup {p}) = Cardinality(Users(b)) + 1
  BY <1>1, UsersFinite, FS_AddElement
<1> QED  BY <1>1, <1>2, <1>3

LEMMA Left ==
    ASSUME Types, NEW p \in Proc, NEW b \in Buf, my[p] = b, my' = [my EXCEPT ![p] = NoBuf]
    PROVE  /\ Cardinality(Users(b)') = Cardinality(Users(b)) - 1
           /\ Cardinality(Users(b)') \in Nat
           /\ \A c \in Buf : c # b => Users(c)' = Users(c)
<1>1. Users(b)' = Users(b) \ {p} /\ p \in Users(b)
  BY Constants DEF Users, Types
<1>2. \A c \in Buf : c # b => Users(c)' = Users(c)
  BY Constants DEF Users, Types
<1>3. IsFiniteSet(Users(b) \ {p}) /\ Cardinality(Users(b) \ {p}) = Cardinality(Users(b)) - 1
  BY <1>1, UsersFinite, FS_RemoveElement
<1> QED  BY <1>1, <1>2, <1>3, FS_CardinalityType

\* Pinned buffers become fewer, or stay within what log_write() allows.
LEMMA PinnedStay ==
    ASSUME PinInv, (Pinned \ Elements(idequeue))' \subseteq Pinned \ Elements(idequeue)
    PROVE  PinInv'
<1> DEFINE S == Pinned \ Elements(idequeue)
<1>1. S \in SUBSET Buf  BY DEF Pinned
<1>2. IsFiniteSet(S) /\ Cardinality(S) \in Nat
  BY <1>1, Constants, FS_Subset, FS_CardinalityType
<1>3. Cardinality(S') <= Cardinality(S) /\ Cardinality(S') \in Nat
  BY <1>2, FS_Subset, FS_CardinalityType
<1> QED  BY <1>2, <1>3, Constants DEF PinInv

\* When every buffer is in use or pinned, those in use belong to the other processes, and
\* the rest are dirty.
LEMMA NoBufferLeft ==
    ASSUME IndInv, NEW p \in Proc, my[p] = NoBuf, Exhausted
    PROVE  NBUF <= MaxPinned + (Cardinality(Proc) - 1)
<1> DEFINE Others == {q \in Proc \ {p} : my[q] # NoBuf}
           Used == {b \in Buf : refcnt[b] # 0}
           Spare == Pinned \ Elements(idequeue)
           f == [q \in Others |-> my[q]]
<1>1. IsFiniteSet(Others) /\ Cardinality(Others) <= Cardinality(Proc) - 1
  <2>1. IsFiniteSet(Proc \ {p}) /\ Cardinality(Proc \ {p}) = Cardinality(Proc) - 1
    BY Constants, FS_RemoveElement
  <2>2. Others \in SUBSET (Proc \ {p})  OBVIOUS
  <2>3. IsFiniteSet(Others) /\ Cardinality(Others) <= Cardinality(Proc \ {p})
    BY <2>1, <2>2, FS_Subset
  <2> QED  BY <2>1, <2>3
<1>2. \A b \in Used : \E q \in Others : my[q] = b
  <2> TAKE b \in Used
  <2>1. Users(b) # {}
    BY FS_EmptySet, UsersFinite DEF IndInv, CountInv
  <2> QED  BY <2>1, Constants DEF Users
<1>3. \A q \in Others : my[q] \in Used
  <2> SUFFICES ASSUME NEW q \in Others PROVE my[q] \in Buf /\ refcnt[my[q]] # 0
    BY DEF Used
  <2>1. my[q] \in Buf  BY DEF IndInv, Types
  <2>2. refcnt[my[q]] # 0  BY <2>1, Unused DEF IndInv
  <2> QED  BY <2>1, <2>2
<1>4. IsFiniteSet(Used) /\ Cardinality(Used) <= Cardinality(Others)
  <2>1. f \in Surjection(Others, Used)
    BY <1>2, <1>3 DEF Surjection
  <2> QED  BY <1>1, <2>1, FS_Surjection
<1>5. Buf \subseteq Used \cup Spare
  <2> SUFFICES ASSUME NEW b \in Buf, refcnt[b] = 0 PROVE dirty[b] /\ b \notin Elements(idequeue)
    BY DEF Pinned
  <2>2. \A q \in Proc : my[q] # b  BY Unused DEF IndInv
  <2>1. dirty[b]  BY <2>2 DEF Exhausted
  <2>3. b \notin Elements(idequeue)
    BY <2>2 DEF IndInv, Types, QueueInv, OwnerInv
  <2> QED  BY <2>1, <2>3
<1>6. IsFiniteSet(Spare) /\ Cardinality(Spare) <= MaxPinned /\ Cardinality(Spare) \in Nat
  <2>1. Spare \in SUBSET Buf  BY DEF Pinned
  <2> QED  BY <2>1, Constants, FS_Subset, FS_CardinalityType DEF IndInv, PinInv
<1>7. Cardinality(Buf) <= Cardinality(Used) + Cardinality(Spare)
  <2>1. /\ IsFiniteSet(Used \cup Spare)
        /\ Cardinality(Used \cup Spare) =
             Cardinality(Used) + Cardinality(Spare) - Cardinality(Used \cap Spare)
    BY <1>4, <1>6, FS_Union
  <2>2. IsFiniteSet(Used \cap Spare) /\ Cardinality(Used \cap Spare) \in Nat
    <3>1. (Used \cap Spare) \in SUBSET Used  OBVIOUS
    <3> QED  BY <3>1, <1>4, FS_Subset, FS_CardinalityType
  <2>3. Cardinality(Buf) <= Cardinality(Used \cup Spare)
    <3>1. Buf \in SUBSET (Used \cup Spare)  BY <1>5
    <3> QED  BY <3>1, <2>1, FS_Subset
  <2>4. Cardinality(Used) \in Nat  BY <1>4, FS_CardinalityType
  <2> HIDE DEF Used, Spare
  <2> QED  BY <2>1, <2>2, <2>3, <2>4, <1>6, Constants
<1>8. Cardinality(Used) \in Nat /\ Cardinality(Others) \in Nat
  BY <1>1, <1>4, FS_CardinalityType
<1> HIDE DEF Used, Spare, Others
<1> QED  BY <1>1, <1>4, <1>6, <1>7, <1>8, Constants

\* A process in a call has a buffer; one that has locked it is its owner, and has
\* no request for it.
LEMMA Using ==
    ASSUME IndInv, NEW p \in Proc, pc[p] \notin {"idle", "panic"}
    PROVE  my[p] \in Buf /\ my[p] # NoBuf
BY DEF IndInv, OwnerInv, Types

LEMMA Locked ==
    ASSUME IndInv, NEW p \in Proc, pc[p] \in {"locked", "held"}
    PROVE  my[p] \in Buf /\ owner[my[p]] = p /\ my[p] \notin Elements(idequeue)
<1>1. my[p] \in Buf
  BY Using
<1>2. owner[my[p]] = p
  BY DEF IndInv, OwnerInv, HasLock
<1>3. my[p] \notin Elements(idequeue)
  BY <1>2 DEF IndInv, QueueInv, InIderw
<1> QED  BY <1>1, <1>2, <1>3

\* What QueueInv asks of a step that leaves the queue alone.
LEMMA QueueStays ==
    ASSUME QueueInv, UNCHANGED <<idequeue, blockno>>,
           device'.op = device.op, device'.blockno = device.blockno,
           \A b \in Elements(idequeue) :
              /\ ~(valid'[b] /\ ~dirty'[b])
              /\ owner'[b] # Nobody /\ pc'[owner'[b]] \in InIderw,
           \A q \in Proc : pc'[q] \in InIderw =>
              \/ my'[q] \in Elements(idequeue)
              \/ pc'[q] = "iotest" /\ valid'[my'[q]] /\ ~dirty'[my'[q]]
    PROVE  QueueInv'
BY DEF QueueInv, IoDone, Idle, Distinct

\* bget() takes a cached buffer: one more user.
LEMMA BgetHitKeeps ==
    ASSUME IndInv, NEW p \in Proc, NEW b \in Buf, BgetHit(p,b)
    PROVE  IndInv'
<1> USE Constants DEF IndInv
<1>a. /\ pc[p] = "idle"
      /\ blockno[b] # NoBlock
      /\ refcnt' = [refcnt EXCEPT ![b] = @ + 1]
      /\ my' = [my EXCEPT ![p] = b]
      /\ pc' = [pc EXCEPT ![p] = "acquire"]
      /\ UNCHANGED <<disk, blockno, valid, dirty, data, owner, idequeue, device, irq>>
  BY DEF BgetHit, At, Goto, bufVars, ideVars
<1>1. Types'
  BY <1>a DEF Types, PC
<1>2. OwnerInv'
  BY <1>a DEF OwnerInv, HasLock, InIderw, Types, At
<1>3. CountInv'
  <2>1. my[p] = NoBuf  BY <1>a DEF OwnerInv
  <2>2. /\ Cardinality(Users(b)') = Cardinality(Users(b)) + 1
        /\ \A c \in Buf : c # b => Users(c)' = Users(c)
    BY <1>a, <2>1, Entered
  <2> QED  BY <1>a, <2>2 DEF CountInv, Types
<1>4. UniqueInv'
  BY <1>a DEF UniqueInv, Types, OwnerInv, At
<1>5. QueueInv'
  BY <1>a, HeadQueued DEF QueueInv, Types, OwnerInv, HasLock, InIderw, IoDone, Distinct
<1>6. PinInv'
  <2>1. (Pinned \ Elements(idequeue))' \subseteq Pinned \ Elements(idequeue)
    BY <1>a DEF Pinned, Types
  <2> QED  BY <2>1, PinnedStay
<1>7. DataInv'
  BY <1>a, HeadQueued DEF DataInv, Types, QueueInv, At, IoDone
<1> QED  BY <1>1, <1>2, <1>3, <1>4, <1>5, <1>6, <1>7

\* bget() recycles a buffer: it has no user, no owner and no request.
LEMMA RecycleKeeps ==
    ASSUME IndInv, NEW p \in Proc, NEW k \in Block, BgetMiss(p, k),
           \E b \in Buf : Recyclable(b)
    PROVE  IndInv'
<1> USE Constants DEF IndInv
<1>a. Cached(k) = {} /\ my[p] = NoBuf /\ pc[p] = "idle"
  BY DEF BgetMiss, OwnerInv, At
<1>b. PICK b \in Buf :
          /\ Recyclable(b)
          /\ blockno' = [blockno EXCEPT ![b] = k] /\ valid' = [valid EXCEPT ![b] = FALSE]
          /\ dirty' = [dirty EXCEPT ![b] = FALSE] /\ refcnt' = [refcnt EXCEPT ![b] = 1]
          /\ my' = [my EXCEPT ![p] = b] /\ pc' = [pc EXCEPT ![p] = "acquire"]
          /\ UNCHANGED <<data, disk, owner, idequeue, device, irq>>
          /\ my[p] = NoBuf /\ Cached(k) = {} /\ pc[p] = "idle"
  BY <1>a DEF BgetMiss, LeastRecent, Goto, ideVars
<1>c. /\ \A q \in Proc : my[q] # b
      /\ owner[b] = Nobody /\ b \notin Elements(idequeue)
      /\ refcnt[b] = 0 /\ ~dirty[b] /\ Users(b) = {}
  <2>1. refcnt[b] = 0 /\ ~dirty[b]  BY <1>b DEF Recyclable
  <2>2. \A q \in Proc : my[q] # b  BY <2>1, Unused
  <2>3. owner[b] = Nobody  BY <2>2 DEF OwnerInv, Types
  <2> QED  BY <2>1, <2>2, <2>3 DEF QueueInv, Users
<1>1. Types'
  BY <1>b, <1>c DEF Types, PC
<1>2. OwnerInv'
  BY <1>b, <1>c DEF OwnerInv, HasLock, InIderw, Types, At
<1>3. CountInv'
  <2>1. /\ Cardinality(Users(b)') = Cardinality(Users(b)) + 1
        /\ \A c \in Buf : c # b => Users(c)' = Users(c)
    BY <1>b, Entered
  <2>2. Cardinality(Users(b)) = 0  BY <1>c, FS_EmptySet
  <2> QED  BY <1>b, <2>1, <2>2 DEF CountInv, Types
<1>4. UniqueInv'
  BY <1>b, <1>c DEF UniqueInv, Types, OwnerInv, Cached
<1>5. QueueInv'
  BY <1>b, <1>c, HeadQueued DEF QueueInv, Types, OwnerInv, HasLock, InIderw, IoDone, Distinct
<1>6. PinInv'
  <2>1. (Pinned \ Elements(idequeue))' \subseteq Pinned \ Elements(idequeue)
    BY <1>b, <1>c DEF Pinned, Types
  <2> QED  BY <2>1, PinnedStay
<1>7. DataInv'
  BY <1>b, <1>c, HeadQueued DEF DataInv, Types, QueueInv, At, IoDone
<1> QED  BY <1>1, <1>2, <1>3, <1>4, <1>5, <1>6, <1>7

\* bget() panics: its process has no buffer, and changes none.
LEMMA BgetMissKeeps ==
    ASSUME IndInv, NEW p \in Proc, NEW k \in Block, BgetMiss(p, k)
    PROVE  IndInv'
<1> USE Constants DEF IndInv
<1>a. CASE \E b \in Buf : Recyclable(b)
  BY <1>a, RecycleKeeps
<1>b. CASE \A b \in Buf : ~Recyclable(b)
  <2>a. /\ pc[p] = "idle" /\ pc' = [pc EXCEPT ![p] = "panic"]
        /\ UNCHANGED <<disk, blockno, valid, dirty, refcnt, data, owner, idequeue, device, irq, my>>
    BY <1>b DEF BgetMiss, At, Goto, bufVars, ideVars
  <2>b. /\ pc' \in [Proc -> PC] /\ pc'[p] = "panic"
        /\ \A q \in Proc : q # p => pc'[q] = pc[q]
    BY <2>a DEF Types, PC
  <2>1. Types'
    BY <2>a, <2>b DEF Types
  <2>2. OwnerInv'
    BY <2>a, <2>b DEF OwnerInv, HasLock, InIderw, Types, At
  <2>3. CountInv'
    BY <2>a DEF CountInv, Users
  <2>4. UniqueInv'
    BY <2>a DEF UniqueInv
  <2>5. QueueInv'
    BY <2>a, <2>b DEF QueueInv, Types, OwnerInv, HasLock, InIderw, IoDone, Distinct, Elements
  <2>6. PinInv'
    BY <2>a DEF PinInv, Pinned, Elements
  <2>7. DataInv'
    BY <2>a, <2>b DEF DataInv, At
  <2> QED  BY <2>1, <2>2, <2>3, <2>4, <2>5, <2>6, <2>7
<1> QED  BY <1>a, <1>b

\* acquiresleep() locks a buffer nobody has locked, or sleeps.
LEMMA AcquireSleepKeeps ==
    ASSUME IndInv, NEW p \in Proc, AcquireSleep(p)
    PROVE  IndInv'
<1> USE Constants DEF IndInv
<1>a. /\ pc[p] = "acquire"
      /\ IF owner[my[p]] = Nobody
         THEN owner' = [owner EXCEPT ![my[p]] = p] /\ pc' = [pc EXCEPT ![p] = "locked"]
         ELSE owner' = owner /\ pc' = [pc EXCEPT ![p] = "locksleep"]
      /\ UNCHANGED <<disk, blockno, valid, dirty, refcnt, data, idequeue, device, irq, my>>
  BY DEF AcquireSleep, At, Goto, bufVars, ideVars
<1>b. my[p] \in Buf /\ my[p] # NoBuf
  BY <1>a, Using
<1>c. /\ owner' \in [Buf -> Proc \cup {Nobody}] /\ pc' \in [Proc -> PC]
      /\ \A c \in Buf : owner'[c] = IF c = my[p] /\ owner[c] = Nobody THEN p ELSE owner[c]
      /\ \A q \in Proc : pc'[q] = IF q # p THEN pc[q]
                                  ELSE IF owner[my[p]] = Nobody THEN "locked" ELSE "locksleep"
      /\ pc[p] = "acquire"
      /\ UNCHANGED <<disk, blockno, valid, dirty, refcnt, data, idequeue, device, irq, my>>
  <2>1. owner \in [Buf -> Proc \cup {Nobody}] /\ pc \in [Proc -> PC]
    BY DEF Types
  <2> QED  BY <2>1, <1>a, <1>b DEF PC
<1>1. Types'
  BY <1>c DEF Types
<1>2. OwnerInv'
  <2>1. \A q \in Proc : my'[q] = NoBuf <=> pc'[q] \in {"idle", "panic"}
    BY <1>a, <1>c DEF OwnerInv
  <2>2. \A q \in Proc : pc'[q] \in HasLock => owner'[my'[q]] = q
    <3> SUFFICES ASSUME NEW q \in Proc, pc'[q] \in HasLock PROVE owner'[my[q]] = q
      BY <1>c
    <3>1. CASE q = p
      BY <3>1, <1>b, <1>c DEF HasLock, InIderw
    <3>2. CASE q # p
      <4>1. owner[my[q]] = q /\ my[q] \in Buf
        BY <3>2, <1>c, Using DEF OwnerInv, HasLock, InIderw
      <4> QED  BY <4>1, <1>c
    <3> QED  BY <3>1, <3>2
  <2>3. \A c \in Buf : owner'[c] # Nobody => my'[owner'[c]] = c /\ pc'[owner'[c]] \in HasLock
    <3> SUFFICES ASSUME NEW c \in Buf, owner'[c] # Nobody
                 PROVE  my[owner'[c]] = c /\ pc'[owner'[c]] \in HasLock
      BY <1>c
    <3>1. CASE c = my[p] /\ owner[c] = Nobody
      BY <3>1, <1>c DEF HasLock
    <3>2. CASE ~(c = my[p] /\ owner[c] = Nobody)
      <4>1. owner'[c] = owner[c] /\ owner[c] \in Proc
        BY <3>2, <1>c DEF Types
      <4>2. my[owner[c]] = c /\ pc[owner[c]] \in HasLock
        BY <4>1 DEF OwnerInv
      <4>3. owner[c] # p
        BY <4>2, <1>a DEF HasLock, InIderw
      <4> QED  BY <4>1, <4>2, <4>3, <1>c
    <3> QED  BY <3>1, <3>2
  <2>4. \A q \in Proc : pc'[q] = "locksleep" => owner'[my'[q]] # Nobody
    BY <1>b, <1>c, Using DEF OwnerInv, At
  <2> QED  BY <2>1, <2>2, <2>3, <2>4 DEF OwnerInv, At
<1>3. CountInv'
  BY <1>c DEF CountInv, Users
<1>4. UniqueInv'
  BY <1>c DEF UniqueInv, Types, OwnerInv, At
<1>5. QueueInv'
  <2>1. \A b \in Elements(idequeue) :
            /\ ~(valid'[b] /\ ~dirty'[b])
            /\ owner'[b] # Nobody /\ pc'[owner'[b]] \in InIderw
    <3> SUFFICES ASSUME NEW b \in Elements(idequeue)
                 PROVE  /\ ~(valid'[b] /\ ~dirty'[b])
                        /\ owner'[b] # Nobody /\ pc'[owner'[b]] \in InIderw
      OBVIOUS
    <3>1. ~(valid[b] /\ ~dirty[b]) /\ owner[b] # Nobody /\ pc[owner[b]] \in InIderw
      BY DEF QueueInv, IoDone
    <3>2. b \in Buf /\ owner[b] \in Proc
      BY <3>1 DEF Elements, Types
    <3>3. my[owner[b]] = b
      BY <3>1, <3>2 DEF OwnerInv
    <3> QED  BY <1>c, <3>1, <3>2, <3>3 DEF InIderw, Types
  <2>2. \A q \in Proc : pc'[q] \in InIderw =>
            \/ my'[q] \in Elements(idequeue)
            \/ pc'[q] = "iotest" /\ valid'[my'[q]] /\ ~dirty'[my'[q]]
    <3> SUFFICES ASSUME NEW q \in Proc, pc'[q] \in InIderw
                 PROVE  \/ my'[q] \in Elements(idequeue)
                        \/ pc'[q] = "iotest" /\ valid'[my'[q]] /\ ~dirty'[my'[q]]
      OBVIOUS
    <3>1. pc[q] \in InIderw /\ my'[q] = my[q]
      BY <1>c DEF InIderw, Types
    <3>2. my[q] \in Elements(idequeue) \/ (pc[q] = "iotest" /\ valid[my[q]] /\ ~dirty[my[q]])
      BY <3>1 DEF QueueInv, IoDone
    <3>3. my[q] \in Buf
      BY <3>1, Using DEF InIderw
    <3>4. owner[my[q]] = q
      BY <3>1 DEF OwnerInv, HasLock
    <3> QED  BY <1>c, <3>1, <3>2, <3>3, <3>4 DEF InIderw, Types
  <2> QED  BY <1>c, <2>1, <2>2, QueueStays
<1>6. PinInv'
  <2>1. (Pinned \ Elements(idequeue))' \subseteq Pinned \ Elements(idequeue)
    BY <1>c DEF Pinned, Types
  <2> QED  BY <2>1, PinnedStay
<1>7. DataInv'
  BY <1>a, <1>c DEF DataInv, At
<1> QED  BY <1>1, <1>2, <1>3, <1>4, <1>5, <1>6, <1>7

\* bread() returns a valid buffer.
LEMMA BreadValidKeeps ==
    ASSUME IndInv, NEW p \in Proc, BreadValid(p)
    PROVE  IndInv'
<1> USE Constants DEF IndInv
<1>a. /\ pc[p] = "locked"
      /\ valid[my[p]]
      /\ pc' = [pc EXCEPT ![p] = "held"]
      /\ UNCHANGED <<disk, blockno, valid, dirty, refcnt, data, owner, idequeue, device, irq, my>>
  BY DEF BreadValid, At, Goto, bufVars, ideVars
<1>1. Types'
  BY <1>a DEF Types, PC
<1>2. OwnerInv'
  BY <1>a DEF OwnerInv, HasLock, InIderw, Types, At
<1>3. CountInv'
  BY <1>a DEF CountInv, Users
<1>4. UniqueInv'
  BY <1>a DEF UniqueInv, Types, OwnerInv, At
<1>5. QueueInv'
  BY <1>a, HeadQueued DEF QueueInv, Types, OwnerInv, HasLock, InIderw, IoDone, Distinct
<1>6. PinInv'
  <2>1. (Pinned \ Elements(idequeue))' \subseteq Pinned \ Elements(idequeue)
    BY <1>a DEF Pinned, Types
  <2> QED  BY <2>1, PinnedStay
<1>7. DataInv'
  BY <1>a, HeadQueued DEF DataInv, Types, QueueInv, At, IoDone
<1> QED  BY <1>1, <1>2, <1>3, <1>4, <1>5, <1>6, <1>7

\* bread() asks the disk for a buffer that is not valid.
LEMMA BreadDiskKeeps ==
    ASSUME IndInv, NEW p \in Proc, BreadDisk(p)
    PROVE  IndInv'
<1> USE Constants DEF IndInv
<1>a. /\ pc[p] = "locked"
      /\ ~valid[my[p]]
      /\ idequeue' = Append(idequeue, my[p])
      /\ device' = IF idequeue = <<>> THEN Command(my[p], dirty[my[p]], data[my[p]]) ELSE device
      /\ pc' = [pc EXCEPT ![p] = "iowait"]
      /\ UNCHANGED <<disk, blockno, valid, dirty, refcnt, data, owner, irq, my>>
  BY DEF BreadDisk, At, Goto, bufVars, ideVars, Iderw
<1>b. my[p] \in Buf /\ owner[my[p]] = p /\ my[p] \notin Elements(idequeue)
  BY <1>a, Locked
<1>c. /\ idequeue' \in Seq(Buf) /\ idequeue' # <<>> /\ Distinct(idequeue')
      /\ Elements(idequeue') = Elements(idequeue) \cup {my[p]}
      /\ Head(idequeue') = IF idequeue = <<>> THEN my[p] ELSE Head(idequeue)
  BY <1>a, <1>b, Appended DEF Types, QueueInv
<1>1. Types'
  <2>1. device' \in [op : {Idle, "read", "write"}, blockno : Block \cup {NoBlock}, data : Value]
    BY <1>a, <1>b DEF Types, Command
  <2> QED  BY <1>a, <1>b, <1>c, <2>1 DEF Types, PC, InIderw
<1>2. OwnerInv'
  BY <1>a, <1>b, <1>c DEF OwnerInv, HasLock, InIderw, Types, At
<1>3. CountInv'
  BY <1>a, <1>b, <1>c DEF CountInv, Users
<1>4. UniqueInv'
  BY <1>a, <1>b, <1>c DEF UniqueInv, Types, OwnerInv, At
<1>5. QueueInv'
  <2>1. \A b \in Elements(idequeue') :
            ~(valid'[b] /\ ~dirty'[b]) /\ owner'[b] # Nobody /\ pc'[owner'[b]] \in InIderw
    <3> SUFFICES ASSUME NEW b \in Elements(idequeue')
                 PROVE  ~(valid'[b] /\ ~dirty'[b]) /\ owner'[b] # Nobody /\ pc'[owner'[b]] \in InIderw
      OBVIOUS
    <3>1. CASE b = my[p]
      BY <3>1, <1>a, <1>b DEF InIderw, IoDone, Types
    <3>2. CASE b # my[p]
      BY <3>2, <1>a, <1>b, <1>c DEF QueueInv, InIderw, IoDone, Types
    <3> QED  BY <3>1, <3>2
  <2>2. \A q \in Proc : pc'[q] \in InIderw =>
            my'[q] \in Elements(idequeue') \/ (pc'[q] = "iotest" /\ valid'[my'[q]] /\ ~dirty'[my'[q]])
    <3> SUFFICES ASSUME NEW q \in Proc, pc'[q] \in InIderw
                 PROVE  my'[q] \in Elements(idequeue') \/ (pc'[q] = "iotest" /\ valid'[my'[q]] /\ ~dirty'[my'[q]])
      OBVIOUS
    <3>1. CASE q = p
      BY <3>1, <1>a, <1>c
    <3>2. CASE q # p
      <4>1. pc[q] \in InIderw /\ my'[q] = my[q]
        BY <3>2, <1>a DEF Types
      <4>2. my[q] \in Elements(idequeue) \/ (pc[q] = "iotest" /\ valid[my[q]] /\ ~dirty[my[q]])
        BY <4>1 DEF QueueInv, IoDone
      <4>3. my[q] # my[p]
        BY <3>2, <4>1, <1>b DEF OwnerInv, HasLock
      <4>4. pc'[q] = pc[q]
        BY <3>2, <1>a DEF Types
      <4>5. my[q] \in Buf
        BY <4>1, Using DEF InIderw
      <4> QED  BY <1>a, <1>c, <4>1, <4>2, <4>3, <4>4, <4>5 DEF Types
    <3> QED  BY <3>1, <3>2
  <2>3. (device'.op = Idle <=> idequeue' = <<>>) /\ device'.blockno = blockno'[Head(idequeue')]
    BY <1>a, <1>b, <1>c DEF QueueInv, Command, Idle
  <2> QED  BY <1>c, <2>1, <2>2, <2>3 DEF QueueInv, IoDone
<1>6. PinInv'
  <2>1. (Pinned \ Elements(idequeue))' \subseteq Pinned \ Elements(idequeue)
    BY <1>a, <1>b, <1>c DEF Pinned, Types
  <2> QED  BY <2>1, PinnedStay
<1>7. DataInv'
  BY <1>a, <1>b, <1>c, HeadQueued DEF DataInv, Types, QueueInv, IoDone, Command, At
<1> QED  BY <1>1, <1>2, <1>3, <1>4, <1>5, <1>6, <1>7

\* bwrite() hands a dirty buffer to the disk.
LEMMA BwriteKeeps ==
    ASSUME IndInv, NEW p \in Proc, NEW v \in Value, Bwrite(p,v)
    PROVE  IndInv'
<1> USE Constants DEF IndInv
<1>a. /\ pc[p] = "held"
      /\ data' = [data EXCEPT ![my[p]] = v]
      /\ dirty' = [dirty EXCEPT ![my[p]] = TRUE]
      /\ idequeue' = Append(idequeue, my[p])
      /\ device' = IF idequeue = <<>> THEN Command(my[p], TRUE, v) ELSE device
      /\ pc' = [pc EXCEPT ![p] = "iowait"]
      /\ UNCHANGED <<disk, blockno, valid, refcnt, owner, irq, my>>
  BY DEF Bwrite, At, Goto, bufVars, ideVars, Iderw
<1>b. my[p] \in Buf /\ owner[my[p]] = p /\ my[p] \notin Elements(idequeue)
  BY <1>a, Locked
<1>c. /\ idequeue' \in Seq(Buf) /\ idequeue' # <<>> /\ Distinct(idequeue')
      /\ Elements(idequeue') = Elements(idequeue) \cup {my[p]}
      /\ Head(idequeue') = IF idequeue = <<>> THEN my[p] ELSE Head(idequeue)
  BY <1>a, <1>b, Appended DEF Types, QueueInv
<1>1. Types'
  <2>1. device' \in [op : {Idle, "read", "write"}, blockno : Block \cup {NoBlock}, data : Value]
    BY <1>a, <1>b DEF Types, Command
  <2> QED  BY <1>a, <1>b, <1>c, <2>1 DEF Types, PC, InIderw
<1>2. OwnerInv'
  BY <1>a, <1>b, <1>c DEF OwnerInv, HasLock, InIderw, Types, At
<1>3. CountInv'
  BY <1>a, <1>b, <1>c DEF CountInv, Users
<1>4. UniqueInv'
  BY <1>a, <1>b, <1>c DEF UniqueInv, Types, OwnerInv, At
<1>5. QueueInv'
  <2>1. \A b \in Elements(idequeue') :
            ~(valid'[b] /\ ~dirty'[b]) /\ owner'[b] # Nobody /\ pc'[owner'[b]] \in InIderw
    <3> SUFFICES ASSUME NEW b \in Elements(idequeue')
                 PROVE  ~(valid'[b] /\ ~dirty'[b]) /\ owner'[b] # Nobody /\ pc'[owner'[b]] \in InIderw
      OBVIOUS
    <3>1. CASE b = my[p]
      BY <3>1, <1>a, <1>b DEF InIderw, IoDone, Types
    <3>2. CASE b # my[p]
      BY <3>2, <1>a, <1>b, <1>c DEF QueueInv, InIderw, IoDone, Types
    <3> QED  BY <3>1, <3>2
  <2>2. \A q \in Proc : pc'[q] \in InIderw =>
            my'[q] \in Elements(idequeue') \/ (pc'[q] = "iotest" /\ valid'[my'[q]] /\ ~dirty'[my'[q]])
    <3> SUFFICES ASSUME NEW q \in Proc, pc'[q] \in InIderw
                 PROVE  my'[q] \in Elements(idequeue') \/ (pc'[q] = "iotest" /\ valid'[my'[q]] /\ ~dirty'[my'[q]])
      OBVIOUS
    <3>1. CASE q = p
      BY <3>1, <1>a, <1>c
    <3>2. CASE q # p
      <4>1. pc[q] \in InIderw /\ my'[q] = my[q]
        BY <3>2, <1>a DEF Types
      <4>2. my[q] \in Elements(idequeue) \/ (pc[q] = "iotest" /\ valid[my[q]] /\ ~dirty[my[q]])
        BY <4>1 DEF QueueInv, IoDone
      <4>3. my[q] # my[p]
        BY <3>2, <4>1, <1>b DEF OwnerInv, HasLock
      <4>4. pc'[q] = pc[q]
        BY <3>2, <1>a DEF Types
      <4>5. my[q] \in Buf
        BY <4>1, Using DEF InIderw
      <4> QED  BY <1>a, <1>c, <4>1, <4>2, <4>3, <4>4, <4>5 DEF Types
    <3> QED  BY <3>1, <3>2
  <2>3. (device'.op = Idle <=> idequeue' = <<>>) /\ device'.blockno = blockno'[Head(idequeue')]
    BY <1>a, <1>b, <1>c DEF QueueInv, Command, Idle
  <2> QED  BY <1>c, <2>1, <2>2, <2>3 DEF QueueInv, IoDone
<1>6. PinInv'
  <2>1. (Pinned \ Elements(idequeue))' \subseteq Pinned \ Elements(idequeue)
    BY <1>a, <1>b, <1>c DEF Pinned, Types
  <2> QED  BY <2>1, PinnedStay
<1>7. DataInv'
  BY <1>a, <1>b, <1>c, HeadQueued DEF DataInv, Types, QueueInv, IoDone, Command, At
<1> QED  BY <1>1, <1>2, <1>3, <1>4, <1>5, <1>6, <1>7

\* log_write() pins a buffer.
LEMMA LogWriteKeeps ==
    ASSUME IndInv, NEW p \in Proc, NEW v \in Value, LogWrite(p,v)
    PROVE  IndInv'
<1> USE Constants DEF IndInv
<1>a. /\ pc[p] = "held"
      /\ Cardinality(Pinned \cup {my[p]}) <= MaxPinned
      /\ data' = [data EXCEPT ![my[p]] = v]
      /\ dirty' = [dirty EXCEPT ![my[p]] = TRUE]
      /\ UNCHANGED <<disk, blockno, valid, refcnt, owner, idequeue, device, irq, pc, my>>
  BY DEF LogWrite, At, Goto, bufVars, ideVars
<1>b. my[p] \in Buf /\ owner[my[p]] = p /\ my[p] \notin Elements(idequeue)
  BY <1>a, Locked
<1>1. Types'
  BY <1>a, <1>b DEF Types, PC
<1>2. OwnerInv'
  BY <1>a, <1>b DEF OwnerInv, HasLock, InIderw, Types, At
<1>3. CountInv'
  BY <1>a, <1>b DEF CountInv, Users
<1>4. UniqueInv'
  BY <1>a, <1>b DEF UniqueInv, Types, OwnerInv, At
<1>5. QueueInv'
  <2>1. \A b \in Elements(idequeue) :
            /\ ~(valid'[b] /\ ~dirty'[b])
            /\ owner'[b] # Nobody /\ pc'[owner'[b]] \in InIderw
    <3> SUFFICES ASSUME NEW b \in Elements(idequeue)
                 PROVE  /\ ~(valid'[b] /\ ~dirty'[b])
                        /\ owner'[b] # Nobody /\ pc'[owner'[b]] \in InIderw
      OBVIOUS
    <3>1. ~(valid[b] /\ ~dirty[b]) /\ owner[b] # Nobody /\ pc[owner[b]] \in InIderw
      BY DEF QueueInv, IoDone
    <3>2. b \in Buf /\ owner[b] \in Proc
      BY <3>1 DEF Elements, Types
    <3>3. my[owner[b]] = b
      BY <3>1, <3>2 DEF OwnerInv
    <3> QED  BY <1>a, <1>b, <3>1, <3>2, <3>3 DEF InIderw, Types
  <2>2. \A q \in Proc : pc'[q] \in InIderw =>
            \/ my'[q] \in Elements(idequeue)
            \/ pc'[q] = "iotest" /\ valid'[my'[q]] /\ ~dirty'[my'[q]]
    <3> SUFFICES ASSUME NEW q \in Proc, pc'[q] \in InIderw
                 PROVE  \/ my'[q] \in Elements(idequeue)
                        \/ pc'[q] = "iotest" /\ valid'[my'[q]] /\ ~dirty'[my'[q]]
      OBVIOUS
    <3>1. pc[q] \in InIderw /\ my'[q] = my[q]
      BY <1>a, <1>b DEF InIderw, Types
    <3>2. my[q] \in Elements(idequeue) \/ (pc[q] = "iotest" /\ valid[my[q]] /\ ~dirty[my[q]])
      BY <3>1 DEF QueueInv, IoDone
    <3>3. my[q] \in Buf
      BY <3>1, Using DEF InIderw
    <3>4. owner[my[q]] = q
      BY <3>1 DEF OwnerInv, HasLock
    <3> QED  BY <1>a, <1>b, <3>1, <3>2, <3>3, <3>4 DEF InIderw, Types
  <2> QED  BY <1>a, <1>b, <2>1, <2>2, QueueStays
<1>6. PinInv'
  <2>1. Pinned' = Pinned \cup {my[p]} /\ Pinned' \in SUBSET Buf
    BY <1>a, <1>b DEF Pinned, Types
  <2>2. IsFiniteSet(Pinned') /\ Cardinality(Pinned') \in Nat /\ Cardinality(Pinned') <= MaxPinned
    BY <1>a, <2>1, FS_Subset, FS_CardinalityType
  <2>3. /\ Cardinality(Pinned' \ Elements(idequeue)) <= Cardinality(Pinned')
        /\ Cardinality(Pinned' \ Elements(idequeue)) \in Nat
    <3>1. (Pinned' \ Elements(idequeue)) \in SUBSET Pinned'  OBVIOUS
    <3> QED  BY <3>1, <2>2, FS_Subset, FS_CardinalityType
  <2> QED  BY <1>a, <2>2, <2>3 DEF PinInv
<1>7. DataInv'
  BY <1>a, <1>b, HeadQueued DEF DataInv, Types, QueueInv, At, IoDone
<1> QED  BY <1>1, <1>2, <1>3, <1>4, <1>5, <1>6, <1>7

\* iderw() tests its buffer again.
LEMMA IoTestKeeps ==
    ASSUME IndInv, NEW p \in Proc, IoTest(p)
    PROVE  IndInv'
<1> USE Constants DEF IndInv
<1>a. /\ pc[p] = "iotest"
      /\ pc' = [pc EXCEPT ![p] = IF IoDone(my[p]) THEN "held" ELSE "iowait"]
      /\ UNCHANGED <<disk, blockno, valid, dirty, refcnt, data, owner, idequeue, device, irq, my>>
  BY DEF IoTest, At, Goto, bufVars, ideVars
<1>1. Types'
  BY <1>a DEF Types, PC
<1>2. OwnerInv'
  BY <1>a DEF OwnerInv, HasLock, InIderw, Types, At
<1>3. CountInv'
  BY <1>a DEF CountInv, Users
<1>4. UniqueInv'
  BY <1>a DEF UniqueInv, Types, OwnerInv, At
<1>5. QueueInv'
  <2>1. \A b \in Elements(idequeue) :
            /\ ~(valid'[b] /\ ~dirty'[b])
            /\ owner'[b] # Nobody /\ pc'[owner'[b]] \in InIderw
    <3> SUFFICES ASSUME NEW b \in Elements(idequeue)
                 PROVE  /\ ~(valid'[b] /\ ~dirty'[b])
                        /\ owner'[b] # Nobody /\ pc'[owner'[b]] \in InIderw
      OBVIOUS
    <3>1. ~(valid[b] /\ ~dirty[b]) /\ owner[b] # Nobody /\ pc[owner[b]] \in InIderw
      BY DEF QueueInv, IoDone
    <3>2. b \in Buf /\ owner[b] \in Proc
      BY <3>1 DEF Elements, Types
    <3>3. my[owner[b]] = b
      BY <3>1, <3>2 DEF OwnerInv
    <3> QED  BY <1>a, <3>1, <3>2, <3>3 DEF InIderw, Types, IoDone
  <2>2. \A q \in Proc : pc'[q] \in InIderw =>
            \/ my'[q] \in Elements(idequeue)
            \/ pc'[q] = "iotest" /\ valid'[my'[q]] /\ ~dirty'[my'[q]]
    <3> SUFFICES ASSUME NEW q \in Proc, pc'[q] \in InIderw
                 PROVE  \/ my'[q] \in Elements(idequeue)
                        \/ pc'[q] = "iotest" /\ valid'[my'[q]] /\ ~dirty'[my'[q]]
      OBVIOUS
    <3>1. pc[q] \in InIderw /\ my'[q] = my[q]
      BY <1>a DEF InIderw, Types
    <3>2. my[q] \in Elements(idequeue) \/ (pc[q] = "iotest" /\ valid[my[q]] /\ ~dirty[my[q]])
      BY <3>1 DEF QueueInv, IoDone
    <3>3. my[q] \in Buf
      BY <3>1, Using DEF InIderw
    <3>4. owner[my[q]] = q
      BY <3>1 DEF OwnerInv, HasLock
    <3> QED  BY <1>a, <3>1, <3>2, <3>3, <3>4 DEF InIderw, Types, IoDone
  <2> QED  BY <1>a, <2>1, <2>2, QueueStays
<1>6. PinInv'
  <2>1. (Pinned \ Elements(idequeue))' \subseteq Pinned \ Elements(idequeue)
    BY <1>a DEF Pinned, Types
  <2> QED  BY <2>1, PinnedStay
<1>7. DataInv'
  BY <1>a, HeadQueued DEF DataInv, Types, QueueInv, At, IoDone
<1> QED  BY <1>1, <1>2, <1>3, <1>4, <1>5, <1>6, <1>7

\* The disk executes the command of the first request.
LEMMA DiskDoneKeeps ==
    ASSUME IndInv, DiskDone
    PROVE  IndInv'
<1> USE Constants DEF IndInv
<1>a. /\ device.op # Idle
      /\ ~irq
      /\ irq' = TRUE
      /\ IF device.op = "write"
         THEN disk' = [disk EXCEPT ![device.blockno] = device.data] /\ device' = device
         ELSE device' = [device EXCEPT !.data = disk[device.blockno]] /\ disk' = disk
      /\ UNCHANGED <<blockno, valid, dirty, refcnt, data, owner, idequeue, pc, my>>
  BY DEF DiskDone, At, Goto, bufVars, ideVars
<1>b. /\ Head(idequeue) \in Buf /\ idequeue # <<>> /\ device.blockno = blockno[Head(idequeue)]
      /\ device.blockno \in Block /\ device.op \in {"read", "write"} /\ device.data \in Value
      /\ device.op = "write" => dirty[Head(idequeue)] /\ device.data = data[Head(idequeue)]
      /\ device.op = "read" => ~dirty[Head(idequeue)]
  <2>1. idequeue # <<>> /\ Head(idequeue) \in Elements(idequeue) /\ Head(idequeue) \in Buf
    BY <1>a, HeadQueued, HeadServed DEF QueueInv, Types
  <2>2. blockno[Head(idequeue)] \in Block
    BY <2>1 DEF QueueInv, OwnerInv, UniqueInv, Types
  <2> QED  BY <1>a, <2>1, <2>2 DEF QueueInv, DataInv, Types, Idle
<1>c. device'.op = device.op /\ device'.blockno = device.blockno
  BY <1>a DEF Types
<1>1. Types'
  <2>1. disk[device.blockno] \in Value
    BY <1>b DEF Types
  <2>2. disk' \in [Block -> Value]
    BY <1>a, <1>b DEF Types
  <2>3. device' \in [op : {Idle, "read", "write"}, blockno : Block \cup {NoBlock}, data : Value]
    BY <1>a, <2>1 DEF Types
  <2> QED  BY <1>a, <2>2, <2>3 DEF Types
<1>2. OwnerInv'
  BY <1>a, <1>b DEF OwnerInv, HasLock, InIderw, Types, At
<1>3. CountInv'
  BY <1>a, <1>b DEF CountInv, Users
<1>4. UniqueInv'
  BY <1>a, <1>b DEF UniqueInv, Types, OwnerInv, At
<1>5. QueueInv'
  <2>1. \A b \in Elements(idequeue) :
            /\ ~(valid'[b] /\ ~dirty'[b])
            /\ owner'[b] # Nobody /\ pc'[owner'[b]] \in InIderw
    <3> SUFFICES ASSUME NEW b \in Elements(idequeue)
                 PROVE  /\ ~(valid'[b] /\ ~dirty'[b])
                        /\ owner'[b] # Nobody /\ pc'[owner'[b]] \in InIderw
      OBVIOUS
    <3>1. ~(valid[b] /\ ~dirty[b]) /\ owner[b] # Nobody /\ pc[owner[b]] \in InIderw
      BY DEF QueueInv, IoDone
    <3>2. b \in Buf /\ owner[b] \in Proc
      BY <3>1 DEF Elements, Types
    <3>3. my[owner[b]] = b
      BY <3>1, <3>2 DEF OwnerInv
    <3> QED  BY <1>a, <1>c, <3>1, <3>2, <3>3 DEF InIderw, Types
  <2>2. \A q \in Proc : pc'[q] \in InIderw =>
            \/ my'[q] \in Elements(idequeue)
            \/ pc'[q] = "iotest" /\ valid'[my'[q]] /\ ~dirty'[my'[q]]
    <3> SUFFICES ASSUME NEW q \in Proc, pc'[q] \in InIderw
                 PROVE  \/ my'[q] \in Elements(idequeue)
                        \/ pc'[q] = "iotest" /\ valid'[my'[q]] /\ ~dirty'[my'[q]]
      OBVIOUS
    <3>1. pc[q] \in InIderw /\ my'[q] = my[q]
      BY <1>a, <1>c DEF InIderw, Types
    <3>2. my[q] \in Elements(idequeue) \/ (pc[q] = "iotest" /\ valid[my[q]] /\ ~dirty[my[q]])
      BY <3>1 DEF QueueInv, IoDone
    <3>3. my[q] \in Buf
      BY <3>1, Using DEF InIderw
    <3>4. owner[my[q]] = q
      BY <3>1 DEF OwnerInv, HasLock
    <3> QED  BY <1>a, <1>c, <3>1, <3>2, <3>3, <3>4 DEF InIderw, Types
  <2> QED  BY <1>a, <1>c, <2>1, <2>2, QueueStays
<1>6. PinInv'
  <2>1. (Pinned \ Elements(idequeue))' \subseteq Pinned \ Elements(idequeue)
    BY <1>a, <1>b DEF Pinned, Types
  <2> QED  BY <2>1, PinnedStay
<1>7. DataInv'
  <2>1. CASE device.op = "write"
    BY <2>1, <1>a, <1>b, HeadQueued DEF DataInv, Types, QueueInv, At, IoDone, UniqueInv
  <2>2. CASE ~(device.op = "write")
    BY <2>2, <1>a, <1>b, HeadQueued DEF DataInv, Types, QueueInv, At, IoDone, UniqueInv
  <2> QED  BY <2>1, <2>2
<1> QED  BY <1>1, <1>2, <1>3, <1>4, <1>5, <1>6, <1>7

\* ideintr() completes the first request and starts the next.
LEMMA IdeintrKeeps ==
    ASSUME IndInv, Ideintr
    PROVE  IndInv'
<1> USE Constants DEF IndInv
<1> DEFINE b == Head(idequeue)
           rest == Tail(idequeue)
<1>b. /\ b \in Buf /\ rest \in Seq(Buf) /\ Distinct(rest)
      /\ Elements(idequeue) = Elements(rest) \cup {b} /\ b \notin Elements(rest)
      /\ rest # <<>> => Head(rest) \in Elements(rest) /\ Head(rest) \in Buf
  BY HeadServed, HeadTailProperties DEF Types, QueueInv, Ideintr
<1>c. /\ irq /\ irq' = FALSE /\ idequeue # <<>> /\ idequeue' = rest
      /\ data' = [data EXCEPT ![b] = IF dirty[b] THEN @ ELSE device.data]
      /\ valid' = [valid EXCEPT ![b] = TRUE] /\ dirty' = [dirty EXCEPT ![b] = FALSE]
      /\ UNCHANGED <<disk, blockno, refcnt, owner, my>>
  BY DEF Ideintr
<1>d. /\ pc' \in [Proc -> PC]
      /\ \A q \in Proc : pc'[q] = IF pc[q] = "iowait" /\ my[q] = b THEN "iotest" ELSE pc[q]
  BY DEF Ideintr, WakeGoto, Types, PC
<1>e. /\ data[b] \in Value /\ device.data \in Value /\ blockno[b] \in Block
      /\ IF dirty[b] THEN data[b] = disk[blockno[b]] ELSE device.data = disk[blockno[b]]
  <2>1. blockno[b] \in Block
    BY <1>b, HeadQueued, <1>c DEF QueueInv, OwnerInv, UniqueInv, Types
  <2> QED  BY <1>b, <1>c, <2>1 DEF DataInv, Types
<1>f. /\ rest = <<>> => device' = [device EXCEPT !.op = Idle]
      /\ rest # <<>> =>
           device' = [op |-> IF dirty'[Head(rest)] THEN "write" ELSE "read",
                      blockno |-> blockno'[Head(rest)], data |-> data'[Head(rest)]]
  <2>1. device' = NextCommand(rest)  BY DEF Ideintr
  <2>2. CASE rest = <<>>  BY <2>1, <2>2 DEF NextCommand
  <2>3. CASE rest # <<>>
    <3>1. device' = Command(Head(rest), dirty[Head(rest)], data[Head(rest)])
      BY <2>1, <2>3 DEF NextCommand
    <3>2. Head(rest) # b  BY <2>3, <1>b
    <3>3. /\ dirty'[Head(rest)] = dirty[Head(rest)] /\ data'[Head(rest)] = data[Head(rest)]
          /\ blockno' = blockno
      BY <2>3, <3>2, <1>b, <1>c DEF Types
    <3> QED  BY <2>3, <3>1, <3>3 DEF Command
  <2> QED  BY <2>2, <2>3
<1> HIDE DEF b, rest
<1>1. Types'
  <2>1. device' \in [op : {Idle, "read", "write"}, blockno : Block \cup {NoBlock}, data : Value]
    BY <1>b, <1>c, <1>e, <1>f DEF Types
  <2> QED  BY <1>b, <1>c, <1>d, <1>e, <2>1 DEF Types
<1>2. OwnerInv'
  <2>1. \A q \in Proc :
            /\ pc'[q] \in HasLock <=> pc[q] \in HasLock
            /\ pc'[q] = "panic" <=> pc[q] = "panic"
            /\ pc'[q] = "idle" <=> pc[q] = "idle"
            /\ pc'[q] = "locksleep" <=> pc[q] = "locksleep"
    <3> TAKE q \in Proc
    <3>1. CASE pc[q] = "iowait" /\ my[q] = b
      BY <3>1, <1>d DEF InIderw, HasLock
    <3>2. CASE ~(pc[q] = "iowait" /\ my[q] = b)
      BY <3>2, <1>d
    <3> QED  BY <3>1, <3>2
  <2>2. \A q \in Proc : my[q] = NoBuf <=> pc'[q] \in {"idle", "panic"}
    BY <2>1 DEF OwnerInv
  <2>3. \A q \in Proc :
            /\ pc'[q] \in HasLock => owner[my[q]] = q
            /\ pc'[q] = "locksleep" => owner[my[q]] # Nobody
    BY <2>1 DEF OwnerInv, At
  <2>4. \A c \in Buf : owner[c] # Nobody => my[owner[c]] = c /\ pc'[owner[c]] \in HasLock
    BY <2>1 DEF OwnerInv, Types
  <2> QED  BY <1>c, <2>2, <2>3, <2>4 DEF OwnerInv, At
<1>3. CountInv'
  BY <1>c DEF CountInv, Users
<1>4. UniqueInv'
  BY <1>b, <1>c, <1>e DEF UniqueInv, Types
<1>5. QueueInv'
  <2>1. \A c \in Elements(rest) :
            ~(valid'[c] /\ ~dirty'[c]) /\ owner'[c] # Nobody /\ pc'[owner'[c]] \in InIderw
    <3> SUFFICES ASSUME NEW c \in Elements(rest)
                 PROVE  ~(valid'[c] /\ ~dirty'[c]) /\ owner'[c] # Nobody /\ pc'[owner'[c]] \in InIderw
      OBVIOUS
    <3>1. c # b /\ ~IoDone(c) /\ owner[c] # Nobody /\ pc[owner[c]] \in InIderw
      BY <1>b DEF QueueInv
    <3>2. c \in Buf  BY <1>b DEF Elements
    <3>3. owner[c] \in Proc  BY <3>1, <3>2 DEF Types
    <3> QED  BY <1>c, <1>d, <3>1, <3>2, <3>3 DEF InIderw, IoDone, Types
  <2>2. \A q \in Proc : pc'[q] \in InIderw =>
            my'[q] \in Elements(rest) \/ (pc'[q] = "iotest" /\ valid'[my'[q]] /\ ~dirty'[my'[q]])
    <3> SUFFICES ASSUME NEW q \in Proc, pc'[q] \in InIderw
                 PROVE  my'[q] \in Elements(rest) \/ (pc'[q] = "iotest" /\ valid'[my'[q]] /\ ~dirty'[my'[q]])
      OBVIOUS
    <3>1. pc[q] \in InIderw /\ my'[q] = my[q]
      BY <1>c, <1>d DEF InIderw
    <3>4. my[q] \in Buf
      BY <3>1, Using DEF InIderw
    <3>5. my[q] \in Elements(idequeue) \/ (pc[q] = "iotest" /\ valid[my[q]] /\ ~dirty[my[q]])
      BY <3>1 DEF QueueInv, IoDone
    <3>2. CASE my[q] = b
      BY <3>1, <3>2, <3>4, <1>c, <1>d DEF InIderw, Types
    <3>3. CASE my[q] # b
      BY <3>1, <3>3, <3>4, <3>5, <1>b, <1>c, <1>d DEF Types
    <3> QED  BY <3>2, <3>3
  <2>3. device'.op = Idle <=> rest = <<>>
    BY <1>f DEF Types, Idle
  <2>4. rest # <<>> => device'.blockno = blockno'[Head(rest)]
    BY <1>f
  <2> QED  BY <1>b, <1>c, <2>1, <2>2, <2>3, <2>4 DEF QueueInv, IoDone
<1>6. PinInv'
  <2>1. (Pinned \ Elements(idequeue))' \subseteq Pinned \ Elements(idequeue)
    BY <1>b, <1>c, <1>d DEF Pinned, Types
  <2> QED  BY <2>1, PinnedStay
<1>7. DataInv'
  <2>1. \A c \in Buf : /\ dirty'[c] => valid'[c]
                       /\ valid'[c] /\ ~dirty'[c] => data'[c] = disk'[blockno'[c]]
    BY <1>b, <1>c, <1>e DEF DataInv, Types
  <2>2. \A q \in Proc : pc'[q] = "held" => valid'[my'[q]]
    BY <1>b, <1>c, <1>d DEF DataInv, Types, At
  <2>3. rest # <<>> =>
          IF dirty'[Head(rest)]
          THEN device'.op = "write" /\ device'.data = data'[Head(rest)]
          ELSE device'.op = "read"
    BY <1>f
  <2> QED  BY <1>c, <2>1, <2>2, <2>3 DEF DataInv, At
<1> QED  BY <1>1, <1>2, <1>3, <1>4, <1>5, <1>6, <1>7

\* brelse() unlocks its buffer.
LEMMA BrelseKeeps ==
    ASSUME IndInv, NEW p \in Proc, Brelse(p)
    PROVE  IndInv'
<1> USE Constants DEF IndInv
<1>a. /\ pc[p] = "held"
      /\ owner' = [owner EXCEPT ![my[p]] = Nobody]
      /\ pc' = [q \in Proc |-> IF q = p THEN "release"
                            ELSE IF pc[q] = "locksleep" /\ my[q] = my[p] THEN "acquire"
                            ELSE pc[q]]
      /\ UNCHANGED <<disk, blockno, valid, dirty, refcnt, data, idequeue, device, irq, my>>
  BY DEF Brelse, WakeGoto, At, Goto, bufVars, ideVars
<1>b. my[p] \in Buf /\ owner[my[p]] = p /\ my[p] \notin Elements(idequeue)
  BY <1>a, Locked
<1>1. Types'
  BY <1>a, <1>b DEF Types, PC
<1>2. OwnerInv'
  BY <1>a, <1>b DEF OwnerInv, HasLock, InIderw, Types, At
<1>3. CountInv'
  BY <1>a, <1>b DEF CountInv, Users
<1>4. UniqueInv'
  BY <1>a, <1>b DEF UniqueInv, Types, OwnerInv, At
<1>5. QueueInv'
  <2>1. \A b \in Elements(idequeue) :
            /\ ~(valid'[b] /\ ~dirty'[b])
            /\ owner'[b] # Nobody /\ pc'[owner'[b]] \in InIderw
    <3> SUFFICES ASSUME NEW b \in Elements(idequeue)
                 PROVE  /\ ~(valid'[b] /\ ~dirty'[b])
                        /\ owner'[b] # Nobody /\ pc'[owner'[b]] \in InIderw
      OBVIOUS
    <3>1. ~(valid[b] /\ ~dirty[b]) /\ owner[b] # Nobody /\ pc[owner[b]] \in InIderw
      BY DEF QueueInv, IoDone
    <3>2. b \in Buf /\ owner[b] \in Proc
      BY <3>1 DEF Elements, Types
    <3>3. my[owner[b]] = b
      BY <3>1, <3>2 DEF OwnerInv
    <3> QED  BY <1>a, <1>b, <3>1, <3>2, <3>3 DEF InIderw, Types
  <2>2. \A q \in Proc : pc'[q] \in InIderw =>
            \/ my'[q] \in Elements(idequeue)
            \/ pc'[q] = "iotest" /\ valid'[my'[q]] /\ ~dirty'[my'[q]]
    <3> SUFFICES ASSUME NEW q \in Proc, pc'[q] \in InIderw
                 PROVE  \/ my'[q] \in Elements(idequeue)
                        \/ pc'[q] = "iotest" /\ valid'[my'[q]] /\ ~dirty'[my'[q]]
      OBVIOUS
    <3>1. pc[q] \in InIderw /\ my'[q] = my[q]
      BY <1>a, <1>b DEF InIderw, Types
    <3>2. my[q] \in Elements(idequeue) \/ (pc[q] = "iotest" /\ valid[my[q]] /\ ~dirty[my[q]])
      BY <3>1 DEF QueueInv, IoDone
    <3>3. my[q] \in Buf
      BY <3>1, Using DEF InIderw
    <3>4. owner[my[q]] = q
      BY <3>1 DEF OwnerInv, HasLock
    <3> QED  BY <1>a, <1>b, <3>1, <3>2, <3>3, <3>4 DEF InIderw, Types
  <2> QED  BY <1>a, <1>b, <2>1, <2>2, QueueStays
<1>6. PinInv'
  <2>1. (Pinned \ Elements(idequeue))' \subseteq Pinned \ Elements(idequeue)
    BY <1>a, <1>b DEF Pinned, Types
  <2> QED  BY <2>1, PinnedStay
<1>7. DataInv'
  BY <1>a, <1>b, HeadQueued DEF DataInv, Types, QueueInv, At, IoDone
<1> QED  BY <1>1, <1>2, <1>3, <1>4, <1>5, <1>6, <1>7

\* brelse() gives its reference back.
LEMMA BrelseCountKeeps ==
    ASSUME IndInv, NEW p \in Proc, BrelseCount(p)
    PROVE  IndInv'
<1> USE Constants DEF IndInv
<1>a. /\ pc[p] = "release"
      /\ refcnt' = [refcnt EXCEPT ![my[p]] = @ - 1]
      /\ my' = [my EXCEPT ![p] = NoBuf]
      /\ pc' = [pc EXCEPT ![p] = "idle"]
      /\ UNCHANGED <<disk, blockno, valid, dirty, data, owner, idequeue, device, irq>>
  BY DEF BrelseCount, At, Goto, bufVars, ideVars
<1>b. my[p] \in Buf /\ my[p] # NoBuf
  BY <1>a, Using
<1>1. Types'
  <2>b. PICK b \in Buf : b = my[p]
    BY <1>b
  <2>1. Cardinality(Users(b)) - 1 \in Nat
    BY <1>a, <2>b, Left
  <2> QED  BY <1>a, <2>b, <2>1 DEF Types, PC, CountInv
<1>2. OwnerInv'
  BY <1>a, <1>b DEF OwnerInv, HasLock, InIderw, Types, At
<1>3. CountInv'
  <2>b. PICK b \in Buf : b = my[p]
    BY <1>b
  <2>1. /\ Cardinality(Users(b)') = Cardinality(Users(b)) - 1
        /\ \A c \in Buf : c # b => Users(c)' = Users(c)
    BY <1>a, <2>b, Left
  <2> QED  BY <1>a, <2>b, <2>1 DEF CountInv, Types
<1>4. UniqueInv'
  BY <1>a, <1>b DEF UniqueInv, Types, OwnerInv, At
<1>5. QueueInv'
  BY <1>a, <1>b, HeadQueued DEF QueueInv, Types, OwnerInv, HasLock, InIderw, IoDone, Distinct
<1>6. PinInv'
  <2>1. (Pinned \ Elements(idequeue))' \subseteq Pinned \ Elements(idequeue)
    BY <1>a, <1>b DEF Pinned, Types
  <2> QED  BY <2>1, PinnedStay
<1>7. DataInv'
  BY <1>a, <1>b, HeadQueued DEF DataInv, Types, QueueInv, At, IoDone
<1> QED  BY <1>1, <1>2, <1>3, <1>4, <1>5, <1>6, <1>7

\* kill() makes a sleeper test again.
LEMMA KillWakesKeeps ==
    ASSUME IndInv, NEW p \in Proc, KillWakes(p)
    PROVE  IndInv'
<1> USE Constants DEF IndInv
<1>a. /\ \/ pc[p] = "locksleep" /\ pc' = [pc EXCEPT ![p] = "acquire"]
         \/ pc[p] = "iowait" /\ pc' = [pc EXCEPT ![p] = "iotest"]
      /\ UNCHANGED <<disk, blockno, valid, dirty, refcnt, data, owner, idequeue, device, irq, my>>
  BY DEF KillWakes, At, Goto, bufVars, ideVars
<1>b. my[p] \in Buf /\ my[p] # NoBuf
  BY <1>a, Using
<1>1. Types'
  BY <1>a, <1>b DEF Types, PC
<1>2. OwnerInv'
  <2>1. \A q \in Proc :
            /\ pc'[q] \in HasLock <=> pc[q] \in HasLock
            /\ pc'[q] \in {"idle", "panic"} <=> pc[q] \in {"idle", "panic"}
            /\ pc'[q] = "locksleep" => pc[q] = "locksleep"
    BY <1>a DEF OwnerInv, HasLock, InIderw, Types
  <2>2. \A c \in Buf : owner[c] # Nobody => my[owner[c]] = c /\ pc'[owner[c]] \in HasLock
    BY <2>1 DEF OwnerInv, Types
  <2> QED  BY <1>a, <2>1, <2>2 DEF OwnerInv, At
<1>3. CountInv'
  BY <1>a, <1>b DEF CountInv, Users
<1>4. UniqueInv'
  BY <1>a, <1>b DEF UniqueInv, Types, OwnerInv, At
<1>5. QueueInv'
  <2>1. \A b \in Elements(idequeue) :
            /\ ~(valid'[b] /\ ~dirty'[b])
            /\ owner'[b] # Nobody /\ pc'[owner'[b]] \in InIderw
    <3> SUFFICES ASSUME NEW b \in Elements(idequeue)
                 PROVE  /\ ~(valid'[b] /\ ~dirty'[b])
                        /\ owner'[b] # Nobody /\ pc'[owner'[b]] \in InIderw
      OBVIOUS
    <3>1. ~(valid[b] /\ ~dirty[b]) /\ owner[b] # Nobody /\ pc[owner[b]] \in InIderw
      BY DEF QueueInv, IoDone
    <3>2. b \in Buf /\ owner[b] \in Proc
      BY <3>1 DEF Elements, Types
    <3>3. my[owner[b]] = b
      BY <3>1, <3>2 DEF OwnerInv
    <3> QED  BY <1>a, <3>1, <3>2, <3>3 DEF InIderw, Types
  <2>2. \A q \in Proc : pc'[q] \in InIderw =>
            \/ my'[q] \in Elements(idequeue)
            \/ pc'[q] = "iotest" /\ valid'[my'[q]] /\ ~dirty'[my'[q]]
    <3> SUFFICES ASSUME NEW q \in Proc, pc'[q] \in InIderw
                 PROVE  \/ my'[q] \in Elements(idequeue)
                        \/ pc'[q] = "iotest" /\ valid'[my'[q]] /\ ~dirty'[my'[q]]
      OBVIOUS
    <3>1. pc[q] \in InIderw /\ my'[q] = my[q]
      BY <1>a DEF InIderw, Types
    <3>2. my[q] \in Elements(idequeue) \/ (pc[q] = "iotest" /\ valid[my[q]] /\ ~dirty[my[q]])
      BY <3>1 DEF QueueInv, IoDone
    <3>3. my[q] \in Buf
      BY <3>1, Using DEF InIderw
    <3>4. owner[my[q]] = q
      BY <3>1 DEF OwnerInv, HasLock
    <3> QED  BY <1>a, <3>1, <3>2, <3>3, <3>4 DEF InIderw, Types
  <2> QED  BY <1>a, <2>1, <2>2, QueueStays
<1>6. PinInv'
  <2>1. (Pinned \ Elements(idequeue))' \subseteq Pinned \ Elements(idequeue)
    BY <1>a, <1>b DEF Pinned, Types
  <2> QED  BY <2>1, PinnedStay
<1>7. DataInv'
  BY <1>a, <1>b, HeadQueued DEF DataInv, Types, QueueInv, At, IoDone
<1> QED  BY <1>1, <1>2, <1>3, <1>4, <1>5, <1>6, <1>7

\* No step that leaves the variables alone breaks anything.
LEMMA StutterKeeps == ASSUME IndInv, UNCHANGED vars PROVE IndInv'
BY DEF IndInv, Types, OwnerInv, CountInv, UniqueInv, QueueInv, PinInv, DataInv, Users, Pinned,
   HasLock, At, IoDone, Elements, Distinct, vars, bufVars, ideVars

\* At first no buffer is in use and the disk is idle.
LEMMA InitEstablishes == ASSUME Init PROVE IndInv
<1> USE Constants DEF Init
<1>1. Types
  <2>1. /\ idequeue \in Seq(Buf) /\ irq \in BOOLEAN
        /\ device \in [op : {Idle, "read", "write"}, blockno : Block \cup {NoBlock}, data : Value]
    BY CacheAssumption, EmptySeq
  <2>2. pc \in [Proc -> PC] /\ my \in [Proc -> Buf \cup {NoBuf}]
    BY DEF PC
  <2>3. /\ disk \in [Block -> Value] /\ data \in [Buf -> Value]
        /\ owner \in [Buf -> Proc \cup {Nobody}] /\ refcnt \in [Buf -> Nat]
        /\ blockno \in [Buf -> Block \cup {NoBlock}]
        /\ valid \in [Buf -> BOOLEAN] /\ dirty \in [Buf -> BOOLEAN]
    BY CacheAssumption
  <2> QED  BY <2>1, <2>2, <2>3 DEF Types
<1>2. OwnerInv
  BY DEF OwnerInv, HasLock, InIderw, At
<1>3. CountInv
  <2>1. \A b \in Buf : Users(b) = {}  BY DEF Users
  <2> QED  BY <2>1, FS_EmptySet DEF CountInv
<1>4. UniqueInv
  BY DEF UniqueInv, At
<1>5. QueueInv
  BY DEF QueueInv, Distinct, Elements, InIderw, Idle
<1>6. PinInv
  <2>1. Pinned \ Elements(idequeue) = {}  BY DEF Pinned
  <2>2. Cardinality(Pinned \ Elements(idequeue)) = 0  BY <2>1, FS_EmptySet
  <2> QED  BY <2>2 DEF PinInv
<1>7. DataInv
  BY DEF DataInv, At
<1> QED  BY <1>1, <1>2, <1>3, <1>4, <1>5, <1>6, <1>7 DEF IndInv

LEMMA NextKeeps == IndInv /\ [Next]_vars => IndInv'
<1> SUFFICES ASSUME IndInv, [Next]_vars PROVE IndInv'
  OBVIOUS
<1>1. CASE UNCHANGED vars
  BY <1>1, StutterKeeps
<1>2. CASE DiskDone \/ Ideintr \/ Panicked
  BY <1>2, DiskDoneKeeps, IdeintrKeeps, StutterKeeps DEF Panicked
<1>3. ASSUME NEW p \in Proc, Bget(p) \/ Proceed(p) \/ Brelse(p) \/ KillWakes(p)
      PROVE  IndInv'
  BY <1>3, BgetHitKeeps, BgetMissKeeps, AcquireSleepKeeps, BreadValidKeeps, BreadDiskKeeps,
     IoTestKeeps, BrelseCountKeeps, BrelseKeeps, KillWakesKeeps DEF Bget, Proceed
<1>4. ASSUME NEW p \in Proc, NEW v \in Value, Bwrite(p, v) \/ LogWrite(p, v)
      PROVE  IndInv'
  BY <1>4, BwriteKeeps, LogWriteKeeps
<1> QED  BY <1>1, <1>2, <1>3, <1>4 DEF Next

-----------------------------------------------------------------------------
\* IndInv holds in every reachable state.
THEOREM InductiveInvariant == Spec => []IndInv
BY InitEstablishes, NextKeeps, PTL DEF Spec

\* Whoever holds bcache.lock for ever keeps the counts as they are, and no other step
\* than bget()'s takes a process to its panic, or the B_DIRTY from an unused buffer.
LEMMA OthersKeepPanic ==
    ASSUME IndInv, Next, \A p \in Proc, k \in Block : ~BgetMiss(p, k)
    PROVE  /\ \A q \in Proc : pc'[q] = "panic" => pc[q] = "panic"
           /\ ~BcacheFree => my' = my
           /\ \A b \in Buf : dirty[b] => dirty'[b] \/ \E p \in Proc : my[p] = b
<1> DEFINE Kept == /\ \A q \in Proc : pc'[q] = "panic" => pc[q] = "panic"
                   /\ ~BcacheFree => my' = my
                   /\ \A b \in Buf : dirty[b] => dirty'[b] \/ \E p \in Proc : my[p] = b
<1>a. pc \in [Proc -> PC] /\ dirty \in [Buf -> BOOLEAN] /\ my \in [Proc -> Buf \cup {NoBuf}]
  BY DEF IndInv, Types
<1>1. CASE DiskDone \/ Panicked
  BY <1>1 DEF DiskDone, Panicked, vars, bufVars
<1>2. CASE Ideintr
  <2>1. Head(idequeue) \in Elements(idequeue) /\ Head(idequeue) \in Buf
    BY <1>2, HeadQueued, HeadServed DEF Ideintr, IndInv, QueueInv, Types
  <2>2. \E p \in Proc : my[p] = Head(idequeue)
    BY <2>1 DEF IndInv, QueueInv, OwnerInv, Types
  <2>3. dirty' = [dirty EXCEPT ![Head(idequeue)] = FALSE] /\ my' = my
    BY <1>2 DEF Ideintr
  <2>4. \A q \in Proc : pc'[q] = "panic" => pc[q] = "panic"
    BY <1>2, <1>a DEF Ideintr, WakeGoto
  <2> QED  BY <1>a, <2>2, <2>3, <2>4
<1>3. ASSUME NEW p \in Proc, NEW b \in Buf, BgetHit(p, b) PROVE Kept
  BY <1>3, <1>a DEF BgetHit, Goto, BcacheFree
<1>4. ASSUME NEW p \in Proc, AcquireSleep(p) \/ BreadValid(p) \/ BreadDisk(p) \/ IoTest(p)
                             \/ KillWakes(p)
      PROVE  Kept
  BY <1>4, <1>a DEF AcquireSleep, BreadValid, BreadDisk, IoTest, KillWakes, Iderw, Goto, At, bufVars
<1>5. ASSUME NEW p \in Proc, BrelseCount(p) PROVE Kept
  BY <1>5, <1>a DEF BrelseCount, Goto, BcacheFree
<1>6. ASSUME NEW p \in Proc, Brelse(p) PROVE Kept
  BY <1>6, <1>a DEF Brelse, WakeGoto, bufVars
<1>7. ASSUME NEW p \in Proc, NEW v \in Value, Bwrite(p, v) \/ LogWrite(p, v) PROVE Kept
  BY <1>7, <1>a DEF Bwrite, LogWrite, Iderw, Goto
<1> HIDE DEF Kept
<1>8. Kept
  BY <1>1, <1>2, <1>3, <1>4, <1>5, <1>6, <1>7 DEF Next, Bget, Proceed, Kept
<1> QED  BY <1>8 DEF Kept

\* bget() panics when all buffers are in use or dirty, and from then on they stay so.
LEMMA PanicKeeps ==
    ASSUME IndInv, OneBufferPerBlock, [Next]_vars
    PROVE  \A p \in Proc : pc'[p] = "panic" => Exhausted'
<1> SUFFICES ASSUME NEW r \in Proc, pc'[r] = "panic" PROVE Exhausted'
  OBVIOUS
<1>1. CASE UNCHANGED vars
  BY <1>1 DEF OneBufferPerBlock, Exhausted, At, vars, bufVars
<1>2. CASE \E p \in Proc, k \in Block : BgetMiss(p, k)
  <2>1. PICK p \in Proc, k \in Block : BgetMiss(p, k)
    BY <1>2
  <2>2. pc[r] # "panic" /\ pc \in [Proc -> PC]
    BY <2>1 DEF BgetMiss, BcacheFree, At, IndInv, Types
  <2>3. (\A b \in Buf : ~Recyclable(b)) /\ UNCHANGED <<my, dirty>>
    BY <2>1, <2>2 DEF BgetMiss, Goto, bufVars
  <2>4. \A b \in Buf : refcnt[b] # 0 => \E q \in Proc : my[q] = b
    <3> TAKE b \in Buf
    <3> HAVE refcnt[b] # 0
    <3>1. Users(b) # {}
      BY FS_EmptySet DEF IndInv, CountInv
    <3> QED  BY <3>1 DEF Users
  <2> QED  BY <2>3, <2>4 DEF Exhausted, Recyclable
<1>3. CASE Next /\ \A p \in Proc, k \in Block : ~BgetMiss(p, k)
  <2>1. pc[r] = "panic"
    BY <1>3, OthersKeepPanic
  <2>2. Exhausted /\ my' = my
    BY <1>3, <2>1, OthersKeepPanic DEF OneBufferPerBlock, BcacheFree, At
  <2>3. \A b \in Buf : dirty[b] => dirty'[b] \/ \E p \in Proc : my[p] = b
    BY <1>3, OthersKeepPanic
  <2> QED  BY <2>2, <2>3 DEF Exhausted
<1> QED  BY <1>1, <1>2, <1>3

\* No block has two buffers, and bget() panics only when every buffer has a user or is
\* pinned, for any number of processes and buffers (bio.c:60-92).
THEOREM OneBufferPerBlockHolds == Spec => []OneBufferPerBlock
<1>1. Init => OneBufferPerBlock
  <2> SUFFICES ASSUME Init PROVE OneBufferPerBlock
    OBVIOUS
  <2>1. IndInv  BY InitEstablishes
  <2> QED  BY <2>1 DEF IndInv, UniqueInv, OneBufferPerBlock, Init, At
<1>2. IndInv /\ IndInv' /\ OneBufferPerBlock /\ [Next]_vars => OneBufferPerBlock'
  BY PanicKeeps DEF IndInv, UniqueInv, OneBufferPerBlock, At
<1> QED  BY <1>1, <1>2, InductiveInvariant, PTL DEF Spec

\* How loaded the system is when bget() panics: the blocks log_write() has pinned and one
\* buffer for each process but the panicking one are NBUF at least.  With the numbers of
\* param.h (NBUF 30, a log of 29 blocks, NPROC 64) that is possible, and sooner than here:
\* a call of the code may use two buffers at a time, a process of the model uses one.
PanicNeedsLoad ==
    (\E p \in Proc : At(p, "panic")) => NBUF <= MaxPinned + (Cardinality(Proc) - 1)

\* bget() panics under that load only.  So it never does when there are enough buffers
\* for the pinned blocks and one for each process, which bounds the panic of bio.c:92.
THEOREM PanicNeedsLoadHolds == Spec => []PanicNeedsLoad
<1>1. IndInv /\ OneBufferPerBlock => PanicNeedsLoad
  <2> SUFFICES ASSUME IndInv, OneBufferPerBlock, NEW p \in Proc, At(p, "panic")
               PROVE  NBUF <= MaxPinned + (Cardinality(Proc) - 1)
    BY DEF PanicNeedsLoad
  <2>1. my[p] = NoBuf /\ Exhausted
    BY DEF IndInv, OwnerInv, OneBufferPerBlock, At
  <2> QED  BY <2>1, NoBufferLeft
<1> QED  BY <1>1, InductiveInvariant, OneBufferPerBlockHolds, PTL

\* The requests to the disk are in order: none is lost and none is queued twice.
THEOREM DiskServesRequests == Spec => []RequestsQueued
<1>1. ASSUME IndInv PROVE RequestsQueued
  <2> DEFINE queued == {idequeue[i] : i \in DOMAIN idequeue}
  <2>1. Cardinality(queued) = Len(idequeue)
    <3>1. /\ idequeue \in [1 .. Len(idequeue) -> Buf] /\ Len(idequeue) \in Nat
          /\ DOMAIN idequeue = 1 .. Len(idequeue)
      BY <1>1, LenProperties DEF IndInv, Types
    <3>2. idequeue \in Bijection(1 .. Len(idequeue), queued)
      BY <1>1, <3>1 DEF IndInv, QueueInv, Distinct, Bijection, Injection, Surjection,
         IsInjective
    <3>3. IsFiniteSet(1 .. Len(idequeue)) /\ Cardinality(1 .. Len(idequeue)) = Len(idequeue)
      <4>1. /\ IsFiniteSet(1 .. Len(idequeue))
            /\ Cardinality(1 .. Len(idequeue)) =
                 IF 1 > Len(idequeue) THEN 0 ELSE Len(idequeue) - 1 + 1
        BY <3>1, FS_Interval
      <4> QED  BY <3>1, <4>1
    <3> HIDE DEF queued
    <3>4. Cardinality(1 .. Len(idequeue)) = Cardinality(queued)
      <4>1. ExistsBijection(1 .. Len(idequeue), queued)
        BY <3>2 DEF ExistsBijection
      <4> QED  BY <3>3, <4>1, FS_Bijection
    <3> QED  BY <3>3, <3>4
  <2>2. queued = Elements(idequeue)
    BY DEF Elements
  <2>3. \A p \in Proc : At(p, "iowait") => my[p] \in Elements(idequeue)
    BY <1>1 DEF IndInv, QueueInv, At, InIderw
  <2>4. \A b \in Elements(idequeue) :
           /\ ~(valid[b] /\ ~dirty[b])
           /\ \E p \in Proc : owner[b] = p /\ my[p] = b /\ pc[p] \in InIderw
    <3> TAKE b \in Elements(idequeue)
    <3>1. ~(valid[b] /\ ~dirty[b]) /\ owner[b] # Nobody /\ pc[owner[b]] \in InIderw
      BY <1>1 DEF IndInv, QueueInv, IoDone
    <3>2. b \in Buf
      BY <1>1 DEF IndInv, Types, Elements
    <3>3. owner[b] \in Proc /\ my[owner[b]] = b
      BY <1>1, <3>1, <3>2 DEF IndInv, Types, OwnerInv
    <3> QED  BY <3>1, <3>3
  <2> QED  BY <1>1, <2>1, <2>2, <2>3, <2>4 DEF IndInv, QueueInv, RequestsQueued
<1> QED  BY <1>1, InductiveInvariant, PTL

\* releasesleep() loses no wakeup: nobody sleeps for a lock that is free.
THEOREM SleepLockWakes == Spec => []LockSleeperBlocked
<1>1. ASSUME IndInv, NEW p \in Proc, At(p, "locksleep")
      PROVE  \E q \in Proc : /\ owner[my[p]] = q /\ my[q] = my[p]
                             /\ pc[q] \in {"locked", "held"} \cup InIderw
  <2>1. my[p] \in Buf /\ owner[my[p]] # Nobody
    BY <1>1, Using DEF IndInv, OwnerInv, At
  <2>2. owner[my[p]] \in Proc
    BY <1>1, <2>1 DEF IndInv, Types
  <2> QED  BY <1>1, <2>1, <2>2 DEF IndInv, OwnerInv, HasLock
<1>2. IndInv => LockSleeperBlocked
  BY <1>1 DEF LockSleeperBlocked
<1> QED  BY <1>2, InductiveInvariant, PTL

-----------------------------------------------------------------------------
(***************************************************************************)
(* The cache implements BlockStore.                                        *)
(***************************************************************************)
Current == [k \in Block |-> CurrentOf(k)]
Holder == [k \in Block |-> HolderOf(k)]

\* What the mapping says of a block with a valid buffer, and of one without.
Mapped ==
    /\ \A k \in Block, b \in Buf : blockno[b] = k /\ valid[b] =>
          CurrentOf(k) = data[b] /\ HolderOf(k) = owner[b]
    /\ \A k \in Block : (\A b \in Buf : ~(blockno[b] = k /\ valid[b])) =>
          CurrentOf(k) = disk[k] /\ HolderOf(k) = Nobody

LEMMA MappedAlways == IndInv => Mapped
<1> SUFFICES ASSUME IndInv PROVE Mapped  OBVIOUS
<1>1. ASSUME NEW k \in Block, NEW b \in Buf, blockno[b] = k, valid[b]
      PROVE  CurrentOf(k) = data[b] /\ HolderOf(k) = owner[b]
  <2>1. \A c \in Buf : blockno[c] = k => c = b
    BY <1>1, Constants DEF IndInv, UniqueInv
  <2>2. {c \in Cached(k) : valid[c]} = {b}
    BY <1>1, <2>1 DEF Cached
  <2>3. CurrentOf(k) = data[b]
    BY <2>2 DEF CurrentOf
  <2>4. {c \in Cached(k) : valid[c] /\ owner[c] # Nobody} = IF owner[b] = Nobody THEN {} ELSE {b}
    BY <1>1, <2>1 DEF Cached
  <2>5. HolderOf(k) = owner[b]
    BY <2>4 DEF HolderOf
  <2> QED  BY <2>3, <2>5
<1>2. ASSUME NEW k \in Block, \A b \in Buf : ~(blockno[b] = k /\ valid[b])
      PROVE  CurrentOf(k) = disk[k] /\ HolderOf(k) = Nobody
  <2>1. {c \in Cached(k) : valid[c]} = {}
    BY <1>2 DEF Cached
  <2>2. {c \in Cached(k) : valid[c] /\ owner[c] # Nobody} = {}
    BY <1>2 DEF Cached
  <2> QED  BY <2>1, <2>2 DEF CurrentOf, HolderOf
<1> QED  BY <1>1, <1>2 DEF Mapped

\* A step that shows at no block is a stutter of BlockStore; one that shows at k alone
\* changes the two functions there.
Invisible(k) == CurrentOf(k)' = CurrentOf(k) /\ HolderOf(k)' = HolderOf(k)

LEMMA Stutters ==
    ASSUME \A k \in Block : Invisible(k), disk' = disk
    PROVE  UNCHANGED Store!vars
<1>1. Current' = Current /\ Holder' = Holder
  BY DEF Current, Holder, Invisible
<1> QED  BY <1>1 DEF Store!vars, Current, Holder

LEMMA ShowsAt ==
    ASSUME NEW k \in Block, NEW c, NEW h, CurrentOf(k)' = c, HolderOf(k)' = h,
           \A j \in Block \ {k} : Invisible(j)
    PROVE  Current' = [Current EXCEPT ![k] = c] /\ Holder' = [Holder EXCEPT ![k] = h]
BY DEF Current, Holder, Invisible

\* Steps that change neither a block's contents nor its lock.
LEMMA QuietRefines ==
    ASSUME UNCHANGED <<disk, blockno, valid, data, owner>>
    PROVE  UNCHANGED Store!vars
<1>1. \A k \in Block : Invisible(k)
  BY DEF Invisible, CurrentOf, HolderOf, Cached
<1> QED  BY <1>1, Stutters

\* bget() recycles a buffer that is clean and unlocked, or panics.
LEMMA BgetMissRefines ==
    ASSUME IndInv, Mapped, Mapped', NEW p \in Proc, NEW k \in Block, BgetMiss(p, k)
    PROVE  UNCHANGED Store!vars
<1>a. CASE \A b \in Buf : ~Recyclable(b)
  BY <1>a, QuietRefines DEF BgetMiss, bufVars
<1> SUFFICES ASSUME \E b \in Buf : Recyclable(b) PROVE UNCHANGED Store!vars
  BY <1>a
<1>1. Cached(k) = {}
  BY DEF BgetMiss
<1>2. PICK b \in Buf : /\ Recyclable(b) /\ blockno' = [blockno EXCEPT ![b] = k]
                       /\ valid' = [valid EXCEPT ![b] = FALSE]
                       /\ UNCHANGED <<disk, data, owner>>
  BY <1>1 DEF BgetMiss, LeastRecent
<1>3. ~dirty[b] /\ owner[b] = Nobody
  <2>1. refcnt[b] = 0 /\ ~dirty[b]  BY <1>2 DEF Recyclable
  <2>2. \A q \in Proc : my[q] # b  BY <2>1, Unused DEF IndInv
  <2> QED  BY <2>1, <2>2 DEF IndInv, OwnerInv, Types
<1>4. ASSUME NEW j \in Block PROVE Invisible(j)
  <2>1. CASE \E c \in Buf \ {b} : blockno[c] = j /\ valid[c]
    <3>1. PICK c \in Buf \ {b} : blockno[c] = j /\ valid[c]  BY <2>1
    <3>2. blockno'[c] = j /\ valid'[c] /\ data'[c] = data[c] /\ owner'[c] = owner[c]
      BY <1>2, <3>1 DEF IndInv, Types
    <3> QED  BY <3>1, <3>2 DEF Mapped, Invisible
  <2>2. CASE \A c \in Buf \ {b} : ~(blockno[c] = j /\ valid[c])
    <3>1. CurrentOf(j)' = disk[j] /\ HolderOf(j)' = Nobody
      <4>1. \A c \in Buf : ~(blockno'[c] = j /\ valid'[c])
        BY <1>2, <2>2 DEF IndInv, Types
      <4> QED  BY <4>1, <1>2 DEF Mapped
    <3>2. CurrentOf(j) = disk[j] /\ HolderOf(j) = Nobody
      <4>1. CASE blockno[b] = j /\ valid[b]
        BY <4>1, <1>3 DEF Mapped, IndInv, DataInv
      <4>2. CASE ~(blockno[b] = j /\ valid[b])
        BY <4>2, <2>2 DEF Mapped
      <4> QED  BY <4>1, <4>2
    <3> QED  BY <3>1, <3>2 DEF Invisible
  <2> QED  BY <2>1, <2>2
<1> QED  BY <1>2, <1>4, Stutters

\* A step at one buffer b, of block k, leaves the other blocks alone.
LEMMA OthersInvisible ==
    ASSUME IndInv, Mapped, Mapped', NEW b \in Buf, UNCHANGED blockno,
           \A c \in Buf \ {b} : valid'[c] = valid[c] /\ data'[c] = data[c] /\ owner'[c] = owner[c],
           NEW j \in Block, j # blockno[b], disk'[j] = disk[j]
    PROVE  Invisible(j)
<1>1. CASE \E c \in Buf : blockno[c] = j /\ valid[c]
  <2>1. PICK c \in Buf : blockno[c] = j /\ valid[c]  BY <1>1
  <2>2. c # b  BY <2>1
  <2>3. blockno'[c] = j /\ valid'[c] /\ data'[c] = data[c] /\ owner'[c] = owner[c]
    BY <2>1, <2>2
  <2> QED  BY <2>1, <2>3 DEF Mapped, Invisible
<1>2. CASE \A c \in Buf : ~(blockno[c] = j /\ valid[c])
  <2>1. \A c \in Buf : ~(blockno'[c] = j /\ valid'[c])
    BY <1>2
  <2> QED  BY <1>2, <2>1 DEF Mapped, Invisible
<1> QED  BY <1>1, <1>2

\* A valid buffer changes to contents c and owner h: that shows at its block.
LEMMA BufferShows ==
    ASSUME IndInv, Mapped, Mapped', NEW b \in Buf, NEW k \in Block, blockno[b] = k,
           UNCHANGED <<disk, blockno>>, valid'[b],
           \A c \in Buf \ {b} : valid'[c] = valid[c] /\ data'[c] = data[c] /\ owner'[c] = owner[c]
    PROVE  /\ Current' = [Current EXCEPT ![k] = data'[b]]
           /\ Holder' = [Holder EXCEPT ![k] = owner'[b]]
           /\ disk' = disk
           /\ Current[k] = IF valid[b] THEN data[b] ELSE disk[k]
           /\ Holder[k] = IF valid[b] THEN owner[b] ELSE Nobody
<1>1. CurrentOf(k)' = data'[b] /\ HolderOf(k)' = owner'[b]
  BY DEF Mapped
<1>2. \A j \in Block \ {k} : Invisible(j)
  BY OthersInvisible
<1>3. CASE valid[b]
  <2>1. CurrentOf(k) = data[b] /\ HolderOf(k) = owner[b]
    BY <1>3 DEF Mapped
  <2> QED  BY ZenonT(60), <1>1, <1>2, <1>3, <2>1, ShowsAt DEF Current, Holder
<1>4. CASE ~valid[b]
  <2>1. \A c \in Buf : ~(blockno[c] = k /\ valid[c])
    BY <1>4, Constants DEF IndInv, UniqueInv
  <2>2. CurrentOf(k) = disk[k] /\ HolderOf(k) = Nobody
    BY <2>1 DEF Mapped
  <2> QED  BY <1>1, <1>2, <1>4, <2>2, ShowsAt DEF Current, Holder
<1> QED  BY <1>3, <1>4

\* Whose lock a valid buffer gets has locked its block, and sees the last contents.
LEMMA LockShows ==
    ASSUME IndInv, Mapped, Mapped', NEW p \in Proc, NEW b \in Buf, NEW k \in Block,
           blockno[b] = k, UNCHANGED <<disk, blockno>>,
           \A c \in Buf \ {b} : valid'[c] = valid[c] /\ data'[c] = data[c] /\ owner'[c] = owner[c],
           valid[b] => owner[b] = Nobody, valid'[b], owner'[b] = p,
           data'[b] = IF valid[b] THEN data[b] ELSE disk[k]
    PROVE  Store!Lock(p, k)
<1>1. Current' = [Current EXCEPT ![k] = Current[k]] /\ Holder' = [Holder EXCEPT ![k] = p]
  BY BufferShows
<1>2. Holder[k] = Nobody /\ disk' = disk
  BY BufferShows
<1>3. Current' = Current
  BY <1>1 DEF Current
<1> QED  BY <1>1, <1>2, <1>3 DEF Store!Lock, Current, Holder

\* acquiresleep() of a valid buffer locks its block; of another it does not show.
LEMMA AcquireSleepRefines ==
    ASSUME IndInv, Mapped, Mapped', NEW p \in Proc, AcquireSleep(p)
    PROVE  (\E k \in Block : Store!Lock(p, k)) \/ UNCHANGED Store!vars
<1>1. my[p] \in Buf /\ blockno[my[p]] \in Block
  BY Using DEF AcquireSleep, At, IndInv, UniqueInv, Types
<1>2. PICK b \in Buf, k \in Block : b = my[p] /\ k = blockno[b]
  BY <1>1
<1>3. UNCHANGED <<disk, blockno, valid, data>>
  BY DEF AcquireSleep, bufVars
<1>4. CASE owner[b] # Nobody
  BY <1>2, <1>3, <1>4, QuietRefines DEF AcquireSleep
<1>5. CASE owner[b] = Nobody
  <2>1. owner' = [owner EXCEPT ![b] = p]  BY <1>2, <1>5 DEF AcquireSleep
  <2>2. owner'[b] = p /\ \A c \in Buf \ {b} : owner'[c] = owner[c]
    BY <2>1 DEF IndInv, Types
  <2>3. CASE valid[b]
    BY <1>2, <1>3, <1>5, <2>2, <2>3, LockShows
  <2>4. CASE ~valid[b]
    <3>1. \A c \in Buf, j \in Block : blockno[c] = j /\ valid[c] => c # b
      BY <2>4
    <3>2. \A j \in Block : Invisible(j)
      <4> TAKE j \in Block
      <4>1. CASE \E c \in Buf : blockno[c] = j /\ valid[c]
        <5>1. PICK c \in Buf : blockno[c] = j /\ valid[c]  BY <4>1
        <5>2. owner'[c] = owner[c] /\ blockno'[c] = j /\ valid'[c] /\ data'[c] = data[c]
          BY <1>3, <2>2, <3>1, <5>1
        <5> QED  BY <5>1, <5>2 DEF Mapped, Invisible
      <4>2. CASE \A c \in Buf : ~(blockno[c] = j /\ valid[c])
        <5>1. \A c \in Buf : ~(blockno'[c] = j /\ valid'[c])
          BY <1>3, <4>2
        <5> QED  BY <1>3, <4>2, <5>1 DEF Mapped, Invisible
      <4> QED  BY <4>1, <4>2
    <3> QED  BY <1>3, <3>2, Stutters
  <2> QED  BY <2>3, <2>4
<1> QED  BY <1>4, <1>5

\* bwrite() and log_write() give the block new contents.
LEMMA WriteRefines ==
    ASSUME IndInv, Mapped, Mapped', NEW p \in Proc, NEW v \in Value,
           Bwrite(p, v) \/ LogWrite(p, v)
    PROVE  \E k \in Block : Store!Modify(k, v)
<1>1. pc[p] = "held"
  BY DEF Bwrite, LogWrite, At
<1>2. /\ my[p] \in Buf /\ blockno[my[p]] \in Block /\ owner[my[p]] = p /\ valid[my[p]]
  BY <1>1, Locked DEF IndInv, UniqueInv, DataInv, Types, At, OwnerInv
<1>3. PICK b \in Buf, k \in Block : b = my[p] /\ k = blockno[b]
  BY <1>2
<1>4. UNCHANGED <<disk, blockno, valid, owner>> /\ data' = [data EXCEPT ![b] = v]
  BY <1>3 DEF Bwrite, LogWrite
<1>5. data'[b] = v /\ \A c \in Buf \ {b} : data'[c] = data[c]
  BY <1>4 DEF IndInv, Types
<1>6. owner[b] = p /\ valid[b] /\ valid'[b] /\ owner'[b] = p
  BY <1>2, <1>3, <1>4
<1>7. /\ Current' = [Current EXCEPT ![k] = v] /\ Holder' = [Holder EXCEPT ![k] = Holder[k]]
      /\ Holder[k] = p /\ disk' = disk
  BY <1>3, <1>4, <1>5, <1>6, BufferShows
<1>8. Holder' = Holder
  BY <1>7 DEF Holder
<1> QED  BY <1>7, <1>8, Constants DEF Store!Modify, Current, Holder

\* The disk writes the contents that the block's holder sees; reading does not show.
LEMMA DiskDoneRefines ==
    ASSUME IndInv, Mapped, Mapped', DiskDone
    PROVE  (\E k \in Block : Store!Sync(k)) \/ UNCHANGED Store!vars
<1>1. idequeue # <<>> /\ Head(idequeue) \in Buf /\ Head(idequeue) \in Elements(idequeue)
  BY HeadQueued, HeadServed DEF DiskDone, IndInv, QueueInv, Types
<1>2. blockno[Head(idequeue)] \in Block /\ owner[Head(idequeue)] # Nobody
  <2>1. Head(idequeue) \in Buf /\ owner[Head(idequeue)] # Nobody
    BY <1>1 DEF IndInv, QueueInv
  <2>2. owner[Head(idequeue)] \in Proc /\ my[owner[Head(idequeue)]] = Head(idequeue)
    BY <2>1 DEF IndInv, OwnerInv, Types
  <2> QED  BY <2>1, <2>2, Constants DEF IndInv, UniqueInv, Types
<1>3. PICK b \in Buf, k \in Block : b = Head(idequeue) /\ k = blockno[b]
  BY <1>1, <1>2
<1>4. UNCHANGED <<blockno, valid, data, owner>>
  BY DEF DiskDone, bufVars
<1>5. CASE device.op # "write"
  BY <1>4, <1>5, QuietRefines DEF DiskDone
<1>6. CASE device.op = "write"
  <2>1. dirty[b] /\ valid[b] /\ device.data = data[b] /\ device.blockno = k
    BY <1>1, <1>3, <1>6 DEF IndInv, QueueInv, DataInv
  <2>2. disk' = [disk EXCEPT ![k] = data[b]]
    BY <1>6, <2>1 DEF DiskDone
  <2>3. CurrentOf(k) = data[b] /\ HolderOf(k) = owner[b]
    BY <1>3, <2>1 DEF Mapped
  <2>4. CurrentOf(k)' = data[b] /\ HolderOf(k)' = owner[b]
    BY <1>3, <1>4, <2>1 DEF Mapped
  <2>5. \A j \in Block \ {k} : Invisible(j)
    <3>1. \A j \in Block \ {k} : disk'[j] = disk[j]
      BY <2>2 DEF IndInv, Types
    <3> QED  BY <1>3, <1>4, <3>1, OthersInvisible
  <2>6. Current' = Current /\ Holder' = Holder
    BY <2>3, <2>4, <2>5 DEF Current, Holder, Invisible
  <2>7. Current[k] = data[b] /\ Holder[k] # Nobody
    BY <1>2, <1>3, <2>3 DEF Current, Holder
  <2> QED  BY <2>2, <2>6, <2>7 DEF Store!Sync, Current, Holder
<1> QED  BY <1>5, <1>6

\* A read that ends is where its process locks the block; the end of a write does not
\* show.
LEMMA IdeintrRefines ==
    ASSUME IndInv, Mapped, Mapped', Ideintr
    PROVE  (\E p \in Proc, k \in Block : Store!Lock(p, k)) \/ UNCHANGED Store!vars
<1>1. /\ idequeue # <<>> /\ Head(idequeue) \in Buf /\ Head(idequeue) \in Elements(idequeue)
      /\ irq /\ UNCHANGED <<disk, blockno, owner>>
  BY HeadQueued, HeadServed DEF Ideintr, IndInv, QueueInv, Types
<1>2. blockno[Head(idequeue)] \in Block /\ owner[Head(idequeue)] \in Proc
  <2>1. Head(idequeue) \in Buf /\ owner[Head(idequeue)] # Nobody
    BY <1>1 DEF IndInv, QueueInv
  <2>2. owner[Head(idequeue)] \in Proc /\ my[owner[Head(idequeue)]] = Head(idequeue)
    BY <2>1 DEF IndInv, OwnerInv, Types
  <2> QED  BY <2>1, <2>2, Constants DEF IndInv, UniqueInv, Types
<1>3. PICK b \in Buf, k \in Block : b = Head(idequeue) /\ k = blockno[b]
  BY <1>1, <1>2
<1>4. /\ valid' = [valid EXCEPT ![b] = TRUE]
      /\ data' = [data EXCEPT ![b] = IF dirty[b] THEN @ ELSE device.data]
  BY <1>3 DEF Ideintr
<1>5. CASE dirty[b]
  <2>1. valid[b]  BY <1>5 DEF IndInv, DataInv
  <2>2. valid' = valid /\ data' = data
    BY <1>4, <1>5, <2>1 DEF IndInv, Types
  <2> QED  BY <1>1, <2>2, QuietRefines
<1>6. CASE ~dirty[b]
  <2>1. ~valid[b]
    BY <1>1, <1>3, <1>6 DEF IndInv, QueueInv, IoDone
  <2>2. device.data = disk[k]
    BY <1>1, <1>3, <1>6 DEF IndInv, DataInv
  <2>3. /\ valid'[b] /\ data'[b] = disk[k] /\ owner'[b] = owner[b]
        /\ \A c \in Buf \ {b} : valid'[c] = valid[c] /\ data'[c] = data[c] /\ owner'[c] = owner[c]
    BY <1>1, <1>4, <1>6, <2>2 DEF IndInv, Types
  <2>4. PICK p \in Proc : p = owner[b]
    BY <1>2, <1>3
  <2> QED  BY <1>1, <1>3, <2>1, <2>3, <2>4, LockShows
<1> QED  BY <1>5, <1>6

\* brelse() unlocks the block.
LEMMA BrelseRefines ==
    ASSUME IndInv, Mapped, Mapped', NEW p \in Proc, Brelse(p)
    PROVE  \E k \in Block : Store!Unlock(k)
<1>1. pc[p] = "held" /\ UNCHANGED <<disk, blockno, valid, data>>
  BY DEF Brelse, At, bufVars
<1>2. /\ my[p] \in Buf /\ blockno[my[p]] \in Block /\ owner[my[p]] = p /\ valid[my[p]]
  BY <1>1, Locked DEF IndInv, UniqueInv, DataInv, Types, At, OwnerInv
<1>3. PICK b \in Buf, k \in Block : b = my[p] /\ k = blockno[b]
  BY <1>2
<1>4. owner'[b] = Nobody /\ \A c \in Buf \ {b} : owner'[c] = owner[c]
  BY <1>3 DEF Brelse, IndInv, Types
<1>5. /\ Current' = [Current EXCEPT ![k] = Current[k]] /\ Holder' = [Holder EXCEPT ![k] = Nobody]
      /\ Holder[k] = p /\ disk' = disk
  BY <1>1, <1>2, <1>3, <1>4, BufferShows
<1>6. Current' = Current
  BY <1>5 DEF Current
<1> QED  BY <1>5, <1>6, Constants DEF Store!Unlock, Current, Holder

\* Every behaviour of the cache, its sleep locks and the driver is one of BlockStore:
\* the holder of a block sees its last contents, and a write reaches the disk.
THEOREM CacheIsBlockStore == Spec => ImplementsBlockStore
<1>1. Init => Store!Init
  <2> SUFFICES ASSUME Init PROVE Store!Init  OBVIOUS
  <2>1. \A k \in Block : CurrentOf(k) = disk[k] /\ HolderOf(k) = Nobody
    BY InitEstablishes, MappedAlways DEF Mapped, Init
  <2>2. disk \in [Block -> Value]
    BY InitEstablishes DEF IndInv, Types
  <2> QED  BY <2>1, <2>2 DEF Store!Init
<1>2. IndInv' => Mapped'
  BY MappedAlways, PTL
<1>3. IndInv /\ [Next]_vars => [UNCHANGED shown \/ UNCHANGED Store!vars \/ Store!Next]_vars
  <2> SUFFICES ASSUME IndInv, [Next]_vars PROVE Store!Next \/ UNCHANGED Store!vars
    OBVIOUS
  <2>1. Mapped /\ Mapped'
    BY MappedAlways, NextKeeps, <1>2
  <2>2. CASE UNCHANGED vars
    BY <2>2, QuietRefines DEF vars, bufVars
  <2>11. CASE Panicked
    BY <2>11, QuietRefines DEF Panicked, vars, bufVars
  <2>3. CASE DiskDone
    BY <2>1, <2>3, DiskDoneRefines DEF Store!Next
  <2>4. CASE Ideintr
    BY <2>1, <2>4, IdeintrRefines DEF Store!Next
  <2>5. ASSUME NEW p \in Proc, NEW b \in Buf, BgetHit(p, b) PROVE UNCHANGED Store!vars
    BY <2>5, QuietRefines DEF BgetHit
  <2>6. ASSUME NEW p \in Proc, NEW k \in Block, BgetMiss(p, k) PROVE UNCHANGED Store!vars
    BY <2>1, <2>6, BgetMissRefines
  <2>7. ASSUME NEW p \in Proc,
               BreadValid(p) \/ BreadDisk(p) \/ IoTest(p) \/ BrelseCount(p) \/ KillWakes(p)
        PROVE  UNCHANGED Store!vars
    BY <2>7, QuietRefines DEF BreadValid, BreadDisk, IoTest, BrelseCount, KillWakes, bufVars
  <2>8. ASSUME NEW p \in Proc, AcquireSleep(p) PROVE Store!Next \/ UNCHANGED Store!vars
    BY <2>1, <2>8, AcquireSleepRefines DEF Store!Next
  <2>9. ASSUME NEW p \in Proc, Brelse(p) PROVE Store!Next
    BY <2>1, <2>9, BrelseRefines DEF Store!Next
  <2>10. ASSUME NEW p \in Proc, NEW v \in Value, Bwrite(p, v) \/ LogWrite(p, v)
         PROVE  Store!Next
    BY <2>1, <2>10, WriteRefines DEF Store!Next
  <2> QED
    BY <2>2, <2>3, <2>4, <2>5, <2>6, <2>7, <2>8, <2>9, <2>10, <2>11 DEF Next, Bget, Proceed
<1> QED  BY <1>1, <1>3, InductiveInvariant, PTL DEF Spec, ImplementsBlockStore
=============================================================================
