---------------------------- MODULE BufferCache -----------------------------
(***************************************************************************)
(* The buffer cache, its sleep locks and the IDE driver beneath it         *)
(* (src/xv6-public_1/bio.c, sleeplock.c, ide.c).  A critical section of    *)
(* bcache.lock, of a sleep lock's own spin lock or of idelock is one       *)
(* action; the disk executes its command between two of them and raises    *)
(* one interrupt for each.  A process uses one buffer at a time, and gives *)
(* a block new contents only with log_write() or bwrite().                 *)
(***************************************************************************)
EXTENDS Naturals, Sequences, FiniteSets

CONSTANTS
    Proc,           \* processes that use blocks
    Block,          \* blocks of the disk
    NoBlock,        \* the block number of a buffer not used yet
    Written,        \* the blocks that are given new contents
    Value, Zero,    \* contents of a block; those of every block at first
    NBUF,           \* param.h: buffers
    MaxPinned,      \* blocks of the current transaction, pinned by B_DIRTY
    Nobody          \* no process

Buf == 1 .. NBUF
NoBuf == 0

ASSUME CacheAssumption ==
    /\ NBUF \in Nat /\ MaxPinned \in Nat
    /\ IsFiniteSet(Proc)
    /\ NoBlock \notin Block /\ Nobody \notin Proc
    /\ Written \subseteq Block /\ Zero \in Value

VARIABLES
    disk,                               \* contents of the blocks on the disk
    blockno, valid, dirty, refcnt, data,    \* struct buf
    owner,                              \* buf.lock: who has locked it
    lru,                                \* bcache.head: most recently used first
    idequeue,                           \* requests, the active one first
    device, irq,                        \* the disk's command; its interrupt line
    pc, my                              \* per process: position, and buffer in use

bufVars == <<blockno, valid, dirty, refcnt, data>>
ideVars == <<idequeue, device, irq>>
vars == <<disk, bufVars, owner, lru, ideVars, pc, my>>

\* Positions of a process:
\*   idle        uses no buffer
\*   acquire     in acquiresleep(), about to test the lock; locksleep: asleep there
\*   locked      back in bread(), with the lock
\*   iowait      asleep in iderw(); iotest: woken there
\*   held        bread() or bwrite() has returned
\*   release     in brelse(), between releasesleep() and the reference count
\*   panic       in bget(), which found no buffer and holds bcache.lock for ever
PC == {"idle", "acquire", "locksleep", "locked", "iowait", "iotest", "held",
       "release", "panic"}
InIderw == {"iowait", "iotest"}
Idle == "idle"

TypeOK ==
    /\ disk \in [Block -> Value]
    /\ blockno \in [Buf -> Block \cup {NoBlock}] /\ data \in [Buf -> Value]
    /\ valid \in [Buf -> BOOLEAN] /\ dirty \in [Buf -> BOOLEAN]
    /\ refcnt \in [Buf -> 0 .. Cardinality(Proc)]
    /\ owner \in [Buf -> Proc \cup {Nobody}]
    /\ lru \in [Buf -> Buf] /\ \A b \in Buf : \E i \in Buf : lru[i] = b
    /\ idequeue \in Seq(Buf) /\ irq \in BOOLEAN
    /\ device \in [op : {Idle, "read", "write"}, blockno : Block \cup {NoBlock}, data : Value]
    /\ pc \in [Proc -> PC] /\ my \in [Proc -> Buf \cup {NoBuf}]

Init ==
    /\ disk = [k \in Block |-> Zero]
    /\ blockno = [b \in Buf |-> NoBlock] /\ refcnt = [b \in Buf |-> 0]
    /\ data = [b \in Buf |-> Zero]
    /\ valid = [b \in Buf |-> FALSE] /\ dirty = [b \in Buf |-> FALSE]
    /\ owner = [b \in Buf |-> Nobody]
    /\ lru = [i \in Buf |-> NBUF + 1 - i]
    /\ idequeue = <<>> /\ irq = FALSE
    /\ device = [op |-> Idle, blockno |-> NoBlock, data |-> Zero]
    /\ pc = [p \in Proc |-> "idle"] /\ my = [p \in Proc |-> NoBuf]

At(p, where) == pc[p] = where
Goto(p, where) == pc' = [pc EXCEPT ![p] = where]

\* Whoever sleeps at `from` for buffer b goes on at `to`, and p goes to `next`.
WakeGotoBug(b, from, to, p, next) == pc' = [pc EXCEPT ![p] = next]
WakeGoto(b, from, to, p, next) ==
    pc' = [q \in Proc |-> IF q = p THEN next
                          ELSE IF pc[q] = from /\ my[q] = b THEN to ELSE pc[q]]

\* kill() wakes a sleeper, which tests its condition again.
KillWakes(p) ==
    /\ \/ At(p, "locksleep") /\ Goto(p, "acquire")
       \/ At(p, "iowait") /\ Goto(p, "iotest")
    /\ UNCHANGED <<disk, bufVars, owner, lru, ideVars, my>>
-----------------------------------------------------------------------------
\* bget(): the buffer of block k if it is cached, else the least recently used one
\* that nobody uses and the log has not pinned.
CachedBug(k) == {b \in Buf : blockno[b] = k /\ valid[b]}
Cached(k) == {b \in Buf : blockno[b] = k}
RecyclableBug(b) == refcnt[b] = 0
Recyclable(b) == refcnt[b] = 0 /\ ~dirty[b]
LeastRecent(b) ==
    \E i \in Buf : /\ lru[i] = b /\ Recyclable(b)
                   /\ \A j \in Buf : j > i => ~Recyclable(lru[j])

BcacheFree == \A p \in Proc : ~At(p, "panic")

BgetHit(p, b) ==
    /\ At(p, "idle") /\ BcacheFree /\ blockno[b] # NoBlock
    /\ refcnt' = [refcnt EXCEPT ![b] = @ + 1]
    /\ my' = [my EXCEPT ![p] = b]
    /\ Goto(p, "acquire")
    /\ UNCHANGED <<disk, blockno, valid, dirty, data, owner, lru, ideVars>>

BgetMiss(p, k) ==
    /\ At(p, "idle") /\ BcacheFree /\ Cached(k) = {}
    /\ IF \A b \in Buf : ~Recyclable(b)
       THEN Goto(p, "panic") /\ UNCHANGED <<bufVars, my>>
       ELSE \E b \in Buf :
                /\ LeastRecent(b)
                /\ blockno' = [blockno EXCEPT ![b] = k]
                /\ valid' = [valid EXCEPT ![b] = FALSE]
                /\ dirty' = [dirty EXCEPT ![b] = FALSE]
                /\ refcnt' = [refcnt EXCEPT ![b] = 1]
                /\ my' = [my EXCEPT ![p] = b]
                /\ Goto(p, "acquire") /\ UNCHANGED data
    /\ UNCHANGED <<disk, owner, lru, ideVars>>

\* acquiresleep()
AcquireSleep(p) ==
    LET b == my[p]
    IN  /\ At(p, "acquire")
        /\ IF owner[b] = Nobody
           THEN owner' = [owner EXCEPT ![b] = p] /\ Goto(p, "locked")
           ELSE UNCHANGED owner /\ Goto(p, "locksleep")
        /\ UNCHANGED <<disk, bufVars, lru, ideVars, my>>

\* bread() has the lock and finds the data valid.
BreadValid(p) ==
    /\ At(p, "locked") /\ valid[my[p]]
    /\ Goto(p, "held")
    /\ UNCHANGED <<disk, bufVars, owner, lru, ideVars, my>>

\* idestart(): the direction follows B_DIRTY, and a write hands the data over.
Command(b, isDirty, contents) ==
    [op |-> IF isDirty THEN "write" ELSE "read", blockno |-> blockno[b], data |-> contents]

\* iderw(): append b to the queue, start the disk if b is first, and sleep.
Iderw(p, b, isDirty, contents) ==
    /\ idequeue' = Append(idequeue, b)
    /\ device' = IF idequeue = <<>> THEN Command(b, isDirty, contents) ELSE device
    /\ Goto(p, "iowait")

BreadDisk(p) ==
    /\ At(p, "locked") /\ ~valid[my[p]]
    /\ Iderw(p, my[p], dirty[my[p]], data[my[p]])
    /\ UNCHANGED <<disk, bufVars, owner, lru, irq, my>>

\* The holder gives its buffer the contents v and calls bwrite().
Bwrite(p, v) ==
    LET b == my[p]
    IN  /\ At(p, "held") /\ blockno[b] \in Written
        /\ data' = [data EXCEPT ![b] = v] /\ dirty' = [dirty EXCEPT ![b] = TRUE]
        /\ Iderw(p, b, TRUE, v)
        /\ UNCHANGED <<disk, blockno, valid, refcnt, owner, lru, irq, my>>

\* The same with log_write(), which pins the buffer (log.c:231) until bwrite().
Pinned == {b \in Buf : dirty[b]}
LogWrite(p, v) ==
    LET b == my[p]
    IN  /\ At(p, "held") /\ blockno[b] \in Written
        /\ Cardinality(Pinned \cup {b}) <= MaxPinned
        /\ data' = [data EXCEPT ![b] = v] /\ dirty' = [dirty EXCEPT ![b] = TRUE]
        /\ UNCHANGED <<disk, blockno, valid, refcnt, owner, lru, ideVars, pc, my>>

\* The test that ends iderw().
IoDoneBug(b) == TRUE
IoDone(b) == valid[b] /\ ~dirty[b]

IoTest(p) ==
    /\ At(p, "iotest")
    /\ Goto(p, IF IoDone(my[p]) THEN "held" ELSE "iowait")
    /\ UNCHANGED <<disk, bufVars, owner, lru, ideVars, my>>

\* The disk finishes its command.
DiskDone ==
    /\ device.op # Idle /\ ~irq
    /\ irq' = TRUE
    /\ IF device.op = "write"
       THEN /\ disk' = [disk EXCEPT ![device.blockno] = device.data]
            /\ UNCHANGED device
       ELSE /\ device' = [device EXCEPT !.data = disk[device.blockno]]
            /\ UNCHANGED disk
    /\ UNCHANGED <<bufVars, owner, lru, idequeue, pc, my>>

NextCommandBug(rest) == [device EXCEPT !.op = Idle]
NextCommand(rest) ==
    IF rest = <<>> THEN [device EXCEPT !.op = Idle]
    ELSE Command(Head(rest), dirty[Head(rest)], data[Head(rest)])

\* ideintr(): finish the first request, wake its process, start the next.
Ideintr ==
    LET b == Head(idequeue)
        rest == Tail(idequeue)
    IN  /\ irq /\ irq' = FALSE
        /\ idequeue # <<>>
        /\ idequeue' = rest
        /\ data' = [data EXCEPT ![b] = IF dirty[b] THEN @ ELSE device.data]
        /\ valid' = [valid EXCEPT ![b] = TRUE] /\ dirty' = [dirty EXCEPT ![b] = FALSE]
        /\ WakeGoto(b, "iowait", "iotest", Nobody, "idle")
        /\ device' = NextCommand(rest)
        /\ UNCHANGED <<disk, blockno, refcnt, owner, lru, my>>

\* brelse(): releasesleep(), then the count and the place in the list.
Brelse(p) ==
    LET b == my[p]
    IN  /\ At(p, "held")
        /\ owner' = [owner EXCEPT ![b] = Nobody]
        /\ WakeGoto(b, "locksleep", "acquire", p, "release")
        /\ UNCHANGED <<disk, bufVars, lru, ideVars, my>>

MoveToFront(b) == <<b>> \o SelectSeq(lru, LAMBDA c : c # b)

BrelseCount(p) ==
    LET b == my[p]
    IN  /\ At(p, "release") /\ BcacheFree
        /\ refcnt' = [refcnt EXCEPT ![b] = @ - 1]
        /\ lru' = IF refcnt[b] = 1 THEN MoveToFront(b) ELSE lru
        /\ my' = [my EXCEPT ![p] = NoBuf]
        /\ Goto(p, "idle")
        /\ UNCHANGED <<disk, blockno, valid, dirty, data, owner, ideVars>>

Bget(p) == (\E b \in Buf : BgetHit(p, b)) \/ \E k \in Block : BgetMiss(p, k)

\* Steps a process takes once it runs, without anybody's decision.
Proceed(p) == AcquireSleep(p) \/ BreadValid(p) \/ BreadDisk(p) \/ IoTest(p) \/ BrelseCount(p)

\* panic() never returns; the other CPUs go on, up to bcache.lock.
Panicked == ~BcacheFree /\ UNCHANGED vars

Next ==
    \/ DiskDone \/ Ideintr \/ Panicked
    \/ \E p \in Proc : \/ Bget(p) \/ Proceed(p) \/ Brelse(p) \/ KillWakes(p)
                       \/ \E v \in Value : Bwrite(p, v) \/ LogWrite(p, v)

\* The disk and its interrupt do not stop, and the scheduler runs every process.
Fairness == WF_vars(DiskDone) /\ WF_vars(Ideintr) /\ \A p \in Proc : WF_vars(Proceed(p))

Spec == Init /\ [][Next]_vars /\ Fairness
-----------------------------------------------------------------------------
\* No block has two buffers, so no two processes can change it at once; and bget()
\* panics (bio.c:92) only when it must: no buffer is lost to a count that leaked or
\* to a B_DIRTY that nobody will clear, each has a user or is pinned by the log.
Exhausted == \A b \in Buf : (\E p \in Proc : my[p] = b) \/ dirty[b]
OneBufferPerBlock ==
    /\ \A b, c \in Buf : blockno[b] = blockno[c] /\ blockno[b] # NoBlock => b = c
    /\ \A p \in Proc : At(p, "panic") => Exhausted

\* No request is lost and none is served twice: the processes waiting in iderw() are
\* those of the queue, each queued once and holding its buffer's lock, except those
\* whose request is done and who only have to notice; and the disk works exactly
\* while there is a first request, on its block.
RequestsQueued ==
    LET queued == {idequeue[i] : i \in DOMAIN idequeue}
    IN  /\ Cardinality(queued) = Len(idequeue)
        /\ \A p \in Proc : At(p, "iowait") => my[p] \in queued
        /\ \A b \in queued :
              /\ ~(valid[b] /\ ~dirty[b])
              /\ \E p \in Proc : owner[b] = p /\ my[p] = b /\ pc[p] \in InIderw
        /\ device.op = Idle <=> idequeue = <<>>
        /\ idequeue # <<>> => device.blockno = blockno[Head(idequeue)]

\* releasesleep() leaves nobody asleep: whoever sleeps for a buffer's lock finds it
\* locked, by a process that holds this buffer and will release it (sleeplock.c:25).
LockSleeperBlocked ==
    \A p \in Proc : At(p, "locksleep") =>
        \E q \in Proc : /\ owner[my[p]] = q /\ my[q] = my[p]
                       /\ pc[q] \in {"locked", "held"} \cup InIderw

\* A request to the disk is answered, spurious wakeups or not, unless the kernel
\* panics meanwhile (the CPU that takes the disk's interrupts may be the one).
IoCompletes == \A p \in Proc : pc[p] \in InIderw ~> At(p, "held") \/ ~BcacheFree

\* The cache is the register of BlockStore: a block is locked once its buffer is
\* locked and valid; its contents are those of the buffer, or of the disk.
CurrentOf(k) ==
    LET b == {c \in Cached(k) : valid[c]}
    IN  IF b = {} THEN disk[k] ELSE data[CHOOSE c \in b : TRUE]
HolderOf(k) ==
    LET b == {c \in Cached(k) : valid[c] /\ owner[c] # Nobody}
    IN  IF b = {} THEN Nobody ELSE owner[CHOOSE c \in b : TRUE]

Store == INSTANCE BlockStore WITH
    current <- [k \in Block |-> CurrentOf(k)], stored <- disk,
    holder <- [k \in Block |-> HolderOf(k)]

\* Recycling, waiting, requests in flight and interrupts are invisible: the detailed
\* cache takes only the steps of BlockStore.  Steps that leave alone what the mapping
\* reads are told first, which spares TLC the mapping.
shown == <<disk, blockno, valid, data, owner>>
ImplementsBlockStore ==
    Store!Init /\ [][UNCHANGED shown \/ UNCHANGED Store!vars \/ Store!Next]_vars
=============================================================================
