-------------------------------- MODULE Log ---------------------------------
(***************************************************************************)
(* The write-ahead log of the file system (src/xv6-public_1/log.c): group  *)
(* commit, recovery, and a crash at any moment.  A write of one disk block *)
(* is atomic, as BSIZE is the size of a sector; the buffer cache shows     *)
(* through as the value bread() returns and the B_DIRTY flag that pins a   *)
(* block until it is installed.  A critical section of log.lock is one     *)
(* action; log_write() tests the capacity before it takes the lock, so the *)
(* test and the append are two.                                            *)
(***************************************************************************)
EXTENDS Naturals, Sequences, FiniteSets, Functions

CONSTANTS
    Proc,           \* processes that make file system calls
    First,          \* the first process, whose forkret() calls initlog()
    Block,          \* home blocks that the calls modify
    NoBlock,        \* no block
    Data,           \* contents of a block
    MAXOPBLOCKS,    \* blocks begin_op() reserves for each call
    LOGSIZE,        \* param.h: length of logheader.block, and of the log
    NLOG,           \* sb.nlog = log.size: blocks of the log, header included
    OpBlocks        \* blocks a call really modifies, at most

ASSUME LogAssumption ==
    /\ First \in Proc
    /\ NoBlock \notin Block
    /\ MAXOPBLOCKS \in Nat \ {0}
    /\ LOGSIZE \in Nat /\ LOGSIZE >= MAXOPBLOCKS
    /\ NLOG \in Nat \ {0}
    /\ OpBlocks \in Nat /\ OpBlocks <= MAXOPBLOCKS
    /\ IsFiniteSet(Proc) /\ IsFiniteSet(Block)

VARIABLES
    home, logd, hdr,        \* disk: home blocks, log blocks, header block
    lh,                     \* log.lh: the blocks of the current transaction
    outstanding, committing,
    cache, dirty,           \* what bread() returns; the buffers with B_DIRTY
    booted,                 \* recovery is over
    pc, blk, mine,          \* per process: position, buffer held, blocks logged
    tail                    \* per process: tail of write_log and install_trans

diskVars == <<home, logd, hdr>>
logVars == <<lh, outstanding, committing>>
bufVars == <<cache, dirty>>
procVars == <<pc, blk, mine, tail>>
vars == <<diskVars, logVars, bufVars, booted, procVars>>

\* Positions of a process:
\*   idle      in no call               asleep  in begin_op(), on channel &log
\*   begin     woken in begin_op()      op      inside the call
\*   modified  holds buffer blk, its data changed, log_write(blk) not begun
\*   checked   in log_write(), past the test of the capacity
\*   write_log .. erase, release        the steps of commit() in end_op()
\*   read_head                          the first step of recover_from_log()
PC == {"idle", "asleep", "begin", "op", "modified", "checked", "write_log",
       "install", "erase", "release", "read_head", "panic"}
InOp == {"op", "modified", "checked", "panic"}     \* a panic never leaves the call

InCommit == {"write_log", "install", "erase", "release"}

TypeOK ==
    /\ home \in [Block -> Data] /\ cache \in [Block -> Data]
    /\ logd \in [1 .. LOGSIZE -> Data]
    /\ lh \in Seq(Block) /\ Len(lh) <= LOGSIZE
    /\ hdr \in Seq(Block) /\ Len(hdr) <= LOGSIZE
    /\ outstanding \in Nat
    /\ committing \in BOOLEAN /\ booted \in BOOLEAN
    /\ dirty \subseteq Block
    /\ pc \in [Proc -> PC]
    /\ blk \in [Proc -> Block \cup {NoBlock}]
    /\ mine \in [Proc -> SUBSET Block]
    /\ tail \in [Proc -> 0 .. LOGSIZE]

\* The memory of a machine that has just been switched on.
PowerOn(h) ==
    /\ lh' = <<>> /\ outstanding' = 0 /\ committing' = FALSE
    /\ cache' = h /\ dirty' = {}
    /\ booted' = FALSE
    /\ pc' = [p \in Proc |-> IF p = First THEN "read_head" ELSE "idle"]
    /\ blk' = [p \in Proc |-> NoBlock]
    /\ mine' = [p \in Proc |-> {}]
    /\ tail' = [p \in Proc |-> 0]

\* A disk as mkfs leaves it, any contents, an empty log.
Init ==
    /\ home \in [Block -> Data]
    /\ \E v \in Data : logd = [i \in 1 .. LOGSIZE |-> v]
    /\ hdr = <<>>
    /\ lh = <<>> /\ outstanding = 0 /\ committing = FALSE
    /\ cache = home /\ dirty = {}
    /\ booted = FALSE
    /\ pc = [p \in Proc |-> IF p = First THEN "read_head" ELSE "idle"]
    /\ blk = [p \in Proc |-> NoBlock]
    /\ mine = [p \in Proc |-> {}]
    /\ tail = [p \in Proc |-> 0]

Goto(p, k) == pc' = [pc EXCEPT ![p] = k]

-----------------------------------------------------------------------------
(* begin_op() and end_op().  The definitions named ...Bug are plausible      *)
(* mistakes in the one they precede; no action uses them, they serve to test *)
(* the properties.                                                          *)

\* wakeup(&log) on the positions f.
WakeLogBug(f) == f
WakeLog(f) == [q \in Proc |-> IF f[q] = "asleep" THEN "begin" ELSE f[q]]

\* begin_op()'s two reasons to wait.
NoReservationBug == committing
MustWaitBug == Len(lh) + (outstanding + 1) * MAXOPBLOCKS > LOGSIZE
MustWait == committing \/ Len(lh) + (outstanding + 1) * MAXOPBLOCKS > LOGSIZE

\* log.outstanding += 1, on whichever round of the loop.
ReserveBug(p) == IF pc[p] = "begin" THEN outstanding ELSE outstanding + 1
Reserve(p) == outstanding + 1

BeginOp(p) ==
    /\ booted
    /\ pc[p] \in {"idle", "begin"}
    /\ ~MustWait
    /\ outstanding' = Reserve(p)
    /\ Goto(p, "op")
    /\ UNCHANGED <<diskVars, lh, committing, bufVars, booted, blk, mine, tail>>

BeginWait(p) ==
    /\ booted
    /\ pc[p] \in {"idle", "begin"}
    /\ MustWait
    /\ Goto(p, "asleep")
    /\ UNCHANGED <<diskVars, logVars, bufVars, booted, blk, mine, tail>>

\* kill() makes a sleeper RUNNABLE, whatever it sleeps on.
KillWakes(p) ==
    /\ pc[p] = "asleep"
    /\ Goto(p, "begin")
    /\ UNCHANGED <<diskVars, logVars, bufVars, booted, blk, mine, tail>>

\* commit() writes nothing when the transaction is empty.
AfterEndBug == "release"
AfterEnd == IF lh = <<>> THEN "release" ELSE "write_log"

\* The last call out commits; the others free their reservation.
EndOpLastBug == TRUE
EndOpLast == outstanding = 1
EndOp(p) ==
    /\ pc[p] = "op"
    /\ outstanding' = outstanding - 1
    /\ mine' = [mine EXCEPT ![p] = {}]
    /\ IF committing
       THEN Goto(p, "panic") /\ UNCHANGED <<committing, tail>>
       ELSE IF EndOpLast
            THEN /\ committing' = TRUE
                 /\ Goto(p, AfterEnd)
                 /\ tail' = [tail EXCEPT ![p] = 0]
            ELSE /\ pc' = WakeLog([pc EXCEPT ![p] = "idle"])
                 /\ UNCHANGED <<committing, tail>>
    /\ UNCHANGED <<diskVars, lh, bufVars, booted, blk>>

-----------------------------------------------------------------------------
(* A call modifies a block: bread(), change the data, log_write(), brelse()  *)

Modify(p, b) ==
    /\ pc[p] = "op"
    /\ \A q \in Proc : blk[q] # b                   \* the buffer's sleep lock
    /\ Cardinality(mine[p] \cup {b}) <= OpBlocks
    /\ \E v \in Data : cache' = [cache EXCEPT ![b] = v]
    /\ blk' = [blk EXCEPT ![p] = b]
    /\ Goto(p, "modified")
    /\ UNCHANGED <<diskVars, logVars, dirty, booted, mine, tail>>

\* log_write() tests the capacity and its caller without log.lock.
TooBig == Len(lh) >= LOGSIZE \/ Len(lh) >= NLOG - 1
LogCheck(p) ==
    /\ pc[p] = "modified"
    /\ Goto(p, IF TooBig \/ outstanding < 1 THEN "panic" ELSE "checked")
    /\ UNCHANGED <<diskVars, logVars, bufVars, booted, blk, mine, tail>>

\* Absorption: a block already in the transaction is not logged twice.
Absorb(b) == IF b \in Range(lh) THEN lh ELSE Append(lh, b)

\* B_DIRTY keeps the buffer in the cache until it is installed.
Pin(b) == dirty \cup {b}

LogAppend(p) ==
    /\ pc[p] = "checked"
    /\ lh' = Absorb(blk[p])
    /\ dirty' = Pin(blk[p])
    /\ mine' = [mine EXCEPT ![p] = @ \cup {blk[p]}]
    /\ blk' = [blk EXCEPT ![p] = NoBlock]           \* brelse()
    /\ Goto(p, "op")
    /\ UNCHANGED <<diskVars, outstanding, committing, cache, booted, tail>>

\* bget() recycles a buffer that nobody holds and that is not B_DIRTY.
Evict(b) ==
    /\ b \notin dirty
    /\ \A q \in Proc : blk[q] # b
    /\ cache' = [cache EXCEPT ![b] = home[b]]
    /\ UNCHANGED <<diskVars, logVars, dirty, booted, procVars>>

-----------------------------------------------------------------------------
(* commit(), one disk write at a time, and recover_from_log()               *)

WriteLog(p) ==
    /\ pc[p] = "write_log"
    /\ tail[p] < Len(lh)
    /\ logd' = [logd EXCEPT ![tail[p] + 1] = cache[lh[tail[p] + 1]]]
    /\ tail' = [tail EXCEPT ![p] = @ + 1]
    /\ UNCHANGED <<home, hdr, logVars, bufVars, booted, pc, blk, mine>>

WriteLogDoneBug(p) == tail[p] + 1 >= Len(lh)
WriteLogDone(p) == tail[p] >= Len(lh)

\* write_head(): the transaction commits.
WriteHead(p) ==
    /\ pc[p] = "write_log"
    /\ WriteLogDone(p)
    /\ hdr' = lh
    /\ tail' = [tail EXCEPT ![p] = 0]
    /\ Goto(p, "install")
    /\ UNCHANGED <<home, logd, logVars, bufVars, booted, blk, mine>>

\* read_head()
ReadHead(p) ==
    /\ pc[p] = "read_head"
    /\ lh' = hdr
    /\ Goto(p, "install")
    /\ UNCHANGED <<diskVars, outstanding, committing, bufVars, booted, blk, mine, tail>>

\* One round of install_trans(): bwrite() clears B_DIRTY.
Install(p) ==
    /\ pc[p] = "install"
    /\ tail[p] < Len(lh)
    /\ LET b == lh[tail[p] + 1] IN
        /\ home' = [home EXCEPT ![b] = logd[tail[p] + 1]]
        /\ cache' = [cache EXCEPT ![b] = logd[tail[p] + 1]]
        /\ dirty' = dirty \ {b}
    /\ tail' = [tail EXCEPT ![p] = @ + 1]
    /\ UNCHANGED <<logd, hdr, logVars, booted, pc, blk, mine>>

\* log.lh.n = 0 after the last round.
InstallDoneBug(p) == tail[p] > Len(lh)
InstallDone(p) == tail[p] >= Len(lh)
ClearLh(p) ==
    /\ pc[p] = "install"
    /\ InstallDone(p)
    /\ lh' = <<>>
    /\ Goto(p, "erase")
    /\ UNCHANGED <<diskVars, outstanding, committing, bufVars, booted, blk, mine, tail>>

\* The second write_head(); it also ends recovery.
Erase(p) ==
    /\ pc[p] = "erase"
    /\ hdr' = lh
    /\ tail' = [tail EXCEPT ![p] = 0]
    /\ booted' = TRUE
    /\ Goto(p, IF booted THEN "release" ELSE "idle")
    /\ UNCHANGED <<home, logd, logVars, bufVars, blk, mine>>

\* end_op() after commit().
Release(p) ==
    /\ pc[p] = "release"
    /\ committing' = FALSE
    /\ pc' = WakeLog([pc EXCEPT ![p] = "idle"])
    /\ UNCHANGED <<diskVars, lh, outstanding, bufVars, booted, blk, mine, tail>>

\* Power fails; the disk keeps what was written.
Crash ==
    /\ PowerOn(home)
    /\ UNCHANGED diskVars

-----------------------------------------------------------------------------
CommitStep(p) == \/ WriteLog(p) \/ WriteHead(p) \/ Install(p)
                 \/ ClearLh(p) \/ Erase(p) \/ Release(p)

Next ==
    \/ \E p \in Proc :
        \/ BeginOp(p) \/ BeginWait(p) \/ KillWakes(p) \/ EndOp(p)
        \/ LogCheck(p) \/ LogAppend(p) \/ ReadHead(p) \/ CommitStep(p)
        \/ \E b \in Block : Modify(p, b)
    \/ \E b \in Block : Evict(b)
    \/ Crash

Spec == Init /\ [][Next]_vars

\* The kernel carries a call, a commit and a recovery forward whenever it can; a
\* call modifies blocks finitely often before it ends; a woken process is run.
\* Nothing obliges a process to begin a call, and a crash is never due.
Fairness ==
    \A p \in Proc :
        /\ WF_vars(LogCheck(p) \/ LogAppend(p) \/ ReadHead(p) \/ CommitStep(p))
        /\ SF_vars(EndOp(p))
        /\ WF_vars(pc[p] = "begin" /\ (BeginOp(p) \/ BeginWait(p)))

FairSpec == Spec /\ Fairness

-----------------------------------------------------------------------------
(* Properties                                                               *)

\* The blocks as recover_from_log() would leave them if power failed now.
Recovered ==
    [b \in Block |-> IF \E i \in DOMAIN hdr : hdr[i] = b
                     THEN logd[CHOOSE i \in DOMAIN hdr : hdr[i] = b]
                     ELSE home[b]]

Abs == INSTANCE AtomicFS WITH
            mem <- IF booted THEN cache ELSE Recovered,
            stable <- Recovered,
            active <- {p \in Proc : pc[p] \in InOp}

\* Group commit and recovery are atomic with respect to crashes: at every moment,
\* between any two disk writes, a crash would bring back the blocks as they were
\* at some moment with no call under way ("A log transaction contains the updates
\* of multiple FS system calls", log.c:7-20).
ImplementsAtomicFS == Abs!Spec

\* Once the last call has returned from end_op(), and until another one begins,
\* everything the calls wrote is permanent.
DurableWhenQuiet == booted /\ outstanding = 0 /\ (committing => \E p \in Proc : pc[p] = "release")
                        => Recovered = cache

\* write_log() stays inside the log: the transaction leaves room for the header
\* block although log_write() tests the capacity before it takes log.lock, so that
\* two calls may both pass the test and append.  What keeps them out of the last
\* block is the reservation of begin_op(), however the calls come and go (log.c:132).
LogFits == Len(lh) <= NLOG - 1

\* None of the panics of log.c is reached: "too big a transaction", "log_write
\* outside of trans", "log.committing".
NoPanic == \A p \in Proc : pc[p] # "panic"

\* outstanding counts the calls; one process commits at a time, as long as
\* committing says so, and never while a call is under way.
OneCommitter ==
    /\ outstanding = Cardinality({p \in Proc : pc[p] \in InOp})
    /\ booted => (committing <=> \E p \in Proc : pc[p] \in InCommit)
    /\ \A p, q \in Proc : pc[p] \in InCommit /\ pc[q] \in InCommit => p = q
    /\ committing => outstanding = 0

\* A process asleep in begin_op() waits for somebody who will wake it.
SleeperHasWaker ==
    (\E p \in Proc : pc[p] = "asleep") => committing \/ outstanding > 0

\* Its wakeup comes.  (That it then gets in is not promised: others may be faster.)
SleeperWoken == \A p \in Proc : pc[p] = "asleep" ~> pc[p] # "asleep"

\* If power stays on, recovery ends, after any number of crashes during recovery.
RecoveryEnds == (<>[][~Crash]_vars) => <>[]booted
=============================================================================
