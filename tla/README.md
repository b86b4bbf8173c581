# A TLA+ development of the COL633 xv6 kernels

The repository holds three x86 kernels, each xv6 with one assignment of the COL633
course on top:

| directory | what it adds |
|---|---|
| `src/xv6-public_1` | a login in `init.c`, `gethistory`, `block`/`unblock` of system calls, `chmod` |
| `src/xv6-public_2` | Ctrl-C/B/F/G, user signals, `custom_fork`/`scheduler_start`, a dynamic-priority scheduler with a profiler |
| `src/xv6-public_3` | Ctrl-I, which prints the number of pages of each process |

`bio.c`, `log.c`, `ide.c`, `pipe.c`, `spinlock.c`, `sleeplock.c` and `kalloc.c` are
the same in all three. Process management is therefore modelled from
`xv6-public_3` (the plain one), memory and the file system from `xv6-public_1`, job
control from `xv6-public_2`.

## Inventory

| component | state it keeps | operations | talks to | what is hard | what makes it correct |
|---|---|---|---|---|---|
| Processes and scheduler (`proc.c`, `trap.c`, `sysproc.c`) | `ptable` (state, pid, parent, chan, killed), `cpu->proc`, saved contexts, `ticks` | fork, exit, wait, kill, sleep, wakeup, yield, scheduler, timer interrupt | every component, through sleep/wakeup | several CPUs, preemption anywhere no lock is held, exit running on the stack that wait frees, lost wakeups | one CPU per stack, `sched()` never panics, nobody waits for nothing, zombies are final, families stay connected, no starvation |
| Log (`log.c`) | `log.lh`, `outstanding`, `committing`; header and log blocks on disk | begin_op, end_op, log_write, commit, recovery | bio (bread, bwrite, B_DIRTY), proc (sleep on `&log`) | crash between any two disk writes, also during recovery; calls sharing a transaction; log space | atomic group commit, the log never overflows, sleepers are woken |
| Buffer cache (`bio.c`), IDE driver (`ide.c`), sleep locks | buffers (dev, blockno, refcnt, flags), MRU list, `idequeue` | bread, bwrite, brelse, iderw, ideintr | log, fs, interrupts | interrupt against sleeper, eviction of pinned buffers, NBUF exhausted | one buffer per block, one holder per buffer, every request completes |
| Spin locks (`spinlock.c`) | locked, cpu; per CPU `ncli`, `intena` | acquire, release, pushcli, popcli | everything | interrupts on the same CPU, nesting, `sched()` saving `intena` | mutual exclusion, interrupts off while any lock is held |
| Pipes (`pipe.c`), file table (`file.c`) | ring of 512 bytes, `nread`, `nwrite`, open flags; `ref` of each file | piperead, pipewrite, pipeclose, filedup, fileclose | proc (fork, exit), log | full/empty with a partner that closes or is killed, counters that wrap, last close | bytes in order, no lost wakeup, the pipe is freed once |
| Inodes and directories (`fs.c`, `sysfile.c`) | inode cache (ref, valid, nlink, mode), bitmap, directory blocks | iget, iput, ilock, ialloc, bmap, itrunc, link, unlink, create, open | log, bio | iput of the last reference against a lookup, lock order of parent and child, failure after a first step | no block in two files, link counts, no inode freed while used |
| Memory (`kalloc.c`, `vm.c`) | free list, page tables | kalloc, kfree, copyuvm, allocuvm, freevm | proc, exec | failure half way through a copy | no page with two owners, no leak on a failure path |
| Job control (A2 `console.c`, `proc.c`) | `b`, state CUSTOM_WAIT, the shell as pid 2 | Ctrl-C, Ctrl-B, Ctrl-F, wait's early return, scheduler skipping `b` | scheduler, wait | a keyboard interrupt writes states that other code believes it alone changes | a stopped process does not run, a zombie stays one, the shell resumes |
| Custom fork and priorities (A2 `proc.c`) | `custom`, `exec_time`, `rtime`, `waiting_time` | custom_fork, scheduler_start, scheduler | trap, exit | fields of reused slots, ageing against run time | start_later is respected, the limit kills, nobody starves |
| Signals (A2 `trap.c`, `proc.c`) | `pending_signal`, `signal_handler`, `saved_tf` | Ctrl-G, signal, delivery, return by the magic fault | trap, kalloc | a signal during a handler or a system call | the interrupted context comes back |
| System call filter, chmod, history (A1) | `blocked_syscalls`, inode mode, `hist_arr` | block, unblock, syscall, chmod, gethistory, exit | fork, exec | inheritance over fork, mode checked without the inode lock, bounded table | a blocked call has no effect, history is complete up to its bound |
| Console | input ring `r`, `w`, `e` | consoleintr, consoleread | interrupts, wakeup | the interrupt against readers, a full ring | r <= w <= e, lines arrive whole |

Not components of their own: the shell, the user library and programs (user code),
boot code, interrupt controllers and `mkfs` (straight-line hardware or host code),
Ctrl-I (a read-only report).

`PROJECT.json` lists the hazards at their lines, with the properties that cover
them.

## Modules

| module | models | run or proof |
|---|---|---|
| `Proc` | `proc.c`, the parts of `trap.c` and `sysproc.c` that drive it (A3) | `MCProc*.cfg`, `ProcProofs` |
| `JobControl` | `console.c`'s keys, `proc.c` and the end of `trap.c` (A2) | `MCJob*.cfg`, `JobControlProofs` |
| `AtomicFS` | what the log promises, independent of how | refined by `Log` |
| `Log` | `log.c` with its disk | `MCLog*.cfg`, `LogProofs` |
| `FileWrite` | the chunks of `filewrite()` and the blocks `writei()`, `bmap()` and `balloc()` log | `ASSUME`s of `MCLog`, `FileWriteProofs` |
| `BlockStore` | what the buffer cache promises: a locked register per block | refined by `BufferCache` |
| `BufferCache` | `bio.c`, `sleeplock.c`, `ide.c` | `MCBuffer.cfg`, `BufferCacheProofs` |
| `ByteStream` | what a pipe promises: a bounded stream of bytes | refined by `Pipe` |
| `Pipe` | `pipe.c`, `file.c`, the descriptor calls of `sysfile.c` | `MCPipe.cfg`, `PipeProofs` |
| `Inodes` | `fs.c` and the directory calls of `sysfile.c` | `MCInodes.cfg`, `InodesProofs` |
| `Memory` | `kalloc.c`, `vm.c`, `exec.c`, the memory side of fork, exit, wait and sbrk | `MCMemory.cfg`, `MemoryProofs` |
| `MC*` | small instances for TLC | |
| `*Proofs` | inductive invariants and their proofs | tlapm |

How they fit: `Log` takes its buffers to be what `BufferCache` is shown to implement (the
contents a holder sees, a pin, an atomic block write), `Inodes` takes a system call's
blocks to be what `Log` is shown to implement (an atomic transaction), and every module
takes sleep and wakeup to be what `Proc` shows them to be: a sleeper tests its condition
under the lock its waker holds, and wakes at least when it was told to.

### Proc

A slot of `ptable.proc` is a number, so that the order of the scheduler's scan and of
`allocproc()` is the code's. Besides the fields of `struct proc`, each slot has the
position `pc` of its kernel thread, whether the thread is in `yield()` on top of that
(`inyield`), the `np` of a fork under way and what is `left` of a sleep. A CPU has
`cpu->proc`, what it executes (`mode`), the scan's `p` (`cursor`) and how far a timer
interrupt has come (`intr`).

One action is one critical section of `ptable.lock` that neither sleeps nor switches.
Where the code holds a lock over a context switch the model holds it too: `ptlock` is
taken by the scheduler and released by the thread it switched to, and the other way
round, which is the discipline the proofs are about. A CPU with a lock takes no
interrupt. `allocproc()`'s half-made slot, its failure without a lock, and the two locks
of `sys_sleep()` have steps of their own.

Left out: memory, files and directories of a process; `exit()` closes its files before
it takes `ptable.lock`, which is one more delay between `sys` and `Exit`. init only forks
and waits; that its fork fails, that it is killed or faults (all three panic the kernel
with "init exiting") is excluded. A system call other than these is a `Kill` that hits
nobody. Interrupts other than the timer touch no state of this module.

### AtomicFS and Log

`AtomicFS` has the blocks as the system sees them (`mem`), as they would be after a crash
(`stable`) and the calls under way. `Commit` makes `mem` stable and needs no call active;
`Crash` goes back to `stable`.

`Log` keeps the disk (home blocks, log blocks, header), `log`, and the buffer cache as
the value `bread()` returns plus the pin `B_DIRTY`. Each disk write of `commit()` and
`recover_from_log()` is an action, `Crash` may come between any two; a block is one
sector (`BSIZE` = 512), so a single write is atomic. `log_write()` has two actions since it
tests the capacity before it takes `log.lock`. `Evict` is `bget()` recycling any buffer
that is neither held nor dirty. The refinement maps `stable` to what recovery would make
of the disk now, so `WriteHead` alone is the abstract `Commit`.

Constants keep the roles of `param.h`: `LOGSIZE` is both the length of the header array
and what `begin_op()` compares with, `NLOG` is `sb.nlog`. They are equal in this
repository (`mkfs.c:26`), which leaves `LOGSIZE - 1` blocks for data. `OpBlocks` is how
many distinct blocks a call really modifies; with `OpBlocks < MAXOPBLOCKS` the missing
block never matters, with equality it does (run `log_full`).

### JobControl

The Makefile of the A2 kernel starts one CPU, and code that holds a spin lock runs with
interrupts off. So an action is what runs between two points where an interrupt can be
taken: `loc` says at which of them a process stands (user mode, inside `fork()`, the loops
of `wait()` and `consoleread()`), and the keyboard acts whenever the CPU is idle, in user
mode or in `fork()`: after `allocproc()`, and again after `CopyImage`. `b`, `killed`, `state` and `exec_time` are the
fields of the slot and survive its reuse, as in the code. `pid` distinguishes init, the
shell and all others, since the code compares pids with 1 and 2 only; `sh` is init's own
variable. The ring of input is counted in lines. Whether `rtime` has reached a limit is
nondeterministic when a process gives up the CPU, and so is the choice among RUNNABLE
processes, which covers every priority formula. The slot that `fork()` is filling is
visible to the keys, which is where the hazards come from: Ctrl-B marks it, Ctrl-F
makes it RUNNABLE. If that is before `CopyImage`, the step that stands for `copyuvm()`, the
trap frame, the files and the directory, the scheduler switches to a process without a
whole image (`panic = "no image"` stands for what follows; an interrupt in the middle of
those assignments counts as one before them). After it the child runs: it may fork, be
killed, exit and be a zombie, and the end of `fork()` still makes it RUNNABLE again.
`kill()` reaches every slot by its pid, also init's (whose exit panics) and the slots with
pid 0; whether the user kills the shell is `ShellExits`.

### BlockStore and BufferCache

In `BlockStore` each block has the contents a holder sees (`current`), those on disk
(`stored`) and a lock. `BufferCache` keeps the fields of `struct buf`, the list in order of use
(`lru`), `idequeue` and the disk's command. `bget()` finds or recycles a buffer in one
critical section and acquires its sleep lock in another, so a buffer can change hands in
between; `releasesleep()` and the count in `brelse()` are two steps; the interrupt comes when
the disk is done, between any two steps. `kill()` may wake any sleeper at any time
(`KillWakes`): loops test again. The refinement maps a block's lock to the lock of its
valid buffer, so that waiting, recycling and requests in flight are stutters.

When `bget()` finds no buffer its process panics with `bcache.lock` held: from then on
nobody passes that lock (`BcacheFree`), while everything else goes on (`Panicked` keeps it
from counting as a deadlock). `NBUF` is any number; with the 30 of `param.h`, 29 blocks
pinned and 64 processes, as in the instance, the panic can be reached.

### ByteStream and Pipe

`Pipe` has the file table, the descriptors of each process and pipes that live in pages:
a page that is freed keeps what `kfree()` writes to it, and a stale pointer would see it.
`pipe()` has its three allocations as steps, each with its failure; `fileclose()` copies the
file, drops `ftable.lock` and then closes the pipe, with others in between. `nread` and `nwrite`
are unsigned (`WRAP`). A reader or writer that sleeps tests again when it is woken, by its
partner or by `kill()`. Between its test of `killed` and `sleep()`'s acquire of `ptable.lock`
(`proc.c:473`) it stands at `rdoze` or `wdoze`, with the pipe's lock (`Locked`): partners have
to wait, but `kill()`, which takes only `ptable.lock`, can come in between, finds the process
RUNNING and wakes nobody. `Sleep` is the rest. `rest` and `want` are the loop variables of `pipewrite()` and
`piperead()`. Each page is shown to be a `ByteStream`.

### Inodes

An inode has its copy on disk (type, nlink), its slot in the cache (`ref`, `valid`, the
copy `node`, the sleep lock) and directories have `entry`. `namex()` walks one element per
step, with `iput()` of the element before it in three steps (look at `ref`; free the inode
under its lock; drop the count), as the code takes and drops `icache.lock` there. `create`,
`link`, `unlink`, `open`, `mkdir`, `chdir` and `close` are modelled with their failure paths and
the panics of `ilock()`, `dirlookup()`, `ialloc()` and `unlink()`; blocks, contents, modes and devices are not. A cache slot is identified with its inode
(`iget()` never makes two for one). Directory blocks change when the code changes them;
the log makes them atomic on disk, so no crash appears here.

### Memory

Pages are counted: `free` is the length of the free list, and an address space is its
directory, its page tables and its user pages by number. Each `kalloc()` and each `kfree()`
is a step, so that processes take each other's last page in the middle of `fork()`,
`exec()` or `sbrk()`, and each may fail. `work` holds the locals of the call. `gethistory` and
`hist_arr` are here since `exec()` and `exit()` keep them. `ran` and `hollow` are history
variables that nothing reads but properties.

`hollow`: `sbrk(-sz)` makes `deallocuvm()` return 0, which `growproc()` takes for a failure; the
pages are gone and `sz` still counts them. Such a process is excepted from `ImageWhole`
(its next `fork()` may panic in `copyuvm()`).

## Runs

| run | instance | shows |
|---|---|---|
| `proc_safety` | 4 slots, 2 CPUs, 3 forks, `sleep(1)`, `kill(2)`, `kill(0)`; 4.2 M states | the safety properties of `Proc` |
| `proc_live` | 3 slots, 1 CPU, 2 forks, `sleep(0)`, `sleep(2)`, kills of 2 and 3; 15 k states | `RunnableRuns`, `KilledExits`, `SleepReturns`, `OrphanReaped` |
| `proc_kill_unused` | as above with `kill(0)` | violated: `NewbornNotKilled` |
| `log_safety` | 2 processes, 5 blocks with 2 values, calls that reserve 2 blocks and write 1, a log of 5 blocks; 0.24 M states up to symmetry | `ImplementsAtomicFS`, `LogFits`, the panics, the durability of finished calls |
| `log_live` | 3 processes, 2 blocks, room for 2 calls | `SleeperWoken`, `RecoveryEnds` |
| `log_full` | 3 calls of 1 block in a log of 3 blocks | violated: `NoPanic` |
| `job_control` | 4 slots, all keys, a ring of 1 line; 4.6 M states | `ShellNotBehindSuspended`, `WaiterHasReason`, `ParentAlive` under every key at every point |
| `job_foreground` | the same | violated: `NoZombieExit` |
| `buffer_cache` | 3 processes, 3 blocks, one of them written, 2 buffers, 1 pinned; 0.4 M states | `ImplementsBlockStore`, `OneBufferPerBlock`, `LockSleeperBlocked`, `RequestsQueued`, `IoCompletes` |
| `pipe` | 2 processes, 3 files, 2 descriptors each, 1 page, rings of 2 bytes, counters mod 4, writes of 3 bytes; 0.83 M states | `ImplementsByteStream`, `EndsCounted`, `SleeperBlocked`, `OnlyKillLosesWakeups` |
| `inodes` | 2 processes, 3 inodes, 9 requests on a directory `a`, a file `b` and a second name `a/b` | `LinksCounted`, `RefsHeld`, `HeldStays` |
| `memory` | 3 slots, 16 pages, images of 1 and 2 pages, `sbrk` of -6, -3 and 3 bytes, a history of 2; 1.7 M states | `PagesConserved`, `ImageWhole`, `HistoryComplete` |

**Bounds.** Four slots are init, a parent, its child and one more, enough for an orphan
whose parent's slot is used again; `WaiterHasReason` and the second zombie of init's
need all four. Two CPUs are enough for every pair of concurrent steps. `MaxPid` bounds
the forks: three let a slot be reused once. In `Log` two calls make a group commit; five
blocks and a log of five let calls that overlap add block after block to a transaction
until it has three, one short of the four that `log_write()` refuses (`LOGSIZE - 1`), with
the third reservation made on a partly filled log. If `begin_op()` admits calls without the
reservation, the log overflows in this instance, and `log_write()` panics too. Recovery
crashes are not bounded. Two values tell an old block from a new one. Blocks and values are
interchangeable, processes are not (`First` recovers); symmetry is used in this run and in
`inodes`, which check safety only.
In `JobControl` the four slots are init, the shell, a job and a job's child, or two jobs;
nothing else is bounded. (A shell that may exit or be killed, `ShellExits`, makes too many
states for a regular run; with three slots the same properties hold of it, in 0.33 M states.) In
`BufferCache` two buffers for three blocks and three processes make waiting, recycling and the
pinned buffer compete, and let them run out, so that the panic is reached with buffers in use
and pinned. In `Pipe` writes are longer than
the ring and counters wrap after two rounds; one page is one pipe at a time, freed and
allocated again; three files make the table run out in the second `pipe()` (that two
pipes do not disturb each other is left to `PipeProofs`, which has any number of pages). In `Inodes` a directory, a file and a second name for it are the least in which
`link`, `unlink` and a current directory inside a removed one meet; `MaxLink` lets the file have
its second name and no third (entries made in a directory already removed count too, and
nobody ever deletes them). In `Memory` a page
table maps two pages and the kernel part needs one, so an image takes its second page
table while it grows; sixteen pages are just enough for two processes that have run the
smaller program, and never for three.

**Deadlock** is not checked in `pipe`, where a reader whose pipe stays empty and a writer
whose pipe stays full sleep for ever by design, and in `inodes`, where the code's lock
orders do deadlock (below). All other runs check it.

`TypeOK` of `BufferCache` and `Inodes` is stated for the reader; the runs of these modules
check what says more.

**Safety of Proc.** `StackExclusive`: no two CPUs on one kernel stack, none on a freed
one. `SchedDiscipline`: `sched()`'s panics are unreachable. `UserHoldsNoLock`: all paths
release. `WaiterHasReason`: a parent asleep in `wait()` has children, none a zombie, and
has not been killed. `ParentAlive`, `ZombieIsFinal`.

**Fairness of Proc** is stated for one CPU (`FairSpec`): the CPU never stops executing
what it is in (weak fairness on handlers, on the return from a switch and on the exit
of a killed process); a tick raised while interrupts are off stays pending, and code that
is interrupted for ever advances between ticks (strong fairness, per process); init keeps
calling `wait()`, as its program does. Code in user space is assumed to do nothing: it
may loop, and only the timer takes the CPU from it. With several CPUs spin locks are not
fair, so no liveness is claimed there.

**Fairness of Log**: a commit or recovery step that can be taken is taken (weak), a call
that has begun ends (strong on `EndOp`: it modifies blocks finitely often), a woken
process is run. No crash is ever due; `RecoveryEnds` supposes that crashes stop.
That a woken process gets into the log is not claimed: `begin_op()` keeps no order.

**Fairness of BufferCache**: the disk executes a command it was given and its interrupt is
taken; a process that can proceed inside a call does (round-robin scheduling, shown by
`RunnableRuns`). Nothing makes a process release its buffer, so nobody is promised a
locked one; `IoCompletes` promises the answer of the disk, unless the kernel panics meanwhile.

No other module claims liveness. A2's scheduler gives none (a process may lose to higher
priorities for ever), and no fairness makes a user press a key.

**Findings.** `proc_kill_unused`: `kill()` (`proc.c:508`) compares pids without looking at
the state, so `kill(0)` marks a free slot, whose next process is born killed.
`log_full`: the reservation of `begin_op()` and the capacity test of `log_write()`
disagree by the header block. `job_foreground`: Ctrl-F makes a zombie RUNNABLE when Ctrl-B
had marked it while it ran, and the kernel panics with "zombie exit".

### Behaviours found that no run checks

Four properties are stated in their modules, say what a comment of the code says, and
do not hold. To see TLC's trace, name them under INVARIANTS in `MCPipe.cfg` or
`MCInodes.cfg`.

- `ReaderSleepsOnEmptyPipe` (`Pipe`, the comment at `pipe.c:106`): a writer that is killed
  while it waits for room returns (`pipe.c:86-89`) without the `wakeup()` after its loop; a
  reader that slept before the pipe was filled sleeps on beside the bytes.
- `NoKilledSleeper` (`Pipe`, the comment at `proc.c:526`): a kill on another CPU after the test of
  `killed` (`pipe.c:86`, `:107`) and before `sleep()` has `ptable.lock` (`proc.c:473`) marks a
  process that is still RUNNING; it goes to sleep killed. `OnlyKillLosesWakeups` says that
  these two are all there is.
- `FreedWhenUnused` (`Inodes`, `fs.c:113-115`): two `iput()` of the last two references both
  see the other's, so neither frees the inode; it stays allocated without a name.
- `NoLockCycle` (`Inodes`, `fs.c:149`): `create()` keeps the new inode locked while it gives
  up its directory with `iunlockput()` (`sysfile.c:294`), `unlink()` locks the directory first.

Others met while modelling, which the bounds of the runs leave out:

- A path through ".." from a current directory that has been removed names an inode
  without links; if it is freed meanwhile, `ilock()` panics with "no type". The requests
  of `MCInodes` have no "..".
- `link(x, ".")` locks the directory it looks up twice and never returns (`fs.c:572`).
- `create()` and `link()` in a removed directory succeed and orphan the inode.
- Ctrl-F puts the shell to sleep whatever it does: at its prompt, or in `wait()` with a
  child that is already a zombie, where only Ctrl-B or another child wakes it. That is why
  `WaiterHasReason` of `JobControl` excepts the shell.

## Proofs

`ProcProofs` proves, for every number of slots and CPUs and any arguments of sleep and
kill (with `ProcAssumption`: nobody kills init), that `IndInv` is inductive, and from it
`TypeOK`, `StackExclusive`, `SchedDiscipline`, `UserHoldsNoLock`, `WaiterHasReason`,
`ParentAlive` and `ZombieIsFinal`.

None of the safety properties is inductive. `StackExclusive` needs `LockInv`, who holds
`ptable.lock` in terms of what every CPU executes (a thread that has just been switched
to holds the lock of the scheduler that picked it), because two scans exclude each other
only by that lock. `LockInv` needs `ThreadInv`, which ties a slot's state to the position
of its thread (a RUNNABLE slot resumes in `yield`, `sleep`, `wait` or `forkret`, all of
which release the lock). Exit's and wait's cases need `FamilyInv`, and the slot a fork is
filling needs `ForkInv`. There is one lemma per action and in it one step per conjunct.

`LogProofs` proves, for every finite number of processes and blocks, any contents and
any sizes with `OpBlocks <= MAXOPBLOCKS <= LOGSIZE` (`LogAssumption`), that `Log`'s `IndInv`
is inductive, and from it `TypeOK`, `OneCommitter`, `SleeperHasWaker`, `DurableWhenQuiet`
and `ImplementsAtomicFS`.

- Who is where: `CountInv` (outstanding is the number of calls), `CallInv` (a commit runs
  alone, a buffer has one holder), `BootInv` (until recovery is over only `First` runs).
- What is where, one conjunct per stage: `QuietInv` (between commits the disk's header is
  empty and the cache differs from the disk only in pinned or held buffers), `WriteInv`
  and `InstallInv` (how far the two copy loops have come), `EraseInv` (all installed, the
  header not erased yet), `HeaderInv` (no block twice, so that installing is idempotent).
- Room: `log_write()` tests the capacity without the lock, so the bound of the header array
  cannot come from the test. It comes from `RoomInv`: what is reserved and not yet `Used`
  still fits. `UsedBound` bounds the number of used blocks by calls times `OpBlocks`.

The refinement maps each action to one step: `BeginOp`, `Modify`, `EndOp` and `Crash` to
theirs, `WriteHead` to `Commit`, all others to stutters (`InstallRefines`, `EraseRefines`,
`EvictRefines` and so on say why). `NoPanic` and `LogFits` are false at full use, as run
`log_full` shows; `SlackAvoidsPanic` and `SlackFits` prove them when every call leaves two
blocks of its reservation unused, which is sufficient and, where a log takes several
calls, more than necessary.

That `filewrite()` does leave them is `FileWriteProofs`' `ChunkFits`, for every file, offset
and length, any `MAXOPBLOCKS` from 8 on and any block size (`Sizes`): a chunk of `k` blocks
that need not be aligned touches `k + 1` at most, and to them come one free map block, the
indirect block and the inode. `BmapInRange` shows that `writei()`'s tests, on sums that wrap,
keep `bmap()` from its panic. `FileWrite` names the blocks of a write in closed form; that
`writei()`'s loop visits exactly these is an induction, and checked on small writes by
`LoopTouches` in `MCLog`. `MCLog` also shows that a chunk can log 7 of the 10 blocks. That
the other calls log no more is not stated.

`JobControlProofs` proves, for every number of slots, every set of keys and every size of
the ring (`JobAssumption`), that `JobControl`'s `IndInv` is inductive, and from it `TypeOK`,
`ShellNotBehindSuspended`, `WaiterHasReason` and `ParentAlive`.

- In this kernel `state` cannot be trusted: the keys overwrite it. So `LocInv` ties it one way
  only to the position of the process (a free slot has none, a zombie is past the end of
  `exit()`), and the families (`FamilyInv`) are stated over positions: a parent is a process
  that has not exited, whatever Ctrl-F made of its state.
- `ForkInv`: a slot being filled belongs to one `fork()`; it has no process before `CopyImage`,
  even when Ctrl-F has made it RUNNABLE, and afterwards one whose parent has not left
  `fork()`. `InitInv`: init never exits, since a killed init panics on its way to `exit()`, so
  orphans always have a parent.
- `ShellInv` (which excepts a child whose `fork()` has not ended) strengthens `ShellNotBehindSuspended`: Ctrl-F may make the shell SLEEPING while
  it runs, on its way into `wait()`, so the claim has to hold for such a shell before it
  gets there. `CpuInv` says that no other running process is SLEEPING, which the step into
  `wait()` needs for `WaiterHasReason`.

`NoZombieExit` is false, as run `job_foreground` shows, and no part of the invariant.

`BufferCacheProofs` proves, for every finite number of processes, any blocks and contents and
any number of buffers (`CacheAssumption`), that `BufferCache`'s `IndInv` is inductive, and from it
`OneBufferPerBlock`, `RequestsQueued`, `LockSleeperBlocked` and `ImplementsBlockStore`.

- `OwnerInv` ties each sleep lock to the position of its owner, `UniqueInv` each block to one
  buffer. `CountInv` makes `refcnt` the cardinality of a buffer's users, so that a buffer
  `bget()` recycles is nobody's.
- `bget()` may find none. `OneBufferPerBlock` says that then every buffer is used or pinned,
  and goes on to hold after the panic (`PanicKeeps`), since a count or a pin that ends needs
  `bcache.lock` or a request in flight, whose owner is a user. How much load it takes is a count
  (`NoBufferLeft`): each of the other processes uses one buffer, and `PinInv` bounds the pinned
  ones by `MaxPinned`, so `PanicNeedsLoad`: `NBUF <= MaxPinned + (Cardinality(Proc) - 1)`. The
  numbers of `param.h` satisfy that, so nothing keeps the panic away; and a call of the code may
  hold two buffers, a process of the model one, so in the code it takes fewer processes.
- `QueueInv` describes the driver: a queued buffer waits with its owner in `iderw()`, and
  whoever is there is queued or has been served. `DataInv` says where a block's contents
  are: clean buffers agree with the disk, and the command under way is that of the first
  request. From it each step is mapped: a lock of a valid buffer and the end of a read to
  `Lock`, `bwrite()` and `log_write()` to `Modify`, the disk's write to `Sync`.

The refinement is taken over `shown`, the variables the mapping reads: all other steps
are stutters by definition, which spares TLC and the proof the mapped record.

`PipeProofs` proves, for every finite number of processes, files and descriptors, any
pages, payloads, ring size and counter width (`PipeAssumption`), that `Pipe`'s `IndInv` is
inductive, and from it `TypeOK`, `EndsCounted`, `SleeperBlocked`, `OnlyKillLosesWakeups` and
`ImplementsByteStream`.

- `RefInv` (a file's `ref` is the number of descriptors and calls that have it) moves with
  two sets, `Opens` and `Hands`, that each step changes by one element. `CallInv` says which
  calls have a file in hand, also those that `exit()` is closing, and `FileInv` that one
  `sys_pipe()` has not finished belongs to nobody else.
- `EndInv` ties `readopen` and `writeopen` to files and to the process between the two halves
  of `fileclose()`; it needs `UniqueInv`, one file or one such process per end, without
  which the first of two closes would shut the end of the other.
- `SleeperBlocked` needs that a sleeper's own file keeps its end open (`CallInv`, `CallerEnd`).
  It says nothing of `killed`: that a sleeper is killed, or a reader sleeps beside bytes, is what
  a kill can bring about, and `OnlyKillLosesWakeups` says of each step how. It needs of
  `SleeperBlocked` that a reader on its way to sleep leaves an empty pipe.
  The refinement needs `RingInv`, because distances between counters that wrap mean
  something only while the ring is not over-full.

`MemoryProofs` proves, for any number of slots and pages, any programs, sizes of page and
layout (`MemoryAssumption`), that `Memory`'s `IndInv` is inductive, and from it and two
further inductive invariants `TypeOK`, `PagesConserved`, `HistoryComplete` and `ImageWhole`.

- Pages are a sum over the slots. `Total` is a recursive function, and what it needs is
  proved once: a sum moves by what one slot's term moves by (`TotalStep`, `TotalTwo`). These
  are inductions, carried out over a set by the least element of its complement
  (`Induction`, `Recursion`). `CallStep` turns them into one obligation per action: what a
  process has in hand, before and after.
- `PageInv`: what the position of a call says of its locals (`WorkOk`), what the state of a
  slot says of its pages (`SlotOk`), and which slot a `fork()` fills or a `wait()` empties
  (`KidOk`, `OneOwner`).
- `HistoryComplete` needs `PidInv` (pids in use differ from each other and from those to
  come) and `RanInv` (`check` is exactly "ran a program"; a slot that is being filled has it
  cleared, although it was used before). The bubble sort of `gethistory()` is shown to
  return a permutation (`SortPassPerm`, `HistSortedPerm`).
- `ImageWhole` needs the loops' positions: `BuildOk` for an image being built by `fork()` or
  `exec()`, `GrowOk` for `sbrk()`, where the pages are those of the image and the first `k`
  of the loop, `va` being `k` pages past its start.

`InodesProofs` proves, for every finite number of processes, any inodes, any finite
set of names and any requests (`InodesAssumption`), that `RefInv` is inductive, and from it `RefsHeld`. `PlaceOk` says what the
place of a call, inside `iput()` the place it goes on at, says of its directory, its inode,
its path and its open file. Each process then has `Claims` on an inode (its current
directory, its file, the directory it walks, the inode it holds, the one it puts), and
`HoldersStep` reduces an action to an equation between the claims of one process before
and after it. That a call drops only what it has (`PutHeld`) follows from the count itself.
Nothing is said of a halted kernel.

`LinksCounted` is not inductive: between `link()`'s count and its entry, and between the entry
`unlink()` clears and the count it drops, count and entries differ by what a call has
`Pending`. `LinkOk` counts that too (`Counted`, with the root's own link), and adds what makes a
step of one process safe for the others: the inode a call keeps locked (`Mine`), that the
entry `unlink()` found is still there and that a pending link is to a file (`CallOk`), that
the copy in memory is the inode on disk (`Copied`), and that a directory has a single name, in
the directory its ".." names (`NameOk`). `Undisturbed` is what each action owes the others.
The step lemmas then fall in three groups: those that leave the disk alone (`QuietStep`), those
that change a count (`RetallyStep`), and the four that change entries, where `LinksMove`
follows the set of names and the set of subdirectories. A step on which the kernel halts
changes neither (`HaltKeeps`). Names are finitely many (they have at most `DIRSIZ` bytes).

`HeldStays` does not hold for all requests (see ".." above), so its theorem is for requests
whose paths have none (`NoDotDot`), the ones the run makes among them; "." is allowed. A
process `Uses` an inode by its current directory, its file, its call and the `iput()` it is in,
unless that one only has to drop the count. `HeldOk` says that what anyone uses is not free,
that a current directory and the directory of a call that creates or removes a name are
directories, that "." names its directory, and that an `iput()` about to free its inode still
has the only reference. Freeing is then harmless: by `RefsHeld` nobody else uses the inode
(`Sole`), and since by `LinksCounted` an inode without links has no name, none can get to it
either (`Alive`): what a process can `Reach` is the root, what it uses and what has a name.
Each action but two is `Calm`: it frees and makes no inode and leaves its process with what it
could reach. `iput()`'s freeing and `create()` are done by hand. That no assertion on an inode
fails follows action by action; a full disk is the only halt.

Only model-checked: all liveness, which is out of the prover's reach (as are ENABLED, induction
over data stated for an operator, and RECURSIVE operators). The project's recursive definitions
are functions: the loop of `writei()` in `FileWrite`, which is not proved about, and the sums and
the sort of `Memory`, which are.

## Not modelled

- Dynamic priorities and the profiler (A2): `rtime` and `waiting_time` grow without bound and
  only their weighted sum matters, so a finite instance would cut the comparison where it
  decides. `JobControl` leaves the choice open. The profiler prints.
- Signals (A2): delivery and return keep one saved frame per process. What a second signal
  during a handler does is in the list of hazards; a model is planned.
- Spin locks below `Proc`: `Proc` has `ptable.lock` and `tickslock` held over switches with
  interrupts off; elsewhere a critical section is one action.
- The system call filter, `chmod` and the login (A1): single tests without interleaving
  (`gethistory` is in `Memory`).
- File contents (`itrunc`, `readi`, the data `writei` moves), which free block `balloc` finds, and
  devices: `Inodes` stops at inodes and names, `FileWrite` at which blocks a write logs.
- The console's line editing: `JobControl` counts lines.
- Memory contents, copy-in and copy-out, TLB and segment registers: `Memory` counts pages.
- Ctrl-I's page counts (a read-only report), the shell, the user library and programs,
  boot code, interrupt controllers and `mkfs` (straight-line hardware or host code).

## Plan

1. `Signal`: pending flag, saved frame, delivery at the end of `trap()`, return by the magic
   fault, also inside system calls and in reused slots.
2. `Console` line editing, `Spinlock`, file contents over `Inodes`, and the user library's
   allocator.
