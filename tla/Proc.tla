-------------------------------- MODULE Proc --------------------------------
(***************************************************************************)
(* The process table of the xv6 kernel (src/xv6-public_3/proc.c), the      *)
(* scheduler loop of every CPU, and the parts of trap.c and sysproc.c that *)
(* drive them: fork, exit, wait, kill, sleep and the timer interrupt.      *)
(*                                                                         *)
(* The grain is the code's: a critical section of ptable.lock that neither *)
(* sleeps nor switches is one action, everything the code does with no     *)
(* lock held is a separate action.  A CPU never takes an interrupt while   *)
(* it holds a lock (acquire() disables interrupts until the last release).  *)
(***************************************************************************)
EXTENDS Naturals

CONSTANTS
    NPROC,      \* number of slots of ptable.proc
    NCPU,       \* number of CPUs; CPU 0 is the one that counts ticks
    MaxPid,     \* bound: no fork after nextpid exceeds MaxPid
    Naps,       \* arguments of the sleep system call
    KillPids    \* arguments of the kill system call

ASSUME ProcAssumption ==
    /\ NPROC \in Nat \ {0}
    /\ NCPU \in Nat \ {0}
    /\ MaxPid \in Nat
    /\ Naps \subseteq Nat
    /\ KillPids \subseteq Nat \ {1}     \* killing init panics the kernel

Slot == 1 .. NPROC          \* a struct proc *
Null == 0                   \* the null pointer
InitProc == 1               \* initproc: userinit() takes the first slot
TicksChan == NPROC + 1      \* &ticks, a channel that is no process
Cpu == 0 .. NCPU - 1
Free == NCPU                \* the holder of a lock that nobody holds

ProcState == {"UNUSED", "EMBRYO", "SLEEPING", "RUNNABLE", "RUNNING", "ZOMBIE"}
Alive == {"SLEEPING", "RUNNABLE", "RUNNING"}

\* Where a process's kernel thread stands:
\*   user         in user space
\*   sys          in syscall(), past the killed test of trap()
\*   fork_copy    in fork(), np allocated       fork_pub  np filled in
\*   forkret      never run yet: its context starts in forkret()
\*   sleep_loop   in sys_sleep(), tickslock held, at the while test
\*   sleep_enter  in sleep(&ticks, &tickslock), before ptable.lock is taken
\*   slept        in sched() called by that sleep()
\*   sleep_relock awake, before tickslock is taken again
\*   waited       in sched() called by the sleep() of wait()
\*   zombie       in sched() called by exit()
PC == {"none", "user", "sys", "fork_copy", "fork_pub", "forkret", "sleep_loop",
       "sleep_enter", "slept", "sleep_relock", "waited", "zombie"}

VARIABLES
    state, pid, parent, chan, killed,   \* the fields of struct proc
    nextpid,
    pc,         \* position of each slot's kernel thread
    inyield,    \* the thread is in yield(), called by trap() on top of pc
    np,         \* fork()'s np: the slot being filled in
    left,       \* n - (ticks - ticks0) of sys_sleep, 0 once it is not positive
    ptlock, tickslock,                  \* the CPU that holds each lock, or Free
    cproc,      \* cpu->proc
    mode,       \* what the CPU executes: its scheduler or cproc's thread
    cursor,     \* p of the scheduler's for loop
    intr        \* how far the timer interrupt handler of the CPU has come

procVars == <<state, pid, parent, chan, killed, nextpid>>
threadVars == <<pc, inyield, np, left>>
cpuVars == <<cproc, mode, cursor, intr>>
vars == <<procVars, threadVars, ptlock, tickslock, cpuVars>>

TypeOK ==
    /\ state \in [Slot -> ProcState]
    /\ pid \in [Slot -> Nat]
    /\ parent \in [Slot -> Slot \cup {Null}]
    /\ chan \in [Slot -> Slot \cup {Null, TicksChan}]
    /\ killed \in [Slot -> BOOLEAN]
    /\ nextpid \in Nat
    /\ pc \in [Slot -> PC]
    /\ inyield \in [Slot -> BOOLEAN]
    /\ np \in [Slot -> Slot \cup {Null}]
    /\ left \in [Slot -> Nat]
    /\ ptlock \in Cpu \cup {Free}
    /\ tickslock \in Cpu \cup {Free}
    /\ cproc \in [Cpu -> Slot \cup {Null}]
    /\ mode \in [Cpu -> {"idle", "scan", "proc", "swtch"}]
    /\ cursor \in [Cpu -> 1 .. NPROC + 1]
    /\ intr \in [Cpu -> {"none", "tick", "tail", "yield"}]

\* After userinit(): initproc is RUNNABLE, every scheduler is about to loop.
Init ==
    /\ state = [p \in Slot |-> IF p = InitProc THEN "RUNNABLE" ELSE "UNUSED"]
    /\ pid = [p \in Slot |-> IF p = InitProc THEN 1 ELSE 0]
    /\ parent = [p \in Slot |-> Null]
    /\ chan = [p \in Slot |-> Null]
    /\ killed = [p \in Slot |-> FALSE]
    /\ nextpid = 2
    /\ pc = [p \in Slot |-> IF p = InitProc THEN "forkret" ELSE "none"]
    /\ inyield = [p \in Slot |-> FALSE]
    /\ np = [p \in Slot |-> Null]
    /\ left = [p \in Slot |-> 0]
    /\ ptlock = Free
    /\ tickslock = Free
    /\ cproc = [c \in Cpu |-> Null]
    /\ mode = [c \in Cpu |-> "idle"]
    /\ cursor = [c \in Cpu |-> 1]
    /\ intr = [c \in Cpu |-> "none"]

-----------------------------------------------------------------------------
(* Helpers.  The variants named ...Bug are plausible mistakes in the code   *)
(* they follow; no action uses them, they serve to test the properties.     *)

\* p is the first slot of S in table order, the one a scan finds.
IsFirst(p, S) == p \in S /\ \A q \in S : p <= q

\* wakeup1(ch) applied to the states st.
Wakeup1Bug(st, ch) == st
Wakeup1(st, ch) ==
    [q \in Slot |-> IF st[q] = "SLEEPING" /\ chan[q] = ch THEN "RUNNABLE" ELSE st[q]]

\* The CPU executes cproc's thread, outside any interrupt, at position k.
At(c, k) ==
    /\ mode[c] = "proc"
    /\ intr[c] = "none"
    /\ ~inyield[cproc[c]]
    /\ pc[cproc[c]] = k

\* A device may interrupt the CPU: it holds no lock and is in no handler.
Interruptible(c) ==
    /\ intr[c] = "none"
    /\ mode[c] \in {"idle", "proc"}
    /\ ptlock # c
    /\ tickslock # c

\* sched(): with ptable.lock held, jump to the CPU's scheduler.
Swtch(c) == mode' = [mode EXCEPT ![c] = "swtch"]

\* The thread of CPU c moves to position k.
GotoBy(c, k) == pc' = [pc EXCEPT ![cproc[c]] = k]

-----------------------------------------------------------------------------
(* scheduler(): scan the table, run what is RUNNABLE, go on after it.       *)

SchedAcquire(c) ==
    /\ mode[c] = "idle"
    /\ intr[c] = "none"
    /\ ptlock = Free
    /\ ptlock' = c
    /\ mode' = [mode EXCEPT ![c] = "scan"]
    /\ cursor' = [cursor EXCEPT ![c] = 1]
    /\ UNCHANGED <<procVars, threadVars, tickslock, cproc, intr>>

RunnableFrom(c) == {p \in Slot : p >= cursor[c] /\ state[p] = "RUNNABLE"}

SchedRun(c) ==
    /\ mode[c] = "scan"
    /\ \E p \in Slot :
        /\ IsFirst(p, RunnableFrom(c))
        /\ cproc' = [cproc EXCEPT ![c] = p]
        /\ state' = [state EXCEPT ![p] = "RUNNING"]
        /\ cursor' = [cursor EXCEPT ![c] = p]
    /\ mode' = [mode EXCEPT ![c] = "proc"]
    /\ UNCHANGED <<pid, parent, chan, killed, nextpid, threadVars, ptlock, tickslock, intr>>

\* Back from swtch(): the scan goes on with the next slot.
RestartBug(c) == 1
SkipBug(c) == cursor[c] + 2
NextSlot(c) == cursor[c] + 1
SchedReturn(c) ==
    /\ mode[c] = "swtch"
    /\ cproc' = [cproc EXCEPT ![c] = Null]
    /\ cursor' = [cursor EXCEPT ![c] = NextSlot(c)]
    /\ mode' = [mode EXCEPT ![c] = "scan"]
    /\ UNCHANGED <<procVars, threadVars, ptlock, tickslock, intr>>

SchedRelease(c) ==
    /\ mode[c] = "scan"
    /\ RunnableFrom(c) = {}
    /\ ptlock' = Free
    /\ mode' = [mode EXCEPT ![c] = "idle"]
    /\ cursor' = [cursor EXCEPT ![c] = 1]
    /\ UNCHANGED <<procVars, threadVars, tickslock, cproc, intr>>

-----------------------------------------------------------------------------
(* The timer interrupt and the end of trap().                               *)

\* CPU 0: acquire(&tickslock), ticks++.
TimerTick(c) ==
    /\ c = 0
    /\ Interruptible(c)
    /\ tickslock = Free
    /\ tickslock' = c
    /\ left' = [p \in Slot |-> IF left[p] = 0 THEN 0 ELSE left[p] - 1]
    /\ intr' = [intr EXCEPT ![c] = "tick"]
    /\ UNCHANGED <<procVars, pc, inyield, np, ptlock, cproc, mode, cursor>>

\* wakeup(&ticks), release(&tickslock).
TickWakeup(c) ==
    /\ intr[c] = "tick"
    /\ ptlock = Free
    /\ state' = Wakeup1(state, TicksChan)
    /\ tickslock' = Free
    /\ intr' = [intr EXCEPT ![c] = IF mode[c] = "idle" THEN "none" ELSE "tail"]
    /\ UNCHANGED <<pid, parent, chan, killed, nextpid, threadVars, ptlock, cproc, mode, cursor>>

\* The interrupted process is not a killed one in user space: it must yield.
\* The timer of the other CPUs does nothing else.
TrapTail(c) ==
    /\ mode[c] = "proc"
    /\ \/ intr[c] = "tail"
       \/ c # 0 /\ Interruptible(c)
    /\ ~(pc[cproc[c]] = "user" /\ killed[cproc[c]])
    /\ intr' = [intr EXCEPT ![c] = "yield"]
    /\ UNCHANGED <<procVars, threadVars, ptlock, tickslock, cproc, mode, cursor>>

\* yield() up to sched().
Yield(c) ==
    /\ intr[c] = "yield"
    /\ ptlock = Free
    /\ ptlock' = c
    /\ state' = [state EXCEPT ![cproc[c]] = "RUNNABLE"]
    /\ inyield' = [inyield EXCEPT ![cproc[c]] = TRUE]
    /\ Swtch(c)
    /\ intr' = [intr EXCEPT ![c] = "none"]
    /\ UNCHANGED <<pid, parent, chan, killed, nextpid, pc, np, left, tickslock, cproc, cursor>>

\* yield() from sched() to its return.
ResumeYield(c) ==
    /\ mode[c] = "proc"
    /\ inyield[cproc[c]]
    /\ inyield' = [inyield EXCEPT ![cproc[c]] = FALSE]
    /\ ptlock' = Free
    /\ UNCHANGED <<procVars, pc, np, left, tickslock, cpuVars>>

\* trap() entered by a system call of a process that is not killed.
Syscall(c) ==
    /\ At(c, "user")
    /\ ~killed[cproc[c]]
    /\ GotoBy(c, "sys")
    /\ UNCHANGED <<procVars, inyield, np, left, ptlock, tickslock, cpuVars>>

\* trap() entered by a fault in user space: the process kills itself.
UserFault(c) ==
    /\ At(c, "user")
    /\ cproc[c] # InitProc
    /\ killed' = [killed EXCEPT ![cproc[c]] = TRUE]
    /\ UNCHANGED <<state, pid, parent, chan, nextpid, threadVars, ptlock, tickslock, cpuVars>>

-----------------------------------------------------------------------------
(* fork()                                                                   *)

\* allocproc(), up to the release of ptable.lock.  killed and parent keep
\* what the slot held.
ForkAlloc(c) ==
    /\ At(c, "sys")
    /\ ptlock = Free
    /\ nextpid <= MaxPid
    /\ \E q \in Slot :
        /\ IsFirst(q, {r \in Slot : state[r] = "UNUSED"})
        /\ state' = [state EXCEPT ![q] = "EMBRYO"]
        /\ pid' = [pid EXCEPT ![q] = nextpid]
        /\ np' = [np EXCEPT ![cproc[c]] = q]
    /\ nextpid' = nextpid + 1
    /\ GotoBy(c, "fork_copy")
    /\ UNCHANGED <<parent, chan, killed, inyield, left, ptlock, tickslock, cpuVars>>

\* allocproc() finds no slot: fork() returns -1.
ForkFull(c) ==
    /\ At(c, "sys")
    /\ ptlock = Free
    /\ \A r \in Slot : state[r] # "UNUSED"
    /\ GotoBy(c, "user")
    /\ UNCHANGED <<procVars, inyield, np, left, ptlock, tickslock, cpuVars>>

\* kalloc() or copyuvm() fails: the slot is UNUSED again, its pid stays.
\* No lock is held.
ForkFail(c) ==
    /\ At(c, "fork_copy")
    /\ state' = [state EXCEPT ![np[cproc[c]]] = "UNUSED"]
    /\ np' = [np EXCEPT ![cproc[c]] = Null]
    /\ GotoBy(c, "user")
    /\ UNCHANGED <<pid, parent, chan, killed, nextpid, inyield, left, ptlock, tickslock, cpuVars>>

\* The child's memory, parent, files and first context are set.
ForkCopy(c) ==
    /\ At(c, "fork_copy")
    /\ parent' = [parent EXCEPT ![np[cproc[c]]] = cproc[c]]
    /\ pc' = [pc EXCEPT ![np[cproc[c]]] = "forkret", ![cproc[c]] = "fork_pub"]
    /\ UNCHANGED <<state, pid, chan, killed, nextpid, inyield, np, left, ptlock, tickslock, cpuVars>>

ForkPublish(c) ==
    /\ At(c, "fork_pub")
    /\ ptlock = Free
    /\ state' = [state EXCEPT ![np[cproc[c]]] = "RUNNABLE"]
    /\ np' = [np EXCEPT ![cproc[c]] = Null]
    /\ GotoBy(c, "user")
    /\ UNCHANGED <<pid, parent, chan, killed, nextpid, inyield, left, ptlock, tickslock, cpuVars>>

\* forkret(): the child's first step releases the scheduler's lock.
ForkRet(c) ==
    /\ At(c, "forkret")
    /\ ptlock' = Free
    /\ GotoBy(c, "user")
    /\ UNCHANGED <<procVars, inyield, np, left, tickslock, cpuVars>>

-----------------------------------------------------------------------------
(* exit(), wait(), kill()                                                   *)

\* Pass abandoned children of p to init.
ReparentBug(p) == parent
Reparent(p) == [q \in Slot |-> IF parent[q] = p THEN InitProc ELSE parent[q]]

HasZombieChild(p) == \E q \in Slot : parent[q] = p /\ state[q] = "ZOMBIE"

\* The states after the two wakeup1() calls of exit() and the last assignment.
ExitStatesBug(p) == [Wakeup1(state, parent[p]) EXCEPT ![p] = "ZOMBIE"]
ExitStates(p) ==
    LET woken == Wakeup1(state, parent[p])
    IN  [IF HasZombieChild(p) THEN Wakeup1(woken, InitProc) ELSE woken
            EXCEPT ![p] = "ZOMBIE"]

\* exit() calls sched() with ptable.lock still held.
ExitLockBug(c) == Free
ExitLock(c) == c

\* A system call, or trap() finding the process killed and in user space.
Exit(c) ==
    LET p == cproc[c] IN
    /\ mode[c] = "proc"
    /\ p # InitProc
    /\ ~inyield[p]
    /\ \/ pc[p] = "sys" /\ intr[c] = "none"
       \/ pc[p] = "user" /\ killed[p] /\ intr[c] \in {"none", "tail"}
    /\ ptlock = Free
    /\ ptlock' = ExitLock(c)
    /\ state' = ExitStates(p)
    /\ parent' = Reparent(p)
    /\ GotoBy(c, "zombie")
    /\ Swtch(c)
    /\ intr' = [intr EXCEPT ![c] = "none"]
    /\ UNCHANGED <<pid, chan, killed, nextpid, inyield, np, left, tickslock, cproc, cursor>>

\* At the top of wait()'s loop: fresh from the system call, or back from sleep.
InWait(c) ==
    \/ At(c, "sys") /\ ptlock = Free
    \/ At(c, "waited") /\ ptlock = c

Children(p) == {q \in Slot : parent[q] = p}

\* Found a ZOMBIE child: free its slot and return its pid.
WaitReap(c) ==
    /\ InWait(c)
    /\ \E q \in Slot :
        /\ IsFirst(q, {r \in Children(cproc[c]) : state[r] = "ZOMBIE"})
        /\ state' = [state EXCEPT ![q] = "UNUSED"]
        /\ pid' = [pid EXCEPT ![q] = 0]
        /\ parent' = [parent EXCEPT ![q] = Null]
        /\ killed' = [killed EXCEPT ![q] = FALSE]
        /\ pc' = [pc EXCEPT ![q] = "none", ![cproc[c]] = "user"]
    /\ chan' = [chan EXCEPT ![cproc[c]] = Null]
    /\ ptlock' = Free
    /\ UNCHANGED <<nextpid, inyield, np, left, tickslock, cpuVars>>

\* wait()'s test before it sleeps.
WaitGivesUpBug(p) == Children(p) = {}
WaitGivesUp(p) == Children(p) = {} \/ killed[p]

WaitNone(c) ==
    /\ InWait(c)
    /\ ~HasZombieChild(cproc[c])
    /\ WaitGivesUp(cproc[c])
    /\ chan' = [chan EXCEPT ![cproc[c]] = Null]
    /\ ptlock' = Free
    /\ GotoBy(c, "user")
    /\ UNCHANGED <<state, pid, parent, killed, nextpid, inyield, np, left, tickslock, cpuVars>>

\* sleep(curproc, &ptable.lock).
WaitSleep(c) ==
    /\ InWait(c)
    /\ ~HasZombieChild(cproc[c])
    /\ ~WaitGivesUp(cproc[c])
    /\ chan' = [chan EXCEPT ![cproc[c]] = cproc[c]]
    /\ state' = [state EXCEPT ![cproc[c]] = "SLEEPING"]
    /\ ptlock' = c
    /\ GotoBy(c, "waited")
    /\ Swtch(c)
    /\ UNCHANGED <<pid, parent, killed, nextpid, inyield, np, left, tickslock, cproc, cursor, intr>>

\* The first slot that carries the pid is marked, whatever its state.
KillWakesBug == Alive \cup {"ZOMBIE"}
KillWakes == {"SLEEPING"}
Kill(c) ==
    /\ At(c, "sys")
    /\ cproc[c] # InitProc
    /\ ptlock = Free
    /\ \E k \in KillPids :
        LET hit == {q \in Slot : IsFirst(q, {r \in Slot : pid[r] = k})} IN
        /\ killed' = [q \in Slot |-> killed[q] \/ q \in hit]
        /\ state' = [q \in Slot |->
                        IF q \in hit /\ state[q] \in KillWakes THEN "RUNNABLE" ELSE state[q]]
    /\ GotoBy(c, "user")
    /\ UNCHANGED <<pid, parent, chan, nextpid, inyield, np, left, ptlock, tickslock, cpuVars>>

-----------------------------------------------------------------------------
(* sys_sleep() and sleep(&ticks, &tickslock)                                *)

SleepBegin(c) ==
    /\ At(c, "sys")
    /\ cproc[c] # InitProc
    /\ tickslock = Free
    /\ tickslock' = c
    /\ \E n \in Naps : left' = [left EXCEPT ![cproc[c]] = n]
    /\ GotoBy(c, "sleep_loop")
    /\ UNCHANGED <<procVars, inyield, np, ptlock, cpuVars>>

\* The time is over, or the process was killed: both ways release tickslock.
SleepUnlockBug(c) == IF killed[cproc[c]] THEN tickslock ELSE Free
SleepUnlock(c) == Free
SleepDone(c) ==
    /\ At(c, "sleep_loop")
    /\ left[cproc[c]] = 0 \/ killed[cproc[c]]
    /\ left' = [left EXCEPT ![cproc[c]] = 0]
    /\ tickslock' = SleepUnlock(c)
    /\ GotoBy(c, "user")
    /\ UNCHANGED <<procVars, inyield, np, ptlock, cpuVars>>

SleepCheck(c) ==
    /\ At(c, "sleep_loop")
    /\ left[cproc[c]] > 0
    /\ ~killed[cproc[c]]
    /\ GotoBy(c, "sleep_enter")
    /\ UNCHANGED <<procVars, inyield, np, left, ptlock, tickslock, cpuVars>>

\* sleep(): take ptable.lock, then let go of tickslock.
SleepLockBug(c) == tickslock
SleepLock(c) == Free
SleepBlock(c) ==
    /\ At(c, "sleep_enter")
    /\ ptlock = Free
    /\ ptlock' = c
    /\ tickslock' = SleepLock(c)
    /\ chan' = [chan EXCEPT ![cproc[c]] = TicksChan]
    /\ state' = [state EXCEPT ![cproc[c]] = "SLEEPING"]
    /\ GotoBy(c, "slept")
    /\ Swtch(c)
    /\ UNCHANGED <<pid, parent, killed, nextpid, inyield, np, left, cproc, cursor, intr>>

ResumeSleep(c) ==
    /\ At(c, "slept")
    /\ chan' = [chan EXCEPT ![cproc[c]] = Null]
    /\ ptlock' = Free
    /\ GotoBy(c, "sleep_relock")
    /\ UNCHANGED <<state, pid, parent, killed, nextpid, inyield, np, left, tickslock, cpuVars>>

SleepRelock(c) ==
    /\ At(c, "sleep_relock")
    /\ tickslock = Free
    /\ tickslock' = c
    /\ GotoBy(c, "sleep_loop")
    /\ UNCHANGED <<procVars, inyield, np, left, ptlock, cpuVars>>

-----------------------------------------------------------------------------
Scheduler(c) == SchedAcquire(c) \/ SchedRun(c) \/ SchedReturn(c) \/ SchedRelease(c)
Interrupt(c) == TickWakeup(c) \/ TrapTail(c) \/ Yield(c)
ForkStep(c) == ForkAlloc(c) \/ ForkFull(c) \/ ForkFail(c) \/ ForkCopy(c) \/ ForkPublish(c)
WaitStep(c) == WaitReap(c) \/ WaitNone(c) \/ WaitSleep(c)
SleepStep(c) == \/ SleepDone(c) \/ SleepCheck(c) \/ SleepBlock(c)
                \/ ResumeSleep(c) \/ SleepRelock(c)
SyscallStep(c) == ForkStep(c) \/ WaitStep(c) \/ Kill(c) \/ SleepBegin(c) \/ SleepStep(c)

Next ==
    \E c \in Cpu :
        \/ Scheduler(c)
        \/ TimerTick(c)
        \/ Interrupt(c)
        \/ ResumeYield(c)
        \/ Syscall(c)
        \/ UserFault(c)
        \/ ForkRet(c)
        \/ Exit(c)
        \/ SyscallStep(c)

Spec == Init /\ [][Next]_vars

\* Fairness for a machine with one CPU.  The CPU never stops executing what it
\* is in: the scheduler, a handler, the kernel and, once a process is killed, the
\* way to exit().  Timer interrupts are further apart than the steps of the code,
\* so code that is interrupted and resumed for ever makes progress (SF, for each
\* process, since a tick may hand the CPU to another one).  A timer interrupt that
\* is raised while interrupts are off stays pending (SF).  init.c calls wait() for
\* ever.  Nothing is assumed of other code in user space: it may loop.
Of(p, c, A) == cproc[c] = p /\ A
Dies(c) == killed[cproc[c]] /\ Exit(c)
Fairness ==
    \A c \in Cpu :
        /\ SF_vars(Scheduler(c))
        /\ WF_vars(Interrupt(c))
        /\ WF_vars(ResumeYield(c) \/ ForkRet(c))
        /\ SF_vars(TimerTick(c))
        /\ \A p \in Slot : SF_vars(Of(p, c, SyscallStep(c))) /\ WF_vars(Of(p, c, Dies(c)))
        /\ SF_vars(Of(InitProc, c, Syscall(c)))
        /\ SF_vars(Of(InitProc, c, pc[InitProc] = "sys" /\ WaitStep(c)))

FairSpec == Spec /\ Fairness
-----------------------------------------------------------------------------
(* Safety.                                                                  *)

\* A kernel stack is used by one CPU at a time, and only while the slot it
\* belongs to is a live or exiting process: wait() frees the stack of a zombie
\* that has left it, two schedulers never run the same slot (proc.c:268-275,
\* 360-372).
StackExclusive ==
    /\ \A c, d \in Cpu : c # d /\ cproc[c] # Null => cproc[c] # cproc[d]
    /\ \A c \in Cpu : cproc[c] # Null => state[cproc[c]] \notin {"UNUSED", "EMBRYO"}

\* sched() never panics, whichever path leads to it: the CPU holds ptable.lock
\* and no other lock, and the process has left RUNNING (proc.c:393-400).
SchedDiscipline ==
    \A c \in Cpu : mode[c] = "swtch" =>
        /\ ptlock = c
        /\ tickslock # c
        /\ state[cproc[c]] # "RUNNING"

\* No process reaches user space with a lock in hand, so every lock taken on
\* any path through fork, wait, kill, sleep or an interrupt is let go.
UserHoldsNoLock ==
    \A c \in Cpu : At(c, "user") => ptlock # c /\ tickslock # c

\* wakeups are not lost: a parent asleep in wait() has children, none of them
\* a zombie it should be reaping, and nobody has killed it (the comments
\* "Parent might be sleeping in wait()" and "Wake process from sleep").
WaiterHasReason ==
    \A p \in Slot : state[p] = "SLEEPING" /\ pc[p] = "waited" =>
        /\ Children(p) # {}
        /\ ~HasZombieChild(p)
        /\ ~killed[p]

\* Every process but init has a parent that is alive, so that somebody can
\* reap it, through any sequence of exits and reuses of the parent's slot.
ParentAlive ==
    \A p \in Slot : state[p] \in Alive \cup {"ZOMBIE"} /\ p # InitProc =>
        parent[p] # Null /\ state[parent[p]] \in Alive

\* A zombie is never scheduled again: exit()'s panic("zombie exit") is not
\* reached, and its slot changes only by being freed.
ZombieIsFinal ==
    [][\A p \in Slot : state[p] = "ZOMBIE" => state'[p] \in {"ZOMBIE", "UNUSED"}]_vars

\* kill() is aimed at a process: what starts in a slot starts unkilled.
\* ("Kill the process with the given pid", proc.c:498.)
NewbornNotKilled ==
    [][\A p \in Slot : state[p] = "UNUSED" /\ state'[p] = "EMBRYO" => ~killed'[p]]_vars

(* Liveness, under Fairness on one CPU.                                     *)

\* The scheduler's scan and the timer starve nobody, not even behind processes
\* that loop in user space.
RunnableRuns == \A p \in Slot : state[p] = "RUNNABLE" ~> state[p] # "RUNNABLE"

\* A killed process exits, wherever the kill found it: in user space, about to
\* sleep, asleep or half way through fork().
KilledExits ==
    \A p \in Slot : killed[p] /\ state[p] \in Alive ~> state[p] \in {"ZOMBIE", "UNUSED"}

\* A sleep system call returns, whatever the order of ticks, wakeups and kills.
SleepReturns ==
    \A p \in Slot : pc[p] \in {"sleep_loop", "sleep_enter", "slept", "sleep_relock"}
                        ~> pc[p] = "user"

\* A zombie whose parent is gone is reaped by init.
OrphanReaped ==
    \A p \in Slot : state[p] = "ZOMBIE" /\ parent[p] = InitProc ~> state[p] = "UNUSED"
=============================================================================
