----------------------------- MODULE ProcProofs -----------------------------
(***************************************************************************)
(* Proofs about Proc, for every number of slots and CPUs: the safety       *)
(* properties follow from an inductive invariant that says who holds which *)
(* lock, what each CPU executes, and how a slot's state, its thread's      *)
(* position and its place in the family fit together.                      *)
(***************************************************************************)
EXTENDS Proc, TLAPS

\* Positions at which an interrupt finds a thread: no lock is held there.
Open == {"user", "sys", "fork_copy", "fork_pub", "sleep_relock"}

\* The thread starts again with the ptable.lock of the scheduler that picked it.
Resumes(p) == inyield[p] \/ pc[p] \in {"forkret", "slept", "waited"}

\* Who holds ptable.lock, and who holds tickslock.
LockInv ==
    /\ \A c \in Cpu : ptlock = c <=> \/ mode[c] \in {"scan", "swtch"}
                                     \/ mode[c] = "proc" /\ Resumes(cproc[c])
    /\ \A c \in Cpu : tickslock = c <=>
            \/ intr[c] = "tick"
            \/ mode[c] = "proc" /\ pc[cproc[c]] \in {"sleep_loop", "sleep_enter"}

\* What a CPU executes.
CpuInv ==
    \A c \in Cpu :
        /\ cproc[c] = Null <=> mode[c] \in {"idle", "scan"}
        /\ mode[c] = "proc" => state[cproc[c]] = "RUNNING"
        /\ mode[c] = "swtch" => state[cproc[c]] \in {"RUNNABLE", "SLEEPING", "ZOMBIE"}
        /\ mode[c] \in {"proc", "swtch"} => cursor[c] = cproc[c]
        /\ intr[c] # "none" => mode[c] \in {"idle", "proc"}
        /\ intr[c] \in {"tail", "yield"} => mode[c] = "proc"
        /\ intr[c] # "none" /\ mode[c] = "proc" =>
                pc[cproc[c]] \in Open /\ ~inyield[cproc[c]]
        /\ \A d \in Cpu : c # d /\ cproc[c] # Null => cproc[c] # cproc[d]

\* How a slot's state and the position of its thread fit.
ThreadInv ==
    \A p \in Slot :
        /\ state[p] = "UNUSED" => pc[p] = "none" /\ parent[p] = Null
        /\ state[p] = "EMBRYO" => pc[p] \in {"none", "forkret"}
        /\ state[p] = "RUNNABLE" => Resumes(p)
        /\ state[p] = "RUNNING" => pc[p] \notin {"none", "zombie"}
        /\ state[p] = "SLEEPING" => \/ pc[p] = "slept" /\ chan[p] = TicksChan
                                    \/ pc[p] = "waited" /\ chan[p] = p
        /\ state[p] = "ZOMBIE" => pc[p] = "zombie"
        /\ inyield[p] => state[p] \in {"RUNNABLE", "RUNNING"} /\ pc[p] \in Open

\* Which slot a fork() is filling in.
ForkInv ==
    /\ \A p \in Slot : IF pc[p] \in {"fork_copy", "fork_pub"}
                       THEN np[p] # Null /\ state[np[p]] = "EMBRYO"
                       ELSE np[p] = Null
    /\ \A p \in Slot : pc[p] = "fork_copy" => pc[np[p]] = "none" /\ parent[np[p]] = Null
    /\ \A p \in Slot : pc[p] = "fork_pub" => pc[np[p]] = "forkret" /\ parent[np[p]] = p
    /\ \A p, q \in Slot : p # q /\ np[p] # Null => np[p] # np[q]

\* init is alive and the root of the family, and every other parent is alive.
FamilyInv ==
    /\ state[InitProc] \in Alive
    /\ parent[InitProc] = Null
    /\ \A p \in Slot : parent[p] # p
    /\ ParentAlive
    /\ WaiterHasReason

IndInv == TypeOK /\ LockInv /\ CpuInv /\ ThreadInv /\ ForkInv /\ FamilyInv

\* The constants are told apart by their roles; the rest of the proof does not
\* look at the numbers they stand for.
LEMMA Constants ==
    /\ Free \notin Cpu
    /\ Null \notin Slot /\ TicksChan \notin Slot /\ TicksChan # Null
    /\ InitProc \in Slot
    /\ 1 \in 1 .. NPROC + 1
    /\ \A p \in Slot : p \in 1 .. NPROC + 1 /\ p + 1 \in 1 .. NPROC + 1
BY ProcAssumption DEF Free, Cpu, Null, Slot, TicksChan, InitProc

\* One lemma per action; in each, one step per conjunct of IndInv.
LEMMA SchedAcquireKeeps == ASSUME NEW c \in Cpu, IndInv, SchedAcquire(c) PROVE IndInv'
<1> USE Constants DEF IndInv, TypeOK, SchedAcquire, procVars, threadVars
<1>1. TypeOK' OBVIOUS
<1>2. LockInv' BY DEF LockInv, Resumes
<1>3. CpuInv' BY DEF CpuInv
<1>4. ThreadInv' BY DEF ThreadInv, Resumes
<1>5. ForkInv' BY DEF ForkInv
<1>6. FamilyInv' BY DEF FamilyInv, ParentAlive, WaiterHasReason, Children, HasZombieChild
<1> QED BY <1>1, <1>2, <1>3, <1>4, <1>5, <1>6

LEMMA SchedRunKeeps == ASSUME NEW c \in Cpu, IndInv, SchedRun(c) PROVE IndInv'
<1> USE Constants DEF IndInv, TypeOK, SchedRun, RunnableFrom, IsFirst, threadVars
<1>1. TypeOK' BY DEF ProcState
<1>2. LockInv' BY DEF LockInv, ThreadInv, Resumes, Open
<1>3. CpuInv' BY DEF CpuInv, LockInv
<1>4. ThreadInv' BY DEF ThreadInv, Resumes, Open
<1>5. ForkInv' BY DEF ForkInv
<1>6. FamilyInv'
  BY DEF FamilyInv, ParentAlive, WaiterHasReason, Alive, Children, HasZombieChild
<1> QED BY <1>1, <1>2, <1>3, <1>4, <1>5, <1>6

LEMMA SchedReturnKeeps == ASSUME NEW c \in Cpu, IndInv, SchedReturn(c) PROVE IndInv'
<1> USE Constants DEF IndInv, TypeOK, SchedReturn, NextSlot, procVars, threadVars
<1>1. TypeOK' BY DEF CpuInv
<1>2. LockInv' BY DEF LockInv, Resumes
<1>3. CpuInv' BY DEF CpuInv
<1>4. ThreadInv' BY DEF ThreadInv, Resumes
<1>5. ForkInv' BY DEF ForkInv
<1>6. FamilyInv' BY DEF FamilyInv, ParentAlive, WaiterHasReason, Children, HasZombieChild
<1> QED BY <1>1, <1>2, <1>3, <1>4, <1>5, <1>6

LEMMA SchedReleaseKeeps == ASSUME NEW c \in Cpu, IndInv, SchedRelease(c) PROVE IndInv'
<1> USE Constants DEF IndInv, TypeOK, SchedRelease, RunnableFrom, procVars, threadVars
<1>1. TypeOK' OBVIOUS
<1>2. LockInv' BY DEF LockInv, Resumes
<1>3. CpuInv' BY DEF CpuInv
<1>4. ThreadInv' BY DEF ThreadInv, Resumes
<1>5. ForkInv' BY DEF ForkInv
<1>6. FamilyInv' BY DEF FamilyInv, ParentAlive, WaiterHasReason, Children, HasZombieChild
<1> QED BY <1>1, <1>2, <1>3, <1>4, <1>5, <1>6

LEMMA TimerTickKeeps == ASSUME NEW c \in Cpu, IndInv, TimerTick(c) PROVE IndInv'
<1> USE Constants DEF IndInv, TypeOK, TimerTick, Interruptible, procVars
<1>1. TypeOK' OBVIOUS
<1>2. LockInv' BY DEF LockInv, Resumes
<1>3. CpuInv'
  <2>1. mode[c] = "proc" => pc[cproc[c]] \in Open /\ ~inyield[cproc[c]]
    BY DEF LockInv, CpuInv, ThreadInv, Resumes, Open, PC
  <2> QED BY <2>1 DEF CpuInv, Open
<1>4. ThreadInv' BY DEF ThreadInv, Resumes
<1>5. ForkInv' BY DEF ForkInv
<1>6. FamilyInv' BY DEF FamilyInv, ParentAlive, WaiterHasReason, Children, HasZombieChild
<1> QED BY <1>1, <1>2, <1>3, <1>4, <1>5, <1>6

LEMMA TickWakeupKeeps == ASSUME NEW c \in Cpu, IndInv, TickWakeup(c) PROVE IndInv'
<1> USE Constants DEF IndInv, TypeOK, TickWakeup, Wakeup1, threadVars
<1>1. TypeOK' BY DEF ProcState
<1>2. LockInv' BY DEF LockInv, CpuInv, Resumes, Open
<1>3. CpuInv' BY DEF CpuInv
<1>4. ThreadInv' BY DEF ThreadInv, Resumes
<1>5. ForkInv' BY DEF ForkInv
<1>6. FamilyInv'
  BY DEF FamilyInv, ParentAlive, WaiterHasReason, Alive, Children, HasZombieChild
<1> QED BY <1>1, <1>2, <1>3, <1>4, <1>5, <1>6

LEMMA TrapTailKeeps == ASSUME NEW c \in Cpu, IndInv, TrapTail(c) PROVE IndInv'
<1> USE Constants DEF IndInv, TypeOK, TrapTail, Interruptible, procVars, threadVars
<1>1. TypeOK' OBVIOUS
<1>2. LockInv' BY DEF LockInv, Resumes
<1>3. CpuInv'
  <2>1. pc[cproc[c]] \in Open /\ ~inyield[cproc[c]]
    BY DEF LockInv, CpuInv, ThreadInv, Resumes, Open, PC
  <2> QED BY <2>1 DEF CpuInv, Open
<1>4. ThreadInv' BY DEF ThreadInv, Resumes
<1>5. ForkInv' BY DEF ForkInv
<1>6. FamilyInv' BY DEF FamilyInv, ParentAlive, WaiterHasReason, Children, HasZombieChild
<1> QED BY <1>1, <1>2, <1>3, <1>4, <1>5, <1>6

LEMMA YieldKeeps == ASSUME NEW c \in Cpu, IndInv, Yield(c) PROVE IndInv'
<1> USE Constants DEF IndInv, TypeOK, Yield, Swtch
<1>1. TypeOK' BY DEF ProcState
<1>2. LockInv' BY DEF LockInv, CpuInv, Resumes, Open
<1>3. CpuInv' BY DEF CpuInv
<1>4. ThreadInv' BY DEF ThreadInv, CpuInv, Resumes
<1>5. ForkInv' BY DEF ForkInv, CpuInv
<1>6. FamilyInv'
  BY DEF FamilyInv, CpuInv, ParentAlive, WaiterHasReason, Alive, Children, HasZombieChild
<1> QED BY <1>1, <1>2, <1>3, <1>4, <1>5, <1>6

LEMMA ResumeYieldKeeps == ASSUME NEW c \in Cpu, IndInv, ResumeYield(c) PROVE IndInv'
<1> USE Constants DEF IndInv, TypeOK, ResumeYield, procVars, cpuVars
<1>1. TypeOK' OBVIOUS
<1>2. LockInv' BY DEF LockInv, ThreadInv, CpuInv, Resumes, Open
<1>3. CpuInv' BY DEF CpuInv
<1>4. ThreadInv' BY DEF ThreadInv, CpuInv, Resumes
<1>5. ForkInv' BY DEF ForkInv
<1>6. FamilyInv' BY DEF FamilyInv, ParentAlive, WaiterHasReason, Children, HasZombieChild
<1> QED BY <1>1, <1>2, <1>3, <1>4, <1>5, <1>6

LEMMA SyscallKeeps == ASSUME NEW c \in Cpu, IndInv, Syscall(c) PROVE IndInv'
<1> USE Constants DEF IndInv, TypeOK, Syscall, At, GotoBy, procVars, cpuVars
<1>1. TypeOK' BY DEF PC
<1>2. LockInv' BY DEF LockInv, Resumes
<1>3. CpuInv' BY DEF CpuInv
<1>4. ThreadInv' BY DEF ThreadInv, Resumes
<1>5. ForkInv' BY DEF ForkInv
<1>6. FamilyInv' BY DEF FamilyInv, ParentAlive, WaiterHasReason, Children, HasZombieChild
<1> QED BY <1>1, <1>2, <1>3, <1>4, <1>5, <1>6

LEMMA UserFaultKeeps == ASSUME NEW c \in Cpu, IndInv, UserFault(c) PROVE IndInv'
<1> USE Constants DEF IndInv, TypeOK, UserFault, At, threadVars, cpuVars
<1>1. TypeOK' OBVIOUS
<1>2. LockInv' BY DEF LockInv, Resumes
<1>3. CpuInv' BY DEF CpuInv
<1>4. ThreadInv' BY DEF ThreadInv, Resumes
<1>5. ForkInv' BY DEF ForkInv
<1>6. FamilyInv' BY DEF FamilyInv, ParentAlive, WaiterHasReason, Children, HasZombieChild
<1> QED BY <1>1, <1>2, <1>3, <1>4, <1>5, <1>6

LEMMA ForkAllocKeeps == ASSUME NEW c \in Cpu, IndInv, ForkAlloc(c) PROVE IndInv'
<1> USE Constants DEF IndInv, TypeOK, ForkAlloc, At, GotoBy, IsFirst, cpuVars
<1>1. TypeOK' BY DEF CpuInv, ProcState, PC
<1>2. LockInv' BY DEF LockInv, Resumes
<1>3. CpuInv' BY DEF CpuInv
<1>4. ThreadInv' BY DEF ThreadInv, Resumes
<1>5. ForkInv' BY DEF ForkInv, ThreadInv
<1>6. FamilyInv'
  BY DEF FamilyInv, ParentAlive, WaiterHasReason, Alive, Children, HasZombieChild
<1> QED BY <1>1, <1>2, <1>3, <1>4, <1>5, <1>6

LEMMA ForkFullKeeps == ASSUME NEW c \in Cpu, IndInv, ForkFull(c) PROVE IndInv'
<1> USE Constants DEF IndInv, TypeOK, ForkFull, At, GotoBy, procVars, cpuVars
<1>1. TypeOK' BY DEF PC
<1>2. LockInv' BY DEF LockInv, Resumes
<1>3. CpuInv' BY DEF CpuInv
<1>4. ThreadInv' BY DEF ThreadInv, Resumes
<1>5. ForkInv' BY DEF ForkInv
<1>6. FamilyInv' BY DEF FamilyInv, ParentAlive, WaiterHasReason, Children, HasZombieChild
<1> QED BY <1>1, <1>2, <1>3, <1>4, <1>5, <1>6

LEMMA ForkFailKeeps == ASSUME NEW c \in Cpu, IndInv, ForkFail(c) PROVE IndInv'
<1> USE Constants DEF IndInv, TypeOK, ForkFail, At, GotoBy, cpuVars
<1>1. TypeOK' BY DEF ProcState, PC
<1>2. LockInv' BY DEF LockInv, Resumes
<1>3. CpuInv' BY DEF CpuInv, ForkInv
<1>4. ThreadInv' BY DEF ThreadInv, CpuInv, ForkInv, Resumes
<1>5. ForkInv' BY DEF ForkInv, CpuInv
<1>6. FamilyInv'
  BY DEF FamilyInv, CpuInv, ForkInv, ParentAlive, WaiterHasReason, Alive, Children,
     HasZombieChild
<1> QED BY <1>1, <1>2, <1>3, <1>4, <1>5, <1>6

LEMMA ForkCopyKeeps == ASSUME NEW c \in Cpu, IndInv, ForkCopy(c) PROVE IndInv'
<1> USE Constants DEF IndInv, TypeOK, ForkCopy, At, cpuVars
<1>1. TypeOK' BY DEF PC
<1>2. LockInv' BY DEF LockInv, CpuInv, ForkInv, Resumes
<1>3. CpuInv' BY DEF CpuInv, ForkInv
<1>4. ThreadInv' BY DEF ThreadInv, CpuInv, ForkInv, Resumes
<1>5. ForkInv' BY DEF ForkInv, CpuInv
<1>6. FamilyInv'
  BY DEF FamilyInv, CpuInv, ForkInv, ParentAlive, WaiterHasReason, Alive, Children,
     HasZombieChild
<1> QED BY <1>1, <1>2, <1>3, <1>4, <1>5, <1>6

LEMMA ForkPublishKeeps == ASSUME NEW c \in Cpu, IndInv, ForkPublish(c) PROVE IndInv'
<1> USE Constants DEF IndInv, TypeOK, ForkPublish, At, GotoBy, cpuVars
<1>1. TypeOK' BY DEF ProcState, PC
<1>2. LockInv' BY DEF LockInv, Resumes
<1>3. CpuInv' BY DEF CpuInv, ForkInv
<1>4. ThreadInv' BY DEF ThreadInv, CpuInv, ForkInv, Resumes
<1>5. ForkInv' BY DEF ForkInv, CpuInv
<1>6. FamilyInv'
  BY DEF FamilyInv, CpuInv, ForkInv, ParentAlive, WaiterHasReason, Alive, Children,
     HasZombieChild
<1> QED BY <1>1, <1>2, <1>3, <1>4, <1>5, <1>6

LEMMA ForkRetKeeps == ASSUME NEW c \in Cpu, IndInv, ForkRet(c) PROVE IndInv'
<1> USE Constants DEF IndInv, TypeOK, ForkRet, At, GotoBy, procVars, cpuVars
<1>1. TypeOK' BY DEF PC
<1>2. LockInv' BY DEF LockInv, CpuInv, Resumes
<1>3. CpuInv' BY DEF CpuInv
<1>4. ThreadInv' BY DEF ThreadInv, CpuInv, Resumes
<1>5. ForkInv' BY DEF ForkInv, CpuInv
<1>6. FamilyInv' BY DEF FamilyInv, ParentAlive, WaiterHasReason, Children, HasZombieChild
<1> QED BY <1>1, <1>2, <1>3, <1>4, <1>5, <1>6

LEMMA ExitKeeps == ASSUME NEW c \in Cpu, IndInv, Exit(c) PROVE IndInv'
<1> USE Constants DEF IndInv, TypeOK, Exit, GotoBy, ExitLock, ExitStates, Wakeup1,
        HasZombieChild, Reparent, Swtch
<1>1. TypeOK' BY DEF ProcState, PC
<1>2. LockInv' BY DEF LockInv, Resumes
<1>3. CpuInv' BY DEF CpuInv
<1>4. ThreadInv' BY DEF ThreadInv, CpuInv, Resumes
<1>5. ForkInv' BY SMTT(30) DEF ForkInv, ThreadInv, CpuInv, LockInv, FamilyInv, Resumes
<1>6. FamilyInv'
  <2> DEFINE p == cproc[c]
  <2>1. p \in Slot /\ p # InitProc /\ state[p] = "RUNNING" BY DEF CpuInv
  <2>2. \A q \in Slot : q # p => (state[q] \in Alive <=> state'[q] \in Alive)
    BY <2>1 DEF Alive
  <2>3. \A q \in Slot : q # p => (state[q] = "ZOMBIE" <=> state'[q] = "ZOMBIE")
    BY <2>1
  <2>4. state'[p] = "ZOMBIE" /\ \A q \in Slot : parent'[q] # p
    BY <2>1
  <2>5. state'[InitProc] \in Alive /\ parent'[InitProc] = Null /\ \A q \in Slot : parent'[q] # q
    BY <2>1, <2>2 DEF FamilyInv
  <2>6. \A q \in Slot : parent'[q] = IF parent[q] = p THEN InitProc ELSE parent[q]
    OBVIOUS
  <2>7. parent \in [Slot -> Slot \cup {Null}] /\ IndInv OBVIOUS
  <2>8. killed' = killed OBVIOUS
  <2>9. ParentAlive'
    BY SMTT(30), <2>1, <2>2, <2>3, <2>4, <2>5, <2>6, <2>7 DEF FamilyInv, ParentAlive, Alive
  <2>10. ASSUME NEW w \in Slot, state'[w] = "SLEEPING", pc'[w] = "waited"
        PROVE  Children(w)' # {} /\ ~HasZombieChild(w)' /\ ~killed'[w]
    <3>1. w # p /\ state[w] = "SLEEPING" /\ pc[w] = "waited" /\ chan[w] = w
      BY <2>1, <2>4, <2>10 DEF ThreadInv
    <3>2. w # parent[p] BY <2>1, <2>10, <3>1
    <3>3. Children(w) # {} /\ ~HasZombieChild(w) /\ ~killed[w]
      BY <3>1 DEF FamilyInv, WaiterHasReason
    <3>4. HasZombieChild(p) => w # InitProc BY <2>1, <2>10, <3>1
    <3>5. \A q \in Slot : parent[q] = w => parent'[q] = w BY <3>1, <2>6
    <3>6. ASSUME NEW q \in Slot, parent'[q] = w, state'[q] = "ZOMBIE" PROVE FALSE
      <4>1. CASE parent[q] = p
        <5>1. q # p BY <4>1, <2>1 DEF FamilyInv
        <5> QED BY <5>1, <4>1, <3>4, <3>6, <2>3, <2>6
      <4>2. CASE parent[q] = w
        BY <4>2, <3>2, <3>3, <3>6, <2>3
      <4> QED BY <4>1, <4>2, <3>6, <2>6
    <3> QED BY <3>3, <3>5, <3>6, <2>8 DEF Children
  <2> QED BY <2>5, <2>9, <2>10 DEF FamilyInv, WaiterHasReason
<1> QED BY <1>1, <1>2, <1>3, <1>4, <1>5, <1>6

LEMMA WaitReapKeeps == ASSUME NEW c \in Cpu, IndInv, WaitReap(c) PROVE IndInv'
<1> USE Constants DEF IndInv, TypeOK, WaitReap, At, InWait, IsFirst, Children, cpuVars
<1>1. TypeOK' BY DEF CpuInv, ProcState, PC
<1>2. LockInv' BY DEF LockInv, CpuInv, FamilyInv, Resumes
<1>3. CpuInv' BY DEF CpuInv, LockInv
<1>4. ThreadInv' BY DEF ThreadInv, CpuInv, Resumes
<1>5. ForkInv' BY DEF ForkInv, ThreadInv
<1>6. FamilyInv' BY DEF FamilyInv, ParentAlive, WaiterHasReason, Alive, HasZombieChild
<1> QED BY <1>1, <1>2, <1>3, <1>4, <1>5, <1>6

LEMMA WaitNoneKeeps == ASSUME NEW c \in Cpu, IndInv, WaitNone(c) PROVE IndInv'
<1> USE Constants DEF IndInv, TypeOK, WaitNone, At, GotoBy, InWait, HasZombieChild,
        WaitGivesUp, Children, cpuVars
<1>1. TypeOK' BY DEF PC
<1>2. LockInv' BY DEF LockInv, CpuInv, Resumes
<1>3. CpuInv' BY DEF CpuInv
<1>4. ThreadInv' BY DEF ThreadInv, CpuInv, Resumes
<1>5. ForkInv' BY DEF ForkInv
<1>6. FamilyInv' BY DEF FamilyInv, ParentAlive, WaiterHasReason
<1> QED BY <1>1, <1>2, <1>3, <1>4, <1>5, <1>6

LEMMA WaitSleepKeeps == ASSUME NEW c \in Cpu, IndInv, WaitSleep(c) PROVE IndInv'
<1> USE Constants DEF IndInv, TypeOK, WaitSleep, At, GotoBy, InWait, HasZombieChild,
        WaitGivesUp, Children, Swtch
<1>1. TypeOK' BY DEF ProcState, PC
<1>2. LockInv' BY DEF LockInv, CpuInv, Resumes
<1>3. CpuInv' BY DEF CpuInv
<1>4. ThreadInv' BY DEF ThreadInv, Resumes
<1>5. ForkInv' BY DEF ForkInv
<1>6. FamilyInv' BY DEF FamilyInv, CpuInv, ParentAlive, WaiterHasReason, Alive
<1> QED BY <1>1, <1>2, <1>3, <1>4, <1>5, <1>6

LEMMA KillKeeps == ASSUME NEW c \in Cpu, IndInv, Kill(c) PROVE IndInv'
<1> USE Constants DEF IndInv, TypeOK, Kill, At, GotoBy, IsFirst, KillWakes, cpuVars
<1>1. TypeOK' BY DEF CpuInv, ProcState, PC
<1>2. LockInv' BY DEF LockInv, Resumes
<1>3. CpuInv' BY DEF CpuInv
<1>4. ThreadInv' BY DEF ThreadInv, Resumes
<1>5. ForkInv' BY DEF ForkInv
<1>6. FamilyInv'
  BY DEF FamilyInv, ParentAlive, WaiterHasReason, Alive, Children, HasZombieChild
<1> QED BY <1>1, <1>2, <1>3, <1>4, <1>5, <1>6

LEMMA SleepBeginKeeps == ASSUME NEW c \in Cpu, IndInv, SleepBegin(c) PROVE IndInv'
<1> USE Constants DEF IndInv, TypeOK, SleepBegin, At, GotoBy, procVars, cpuVars
<1>1. TypeOK'
  <2>1. PICK n \in Nat : left' = [left EXCEPT ![cproc[c]] = n] BY ProcAssumption
  <2> QED BY <2>1 DEF PC
<1>2. LockInv' BY DEF LockInv, CpuInv, Resumes
<1>3. CpuInv' BY DEF CpuInv
<1>4. ThreadInv' BY DEF ThreadInv, Resumes
<1>5. ForkInv' BY DEF ForkInv
<1>6. FamilyInv' BY DEF FamilyInv, ParentAlive, WaiterHasReason, Children, HasZombieChild
<1> QED BY <1>1, <1>2, <1>3, <1>4, <1>5, <1>6

LEMMA SleepDoneKeeps == ASSUME NEW c \in Cpu, IndInv, SleepDone(c) PROVE IndInv'
<1> USE Constants DEF IndInv, TypeOK, SleepDone, At, GotoBy, SleepUnlock, procVars,
        cpuVars
<1>1. TypeOK' BY DEF PC
<1>2. LockInv' BY DEF LockInv, CpuInv, Resumes
<1>3. CpuInv' BY DEF CpuInv
<1>4. ThreadInv' BY DEF ThreadInv, Resumes
<1>5. ForkInv' BY DEF ForkInv
<1>6. FamilyInv' BY DEF FamilyInv, ParentAlive, WaiterHasReason, Children, HasZombieChild
<1> QED BY <1>1, <1>2, <1>3, <1>4, <1>5, <1>6

LEMMA SleepCheckKeeps == ASSUME NEW c \in Cpu, IndInv, SleepCheck(c) PROVE IndInv'
<1> USE Constants DEF IndInv, TypeOK, SleepCheck, At, GotoBy, procVars, cpuVars
<1>1. TypeOK' BY DEF PC
<1>2. LockInv' BY DEF LockInv, Resumes
<1>3. CpuInv' BY DEF CpuInv
<1>4. ThreadInv' BY DEF ThreadInv, Resumes
<1>5. ForkInv' BY DEF ForkInv
<1>6. FamilyInv' BY DEF FamilyInv, ParentAlive, WaiterHasReason, Children, HasZombieChild
<1> QED BY <1>1, <1>2, <1>3, <1>4, <1>5, <1>6

LEMMA SleepBlockKeeps == ASSUME NEW c \in Cpu, IndInv, SleepBlock(c) PROVE IndInv'
<1> USE Constants DEF IndInv, TypeOK, SleepBlock, At, GotoBy, SleepLock, Swtch
<1>1. TypeOK' BY DEF ProcState, PC
<1>2. LockInv' BY DEF LockInv, Resumes
<1>3. CpuInv' BY DEF CpuInv
<1>4. ThreadInv' BY DEF ThreadInv, Resumes
<1>5. ForkInv' BY DEF ForkInv
<1>6. FamilyInv'
  BY DEF FamilyInv, CpuInv, ParentAlive, WaiterHasReason, Alive, Children, HasZombieChild
<1> QED BY <1>1, <1>2, <1>3, <1>4, <1>5, <1>6

LEMMA ResumeSleepKeeps == ASSUME NEW c \in Cpu, IndInv, ResumeSleep(c) PROVE IndInv'
<1> USE Constants DEF IndInv, TypeOK, ResumeSleep, At, GotoBy, cpuVars
<1>1. TypeOK' BY DEF PC
<1>2. LockInv' BY DEF LockInv, CpuInv, Resumes
<1>3. CpuInv' BY DEF CpuInv
<1>4. ThreadInv' BY DEF ThreadInv, CpuInv, Resumes
<1>5. ForkInv' BY DEF ForkInv
<1>6. FamilyInv' BY DEF FamilyInv, ParentAlive, WaiterHasReason, Children, HasZombieChild
<1> QED BY <1>1, <1>2, <1>3, <1>4, <1>5, <1>6

LEMMA SleepRelockKeeps == ASSUME NEW c \in Cpu, IndInv, SleepRelock(c) PROVE IndInv'
<1> USE Constants DEF IndInv, TypeOK, SleepRelock, At, GotoBy, procVars, cpuVars
<1>1. TypeOK' BY DEF PC
<1>2. LockInv' BY DEF LockInv, CpuInv, Resumes
<1>3. CpuInv' BY DEF CpuInv
<1>4. ThreadInv' BY DEF ThreadInv, Resumes
<1>5. ForkInv' BY DEF ForkInv
<1>6. FamilyInv' BY DEF FamilyInv, ParentAlive, WaiterHasReason, Children, HasZombieChild
<1> QED BY <1>1, <1>2, <1>3, <1>4, <1>5, <1>6

LEMMA InitEstablishes == Init => IndInv
<1> SUFFICES ASSUME Init PROVE IndInv OBVIOUS
<1> USE Constants DEF Init
<1>1. TypeOK BY ProcAssumption DEF TypeOK, ProcState, PC, Free
<1>2. LockInv BY DEF LockInv, Resumes
<1>3. CpuInv BY DEF CpuInv
<1>4. ThreadInv BY DEF ThreadInv, Resumes
<1>5. ForkInv BY DEF ForkInv
<1>6. FamilyInv BY DEF FamilyInv, ParentAlive, WaiterHasReason, Alive
<1> QED BY <1>1, <1>2, <1>3, <1>4, <1>5, <1>6 DEF IndInv

LEMMA NextKeeps == IndInv /\ [Next]_vars => IndInv'
<1> SUFFICES ASSUME IndInv, [Next]_vars PROVE IndInv' OBVIOUS
<1>1. CASE UNCHANGED vars
  <2> USE <1>1 DEF vars, procVars, threadVars, cpuVars, IndInv
  <2>1. TypeOK' BY DEF TypeOK
  <2>2. LockInv' BY DEF LockInv, Resumes
  <2>3. CpuInv' BY DEF CpuInv
  <2>4. ThreadInv' BY DEF ThreadInv, Resumes
  <2>5. ForkInv' BY DEF ForkInv
  <2>6. FamilyInv'
    BY DEF FamilyInv, ParentAlive, WaiterHasReason, Children, HasZombieChild
  <2> QED BY <2>1, <2>2, <2>3, <2>4, <2>5, <2>6
<1>2. CASE Next
  <2> PICK c \in Cpu :
        \/ Scheduler(c) \/ TimerTick(c) \/ Interrupt(c) \/ ResumeYield(c) \/ Syscall(c)
        \/ UserFault(c) \/ ForkRet(c) \/ Exit(c) \/ SyscallStep(c)
    BY <1>2 DEF Next
  <2>1. CASE Scheduler(c)
    BY <2>1, SchedAcquireKeeps, SchedRunKeeps, SchedReturnKeeps, SchedReleaseKeeps
    DEF Scheduler
  <2>2. CASE TimerTick(c) BY <2>2, TimerTickKeeps
  <2>3. CASE Interrupt(c)
    BY <2>3, TickWakeupKeeps, TrapTailKeeps, YieldKeeps DEF Interrupt
  <2>4. CASE ResumeYield(c) BY <2>4, ResumeYieldKeeps
  <2>5. CASE Syscall(c) BY <2>5, SyscallKeeps
  <2>6. CASE UserFault(c) BY <2>6, UserFaultKeeps
  <2>7. CASE ForkRet(c) BY <2>7, ForkRetKeeps
  <2>8. CASE Exit(c) BY <2>8, ExitKeeps
  <2>9. CASE SyscallStep(c)
    <3>1. CASE ForkStep(c)
      BY <3>1, ForkAllocKeeps, ForkFullKeeps, ForkFailKeeps, ForkCopyKeeps,
         ForkPublishKeeps DEF ForkStep
    <3>2. CASE WaitStep(c)
      BY <3>2, WaitReapKeeps, WaitNoneKeeps, WaitSleepKeeps DEF WaitStep
    <3>3. CASE Kill(c) BY <3>3, KillKeeps
    <3>4. CASE SleepBegin(c) BY <3>4, SleepBeginKeeps
    <3>5. CASE SleepStep(c)
      BY <3>5, SleepDoneKeeps, SleepCheckKeeps, SleepBlockKeeps, ResumeSleepKeeps,
         SleepRelockKeeps DEF SleepStep
    <3> QED BY <2>9, <3>1, <3>2, <3>3, <3>4, <3>5 DEF SyscallStep
  <2> QED BY <2>1, <2>2, <2>3, <2>4, <2>5, <2>6, <2>7, <2>8, <2>9
<1> QED BY <1>1, <1>2

\* Every reachable state satisfies the inductive invariant: the lock, the CPU, the
\* thread and the family each process is recorded with agree.
THEOREM InductiveInvariant == Spec => []IndInv
BY InitEstablishes, NextKeeps, PTL DEF Spec

\* The fields of struct proc and struct cpu stay in their types; the scheduler's
\* scan never leaves the table.
THEOREM TypeCorrect == Spec => []TypeOK
<1>1. IndInv => TypeOK BY DEF IndInv
<1> QED BY <1>1, InductiveInvariant, PTL

\* No two CPUs ever use one kernel stack, and no CPU uses a freed one: exit(),
\* wait() and yield() against scheduler() on any number of CPUs.
THEOREM StacksAreExclusive == Spec => []StackExclusive
<1>1. IndInv => StackExclusive
  BY Constants DEF IndInv, TypeOK, CpuInv, StackExclusive
<1> QED BY <1>1, InductiveInvariant, PTL

\* None of sched()'s panics is reached: "sched ptable.lock", "sched locks" and
\* "sched running".
THEOREM SchedNeverPanics == Spec => []SchedDiscipline
<1>1. IndInv => SchedDiscipline
  BY DEF IndInv, TypeOK, CpuInv, LockInv, SchedDiscipline
<1> QED BY <1>1, InductiveInvariant, PTL

\* Every path through the system calls and interrupts modelled releases what it
\* acquired before the process is back in user space.
THEOREM LocksAreReleased == Spec => []UserHoldsNoLock
<1>1. IndInv => UserHoldsNoLock
  BY DEF IndInv, LockInv, UserHoldsNoLock, At, Resumes
<1> QED BY <1>1, InductiveInvariant, PTL

\* exit() and kill() never miss a parent asleep in wait().
THEOREM NoLostWakeupInWait == Spec => []WaiterHasReason
<1>1. IndInv => WaiterHasReason BY DEF IndInv, FamilyInv
<1> QED BY <1>1, InductiveInvariant, PTL

\* exit() hands every orphan to init before its parent's slot can be freed.
THEOREM ParentsAreAlive == Spec => []ParentAlive
<1>1. IndInv => ParentAlive BY DEF IndInv, FamilyInv
<1> QED BY <1>1, InductiveInvariant, PTL

\* Nothing but wait() changes the state of a zombie: exit()'s sched() does not
\* return, whatever kill() and wakeup() do to the slot.
THEOREM ZombiesAreFinal == Spec => ZombieIsFinal
<1>1. IndInv /\ [Next]_vars =>
        [\A p \in Slot : state[p] = "ZOMBIE" => state'[p] \in {"ZOMBIE", "UNUSED"}]_vars
  <2> SUFFICES ASSUME IndInv, Next, NEW p \in Slot, state[p] = "ZOMBIE"
               PROVE  state'[p] \in {"ZOMBIE", "UNUSED"}
    OBVIOUS
  <2> PICK c \in Cpu :
        \/ Scheduler(c) \/ TimerTick(c) \/ Interrupt(c) \/ ResumeYield(c) \/ Syscall(c)
        \/ UserFault(c) \/ ForkRet(c) \/ Exit(c) \/ SyscallStep(c)
    BY DEF Next
  <2> USE DEF IndInv, TypeOK, procVars, threadVars, cpuVars
  <2>1. CASE Scheduler(c)
    BY <2>1 DEF Scheduler, SchedAcquire, SchedRun, SchedReturn, SchedRelease, IsFirst,
       RunnableFrom
  <2>2. CASE TimerTick(c) \/ ResumeYield(c) \/ Syscall(c) \/ UserFault(c) \/ ForkRet(c)
    BY <2>2 DEF TimerTick, ResumeYield, Syscall, UserFault, ForkRet
  <2>3. CASE Interrupt(c)
    BY <2>3 DEF Interrupt, TickWakeup, TrapTail, Yield, Wakeup1, CpuInv
  <2>4. CASE Exit(c) BY <2>4 DEF Exit, ExitStates, Wakeup1, CpuInv
  <2>5. CASE ForkStep(c)
    BY <2>5 DEF ForkStep, ForkAlloc, ForkFull, ForkFail, ForkCopy, ForkPublish, IsFirst,
       At, ForkInv, CpuInv
  <2>6. CASE WaitReap(c) \/ WaitNone(c)
    BY <2>6 DEF WaitReap, WaitNone
  <2>7. CASE WaitSleep(c)
    BY <2>7 DEF WaitSleep, InWait, At, CpuInv
  <2>8. CASE Kill(c) BY <2>8 DEF Kill, KillWakes
  <2>9. CASE SleepBegin(c) BY <2>9 DEF SleepBegin
  <2>10. CASE SleepStep(c)
    BY <2>10 DEF SleepStep, SleepDone, SleepCheck, SleepBlock, ResumeSleep, SleepRelock,
       At, CpuInv
  <2> QED BY <2>1, <2>2, <2>3, <2>4, <2>5, <2>6, <2>7, <2>8, <2>9, <2>10
          DEF SyscallStep, WaitStep
<1> QED BY <1>1, InductiveInvariant, PTL DEF Spec, ZombieIsFinal

=============================================================================
