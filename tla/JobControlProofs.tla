-------------------------- MODULE JobControlProofs --------------------------
(***************************************************************************)
(* Safety of job control for every number of slots, set of keys and size   *)
(* of the console's ring.  IndInv is inductive: the properties the runs    *)
(* check, and what ties a slot's state to where its process stands.  The   *)
(* keyboard changes states behind the back of wait(), exit() and fork(),   *)
(* so position, and not state, says whether a process exists.              *)
(***************************************************************************)
EXTENDS JobControl, TLAPS

\* A free slot, or one fork() has not filled in, has no process and no parent; one that
\* waits for the end of fork() has done nothing yet; a zombie is past the end of exit().
LocInv ==
    \A s \in Slot :
        /\ state[s] = "UNUSED" => loc[s] = "vacant"
        /\ state[s] = "EMBRYO" => loc[s] \in {"vacant", "user"} /\ pid[s] = JobPid
        /\ state[s] = "ZOMBIE" => loc[s] = "exited"
        /\ loc[s] = "vacant" => parent[s] = None

\* The running process has not exited; only Ctrl-F makes it SLEEPING, and only the shell.
CpuInv ==
    panic = "none" /\ cpu # None =>
        /\ loc[cpu] \notin {"vacant", "exited"}
        /\ state[cpu] # "EMBRYO"
        /\ state[cpu] = "SLEEPING" => pid[cpu] = ShellPid

\* init never exits: its exit() panics.
InitInv ==
    loc[initproc] \notin {"vacant", "exited"} /\ pid[initproc] = InitPid

\* The slot that fork() is filling in is nobody else's, and its process is p's child,
\* though Ctrl-F may have made it RUNNABLE and it may have run and exited already.
ForkInv ==
    \A p \in Slot : loc[p] = "fork" =>
        /\ np[p] \in Slot /\ np[p] # p
        /\ loc[np[p]] = "vacant" \/ parent[np[p]] = p
        /\ state[np[p]] # "UNUSED" /\ pid[np[p]] = JobPid
        /\ \A q \in Slot : q # p /\ loc[q] = "fork" => np[q] # np[p]

\* Parents are processes, and init alone has a child that is not a job.
FamilyInv ==
    /\ parent[initproc] = None
    /\ \A s \in Slot : parent[s] # None =>
        /\ parent[s] # s /\ loc[parent[s]] \notin {"vacant", "exited"}
        /\ state[parent[s]] # "EMBRYO"
        /\ parent[s] # initproc => pid[s] = JobPid

\* A shell that sleeps outside consoleread(), or that Ctrl-F put to sleep while it
\* runs, has no suspended child: Ctrl-F resumes them all in the same interrupt.  The one
\* it is forking may still have the b of its slot's last process.
ShellInv ==
    \A s, c \in Slot :
        /\ pid[s] = ShellPid /\ state[s] = "SLEEPING" /\ (loc[s] # "read" \/ cpu = s)
        /\ parent[c] = s /\ ~(loc[s] = "fork" /\ np[s] = c)
        => ~b[c]

\* The inductive invariant.
IndInv ==
    /\ TypeOK /\ LocInv /\ CpuInv /\ InitInv /\ ForkInv /\ FamilyInv
    /\ ShellInv /\ WaiterHasReason

\* What the proofs need of the constants and of the pids' abstraction.
LEMMA Constants ==
    /\ initproc \in Slot /\ 2 \in Slot /\ initproc # None /\ None \notin Slot
    /\ Jobs = {s \in Slot : pid[s] = JobPid}
    /\ InitPid = 1 /\ ShellPid = 2 /\ JobPid = 3
    /\ INPUT_BUF \in Nat \ {0}
BY JobAssumption DEF Slot, initproc, Jobs, InitPid, ShellPid, JobPid

-----------------------------------------------------------------------------
(***************************************************************************)
(* Every action keeps IndInv: one lemma per action, one step per conjunct, *)
(* each citing the conjuncts of the state before that it needs.            *)
(***************************************************************************)

\* scheduler(): the process it takes is not asleep.
LEMMA DispatchKeeps == ASSUME NEW p \in Slot, IndInv, Dispatch(p) PROVE IndInv'
<1> USE Constants DEF ProcState, Loc, IndInv, TypeOK, procVars, Dispatch, Eligible
<1>1. TypeOK'
  BY DEF TypeOK
<1>2. LocInv'
  BY DEF LocInv, CpuInv
<1>3. CpuInv'
  BY DEF CpuInv
<1>4. InitInv'
  BY DEF InitInv
<1>5. ForkInv'
  BY DEF ForkInv
<1>6. FamilyInv'
  BY DEF FamilyInv
<1>7. ShellInv'
  BY DEF ShellInv
<1>8. WaiterHasReason'
  BY DEF WaiterHasReason, Childless
<1>. QED  BY <1>1, <1>2, <1>3, <1>4, <1>5, <1>6, <1>7, <1>8

\* yield(): a RUNNING process becomes RUNNABLE.
LEMMA TickKeeps ==
    ASSUME NEW p \in Slot, NEW expired \in BOOLEAN, IndInv, Tick(p, expired)
    PROVE  IndInv'
<1> USE Constants DEF ProcState, Loc, IndInv, TypeOK, procVars, Tick, Interruptible,
         AfterInterrupt, Account
<1>1. TypeOK'
  BY DEF TypeOK
<1>2. LocInv'
  BY DEF LocInv, CpuInv
<1>3. CpuInv'
  BY DEF CpuInv
<1>4. InitInv'
  BY DEF InitInv
<1>5. ForkInv'
  BY DEF ForkInv
<1>6. FamilyInv'
  BY DEF FamilyInv
<1>7. ShellInv'
  BY DEF ShellInv
<1>8. WaiterHasReason'
  BY DEF WaiterHasReason, Childless
<1>. QED  BY <1>1, <1>2, <1>3, <1>4, <1>5, <1>6, <1>7, <1>8

\* allocproc(): the slot taken was free, so nobody's parent and nobody's np.
LEMMA TakeKeeps ==
    ASSUME NEW p \in Slot, NEW n \in Slot, At(p, "user"), state[n] = "UNUSED",
           UNCHANGED <<cpu, lines, sh, panic>>, IndInv, Take(p, n)
    PROVE  IndInv'
<1> USE Constants DEF ProcState, Loc, IndInv, TypeOK, procVars, Take, At
<1>1. TypeOK'
  BY DEF TypeOK
<1>2. LocInv'
  BY DEF LocInv, CpuInv
<1>3. CpuInv'
  BY DEF CpuInv
<1>4. InitInv'
  BY DEF InitInv, LocInv
<1>5. ForkInv'
  BY DEF ForkInv
<1>6. FamilyInv'
  BY DEF FamilyInv, LocInv
<1>7. ShellInv'
  BY DEF ShellInv
<1>8. WaiterHasReason'
  BY DEF WaiterHasReason, Childless
<1>. QED  BY <1>1, <1>2, <1>3, <1>4, <1>5, <1>6, <1>7, <1>8

\* A fork that fails gives back a slot that only it holds.
LEMMA ForkFailKeeps == ASSUME NEW p \in Slot, IndInv, ForkFail(p) PROVE IndInv'
<1> USE Constants DEF ProcState, Loc, IndInv, TypeOK, procVars, ForkFail, At
<1>1. TypeOK'
  BY DEF TypeOK
<1>2. LocInv'
  BY DEF LocInv, ForkInv
<1>3. CpuInv'
  BY DEF CpuInv
<1>4. InitInv'
  BY DEF InitInv, ForkInv
<1>5. ForkInv'
  BY DEF ForkInv
<1>6. FamilyInv'
  BY DEF FamilyInv, ForkInv, LocInv
<1>7. ShellInv'
  BY DEF ShellInv, LocInv, ForkInv
<1>8. WaiterHasReason'
  BY DEF WaiterHasReason, Childless
<1>. QED  BY <1>1, <1>2, <1>3, <1>4, <1>5, <1>6, <1>7, <1>8

\* The child's slot was vacant: it has no children, and no parent but p.
LEMMA CopyImageKeeps == ASSUME NEW p \in Slot, IndInv, CopyImage(p) PROVE IndInv'
<1> USE Constants DEF ProcState, Loc, IndInv, TypeOK, procVars, CopyImage, At
<1>1. TypeOK'
  BY DEF TypeOK
<1>2. LocInv'
  BY DEF LocInv, ForkInv
<1>3. CpuInv'
  BY DEF CpuInv
<1>4. InitInv'
  BY DEF InitInv, ForkInv
<1>5. ForkInv'
  BY DEF ForkInv, LocInv
<1>6. FamilyInv'
  BY DEF FamilyInv, ForkInv, LocInv, InitInv, CpuInv
<1>7. ShellInv'
  BY DEF ShellInv, ForkInv, LocInv
<1>8. WaiterHasReason'
  BY DEF WaiterHasReason, Childless, ForkInv, LocInv
<1>. QED  BY <1>1, <1>2, <1>3, <1>4, <1>5, <1>6, <1>7, <1>8

\* The child is p's, and is awake and no zombie afterwards, whatever it did.
LEMMA ForkDoneKeeps == ASSUME NEW p \in Slot, IndInv, ForkDone(p) PROVE IndInv'
<1> USE Constants DEF ProcState, Loc, IndInv, TypeOK, procVars, ForkDone, At, Goto
<1>1. TypeOK'
  BY DEF TypeOK
<1>2. LocInv'
  BY DEF LocInv, ForkInv, FamilyInv
<1>3. CpuInv'
  BY DEF CpuInv, ForkInv
<1>4. InitInv'
  BY DEF InitInv, ForkInv
<1>5. ForkInv'
  BY DEF ForkInv
<1>6. FamilyInv'
  BY DEF FamilyInv, ForkInv, LocInv, InitInv
<1>7. ShellInv'
  BY DEF ShellInv, ForkInv
<1>8. WaiterHasReason'
  BY DEF WaiterHasReason, Childless, ForkInv, LocInv
<1>. QED  BY <1>1, <1>2, <1>3, <1>4, <1>5, <1>6, <1>7, <1>8

\* As ForkDone; a child that starts later may still be suspended, but its parent is no shell.
LEMMA CustomForkDoneKeeps ==
    ASSUME NEW p \in Slot, NEW later \in BOOLEAN, NEW limit \in BOOLEAN, IndInv,
           CustomForkDone(p, later, limit)
    PROVE  IndInv'
<1> USE Constants DEF ProcState, Loc, IndInv, TypeOK, procVars, CustomForkDone, At, Goto
<1>1. TypeOK'
  BY DEF TypeOK
<1>2. LocInv'
  BY DEF LocInv, ForkInv, FamilyInv
<1>3. CpuInv'
  BY DEF CpuInv, ForkInv
<1>4. InitInv'
  BY DEF InitInv, ForkInv
<1>5. ForkInv'
  BY DEF ForkInv
<1>6. FamilyInv'
  BY DEF FamilyInv, ForkInv, LocInv, InitInv
<1>7. ShellInv'
  BY DEF ShellInv, ForkInv
<1>8. WaiterHasReason'
  BY DEF WaiterHasReason, Childless, ForkInv, LocInv
<1>. QED  BY <1>1, <1>2, <1>3, <1>4, <1>5, <1>6, <1>7, <1>8

\* scheduler_start(): only processes in CUSTOM_WAIT change.
LEMMA SchedulerStartKeeps == ASSUME NEW p \in Slot, IndInv, SchedulerStart(p) PROVE IndInv'
<1> USE Constants DEF ProcState, Loc, IndInv, TypeOK, procVars, SchedulerStart, At, Goto
<1>1. TypeOK'
  BY DEF TypeOK
<1>2. LocInv'
  BY DEF LocInv, CpuInv
<1>3. CpuInv'
  BY DEF CpuInv
<1>4. InitInv'
  BY DEF InitInv
<1>5. ForkInv'
  BY DEF ForkInv
<1>6. FamilyInv'
  BY DEF FamilyInv
<1>7. ShellInv'
  BY DEF ShellInv
<1>8. WaiterHasReason'
  BY DEF WaiterHasReason, Childless
<1>. QED  BY <1>1, <1>2, <1>3, <1>4, <1>5, <1>6, <1>7, <1>8

\* kill() changes nothing but a sleeper's state.
LEMMA KillKeeps == ASSUME NEW p \in Slot, NEW s \in Slot, IndInv, Kill(p, s) PROVE IndInv'
<1> USE Constants DEF ProcState, Loc, IndInv, TypeOK, procVars, Kill, At, Goto
<1>1. TypeOK'
  BY DEF TypeOK
<1>2. LocInv'
  BY DEF LocInv, CpuInv
<1>3. CpuInv'
  BY DEF CpuInv
<1>4. InitInv'
  BY DEF InitInv
<1>5. ForkInv'
  BY DEF ForkInv
<1>6. FamilyInv'
  BY DEF FamilyInv
<1>7. ShellInv'
  BY DEF ShellInv
<1>8. WaiterHasReason'
  BY DEF WaiterHasReason, Childless
<1>. QED  BY <1>1, <1>2, <1>3, <1>4, <1>5, <1>6, <1>7, <1>8

\* exit(): the parent, and init when it inherits a zombie, are woken in the same step.
LEMMA ExitNowKeeps ==
    ASSUME NEW p \in Slot, panic = "none", cpu = p, p # initproc, IndInv, ExitNow(p)
    PROVE  IndInv'
<1> USE Constants DEF ProcState, Loc, IndInv, TypeOK, procVars, ExitNow, ExitStates,
         Reparent, Wakeup, Goto, LeaveCpu, Account
<1>1. TypeOK'
  BY DEF TypeOK
<1>2. LocInv'
  BY DEF LocInv, CpuInv
<1>3. CpuInv'
  BY DEF CpuInv
<1>4. InitInv'
  BY DEF InitInv
<1>5. ForkInv'
  BY DEF ForkInv, CpuInv, LocInv
<1>6. FamilyInv'
  BY DEF FamilyInv, InitInv, CpuInv, LocInv
<1>7. ShellInv'
  BY DEF ShellInv, InitInv, FamilyInv
<1>8. WaiterHasReason'
  <2> SUFFICES ASSUME NEW q \in Slot, state'[q] = "SLEEPING", loc'[q] = "wait",
                      pid'[q] # ShellPid
               PROVE  /\ ~Childless(q)' /\ \A c \in Slot : parent'[c] = q => state'[c] # "ZOMBIE"
    BY DEF WaiterHasReason
  <2>1. q # p /\ state[q] = "SLEEPING" /\ loc[q] = "wait" /\ pid[q] # ShellPid
    OBVIOUS
  <2>2. parent[p] # q /\ (\A o \in Slot : parent[o] = p /\ state[o] = "ZOMBIE" => q # initproc)
    BY <2>1 DEF FamilyInv
  <2>3. ~Childless(q) /\ \A c \in Slot : parent[c] = q => state[c] # "ZOMBIE"
    BY <2>1 DEF WaiterHasReason
  <2>4. ~Childless(q)'
    BY <2>1, <2>3 DEF Childless
  <2>5. ASSUME NEW c \in Slot, parent'[c] = q PROVE state'[c] # "ZOMBIE"
    <3>1. CASE c = p
      BY <2>1, <2>2, <2>5, <3>1 DEF FamilyInv
    <3>2. CASE c # p /\ parent[c] = p
      BY <2>1, <2>2, <2>5, <3>2
    <3>3. CASE c # p /\ parent[c] # p
      BY <2>1, <2>3, <2>5, <3>3
    <3> QED  BY <3>1, <3>2, <3>3
  <2> QED  BY <2>4, <2>5
<1>. QED  BY <1>1, <1>2, <1>3, <1>4, <1>5, <1>6, <1>7, <1>8

\* The process that enters wait() runs, so it does not sleep there yet, unless it is the shell.
LEMMA WaitKeeps == ASSUME NEW p \in Slot, IndInv, Wait(p) PROVE IndInv'
<1> USE Constants DEF ProcState, Loc, IndInv, TypeOK, procVars, Wait, At, Goto
<1>1. TypeOK'
  BY DEF TypeOK
<1>2. LocInv'
  BY DEF LocInv, CpuInv
<1>3. CpuInv'
  BY DEF CpuInv
<1>4. InitInv'
  BY DEF InitInv
<1>5. ForkInv'
  BY DEF ForkInv
<1>6. FamilyInv'
  BY DEF FamilyInv
<1>7. ShellInv'
  BY DEF ShellInv
<1>8. WaiterHasReason'
  BY DEF WaiterHasReason, Childless, CpuInv
<1>. QED  BY <1>1, <1>2, <1>3, <1>4, <1>5, <1>6, <1>7, <1>8

\* The zombie wait() frees has no children: exit() gave them to init.
LEMMA ReapKeeps ==
    ASSUME NEW p \in Slot, NEW c \in Slot, panic = "none", cpu = p, loc[p] = "wait",
           parent[c] = p, state[c] = "ZOMBIE", UNCHANGED <<np, lines, panic>>, IndInv,
           Reap(p, c)
    PROVE  IndInv'
<1> USE Constants DEF ProcState, Loc, IndInv, TypeOK, procVars, Reap
<1>1. TypeOK'
  BY DEF TypeOK
<1>2. LocInv'
  BY DEF LocInv, CpuInv
<1>3. CpuInv'
  BY DEF CpuInv
<1>4. InitInv'
  BY DEF InitInv, FamilyInv
<1>5. ForkInv'
  BY DEF ForkInv, LocInv
<1>6. FamilyInv'
  BY DEF FamilyInv, LocInv
<1>7. ShellInv'
  BY DEF ShellInv
<1>8. WaiterHasReason'
  BY DEF WaiterHasReason, Childless
<1>. QED  BY <1>1, <1>2, <1>3, <1>4, <1>5, <1>6, <1>7, <1>8

\* wait() sleeps only behind children that it cannot reap and that are not suspended.
LEMMA SleepInWaitKeeps ==
    ASSUME NEW p \in Slot, At(p, "wait"), Stops(p) = {}, ~Childless(p),
           UNCHANGED <<sh, np, lines, panic>>, IndInv, SleepNow(p)
    PROVE  IndInv'
<1> USE Constants DEF ProcState, Loc, IndInv, TypeOK, procVars, SleepNow, Stops,
         Suspended, Childless, At, LeaveCpu, Account
<1>1. TypeOK'
  BY DEF TypeOK
<1>2. LocInv'
  BY DEF LocInv, CpuInv
<1>3. CpuInv'
  BY DEF CpuInv
<1>4. InitInv'
  BY DEF InitInv
<1>5. ForkInv'
  BY DEF ForkInv
<1>6. FamilyInv'
  BY DEF FamilyInv
<1>7. ShellInv'
  BY DEF ShellInv
<1>8. WaiterHasReason'
  BY DEF WaiterHasReason, Childless
<1>. QED  BY <1>1, <1>2, <1>3, <1>4, <1>5, <1>6, <1>7, <1>8

\* consoleread(), entered.
LEMMA ReadKeeps == ASSUME NEW p \in Slot, IndInv, Read(p) PROVE IndInv'
<1> USE Constants DEF ProcState, Loc, IndInv, TypeOK, procVars, Read, At, Goto
<1>1. TypeOK'
  BY DEF TypeOK
<1>2. LocInv'
  BY DEF LocInv, CpuInv
<1>3. CpuInv'
  BY DEF CpuInv
<1>4. InitInv'
  BY DEF InitInv
<1>5. ForkInv'
  BY DEF ForkInv
<1>6. FamilyInv'
  BY DEF FamilyInv
<1>7. ShellInv'
  BY DEF ShellInv
<1>8. WaiterHasReason'
  BY DEF WaiterHasReason, Childless
<1>. QED  BY <1>1, <1>2, <1>3, <1>4, <1>5, <1>6, <1>7, <1>8

\* consoleread(): a sleeper is not in wait().
LEMMA ReadLoopKeeps == ASSUME NEW p \in Slot, IndInv, ReadLoop(p) PROVE IndInv'
<1> USE Constants DEF ProcState, Loc, IndInv, TypeOK, procVars, ReadLoop, SleepNow, At,
         Goto, LeaveCpu, Account
<1>1. TypeOK'
  BY DEF TypeOK
<1>2. LocInv'
  BY DEF LocInv, CpuInv
<1>3. CpuInv'
  BY DEF CpuInv
<1>4. InitInv'
  BY DEF InitInv
<1>5. ForkInv'
  BY DEF ForkInv
<1>6. FamilyInv'
  BY DEF FamilyInv
<1>7. ShellInv'
  BY DEF ShellInv
<1>8. WaiterHasReason'
  BY DEF WaiterHasReason, Childless
<1>. QED  BY <1>1, <1>2, <1>3, <1>4, <1>5, <1>6, <1>7, <1>8

\* A line of input wakes readers only.
LEMMA NewlineKeeps == ASSUME IndInv, Newline PROVE IndInv'
<1> USE Constants DEF ProcState, Loc, IndInv, TypeOK, procVars, Newline, Interruptible,
         AfterInterrupt, HasRoom, Wakeup
<1>1. TypeOK'
  BY DEF TypeOK
<1>2. LocInv'
  BY DEF LocInv, CpuInv
<1>3. CpuInv'
  BY DEF CpuInv
<1>4. InitInv'
  BY DEF InitInv
<1>5. ForkInv'
  BY DEF ForkInv
<1>6. FamilyInv'
  BY DEF FamilyInv
<1>7. ShellInv'
  BY DEF ShellInv
<1>8. WaiterHasReason'
  BY DEF WaiterHasReason, Childless
<1>. QED  BY <1>1, <1>2, <1>3, <1>4, <1>5, <1>6, <1>7, <1>8

\* Ctrl-C kills jobs, never init.
LEMMA CtrlCKeeps == ASSUME IndInv, CtrlC PROVE IndInv'
<1> USE Constants DEF ProcState, Loc, IndInv, TypeOK, procVars, CtrlC, Interruptible,
         AfterInterrupt
<1>1. TypeOK'
  BY DEF TypeOK
<1>2. LocInv'
  BY DEF LocInv, CpuInv
<1>3. CpuInv'
  BY DEF CpuInv
<1>4. InitInv'
  BY DEF InitInv
<1>5. ForkInv'
  BY DEF ForkInv
<1>6. FamilyInv'
  BY DEF FamilyInv
<1>7. ShellInv'
  BY DEF ShellInv
<1>8. WaiterHasReason'
  BY DEF WaiterHasReason, Childless
<1>. QED  BY <1>1, <1>2, <1>3, <1>4, <1>5, <1>6, <1>7, <1>8

\* Ctrl-B wakes the shell in the same interrupt that suspends its children.
LEMMA CtrlBKeeps == ASSUME IndInv, CtrlB PROVE IndInv'
<1> USE Constants DEF ProcState, Loc, IndInv, TypeOK, procVars, CtrlB, Interruptible,
         AfterInterrupt, Wakeup
<1>1. TypeOK'
  BY DEF TypeOK
<1>2. LocInv'
  BY DEF LocInv, CpuInv
<1>3. CpuInv'
  BY DEF CpuInv
<1>4. InitInv'
  BY DEF InitInv
<1>5. ForkInv'
  BY DEF ForkInv
<1>6. FamilyInv'
  BY DEF FamilyInv
<1>7. ShellInv'
  BY DEF ShellInv
<1>8. WaiterHasReason'
  BY DEF WaiterHasReason, Childless
<1>. QED  BY <1>1, <1>2, <1>3, <1>4, <1>5, <1>6, <1>7, <1>8

\* Ctrl-F puts the shell to sleep and resumes all its children, which are jobs.
LEMMA CtrlFKeeps == ASSUME IndInv, CtrlF PROVE IndInv'
<1> USE Constants DEF ProcState, Loc, IndInv, TypeOK, procVars, CtrlF, Interruptible,
         AfterInterrupt
<1>1. TypeOK'
  BY DEF TypeOK
<1>2. LocInv'
  BY DEF LocInv, CpuInv
<1>3. CpuInv'
  BY DEF CpuInv
<1>4. InitInv'
  BY DEF InitInv
<1>5. ForkInv'
  BY DEF ForkInv
<1>6. FamilyInv'
  BY DEF FamilyInv
<1>7. ShellInv'
  <2> SUFFICES ASSUME NEW s \in Slot, NEW c \in Slot, pid[s] = ShellPid, parent[c] = s
               PROVE  ~b'[c]
    BY DEF ShellInv
  <2>1. pid[c] = JobPid
    BY DEF FamilyInv, InitInv
  <2> QED  BY <2>1
<1>8. WaiterHasReason'
  BY DEF WaiterHasReason, Childless
<1>. QED  BY <1>1, <1>2, <1>3, <1>4, <1>5, <1>6, <1>7, <1>8

\* A step that only moves the running process to the end of trap() or to user mode.
LEMMA ReturnKeeps ==
    ASSUME NEW p \in Slot, IndInv, panic = "none", cpu = p, loc[p] # "fork",
           NEW to \in {"return", "user"}, Goto(p, to),
           UNCHANGED <<procVars, np, cpu, lines, sh, panic>>
    PROVE  IndInv'
<1> USE Constants DEF ProcState, Loc, IndInv, TypeOK, procVars, Goto
<1>1. TypeOK'
  BY DEF TypeOK
<1>2. LocInv'
  BY DEF LocInv, CpuInv
<1>3. CpuInv'
  BY DEF CpuInv
<1>4. InitInv'
  BY DEF InitInv
<1>5. ForkInv'
  BY DEF ForkInv, CpuInv
<1>6. FamilyInv'
  BY DEF FamilyInv
<1>7. ShellInv'
  BY DEF ShellInv, CpuInv
<1>8. WaiterHasReason'
  BY DEF WaiterHasReason, Childless
<1>. QED  BY <1>1, <1>2, <1>3, <1>4, <1>5, <1>6, <1>7, <1>8

\* A panic stops the machine as it is.
LEMMA PanicKeeps ==
    ASSUME IndInv, panic' = "init exiting", UNCHANGED <<procVars, loc, np, cpu, lines, sh>>
    PROVE  IndInv'
<1> USE Constants DEF IndInv, TypeOK, procVars
<1>1. TypeOK'
  BY DEF TypeOK
<1>2. LocInv'
  BY DEF LocInv, CpuInv
<1>3. CpuInv'
  BY DEF CpuInv
<1>4. InitInv'
  BY DEF InitInv
<1>5. ForkInv'
  BY DEF ForkInv
<1>6. FamilyInv'
  BY DEF FamilyInv
<1>7. ShellInv'
  BY DEF ShellInv
<1>8. WaiterHasReason'
  BY DEF WaiterHasReason, Childless
<1>. QED  BY <1>1, <1>2, <1>3, <1>4, <1>5, <1>6, <1>7, <1>8

\* The state init leaves after it forked the shell.
LEMMA InitEstablishes == Init => IndInv
<1> SUFFICES ASSUME Init PROVE IndInv  OBVIOUS
<1> USE Constants, JobAssumption DEF Init, Slot, initproc
<1>1. TypeOK  BY DEF TypeOK, ProcState, Loc
<1>2. LocInv /\ CpuInv /\ InitInv /\ ForkInv /\ ShellInv
  BY DEF LocInv, CpuInv, InitInv, ForkInv, ShellInv
<1>3. FamilyInv  BY DEF FamilyInv
<1>4. WaiterHasReason  BY DEF WaiterHasReason, Childless
<1> QED  BY <1>1, <1>2, <1>3, <1>4 DEF IndInv

\* fork() takes a slot or fails.
LEMMA ForkStepKeeps == ASSUME NEW p \in Slot, IndInv, Fork(p) PROVE IndInv'
<1> USE DEF Fork, At
<1>1. CASE \E n \in Slot : state[n] = "UNUSED" /\ Take(p, n)
  BY <1>1, TakeKeeps
<1>2. CASE Goto(p, "return") /\ UNCHANGED <<procVars, np>>
  BY <1>2, ReturnKeeps DEF Interruptible
<1> QED  BY <1>1, <1>2

\* exit() and the end of trap().
LEMMA ExitKeeps == ASSUME NEW p \in Slot, IndInv, Exit(p) \/ TrapReturn(p) PROVE IndInv'
<1>1. CASE ExitNow(p) /\ panic = "none" /\ cpu = p /\ p # initproc
  BY <1>1, ExitNowKeeps
<1>2. CASE At(p, "return") /\ Goto(p, "user") /\ UNCHANGED <<procVars, np, cpu, lines, sh, panic>>
  BY <1>2, ReturnKeeps DEF At
<1>3. CASE panic' = "init exiting" /\ UNCHANGED <<procVars, loc, np, cpu, lines, sh>>
  BY <1>3, PanicKeeps
<1> QED  BY <1>1, <1>2, <1>3 DEF Exit, TrapReturn, At, IndInv, InitInv

\* The scan of wait(): it returns, reaps a zombie, or sleeps.
LEMMA WaitScanKeeps == ASSUME NEW p \in Slot, IndInv, WaitScan(p) PROVE IndInv'
<1> USE DEF WaitScan, At
<1>1. CASE Goto(p, "return") /\ UNCHANGED <<procVars, cpu, sh>>
  BY <1>1, ReturnKeeps
<1>2. CASE \E c \in Slot : parent[c] = p /\ state[c] = "ZOMBIE" /\ Reap(p, c)
  BY <1>2, ReapKeeps
<1>3. CASE Stops(p) = {} /\ ~Childless(p) /\ SleepNow(p) /\ UNCHANGED sh
  BY <1>3, SleepInWaitKeeps
<1> QED  BY <1>1, <1>2, <1>3 DEF Stops

\* Every step keeps IndInv.
LEMMA NextKeeps == IndInv /\ [Next]_vars => IndInv'
<1> SUFFICES ASSUME IndInv, [Next]_vars PROVE IndInv'  OBVIOUS
<1>1. CASE UNCHANGED vars
  <2> USE <1>1 DEF vars, procVars, IndInv
  <2>1. TypeOK'
    BY DEF TypeOK
  <2>2. LocInv'
    BY DEF LocInv, CpuInv
  <2>3. CpuInv'
    BY DEF CpuInv
  <2>4. InitInv'
    BY DEF InitInv
  <2>5. ForkInv'
    BY DEF ForkInv
  <2>6. FamilyInv'
    BY DEF FamilyInv
  <2>7. ShellInv'
    BY DEF ShellInv
  <2>8. WaiterHasReason'
    BY DEF WaiterHasReason, Childless
  <2> QED  BY <2>1, <2>2, <2>3, <2>4, <2>5, <2>6, <2>7, <2>8
<1>2. CASE Keyboard
  BY <1>2, NewlineKeeps, CtrlCKeeps, CtrlBKeeps, CtrlFKeeps DEF Keyboard
<1>3. ASSUME NEW p \in Slot, Dispatch(p) \/ Syscall(p) \/ ForkEnds(p) \/ Kernel(p)
      PROVE  IndInv'
  BY <1>3, DispatchKeeps, ForkStepKeeps, ForkFailKeeps, SchedulerStartKeeps, WaitKeeps,
     ReadKeeps, ExitKeeps, KillKeeps, CopyImageKeeps, ForkDoneKeeps, CustomForkDoneKeeps,
     WaitScanKeeps, ReadLoopKeeps
     DEF Syscall, ForkEnds, Kernel
<1>4. ASSUME NEW p \in Slot, NEW expired \in BOOLEAN, Tick(p, expired) PROVE IndInv'
  BY <1>4, TickKeeps
<1> QED  BY <1>1, <1>2, <1>3, <1>4 DEF Next, Halted

-----------------------------------------------------------------------------
\* IndInv holds in every reachable state.
THEOREM InductiveInvariant == Spec => []IndInv
BY InitEstablishes, NextKeeps, PTL DEF Spec

\* The fields of struct proc stay in their types; the ring of input never overflows.
THEOREM TypeCorrect == Spec => []TypeOK
<1>1. IndInv => TypeOK  BY DEF IndInv
<1> QED  BY <1>1, InductiveInvariant, PTL

\* Ctrl-B always brings the shell back from wait(): it never sleeps there behind a
\* suspended child, however the keys, fork() and exit() come.
THEOREM ShellComesBack == Spec => []ShellNotBehindSuspended
<1>1. IndInv => ShellNotBehindSuspended
  BY DEF IndInv, ShellInv, ShellNotBehindSuspended
<1> QED  BY <1>1, InductiveInvariant, PTL

\* exit() never misses a parent asleep in wait(), though the keys change states that
\* wait() and exit() rely on; the shell, which Ctrl-F puts to sleep, is excepted.
THEOREM NoLostWakeupInWait == Spec => []WaiterHasReason
<1>1. IndInv => WaiterHasReason  BY DEF IndInv
<1> QED  BY <1>1, InductiveInvariant, PTL

\* Every parent is a process that has not exited, though Ctrl-F wakes the dead.
THEOREM ParentsAreAlive == Spec => []ParentAlive
<1>1. IndInv => ParentAlive
  BY ZenonT(60) DEF IndInv, TypeOK, LocInv, FamilyInv, ParentAlive
<1> QED  BY <1>1, InductiveInvariant, PTL
=============================================================================
