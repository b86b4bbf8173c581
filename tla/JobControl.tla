----------------------------- MODULE JobControl -----------------------------
(***************************************************************************)
(* Job control in the kernel of src/xv6-public_2: the keyboard interrupt   *)
(* (Ctrl-C, Ctrl-B, Ctrl-F, a line of input) acts on the process table     *)
(* beneath fork, custom_fork, scheduler_start, exit, wait, kill and the    *)
(* reader of the console.  The Makefile starts one CPU: code that holds a  *)
(* spin lock runs with interrupts off, so it is one action, and an         *)
(* interrupt finds the CPU in user mode, in fork() between its two         *)
(* critical sections (before or after the child's image is copied), or     *)
(* idle.  The choice among RUNNABLE processes by dynamic priority is left  *)
(* open.                                                                   *)
(***************************************************************************)
EXTENDS Naturals, FiniteSets

CONSTANTS
    NPROC,          \* slots of the process table
    Key,            \* keys the user presses, of "C", "B", "F", "newline"
    ShellExits,     \* whether the user ends or kills the shell (init starts another)
    INPUT_BUF,      \* lines the console's ring buffer holds
    None            \* no slot

Slot == 1 .. NPROC

ASSUME JobAssumption ==
    /\ NPROC \in Nat /\ NPROC >= 2
    /\ Key \subseteq {"C", "B", "F", "newline"}
    /\ ShellExits \in BOOLEAN /\ INPUT_BUF \in Nat \ {0}
    /\ None \notin Slot

VARIABLES
    state, pid, parent, killed, b, exec_time,    \* struct proc
    loc,            \* where the process is, see Loc
    np,             \* the slot fork() is filling in for the process
    cpu,            \* c->proc
    lines,          \* input.w - input.r, in lines
    sh,             \* init's variable pid: the slot of its shell
    panic           \* the panic that stopped the machine

procVars == <<state, pid, parent, killed, b, exec_time>>
vars == <<procVars, loc, np, cpu, lines, sh, panic>>

ProcState == {"UNUSED", "EMBRYO", "SLEEPING", "RUNNABLE", "RUNNING", "ZOMBIE",
              "CUSTOM_WAIT"}

\* Positions: in user mode; in trap() before it returns to user mode; in fork()
\* after allocproc(); in the loops of wait() and consoleread(); nowhere, as the slot
\* has no image (UNUSED, or EMBRYO until fork() has copied it); past the end of exit().
Loc == {"user", "return", "fork", "wait", "read", "vacant", "exited"}

\* Pids: 3 stands for every pid above 2.
InitPid == 1
ShellPid == 2
JobPid == 3
Jobs == {s \in Slot : pid[s] = JobPid}

initproc == 1

TypeOK ==
    /\ state \in [Slot -> ProcState] /\ pid \in [Slot -> 0 .. JobPid]
    /\ parent \in [Slot -> Slot \cup {None}]
    /\ killed \in [Slot -> BOOLEAN] /\ b \in [Slot -> BOOLEAN]
    /\ exec_time \in [Slot -> BOOLEAN]
    /\ loc \in [Slot -> Loc] /\ np \in [Slot -> Slot \cup {None}]
    /\ cpu \in Slot \cup {None} /\ sh \in Slot \cup {None}
    /\ lines \in 0 .. INPUT_BUF
    /\ panic \in {"none", "zombie exit", "no image", "init exiting"}

\* init has forked the shell and waits; the shell is about to run.
Init ==
    /\ state = [s \in Slot |-> IF s = 1 THEN "SLEEPING"
                               ELSE IF s = 2 THEN "RUNNABLE" ELSE "UNUSED"]
    /\ pid = [s \in Slot |-> IF s <= 2 THEN s ELSE 0]
    /\ parent = [s \in Slot |-> IF s = 2 THEN initproc ELSE None]
    /\ killed = [s \in Slot |-> FALSE] /\ b = [s \in Slot |-> FALSE]
    /\ exec_time = [s \in Slot |-> FALSE]
    /\ loc = [s \in Slot |-> IF s = 1 THEN "wait"
                             ELSE IF s = 2 THEN "return" ELSE "vacant"]
    /\ np = [s \in Slot |-> None]
    /\ cpu = None /\ lines = 0 /\ sh = 2 /\ panic = "none"

At(p, where) == panic = "none" /\ cpu = p /\ loc[p] = where

\* wakeup1(): whoever sleeps at `where` among S becomes RUNNABLE.
Wakeup(st, where, S) ==
    [s \in Slot |-> IF s \in S /\ st[s] = "SLEEPING" /\ loc[s] = where
                    THEN "RUNNABLE" ELSE st[s]]

Goto(p, where) == loc' = [loc EXCEPT ![p] = where]

\* Scans of the table take the first slot that fits.
Lowest(n, S) == \A m \in S : n <= m

\* The second half of scheduler(), after p gave up the CPU: rtime grows by the ticks
\* p used, and at some tick it reaches exec_time.
Account(p, expired) ==
    /\ cpu' = None
    /\ killed' = [killed EXCEPT ![p] = @ \/ (exec_time[p] /\ expired)]

\* A tick takes the CPU from a process whose state is RUNNING; one whose state the
\* keyboard changed meanwhile keeps it over any number of ticks.
LeaveCpu(p) ==
    \E expired \in BOOLEAN : (state[p] = "RUNNING" => ~expired) /\ Account(p, expired)

Eligible(p) == state[p] = "RUNNABLE" /\ ~b[p]

\* scheduler() switches to p.  The context of an exited process resumes in exit(),
\* after sched(); a slot without a whole image has no kernel stack, no page table (or
\* the freed one of its last process), no trapframe, or no directory: the model stops.
Dispatch(p) ==
    /\ panic = "none" /\ cpu = None /\ Eligible(p)
    /\ panic' = CASE loc[p] = "exited" -> "zombie exit"
                  [] loc[p] = "vacant" -> "no image"
                  [] OTHER -> "none"
    /\ cpu' = p /\ state' = [state EXCEPT ![p] = "RUNNING"]
    /\ UNCHANGED <<pid, parent, killed, b, exec_time, loc, np, lines, sh>>

\* An interrupt is taken in user mode or between critical sections; it returns to
\* user mode through the end of trap().
Interruptible == panic = "none" /\ (cpu # None => loc[cpu] \in {"user", "fork"})
AfterInterrupt ==
    loc' = [s \in Slot |-> IF s = cpu /\ loc[s] = "user" THEN "return" ELSE loc[s]]

\* The timer interrupt: yield(), but only for a process whose state is RUNNING.
Tick(p, expired) ==
    /\ Interruptible /\ cpu = p /\ AfterInterrupt
    /\ IF state[p] = "RUNNING"
       THEN /\ state' = [state EXCEPT ![p] = "RUNNABLE"]
            /\ Account(p, expired)
       ELSE UNCHANGED <<state, cpu, killed>>
    /\ UNCHANGED <<pid, parent, b, exec_time, np, lines, sh, panic>>

\* fork() and custom_fork(): allocproc() takes the first UNUSED slot.
Take(p, n) ==
    /\ state' = [state EXCEPT ![n] = "EMBRYO"] /\ pid' = [pid EXCEPT ![n] = JobPid]
    /\ loc' = [loc EXCEPT ![p] = "fork", ![n] = "vacant"]
    /\ np' = [np EXCEPT ![p] = n]
    /\ UNCHANGED <<parent, killed, b, exec_time>>

Fork(p) ==
    /\ At(p, "user") /\ (pid[p] = InitPid => sh = None)
    /\ LET free == {s \in Slot : state[s] = "UNUSED"}
       IN  \/ /\ free = {} /\ pid[p] # InitPid
              /\ Goto(p, "return") /\ UNCHANGED <<procVars, np>>
           \/ \E n \in free : Lowest(n, free) /\ Take(p, n)
    /\ UNCHANGED <<cpu, lines, sh, panic>>

\* kalloc() or copyuvm() fails: the slot is UNUSED again and keeps its pid.
ForkFail(p) ==
    /\ At(p, "fork") /\ loc[np[p]] = "vacant" /\ pid[p] # InitPid
    /\ state' = [state EXCEPT ![np[p]] = "UNUSED"]
    /\ loc' = [loc EXCEPT ![p] = "return", ![np[p]] = "vacant"]
    /\ np' = [np EXCEPT ![p] = None]
    /\ UNCHANGED <<pid, parent, killed, b, exec_time, cpu, lines, sh, panic>>

\* copyuvm(), the parent, the trapframe, the files: the child could run in user mode.  It
\* is EMBRYO, unless Ctrl-F has made it RUNNABLE: then it may run before fork() ends.
CopyImage(p) ==
    LET n == np[p]
    IN  /\ At(p, "fork") /\ loc[n] = "vacant"
        /\ parent' = [parent EXCEPT ![n] = p]
        /\ loc' = [loc EXCEPT ![n] = "user"]
        /\ UNCHANGED <<state, pid, killed, b, exec_time, np, cpu, lines, sh, panic>>

\* The end of fork(): the child is made RUNNABLE with b = 0, whatever it has done;
\* exec_time is not touched.
ForkDone(p) ==
    LET n == np[p]
    IN  /\ At(p, "fork") /\ loc[n] # "vacant"
        /\ state' = [state EXCEPT ![n] = "RUNNABLE"]
        /\ b' = [b EXCEPT ![n] = FALSE]
        /\ Goto(p, "return")
        /\ np' = [np EXCEPT ![p] = None]
        /\ sh' = IF pid[p] = InitPid THEN n ELSE sh
        /\ UNCHANGED <<pid, parent, killed, exec_time, cpu, lines, panic>>

\* The end of custom_fork(): a child that starts later keeps the slot's old b.
CustomForkDone(p, start_later, limit) ==
    LET n == np[p]
    IN  /\ At(p, "fork") /\ loc[n] # "vacant" /\ pid[p] = JobPid
        /\ state' = [state EXCEPT ![n] = IF start_later THEN "CUSTOM_WAIT" ELSE "RUNNABLE"]
        /\ b' = [b EXCEPT ![n] = start_later /\ @]
        /\ exec_time' = [exec_time EXCEPT ![n] = limit]
        /\ Goto(p, "return")
        /\ np' = [np EXCEPT ![p] = None]
        /\ UNCHANGED <<pid, parent, killed, cpu, lines, sh, panic>>

\* sys_scheduler_start()
SchedulerStart(p) ==
    /\ At(p, "user") /\ pid[p] = JobPid
    /\ state' = [s \in Slot |-> IF state[s] = "CUSTOM_WAIT" THEN "RUNNABLE" ELSE state[s]]
    /\ Goto(p, "return")
    /\ UNCHANGED <<pid, parent, killed, b, exec_time, np, cpu, lines, sh, panic>>

ExitStatesBug(p) == [Wakeup(state, "wait", {parent[p]}) EXCEPT ![p] = "ZOMBIE"]

\* exit(): wake the parent, give the children to init, become a zombie for good.
ExitStates(p) ==
    LET orphans == {s \in Slot : parent[s] = p}
        woken == {parent[p]} \cup
                 {s \in {initproc} : \E o \in orphans : state[o] = "ZOMBIE"}
    IN  [Wakeup(state, "wait", woken) EXCEPT ![p] = "ZOMBIE"]

ReparentBug(p) ==
    [s \in Slot |-> IF parent[s] = p /\ state[s] = "ZOMBIE" THEN initproc ELSE parent[s]]
Reparent(p) == [s \in Slot |-> IF parent[s] = p THEN initproc ELSE parent[s]]

ExitNow(p) ==
    /\ state' = ExitStates(p)
    /\ parent' = Reparent(p)
    /\ Goto(p, "exited")
    /\ LeaveCpu(p)
    /\ UNCHANGED <<pid, b, exec_time, np, lines, sh, panic>>

Exit(p) ==
    /\ At(p, "user") /\ pid[p] # InitPid /\ (p = sh => ShellExits)
    /\ ExitNow(p)

\* kill(): the first slot with the pid is marked, whatever its state, and woken.  UNUSED
\* slots have pid 0, or the one of a fork that failed.
Kill(p, s) ==
    /\ At(p, "user") /\ pid[p] = JobPid
    /\ pid[s] = ShellPid => ShellExits
    /\ pid[s] = 0 => Lowest(s, {t \in Slot : pid[t] = 0})
    /\ killed' = [killed EXCEPT ![s] = TRUE]
    /\ state' = [state EXCEPT ![s] = IF @ = "SLEEPING" THEN "RUNNABLE" ELSE @]
    /\ Goto(p, "return")
    /\ UNCHANGED <<pid, parent, b, exec_time, np, cpu, lines, sh, panic>>

\* The end of trap(): a killed process exits, which init must not; any other returns to
\* user mode.
TrapReturn(p) ==
    /\ At(p, "return")
    /\ \/ killed[p] /\ p # initproc /\ ExitNow(p)
       \/ /\ killed[p] /\ p = initproc /\ panic' = "init exiting"
          /\ UNCHANGED <<procVars, loc, np, cpu, lines, sh>>
       \/ ~killed[p] /\ Goto(p, "user") /\ UNCHANGED <<procVars, np, cpu, lines, sh, panic>>

\* sleep(): p leaves the CPU at its place in a loop that tests again.
SleepNow(p) ==
    /\ state' = [state EXCEPT ![p] = "SLEEPING"]
    /\ LeaveCpu(p)
    /\ UNCHANGED <<pid, parent, b, exec_time, loc>>

\* wait() from user mode: its loop holds ptable.lock from here on.
Wait(p) ==
    /\ At(p, "user") /\ (pid[p] = InitPid => sh # None)
    /\ Goto(p, "wait") /\ UNCHANGED <<procVars, np, cpu, lines, sh, panic>>

\* The children at which the scan of wait() stops: a zombie, or for the process
\* with the shell's pid one that Ctrl-B suspended.
SuspendedBug(p, c) == pid[p] = ShellPid /\ b[p]
Suspended(p, c) == pid[p] = ShellPid /\ b[c]
Stops(p) == {c \in Slot : parent[c] = p /\ (state[c] = "ZOMBIE" \/ Suspended(p, c))}
Childless(p) == \A c \in Slot : parent[c] # p

Reap(p, c) ==
    /\ state' = [state EXCEPT ![c] = "UNUSED"] /\ pid' = [pid EXCEPT ![c] = 0]
    /\ parent' = [parent EXCEPT ![c] = None] /\ killed' = [killed EXCEPT ![c] = FALSE]
    /\ sh' = IF p = initproc /\ c = sh THEN None ELSE sh
    /\ loc' = [loc EXCEPT ![p] = "return", ![c] = "vacant"]
    /\ UNCHANGED <<b, exec_time, cpu>>

WaitScan(p) ==
    /\ At(p, "wait")
    /\ LET returns == Goto(p, "return") /\ UNCHANGED <<procVars, cpu, sh>>
       IN  \/ \E c \in Stops(p) : /\ Lowest(c, Stops(p))
                                  /\ IF state[c] = "ZOMBIE" THEN Reap(p, c) ELSE returns
           \/ /\ Stops(p) = {}
              /\ IF Childless(p) \/ killed[p] THEN returns ELSE SleepNow(p) /\ UNCHANGED sh
    /\ UNCHANGED <<np, lines, panic>>

\* consoleread()
Read(p) ==
    /\ At(p, "user") /\ pid[p] # InitPid
    /\ Goto(p, "read") /\ UNCHANGED <<procVars, np, cpu, lines, sh, panic>>

ReadLoop(p) ==
    /\ At(p, "read")
    /\ IF lines = 0 /\ ~killed[p]
       THEN SleepNow(p) /\ UNCHANGED lines
       ELSE /\ lines' = IF lines = 0 THEN 0 ELSE lines - 1
            /\ Goto(p, "return")
            /\ UNCHANGED <<procVars, cpu>>
    /\ UNCHANGED <<np, sh, panic>>

HasRoomBug == lines <= INPUT_BUF
HasRoom == lines < INPUT_BUF

\* The keyboard interrupt, consoleintr().  A newline wakes the readers.
Newline ==
    /\ "newline" \in Key /\ Interruptible /\ AfterInterrupt
    /\ HasRoom
    /\ lines' = lines + 1
    /\ state' = Wakeup(state, "read", Slot)
    /\ UNCHANGED <<pid, parent, killed, b, exec_time, np, cpu, sh, panic>>

\* Ctrl-C marks every job killed and wakes none.
CtrlC ==
    /\ "C" \in Key /\ Interruptible /\ AfterInterrupt
    /\ killed' = [s \in Slot |-> killed[s] \/ s \in Jobs]
    /\ UNCHANGED <<state, pid, parent, b, exec_time, np, cpu, lines, sh, panic>>

\* Ctrl-B suspends every job that is not a zombie, makes the shell RUNNABLE whatever it
\* was doing, and wakes the channel the shell sleeps on: that of all readers, perhaps.
CtrlB ==
    /\ "B" \in Key /\ Interruptible /\ AfterInterrupt
    /\ b' = [s \in Slot |-> b[s] \/ (s \in Jobs /\ state[s] # "ZOMBIE")]
    /\ LET readers == {s \in Slot : \E t \in Slot : pid[t] = ShellPid /\ loc[t] = "read"}
       IN  state' = Wakeup([s \in Slot |-> IF pid[s] = ShellPid THEN "RUNNABLE" ELSE state[s]],
                           "read", readers)
    /\ UNCHANGED <<pid, parent, killed, exec_time, np, cpu, lines, sh, panic>>

\* Ctrl-F makes every suspended job RUNNABLE, whatever it was doing, and puts the
\* shell to sleep.
CtrlF ==
    /\ "F" \in Key /\ Interruptible /\ AfterInterrupt
    /\ b' = [s \in Slot |-> b[s] /\ s \notin Jobs]
    /\ state' = [s \in Slot |-> CASE s \in Jobs /\ b[s] -> "RUNNABLE"
                                  [] pid[s] = ShellPid -> "SLEEPING"
                                  [] OTHER -> state[s]]
    /\ UNCHANGED <<pid, parent, killed, exec_time, np, cpu, lines, sh, panic>>

\* panic() never returns.
Halted == panic # "none" /\ UNCHANGED vars

Syscall(p) ==
    \/ Fork(p) \/ SchedulerStart(p) \/ Wait(p) \/ Read(p) \/ Exit(p)
    \/ \E s \in Slot : Kill(p, s)

ForkEnds(p) ==
    \/ ForkFail(p) \/ CopyImage(p) \/ ForkDone(p)
    \/ \E later \in BOOLEAN, limit \in BOOLEAN : CustomForkDone(p, later, limit)

\* Steps the kernel takes by itself, with interrupts off.
Kernel(p) == TrapReturn(p) \/ WaitScan(p) \/ ReadLoop(p)

Keyboard == Newline \/ CtrlC \/ CtrlB \/ CtrlF

Next ==
    \/ Keyboard \/ Halted
    \/ \E p \in Slot :
        \/ Dispatch(p) \/ Syscall(p) \/ ForkEnds(p) \/ Kernel(p)
        \/ \E expired \in BOOLEAN : Tick(p, expired)

Spec == Init /\ [][Next]_vars
-----------------------------------------------------------------------------
\* While the shell sleeps in wait(), none of its children is suspended: Ctrl-B may
\* find the shell, the child and wait()'s scan in any order, and the shell still
\* comes back to its prompt (proc.c:396, console.c:324).
ShellNotBehindSuspended ==
    \A s \in Slot : pid[s] = ShellPid /\ state[s] = "SLEEPING" /\ loc[s] = "wait" =>
        \A c \in Slot : parent[c] = s => ~b[c]

\* A process other than the shell that sleeps in wait() has a child, and none that
\* it could reap: no wakeup is missed, whatever the keyboard does to the children.
\* (Ctrl-F may put a shell with a zombie child to sleep, see the README.)
WaiterHasReason ==
    \A p \in Slot : state[p] = "SLEEPING" /\ loc[p] = "wait" /\ pid[p] # ShellPid =>
        /\ ~Childless(p)
        /\ \A c \in Slot : parent[c] = p => state[c] # "ZOMBIE"

\* Parents outlive their children's slots: the parent of a process is a process,
\* never a zombie and never an UNUSED slot, though Ctrl-F may wake the dead.
ParentAlive ==
    \A p \in Slot : parent[p] # None /\ state[p] # "UNUSED" =>
        state[parent[p]] \notin {"UNUSED", "EMBRYO"} /\ loc[parent[p]] # "exited"

\* The assertion at the end of exit() (proc.c:358): control never comes back to a
\* process that has exited.
NoZombieExit == panic # "zombie exit"
=============================================================================
