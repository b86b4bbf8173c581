-------------------------------- MODULE Memory --------------------------------
(***************************************************************************)
(* Physical pages and the address spaces made of them                      *)
(* (src/xv6-public_1/kalloc.c, vm.c; fork, exit, wait and growproc in      *)
(* proc.c; exec and gethistory in exec.c).  A kalloc() or a kfree() is one *)
(* step, so that processes compete for the last pages in the middle of     *)
(* each other's calls.  Pages are counted, not told apart; files, names    *)
(* and the contents of memory are left out.                                *)
(***************************************************************************)
EXTENDS Integers, Sequences, FiniteSets, SequencesExt

CONSTANTS
    NPROC,          \* param.h: slots of ptable.proc; slot 1 is init's
    NPAGES,         \* pages that kinit1() and kinit2() put on the free list
    PGSIZE,         \* mmu.h: bytes of a page
    SPAN,           \* mmu.h, NPTENTRIES: pages that one page table maps
    KTABS,          \* page tables that the mappings of kmap[] need
    KERNBASE,       \* memlayout.h: end of user memory
    UINT,           \* 2^32, where an unsigned size wraps
    Image,          \* sizes of the programs that exec() may load
    Delta,          \* arguments of sbrk()
    MAX_LIMIT,      \* history_struct.h: room in hist_arr
    MaxPid,         \* bound: no fork once this pid is given out
    None            \* no slot

Slot == 1 .. NPROC
InitProc == 1

ASSUME MemoryAssumption ==
    /\ NPROC \in Nat \ {0} /\ None \notin Slot
    /\ {PGSIZE, SPAN, KTABS, MAX_LIMIT, MaxPid} \subseteq Nat \ {0}
    /\ NPAGES \in Nat /\ NPAGES >= 4 + KTABS
    /\ KERNBASE \in Nat /\ KERNBASE % PGSIZE = 0 /\ KERNBASE > PGSIZE
    /\ UINT \in Nat /\ UINT >= 2 * KERNBASE
    /\ Image \subseteq Nat \ {0} /\ Delta \subseteq -KERNBASE .. KERNBASE

VARIABLES
    free,                               \* length of kmem.freelist
    state, pid, parent, check, kstack, vm, sz,      \* struct proc
    nextpid, hist,                      \* hist: pids in hist_arr
    pc, work,                           \* per process: position and locals
    ran, hollow                         \* history variables, see ExecDone and Shrink

procVars == <<state, pid, parent, check, kstack, vm, sz>>
histVars == <<nextpid, hist, ran>>
vars == <<free, procVars, histVars, pc, work, hollow>>

\* An address space: the page directory, the kernel's page tables, the user page
\* tables (by number) and the user pages (by number).
NoVm == [dir |-> FALSE, ktab |-> 0, tables |-> {}, pages |-> {}]
Held(v) == (IF v.dir THEN 1 ELSE 0) + v.ktab + Cardinality(v.tables) + Cardinality(v.pages)

PGROUNDUP(a) == ((a + PGSIZE - 1) \div PGSIZE) * PGSIZE
UserPage == 0 .. (KERNBASE \div PGSIZE) - 1

\* Pages that allocuvm(lo, hi) maps and deallocuvm(hi, lo) frees.
PagesInBug(lo, hi) == {i \in UserPage : PGROUNDUP(lo) <= i * PGSIZE /\ i * PGSIZE + PGSIZE <= hi}
PagesIn(lo, hi) == {i \in UserPage : PGROUNDUP(lo) <= i * PGSIZE /\ i * PGSIZE < hi}

\* Locals of a call: the slot being filled or reaped, the page table being built,
\* whether a page has been allocated and not mapped yet, how far the copying or
\* growing loop is and where it ends, and the pages still to be freed.
NoWork == [op |-> "none", kid |-> None, new |-> NoVm, mem |-> FALSE, va |-> 0,
           goal |-> 0, junk |-> 0]

Vm == [dir : BOOLEAN, ktab : Nat, tables : SUBSET UserPage, pages : SUBSET UserPage]
Work == [op : {"none", "fork", "exec", "stack", "sbrk", "shrink"}, kid : Slot \cup {None}, new : Vm,
         mem : BOOLEAN, va : Nat, goal : Nat, junk : Nat]
TypeOK ==
    /\ free \in Nat /\ nextpid \in Nat /\ hist \in Seq(Nat) /\ ran \subseteq Nat /\ hollow \subseteq Slot
    /\ state \in [Slot -> {"UNUSED", "EMBRYO", "LIVE", "ZOMBIE"}]
    /\ pid \in [Slot -> Nat] /\ parent \in [Slot -> Slot \cup {None}]
    /\ check \in [Slot -> BOOLEAN] /\ kstack \in [Slot -> BOOLEAN]
    /\ vm \in [Slot -> Vm] /\ sz \in [Slot -> Nat]
    /\ pc \in [Slot -> {"none", "user", "kstack", "setup", "page", "map", "free", "reap", "panic"}]
    /\ work \in [Slot -> Work]

\* Positions: none: no thread; user; kstack: in allocproc(); setup: in setupkvm();
\* page: at the head of the loop; map: in mappages(); free: freeing pages;
\* reap: freeing a zombie's pages in wait(), with ptable.lock.
Init ==
    /\ free = NPAGES - (4 + KTABS)
    /\ state = [q \in Slot |-> IF q = InitProc THEN "LIVE" ELSE "UNUSED"]
    /\ pid = [q \in Slot |-> IF q = InitProc THEN 1 ELSE 0]
    /\ parent = [q \in Slot |-> None] /\ check = [q \in Slot |-> FALSE]
    /\ kstack = [q \in Slot |-> q = InitProc]
    /\ vm = [q \in Slot |->
               IF q = InitProc
               THEN [dir |-> TRUE, ktab |-> KTABS, tables |-> {0}, pages |-> {0}]
               ELSE NoVm]
    /\ sz = [q \in Slot |-> IF q = InitProc THEN PGSIZE ELSE 0]
    /\ nextpid = 2 /\ hist = <<>>
    /\ pc = [q \in Slot |-> IF q = InitProc THEN "user" ELSE "none"]
    /\ work = [q \in Slot |-> NoWork]
    /\ ran = {} /\ hollow = {}

At(p, where) == pc[p] = where
Goto(p, where) == pc' = [pc EXCEPT ![p] = where]
PtableFree == \A q \in Slot : ~At(q, "reap")
MinOf(S) == CHOOSE q \in S : \A r \in S : q <= r

Return(p) == Goto(p, "user") /\ work' = [work EXCEPT ![p] = NoWork]
Panic(p) == Goto(p, "panic") /\ UNCHANGED <<free, procVars, histVars, work, hollow>>

\* The failure path of the call that p is in: copyuvm() and exec() free the whole new
\* page table, allocuvm() the pages it has mapped (their page tables stay).
InHandBug(w) == 0
InHand(w) == IF w.mem THEN 1 ELSE 0
Undo(p) ==
    LET w == work[p]
        grown == vm[p].pages \cap PagesIn(sz[p], w.goal)
    IN  /\ Goto(p, "free")
        /\ IF w.op = "sbrk"
           THEN /\ vm' = [vm EXCEPT ![p].pages = @ \ grown]
                /\ work' = [work EXCEPT ![p].junk = Cardinality(grown) + InHand(w),
                                        ![p].mem = FALSE]
           ELSE /\ work' = [work EXCEPT ![p].junk = Held(w.new) + InHand(w),
                                        ![p].mem = FALSE, ![p].new = NoVm]
                /\ UNCHANGED vm
        /\ UNCHANGED <<free, state, pid, parent, check, kstack, sz, histVars, hollow>>
-----------------------------------------------------------------------------
\* fork(): allocproc() takes the first unused slot, under ptable.lock, and allocates
\* the kernel stack without it.
NewbornBug(q) == UNCHANGED check
Newborn(q) == check' = [check EXCEPT ![q] = FALSE]
AllocProc(p) ==
    LET unused == {q \in Slot : state[q] = "UNUSED"}
        q == MinOf(unused)
    IN  /\ At(p, "user") /\ PtableFree /\ unused # {} /\ nextpid <= MaxPid
        /\ state' = [state EXCEPT ![q] = "EMBRYO"]
        /\ pid' = [pid EXCEPT ![q] = nextpid] /\ nextpid' = nextpid + 1
        /\ Newborn(q)
        /\ Goto(p, "kstack")
        /\ work' = [work EXCEPT ![p].op = "fork", ![p].kid = q, ![p].goal = sz[p]]
        /\ UNCHANGED <<free, parent, kstack, vm, sz, hist, ran, hollow>>

AllocStack(p) ==
    LET q == work[p].kid
    IN  /\ At(p, "kstack")
        /\ IF free = 0
           THEN /\ state' = [state EXCEPT ![q] = "UNUSED"]
                /\ Return(p) /\ UNCHANGED <<free, kstack>>
           ELSE /\ kstack' = [kstack EXCEPT ![q] = TRUE] /\ free' = free - 1
                /\ Goto(p, "setup") /\ UNCHANGED <<state, work>>
        /\ UNCHANGED <<pid, parent, check, vm, sz, histVars, hollow>>

\* exec() of a program of n bytes; one that fails before setupkvm() changes nothing.
ExecBegin(p, n) ==
    /\ At(p, "user")
    /\ work' = [work EXCEPT ![p].op = "exec", ![p].goal = n]
    /\ Goto(p, "setup")
    /\ UNCHANGED <<free, procVars, histVars, hollow>>

\* setupkvm(): the page directory, then the page tables of the kernel's mappings.
Setup(p) ==
    /\ At(p, "setup")
    /\ IF free = 0 THEN Undo(p)
       ELSE LET w == work[p].new
                v == IF w.dir THEN [w EXCEPT !.ktab = @ + 1] ELSE [w EXCEPT !.dir = TRUE]
            IN  /\ free' = free - 1
                /\ work' = [work EXCEPT ![p].new = v]
                /\ Goto(p, IF v.ktab = KTABS THEN "page" ELSE "setup")
                /\ UNCHANGED <<procVars, histVars, hollow>>

\* The loop of allocuvm() and copyuvm(): a page, then its mapping, which may need a
\* page table.  copyuvm() panics if the parent's page is not there.
AtPage(p) == At(p, "page") /\ work[p].va < work[p].goal
Missing(p) == work[p].op = "fork" /\ work[p].va \div PGSIZE \notin vm[p].pages

AllocPage(p) ==
    /\ AtPage(p) /\ work[p].goal < KERNBASE
    /\ IF Missing(p) THEN Panic(p)
       ELSE IF free = 0 THEN Undo(p)
       ELSE /\ free' = free - 1
            /\ work' = [work EXCEPT ![p].mem = TRUE]
            /\ Goto(p, "map")
            /\ UNCHANGED <<procVars, histVars, hollow>>

\* allocuvm() refuses to reach KERNBASE; only exec() asks for it, sbrk() see Sbrk.
TooBig(p) == AtPage(p) /\ work[p].goal >= KERNBASE /\ Undo(p)

Mapped(v, i) == [v EXCEPT !.pages = @ \cup {i}, !.tables = @ \cup {i \div SPAN}]
MapPage(p) ==
    LET w == work[p]
        target == IF w.op = "sbrk" THEN vm[p] ELSE w.new
        i == w.va \div PGSIZE
        table == IF i \div SPAN \in target.tables THEN 0 ELSE 1
        next == [w EXCEPT !.mem = FALSE, !.va = @ + PGSIZE]
    IN  /\ At(p, "map")
        /\ IF free < table THEN Undo(p)
           ELSE IF i \in target.pages THEN Panic(p)
           ELSE /\ free' = free - table
                /\ Goto(p, "page")
                /\ IF w.op = "sbrk"
                   THEN /\ vm' = [vm EXCEPT ![p] = Mapped(@, i)]
                        /\ work' = [work EXCEPT ![p] = next]
                   ELSE /\ work' = [work EXCEPT ![p] = [next EXCEPT !.new = Mapped(@, i)]]
                        /\ UNCHANGED vm
                /\ UNCHANGED <<state, pid, parent, check, kstack, sz, histVars, hollow>>

LoopDone(p, op) == At(p, "page") /\ work[p].op = op /\ work[p].va >= work[p].goal

ForkDone(p) ==
    LET q == work[p].kid
    IN  /\ LoopDone(p, "fork") /\ PtableFree
        /\ vm' = [vm EXCEPT ![q] = work[p].new] /\ sz' = [sz EXCEPT ![q] = sz[p]]
        /\ parent' = [parent EXCEPT ![q] = p]
        /\ state' = [state EXCEPT ![q] = "LIVE"]
        /\ pc' = [pc EXCEPT ![p] = "user", ![q] = "user"]
        /\ work' = [work EXCEPT ![p] = NoWork]
        /\ UNCHANGED <<free, pid, check, kstack, histVars, hollow>>

\* exec() goes on with the guard page and the stack, commits to the new image and
\* frees the old one.
ExecStack(p) ==
    /\ LoopDone(p, "exec")
    /\ work' = [work EXCEPT ![p].op = "stack",
                            ![p].goal = PGROUNDUP(@) + 2 * PGSIZE]
    /\ UNCHANGED <<free, procVars, histVars, pc, hollow>>

ExecDone(p) ==
    /\ LoopDone(p, "stack")
    /\ vm' = [vm EXCEPT ![p] = work[p].new] /\ sz' = [sz EXCEPT ![p] = work[p].goal]
    /\ check' = [check EXCEPT ![p] = TRUE]
    /\ ran' = ran \cup {pid[p]} /\ hollow' = hollow \ {p}
    /\ work' = [work EXCEPT ![p].junk = Held(vm[p]), ![p].new = NoVm]
    /\ Goto(p, "free")
    /\ UNCHANGED <<free, state, pid, parent, kstack, nextpid, hist>>

\* A bad file, or arguments that do not fit the stack.
ExecFails(p) ==
    /\ \/ At(p, "page") /\ work[p].op = "exec" /\ work[p].va = 0
       \/ LoopDone(p, "exec") \/ LoopDone(p, "stack")
    /\ Undo(p)
-----------------------------------------------------------------------------
\* growproc(n).  The new size is unsigned: a size below 0 is above every other, and
\* deallocuvm() keeps the old one.
NewSize(p, n) == (sz[p] + n) % UINT

Grow(p, n) ==
    /\ At(p, "user") /\ n > 0 /\ NewSize(p, n) < KERNBASE
    /\ work' = [work EXCEPT ![p].op = "sbrk", ![p].goal = NewSize(p, n),
                            ![p].va = PGROUNDUP(sz[p])]
    /\ Goto(p, "page")
    /\ UNCHANGED <<free, procVars, histVars, hollow>>

GrowDone(p) ==
    /\ LoopDone(p, "sbrk") /\ sz' = [sz EXCEPT ![p] = work[p].goal]
    /\ Return(p)
    /\ UNCHANGED <<free, state, pid, parent, check, kstack, vm, histVars, hollow>>

\* Size 0 is deallocuvm()'s result for a process that gives everything back and
\* growproc()'s sign of a failure: the pages are gone and sz stays.
Shrink(p, n) ==
    LET gone == vm[p].pages \cap PagesIn(NewSize(p, n), sz[p])
    IN  /\ At(p, "user") /\ n < 0 /\ NewSize(p, n) < sz[p]
        /\ vm' = [vm EXCEPT ![p].pages = @ \ gone]
        /\ work' = [work EXCEPT ![p].op = "shrink", ![p].junk = Cardinality(gone)]
        /\ IF NewSize(p, n) = 0
           THEN hollow' = hollow \cup {p} /\ UNCHANGED sz
           ELSE sz' = [sz EXCEPT ![p] = NewSize(p, n)] /\ UNCHANGED hollow
        /\ Goto(p, "free")
        /\ UNCHANGED <<free, state, pid, parent, check, kstack, histVars>>
-----------------------------------------------------------------------------
\* kfree(), in deallocuvm(), in freevm() and of a page not mapped; then the call ends.
\* A failed fork() also frees the kernel stack, and the slot without ptable.lock.
Kfree(p) ==
    /\ pc[p] \in {"free", "reap"} /\ work[p].junk > 0
    /\ free' = free + 1 /\ work' = [work EXCEPT ![p].junk = @ - 1]
    /\ UNCHANGED <<procVars, histVars, pc, hollow>>

FreeDone(p) ==
    LET q == work[p].kid
    IN  /\ At(p, "free") /\ work[p].junk = 0
        /\ IF work[p].op = "fork"
           THEN /\ free' = free + 1
                /\ kstack' = [kstack EXCEPT ![q] = FALSE]
                /\ state' = [state EXCEPT ![q] = "UNUSED"]
           ELSE UNCHANGED <<free, kstack, state>>
        /\ Return(p)
        /\ UNCHANGED <<pid, parent, check, vm, sz, histVars, hollow>>

\* exit() records the process if it has run exec() and there is room.
Exit(p) ==
    /\ At(p, "user") /\ p # InitProc /\ PtableFree
    /\ state' = [state EXCEPT ![p] = "ZOMBIE"]
    /\ parent' = [q \in Slot |-> IF parent[q] = p THEN InitProc ELSE parent[q]]
    /\ hist' = IF check[p] /\ Len(hist) < MAX_LIMIT THEN Append(hist, pid[p]) ELSE hist
    /\ hollow' = hollow \ {p} /\ Goto(p, "none")
    /\ UNCHANGED <<free, pid, check, kstack, vm, sz, nextpid, ran, work>>

\* wait() frees the first zombie child it finds, holding ptable.lock.
Reap(p) ==
    LET zombies == {q \in Slot : parent[q] = p /\ state[q] = "ZOMBIE"}
        q == MinOf(zombies)
    IN  /\ At(p, "user") /\ PtableFree /\ zombies # {}
        /\ work' = [work EXCEPT ![p].kid = q, ![p].junk = Held(vm[q]) + 1]
        /\ kstack' = [kstack EXCEPT ![q] = FALSE] /\ vm' = [vm EXCEPT ![q] = NoVm]
        /\ Goto(p, "reap")
        /\ UNCHANGED <<free, state, pid, parent, check, sz, histVars, hollow>>

ReapDone(p) ==
    LET q == work[p].kid
    IN  /\ At(p, "reap") /\ work[p].junk = 0
        /\ pid' = [pid EXCEPT ![q] = 0] /\ parent' = [parent EXCEPT ![q] = None]
        /\ state' = [state EXCEPT ![q] = "UNUSED"]
        /\ Return(p)
        /\ UNCHANGED <<free, check, kstack, vm, sz, histVars, hollow>>

\* gethistory() sorts hist_arr in place, by exchanging neighbours.
Exchange(s, j) == IF s[j] > s[j + 1] THEN [s EXCEPT ![j] = s[j + 1], ![j + 1] = s[j]] ELSE s
SortPass(s, n) ==
    LET pass[j \in 0 .. n - 1] == IF j = 0 THEN s ELSE Exchange(pass[j - 1], j) IN pass[n - 1]
HistSorted ==
    LET n == Len(hist)
        sorted[i \in 0 .. n] == IF i = 0 THEN hist ELSE SortPass(sorted[i - 1], n - i + 1)
    IN  sorted[n]
GetHistory(p) ==
    /\ At(p, "user") /\ hist' = HistSorted
    /\ UNCHANGED <<free, procVars, nextpid, ran, pc, work, hollow>>

Halted == \E p \in Slot : At(p, "panic")

Next ==
    \/ \E p \in Slot :
          /\ ~Halted
          /\ \/ AllocProc(p) \/ AllocStack(p) \/ Setup(p) \/ AllocPage(p) \/ TooBig(p)
             \/ MapPage(p) \/ ForkDone(p) \/ ExecStack(p) \/ ExecDone(p) \/ ExecFails(p)
             \/ GrowDone(p) \/ Kfree(p) \/ FreeDone(p) \/ Exit(p) \/ Reap(p)
             \/ ReapDone(p) \/ GetHistory(p)
             \/ \E n \in Image : ExecBegin(p, n)
             \/ \E n \in Delta : Grow(p, n) \/ Shrink(p, n)
    \/ Halted /\ UNCHANGED vars

Spec == Init /\ [][Next]_vars
-----------------------------------------------------------------------------
Total(f) == LET sum[p \in 0 .. NPROC] == IF p = 0 THEN 0 ELSE sum[p - 1] + f[p] IN sum[NPROC]

\* Pages that belong to slot p: its kernel stack and its address space; and what the call
\* that p is in has in hand.
Own(p) == (IF kstack[p] THEN 1 ELSE 0) + Held(vm[p]) + Held(work[p].new) + (IF work[p].mem THEN 1 ELSE 0) + work[p].junk

\* No page is lost and none is freed twice: at every moment each of the NPAGES pages is
\* on the free list, a kernel stack, part of one address space, or held by one call
\* that will map or free it.  Every failure path of fork(), exec(), sbrk() and wait()
\* can be taken in the middle of another's (kalloc.c, vm.c).
PagesConserved ==
    /\ free \in 0 .. NPAGES
    /\ free + Total([p \in Slot |-> Own(p)]) = NPAGES

\* Between calls a process has exactly the pages below sz, each under a page table of
\* its own: a call that failed half way has left no hole and nothing extra, and the
\* panics of copyuvm() and mappages() (vm.c:327-329, vm.c:72) are out of reach.  Only a
\* process that gave back all its memory is excepted, see Shrink.
ImageWhole ==
    \A p \in Slot \ hollow :
        /\ At(p, "user") => /\ vm[p].pages = {i \in UserPage : i * PGSIZE < sz[p]}
                            /\ {i \div SPAN : i \in vm[p].pages} \subseteq vm[p].tables
        /\ ~At(p, "panic")

\* The history holds each process that ran a program and has exited, once, until
\* it is full; no process that only forked, also when its slot was used before.
HistoryComplete ==
    LET gone == ran \ {pid[q] : q \in {r \in Slot : state[r] = "LIVE"}}
    IN  /\ IsInjective(hist) /\ ToSet(hist) \subseteq gone
        /\ Len(hist) = IF Cardinality(gone) < MAX_LIMIT THEN Cardinality(gone) ELSE MAX_LIMIT
=============================================================================
