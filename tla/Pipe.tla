-------------------------------- MODULE Pipe --------------------------------
(***************************************************************************)
(* Pipes, the file table and file descriptors                              *)
(* (src/xv6-public_1/pipe.c, file.c, and pipe, dup, close, read and write  *)
(* of sysfile.c) under fork, exit and kill.  A critical section of         *)
(* ftable.lock or of a pipe's lock is one action, but for the window       *)
(* between the test of killed and going to sleep, where the pipe's lock    *)
(* keeps out everybody but kill(), which takes ptable.lock only; between   *)
(* the last fileclose() of a file and the pipeclose() that follows, others *)
(* run.                                                                    *)
(***************************************************************************)
EXTENDS Naturals, Sequences, FiniteSets, FiniteSetsExt

CONSTANTS
    Proc, First,    \* processes, each of which lives once; the one that runs at first
    NFILE,          \* slots of the file table
    NOFILE,         \* descriptors of a process
    Page, NoPage,   \* pages kalloc() may give to a pipe
    PIPESIZE,       \* bytes a pipe holds
    WRAP,           \* 2^32: where nread and nwrite wrap around
    Byte, Junk,     \* bytes; what kfree() leaves in a page (its counters it leaves at 0)
    Payload         \* what one write() may write

File == 1 .. NFILE
Fd == 0 .. NOFILE - 1
NoFile == 0

ASSUME PipeAssumption ==
    /\ IsFiniteSet(Proc) /\ First \in Proc /\ Junk \in Byte /\ NoPage \notin Page
    /\ NFILE \in Nat /\ NOFILE \in Nat \ {0} /\ \A s \in Payload : s \in Seq(Byte)
    /\ PIPESIZE \in Nat \ {0} /\ WRAP \in Nat
    /\ WRAP % PIPESIZE = 0 /\ WRAP > PIPESIZE

VARIABLES
    ref, type, writable, pipe,                  \* struct file
    ofile,                                      \* per process: descriptors
    used, data, nread, nwrite, readopen, writeopen,     \* struct pipe, per page
    pc, killed,
    arg,            \* per process: the file or files of the call in progress
    rest,           \* bytes pipewrite() has still to write
    want,           \* bytes piperead() wants
    shut            \* fileclose()'s copy of the file that goes: pipe and writable

fileVars == <<ref, type, writable, pipe>>
pipeVars == <<used, data, nread, nwrite, readopen, writeopen>>
callVars == <<arg, rest, want, shut>>
vars == <<fileVars, ofile, pipeVars, pc, killed, callVars>>

\* Positions: not yet forked; gone; in user mode; in pipealloc() before the second filealloc() and
\* before kalloc(); before fileclose() of the files in arg; in exit()'s loop, where arg is
\* the file to close; before pipeclose(); in piperead() and pipewrite(); about to sleep there,
\* with the pipe's lock (rdoze, wdoze), and asleep.
PC == {"absent", "gone", "user", "pipe1", "pipe2", "close", "exit", "pipeclose", "exit_pipeclose",
       "read", "rdoze", "rsleep", "write", "wdoze", "wsleep"}

NoShut == [pipe |-> NoPage, writable |-> FALSE]

TypeOK ==
    /\ ref \in [File -> Nat]
    /\ type \in [File -> {"FD_NONE", "FD_PIPE"}] /\ writable \in [File -> BOOLEAN]
    /\ pipe \in [File -> Page \cup {NoPage}]
    /\ ofile \in [Proc -> [Fd -> File \cup {NoFile}]]
    /\ used \in [Page -> BOOLEAN] /\ data \in [Page -> [0 .. PIPESIZE - 1 -> Byte]]
    /\ nread \in [Page -> 0 .. WRAP - 1] /\ nwrite \in [Page -> 0 .. WRAP - 1]
    /\ readopen \in [Page -> BOOLEAN] /\ writeopen \in [Page -> BOOLEAN]
    /\ pc \in [Proc -> PC] /\ killed \in [Proc -> BOOLEAN]
    /\ arg \in [Proc -> Seq(File)] /\ rest \in [Proc -> Seq(Byte)]
    /\ want \in [Proc -> Nat]
    /\ shut \in [Proc -> [pipe : Page \cup {NoPage}, writable : BOOLEAN]]

Filled == [i \in 0 .. PIPESIZE - 1 |-> Junk]

Init ==
    /\ ref = [f \in File |-> 0] /\ type = [f \in File |-> "FD_NONE"]
    /\ writable = [f \in File |-> FALSE] /\ pipe = [f \in File |-> NoPage]
    /\ ofile = [p \in Proc |-> [fd \in Fd |-> NoFile]]
    /\ used = [q \in Page |-> FALSE]
    /\ data = [q \in Page |-> Filled]
    /\ nread = [q \in Page |-> 0] /\ nwrite = [q \in Page |-> 0]
    /\ readopen = [q \in Page |-> FALSE] /\ writeopen = [q \in Page |-> FALSE]
    /\ pc = [p \in Proc |-> IF p = First THEN "user" ELSE "absent"]
    /\ killed = [p \in Proc |-> FALSE]
    /\ arg = [p \in Proc |-> <<>>] /\ rest = [p \in Proc |-> <<>>]
    /\ want = [p \in Proc |-> 0] /\ shut = [p \in Proc |-> NoShut]

At(p, where) == pc[p] = where
Goto(p, where) == pc' = [pc EXCEPT ![p] = where]
Free == {f \in File : ref[f] = 0}
FreeFds(p) == {fd \in Fd : ofile[p][fd] = NoFile}
PipeOf(p) == pipe[Head(arg[p])]

\* Who is about to sleep holds the lock of its pipe, from the test of killed until
\* sleep() has ptable.lock.
Dozing == {"rdoze", "wdoze"}
LockedBug(q) == FALSE
Locked(q) == \E p \in Proc : pc[p] \in Dozing /\ PipeOf(p) = q

\* wakeup() of those who sleep at `from` on pipe q, while p goes to `next`.
WakeGoto(q, from, to, p, next) ==
    pc' = [r \in Proc |-> IF r = p THEN next
                          ELSE IF pc[r] = from /\ PipeOf(r) = q THEN to ELSE pc[r]]
-----------------------------------------------------------------------------
\* sys_pipe(): two filealloc()s, kalloc(), two fdalloc()s; on failure the files that
\* were allocated are closed again.
PipeBegin(p) ==
    /\ At(p, "user") /\ Free # {}
    /\ ref' = [ref EXCEPT ![Min(Free)] = 1]
    /\ arg' = [arg EXCEPT ![p] = <<Min(Free)>>]
    /\ Goto(p, "pipe1")
    /\ UNCHANGED <<type, writable, pipe, ofile, pipeVars, killed, rest, want, shut>>

PipeSecond(p) ==
    /\ At(p, "pipe1")
    /\ IF Free = {}
       THEN Goto(p, "close") /\ UNCHANGED <<ref, arg>>
       ELSE /\ ref' = [ref EXCEPT ![Min(Free)] = 1]
            /\ arg' = [arg EXCEPT ![p] = Append(@, Min(Free))]
            /\ Goto(p, "pipe2")
    /\ UNCHANGED <<type, writable, pipe, ofile, pipeVars, killed, rest, want, shut>>

PipeNoMemory(p) ==
    /\ At(p, "pipe2") /\ Goto(p, "close")
    /\ UNCHANGED <<fileVars, ofile, pipeVars, killed, callVars>>

PipeMade(p, q) ==
    LET rf == arg[p][1]
        wf == arg[p][2]
    IN  /\ At(p, "pipe2") /\ ~used[q]
        /\ used' = [used EXCEPT ![q] = TRUE]
        /\ nread' = [nread EXCEPT ![q] = 0] /\ nwrite' = [nwrite EXCEPT ![q] = 0]
        /\ readopen' = [readopen EXCEPT ![q] = TRUE]
        /\ writeopen' = [writeopen EXCEPT ![q] = TRUE]
        /\ type' = [type EXCEPT ![rf] = "FD_PIPE", ![wf] = "FD_PIPE"]
        /\ writable' = [writable EXCEPT ![rf] = FALSE, ![wf] = TRUE]
        /\ pipe' = [pipe EXCEPT ![rf] = q, ![wf] = q]
        /\ IF Cardinality(FreeFds(p)) < 2
           THEN Goto(p, "close") /\ UNCHANGED <<ofile, arg>>
           ELSE LET fd0 == Min(FreeFds(p))
                    fd1 == Min(FreeFds(p) \ {fd0})
                IN  /\ ofile' = [ofile EXCEPT ![p][fd0] = rf, ![p][fd1] = wf]
                    /\ arg' = [arg EXCEPT ![p] = <<>>]
                    /\ Goto(p, "user")
        /\ UNCHANGED <<ref, data, killed, rest, want, shut>>

\* sys_dup()
Dup(p, fd) ==
    LET f == ofile[p][fd]
    IN  /\ At(p, "user") /\ f # NoFile /\ FreeFds(p) # {}
        /\ ofile' = [ofile EXCEPT ![p][Min(FreeFds(p))] = f]
        /\ ref' = [ref EXCEPT ![f] = @ + 1]
        /\ UNCHANGED <<type, writable, pipe, pipeVars, pc, killed, callVars>>

\* sys_close()
Close(p, fd) ==
    /\ At(p, "user") /\ ofile[p][fd] # NoFile
    /\ ofile' = [ofile EXCEPT ![p][fd] = NoFile]
    /\ arg' = [arg EXCEPT ![p] = <<ofile[p][fd]>>]
    /\ Goto(p, "close")
    /\ UNCHANGED <<fileVars, pipeVars, killed, rest, want, shut>>

\* fork(): the child gets every descriptor, and a reference for each.
CopiesBug(p, f) == IF \E fd \in Fd : ofile[p][fd] = f THEN 1 ELSE 0
Copies(p, f) == Cardinality({fd \in Fd : ofile[p][fd] = f})
Fork(p, child) ==
    /\ At(p, "user") /\ At(child, "absent")
    /\ ofile' = [ofile EXCEPT ![child] = ofile[p]]
    /\ ref' = [f \in File |-> ref[f] + Copies(p, f)]
    /\ pc' = [pc EXCEPT ![child] = "user"]
    /\ UNCHANGED <<type, writable, pipe, pipeVars, killed, callVars>>

\* exit(): every open file is closed, in the order of the descriptors.
Exit(p) ==
    /\ At(p, "user") /\ Goto(p, "exit")
    /\ UNCHANGED <<fileVars, ofile, pipeVars, killed, callVars>>

ExitNext(p) ==
    LET open == Fd \ FreeFds(p)
        fd == Min(open)
    IN  /\ At(p, "exit") /\ arg[p] = <<>> /\ open # {}
        /\ arg' = [arg EXCEPT ![p] = <<ofile[p][fd]>>]
        /\ ofile' = [ofile EXCEPT ![p][fd] = NoFile]
        /\ UNCHANGED <<fileVars, pipeVars, pc, killed, rest, want, shut>>

\* kill(): a sleeper wakes up; one that is about to sleep is still RUNNING, and sleeps.
Kill(p) ==
    /\ pc[p] \notin {"absent", "gone"} /\ ~killed[p]
    /\ killed' = [killed EXCEPT ![p] = TRUE]
    /\ pc' = [pc EXCEPT ![p] = CASE @ = "rsleep" -> "read" [] @ = "wsleep" -> "write" [] OTHER -> @]
    /\ UNCHANGED <<fileVars, ofile, pipeVars, callVars>>

\* fileclose() of the next file in arg.  The last reference frees the slot, and the
\* copy says which end of which pipe to close.
Closing == {"close", "exit"}
FileClose(p) ==
    LET f == Head(arg[p])
        last == ref[f] = 1
    IN  /\ pc[p] \in Closing /\ arg[p] # <<>>
        /\ ref' = [ref EXCEPT ![f] = @ - 1]
        /\ type' = IF last THEN [type EXCEPT ![f] = "FD_NONE"] ELSE type
        /\ arg' = [arg EXCEPT ![p] = Tail(@)]
        /\ IF last /\ type[f] = "FD_PIPE"
           THEN /\ shut' = [shut EXCEPT ![p] = [pipe |-> pipe[f], writable |-> writable[f]]]
                /\ Goto(p, IF At(p, "exit") THEN "exit_pipeclose" ELSE "pipeclose")
           ELSE UNCHANGED <<shut, pc>>
        /\ UNCHANGED <<writable, pipe, ofile, pipeVars, killed, rest, want>>

Closed(p) ==
    /\ pc[p] \in Closing /\ arg[p] = <<>> /\ (At(p, "exit") => FreeFds(p) = Fd)
    /\ Goto(p, IF At(p, "exit") THEN "gone" ELSE "user")
    /\ UNCHANGED <<fileVars, ofile, pipeVars, killed, callVars>>

\* pipeclose(): wake the other end; the second one frees the page.
BothClosed(q, w) == IF w THEN ~readopen[q] ELSE ~writeopen[q]
PipeClose(p) ==
    LET q == shut[p].pipe
        w == shut[p].writable
    IN  /\ pc[p] \in {"pipeclose", "exit_pipeclose"} /\ ~Locked(q)
        /\ writeopen' = [writeopen EXCEPT ![q] = @ /\ ~w]
        /\ readopen' = [readopen EXCEPT ![q] = @ /\ w]
        /\ used' = [used EXCEPT ![q] = ~BothClosed(q, w)]
        /\ IF BothClosed(q, w)
           THEN /\ data' = [data EXCEPT ![q] = Filled]
                /\ nread' = [nread EXCEPT ![q] = 0] /\ nwrite' = [nwrite EXCEPT ![q] = 0]
           ELSE UNCHANGED <<data, nread, nwrite>>
        /\ WakeGoto(q, IF w THEN "rsleep" ELSE "wsleep", IF w THEN "read" ELSE "write", p,
                    IF At(p, "pipeclose") THEN "close" ELSE "exit")
        /\ shut' = [shut EXCEPT ![p] = NoShut]
        /\ UNCHANGED <<fileVars, ofile, killed, arg, rest, want>>
-----------------------------------------------------------------------------
\* read() and write() of a pipe, once the check of f->ip->mode lets them pass.
Read(p, fd, n) ==
    LET f == ofile[p][fd]
    IN  /\ At(p, "user") /\ f # NoFile /\ ~writable[f]
        /\ arg' = [arg EXCEPT ![p] = <<f>>] /\ want' = [want EXCEPT ![p] = n]
        /\ Goto(p, "read")
        /\ UNCHANGED <<fileVars, ofile, pipeVars, killed, rest, shut>>

Write(p, fd, s) ==
    LET f == ofile[p][fd]
    IN  /\ At(p, "user") /\ f # NoFile /\ writable[f]
        /\ arg' = [arg EXCEPT ![p] = <<f>>] /\ rest' = [rest EXCEPT ![p] = s]
        /\ Goto(p, "write")
        /\ UNCHANGED <<fileVars, ofile, pipeVars, killed, want, shut>>

Held(q) == (nwrite[q] + WRAP - nread[q]) % WRAP
RoomBug(q) == PIPESIZE + 1 - Held(q)
Room(q) == PIPESIZE - Held(q)
AdvanceBug(k, n) == k + n
Advance(k, n) == (k + n) % WRAP
Return(p) == arg' = [arg EXCEPT ![p] = <<>>]

\* One turn of pipewrite(): fill the pipe, then return, give up or make ready to sleep.
FullMustStopBug(q, p) == killed[p]
FullMustStop(q, p) == ~readopen[q] \/ killed[p]
PipeWrite(p) ==
    LET q == PipeOf(p)
        n == Min({Len(rest[p]), Room(q)})
        done == n = Len(rest[p])
        stop == ~done /\ FullMustStop(q, p)
        asleep == ~done /\ ~stop
    IN  /\ At(p, "write") /\ ~Locked(q)
        /\ data' = [data EXCEPT ![q] = [i \in 0 .. PIPESIZE - 1 |->
                      LET k == (i + WRAP - nwrite[q]) % PIPESIZE
                      IN  IF k < n THEN rest[p][k + 1] ELSE data[q][i]]]
        /\ nwrite' = [nwrite EXCEPT ![q] = Advance(@, n)]
        /\ rest' = [rest EXCEPT ![p] = IF asleep THEN SubSeq(@, n + 1, Len(@)) ELSE <<>>]
        /\ IF stop THEN Goto(p, "user")
           ELSE WakeGoto(q, "rsleep", "read", p, IF asleep THEN "wdoze" ELSE "user")
        /\ IF asleep THEN UNCHANGED arg ELSE Return(p)
        /\ UNCHANGED <<fileVars, ofile, used, nread, readopen, writeopen, killed, want, shut>>

\* One turn of piperead(): make ready to sleep on an empty pipe with a writer, or take what is there.
EmptyMustWait(q) == Held(q) = 0 /\ writeopen[q]
PipeRead(p) ==
    LET q == PipeOf(p)
        n == Min({want[p], Held(q)})
    IN  /\ At(p, "read") /\ ~Locked(q)
        /\ IF EmptyMustWait(q)
           THEN /\ Goto(p, IF killed[p] THEN "user" ELSE "rdoze")
                /\ IF killed[p] THEN Return(p) /\ want' = [want EXCEPT ![p] = 0]
                   ELSE UNCHANGED <<arg, want>>
                /\ UNCHANGED nread
           ELSE /\ nread' = [nread EXCEPT ![q] = Advance(@, n)]
                /\ WakeGoto(q, "wsleep", "write", p, "user")
                /\ Return(p) /\ want' = [want EXCEPT ![p] = 0]
        /\ UNCHANGED <<fileVars, ofile, used, data, nwrite, readopen, writeopen, killed, rest, shut>>

\* sleep() has ptable.lock: it releases the pipe's and p sleeps, killed or not.
Sleep(p) ==
    /\ pc[p] \in Dozing
    /\ Goto(p, IF At(p, "rdoze") THEN "rsleep" ELSE "wsleep")
    /\ UNCHANGED <<fileVars, ofile, pipeVars, killed, callVars>>

\* A killed process gets no further than the end of its system call.
Calls(p) ==
    /\ ~killed[p]
    /\ \/ PipeBegin(p)
       \/ \E child \in Proc : Fork(p, child)
       \/ \E fd \in Fd : \/ Dup(p, fd) \/ Close(p, fd)
                         \/ \E n \in 1 .. PIPESIZE : Read(p, fd, n)
                         \/ \E s \in Payload : Write(p, fd, s)

Next ==
    \E p \in Proc :
        \/ Calls(p) \/ Exit(p) \/ ExitNext(p) \/ Kill(p)
        \/ PipeSecond(p) \/ PipeNoMemory(p) \/ \E q \in Page : PipeMade(p, q)
        \/ FileClose(p) \/ Closed(p) \/ PipeClose(p)
        \/ PipeWrite(p) \/ PipeRead(p) \/ Sleep(p)

Spec == Init /\ [][Next]_vars
-----------------------------------------------------------------------------
\* How many descriptors and pending closes refer to f.
Holders(f) ==
    LET open == {h \in Proc \X Fd : ofile[h[1]][h[2]] = f}
        held == {h \in Proc \X (1 .. 2) :
                   /\ pc[h[1]] \in {"pipe1", "pipe2", "pipeclose", "exit_pipeclose"} \cup Closing
                   /\ h[2] \in DOMAIN arg[h[1]] /\ arg[h[1]][h[2]] = f}
    IN  Cardinality(open) + Cardinality(held)

\* The reference counts are exact over pipe, dup, fork, close and exit and all their
\* failures, and an end of a pipe is open exactly while a file for it is in use or
\* about to be shut: no call ever meets a pipe whose page was freed.
EndsCounted ==
    /\ \A f \in File : ref[f] = Holders(f)
    /\ \A q \in Page : \A w \in BOOLEAN :
          (used[q] /\ IF w THEN writeopen[q] ELSE readopen[q]) <=>
             \/ \E f \in File : ref[f] > 0 /\ type[f] = "FD_PIPE" /\ pipe[f] = q /\ writable[f] = w
             \/ \E p \in Proc : shut[p] = [pipe |-> q, writable |-> w]

\* Whoever sleeps in pipewrite(), or is about to, finds the pipe full and a reader left;
\* whoever sleeps in piperead() finds a writer left, and about to, nothing to read.
SleeperBlocked ==
    \A p \in Proc :
        LET q == PipeOf(p)
        IN  /\ pc[p] \in {"wdoze", "wsleep"} => Held(q) = PIPESIZE /\ readopen[q]
            /\ pc[p] \in {"rdoze", "rsleep"} => writeopen[q]
            /\ At(p, "rdoze") => Held(q) = 0

\* What a sleeper should have been woken for: bytes to read, or that it is killed.
Unread(p) == At(p, "rsleep") /\ Held(PipeOf(p)) > 0
KilledAsleep(p) == pc[p] \in {"rsleep", "wsleep"} /\ killed[p]

\* Wakeups are lost in two ways only: a writer that is killed fills the pipe and leaves
\* its loop (pipe.c:86) without the wakeup() at the end, so readers sleep on what it wrote;
\* and a kill() after the test of killed and before sleep() has ptable.lock leaves its
\* process asleep.  A kill() before the test is never slept through.
OnlyKillLosesWakeups ==
    [][\A p \in Proc :
          /\ ~Unread(p) /\ Unread(p)' =>
                \E r \in Proc : /\ At(r, "write") /\ killed[r] /\ PipeOf(r) = PipeOf(p)
                                /\ At(r, "user")'
          /\ ~KilledAsleep(p) /\ KilledAsleep(p)' => pc[p] \in Dozing /\ killed[p]
          /\ pc[p] \notin Dozing /\ pc'[p] \in Dozing => ~killed[p]]_vars

\* A reader sleeps on an empty pipe only ("DOC: pipe-empty", pipe.c:106), and no killed
\* process sleeps (kill(): "Wake process from sleep if necessary.", proc.c:526).  Neither
\* holds, for the two reasons above, and no run checks them.
ReaderSleepsOnEmptyPipe == \A p \in Proc : ~Unread(p)
NoKilledSleeper == \A p \in Proc : ~KilledAsleep(p)

\* Each page, seen as a pipe, is a byte stream, past the wrap-around of its counters.
Contents(q) ==
    IF used[q] THEN [i \in 1 .. Held(q) |-> data[q][(nread[q] + i - 1) % PIPESIZE]] ELSE <<>>
Stream(q) == INSTANCE ByteStream WITH
    Capacity <- PIPESIZE, open <- used[q], stream <- Contents(q)
ImplementsByteStream ==
    /\ \A q \in Page : Stream(q)!Init
    /\ [][\A q \in Page : UNCHANGED <<used[q], Contents(q)>> \/ Stream(q)!Next]_vars
=============================================================================
