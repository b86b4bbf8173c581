------------------------------- MODULE Inodes -------------------------------
(***************************************************************************)
(* Inodes, directories and path names under concurrent system calls        *)
(* (src/xv6-public_1/fs.c, and link, unlink, open, mkdir, chdir and close  *)
(* of sysfile.c): the reference and link counts, the in-memory copies and  *)
(* the sleep locks.  File contents, blocks and devices are left out.  What *)
(* one process does under one inode's lock is one action when no other     *)
(* lock is taken inside it and the reference count is not read.            *)
(***************************************************************************)
EXTENDS Naturals, Sequences, FiniteSets, FiniteSetsExt

CONSTANTS
    Proc, NoProc,
    NINODES,        \* inodes 1 .. NINODES on disk; 1 is the root
    Name,           \* names in directories
    Dot, DotDot,    \* the names "." and ".."
    Request,        \* the calls processes make: kind, path, and link()'s second path
    MaxLink         \* bound: link() makes no more links than this to an inode

AnyName == Name \cup {Dot, DotDot}
Inum == 1 .. NINODES
Root == 1
NoInode == 0

ASSUME InodesAssumption ==
    /\ NINODES \in Nat \ {0} /\ IsFiniteSet(Proc) /\ IsFiniteSet(Name)
    /\ NoProc \notin Proc /\ Dot # DotDot
    /\ {Dot, DotDot} \cap Name = {}
    /\ MaxLink \in Nat
    /\ \A q \in Request :
          /\ q.kind \in {"open", "create", "mkdir", "unlink", "link", "chdir"}
          /\ q.path \in Seq(AnyName) \ {<<>>}
          /\ q.new \in Seq(AnyName) /\ (q.kind = "link" => q.new # <<>>)

VARIABLES
    disk,           \* inodes on disk: type and nlink, as the next commit will leave them
    entry,          \* directory entries, "." and ".." included
    ref, valid, node, lock,     \* struct inode: ref, valid, the copy of disk, the sleep lock
    fd, cwd,        \* per process: its open file and its current directory
    pc, kind,       \* per process: position, and the system call in progress
    rest,           \* the part of the path still to walk
    new,            \* link(): the second path
    dp, ip,         \* the call's variables: the directory, or namex()'s ip; the inode
    put, ret        \* the inode iput() is called on, and where it returns

diskVars == <<disk, entry>>
cacheVars == <<ref, valid, node, lock>>
callVars == <<kind, rest, new, dp, ip>>
vars == <<diskVars, cacheVars, fd, cwd, pc, callVars, put, ret>>

Node == [type : {"free", "file", "dir"}, nlink : Nat]
NoNode == [type |-> "free", nlink |-> 0]
NoEntries == [n \in AnyName |-> NoInode]

\* Positions: in user mode; in namex(); at the return of namex(), before the ilock()
\* that follows; with the locks of the call held; in the three parts of iput(); halted.
PC == {"user", "walk", "found", "exists", "opened", "made", "victim", "unlinked",
       "unlinkbad", "linkbad", "linked", "unbump", "put", "free", "drop", "panic", "full"}

TypeOK ==
    /\ disk \in [Inum -> Node] /\ node \in [Inum -> Node]
    /\ entry \in [Inum -> [AnyName -> Inum \cup {NoInode}]]
    /\ ref \in [Inum -> Nat] /\ valid \in [Inum -> BOOLEAN]
    /\ lock \in [Inum -> Proc \cup {NoProc}]
    /\ fd \in [Proc -> Inum \cup {NoInode}] /\ cwd \in [Proc -> Inum]
    /\ pc \in [Proc -> PC] /\ ret \in [Proc -> PC] 
    /\ \A p \in Proc : rest[p] \in Seq(AnyName) /\ new[p] \in Seq(AnyName)
    /\ kind \in [Proc -> {"none", "open", "create", "mkdir", "unlink", "link", "chdir"}]
    /\ dp \in [Proc -> Inum \cup {NoInode}] /\ ip \in [Proc -> Inum \cup {NoInode}]
    /\ put \in [Proc -> Inum \cup {NoInode}]

Init ==
    /\ disk = [i \in Inum |-> IF i = Root THEN [type |-> "dir", nlink |-> 1] ELSE NoNode]
    /\ entry = [i \in Inum |-> IF i = Root THEN [NoEntries EXCEPT ![Dot] = Root, ![DotDot] = Root]
                               ELSE NoEntries]
    /\ ref = [i \in Inum |-> IF i = Root THEN Cardinality(Proc) ELSE 0]
    /\ valid = [i \in Inum |-> FALSE] /\ node = [i \in Inum |-> NoNode]
    /\ lock = [i \in Inum |-> NoProc]
    /\ fd = [p \in Proc |-> NoInode] /\ cwd = [p \in Proc |-> Root]
    /\ pc = [p \in Proc |-> "user"] /\ ret = [p \in Proc |-> "user"]
    /\ kind = [p \in Proc |-> "none"]
    /\ rest = [p \in Proc |-> <<>>] /\ new = [p \in Proc |-> <<>>]
    /\ dp = [p \in Proc |-> NoInode] /\ ip = [p \in Proc |-> NoInode]
    /\ put = [p \in Proc |-> NoInode]

At(p, where) == pc[p] = where
Goto(p, where) == pc' = [pc EXCEPT ![p] = where]
Unlocked(i) == lock[i] = NoProc
Iget(i) == ref' = [ref EXCEPT ![i] = @ + 1]
\* What ilock(i) leaves in memory.  A free inode here is panic("ilock: no type").
Loaded(i) == IF valid[i] THEN node[i] ELSE disk[i]
Load(i) == valid' = [valid EXCEPT ![i] = TRUE] /\ node' = [node EXCEPT ![i] = Loaded(i)]
\* ilock() of the inodes in change's domain, changes, and iupdate() of each.
Update(change) ==
    LET S == DOMAIN change
    IN  /\ valid' = [i \in Inum |-> i \in S \/ valid[i]]
        /\ node' = [i \in Inum |-> IF i \in S THEN change[i] ELSE node[i]]
        /\ disk' = [i \in Inum |-> IF i \in S THEN change[i] ELSE disk[i]]
AddLinkBug(nd) == nd
AddLink(nd) == [nd EXCEPT !.nlink = @ + 1]
DropLink(nd) == [nd EXCEPT !.nlink = @ - 1]
\* iput(i), then go on at `next`.
Iput(p, i, next) ==
    put' = [put EXCEPT ![p] = i] /\ ret' = [ret EXCEPT ![p] = next] /\ Goto(p, "put")
\* The call's variables end with it.
Return(p) ==
    /\ kind' = [kind EXCEPT ![p] = "none"] /\ rest' = [rest EXCEPT ![p] = <<>>]
    /\ new' = [new EXCEPT ![p] = <<>>]
    /\ dp' = [dp EXCEPT ![p] = NoInode] /\ ip' = [ip EXCEPT ![p] = NoInode]
Lookup(d, n) == entry[d][n]
IsEmpty(d) == \A n \in Name : entry[d][n] = NoInode
-----------------------------------------------------------------------------
\* A system call starts: begin_op(), and namex() takes a reference to where the path starts.
Call(p, q, start) ==
    /\ At(p, "user") /\ (q.kind \in {"open", "create"} => fd[p] = NoInode)
    /\ Iget(start) /\ Goto(p, "walk")
    /\ kind' = [kind EXCEPT ![p] = q.kind]
    /\ rest' = [rest EXCEPT ![p] = q.path] /\ new' = [new EXCEPT ![p] = q.new]
    /\ dp' = [dp EXCEPT ![p] = start] /\ ip' = [ip EXCEPT ![p] = NoInode]
    /\ UNCHANGED <<diskVars, valid, node, lock, fd, cwd, put, ret>>

\* namex(): one path element, under the directory's lock.  nameiparent() stops at the
\* last one; otherwise iput(ip), and on with the next inode.
Parent(p) == kind[p] \in {"create", "mkdir", "unlink"} \/ ip[p] # NoInode
FailedBug(p) == "user"
Failed(p) == IF ip[p] # NoInode THEN "unbump" ELSE "user"
Walk(p) ==
    LET d == dp[p]
        next == Lookup(d, Head(rest[p]))
        last == Len(rest[p]) = 1
    IN  /\ At(p, "walk") /\ Unlocked(d) /\ Load(d)
        /\ IF Loaded(d).type = "free"
           THEN Goto(p, "panic") /\ UNCHANGED <<ref, rest, dp, put, ret>>
           ELSE IF Loaded(d).type = "dir" /\ Parent(p) /\ last
           THEN Goto(p, "found") /\ UNCHANGED <<ref, rest, dp, put, ret>>
           ELSE IF Loaded(d).type # "dir" \/ next = NoInode
           THEN Iput(p, d, Failed(p)) /\ UNCHANGED <<ref, rest, dp>>
           ELSE /\ Iget(next) /\ Iput(p, d, IF last THEN "found" ELSE "walk")
                /\ rest' = [rest EXCEPT ![p] = Tail(@)]
                /\ dp' = [dp EXCEPT ![p] = next]
        /\ UNCHANGED <<diskVars, lock, fd, cwd, kind, new, ip>>

\* iput(): under the inode's lock, look whether this is the last reference to an inode
\* without links; if so free it; then, after both locks were released, drop the reference.
LastRefBug(i) == ref[i] <= 2
LastRef(i) == ref[i] = 1
IputLook(p) ==
    LET i == put[p]
    IN  /\ At(p, "put") /\ Unlocked(i)
        /\ IF valid[i] /\ node[i].nlink = 0 /\ LastRef(i)
           THEN Goto(p, "free") /\ lock' = [lock EXCEPT ![i] = p]
           ELSE Goto(p, "drop") /\ UNCHANGED lock
        /\ UNCHANGED <<diskVars, ref, valid, node, fd, cwd, callVars, put, ret>>

IputFree(p) ==
    LET i == put[p]
    IN  /\ At(p, "free") /\ Goto(p, "drop")
        /\ disk' = [disk EXCEPT ![i].type = "free"]
        /\ entry' = [entry EXCEPT ![i] = NoEntries]
        /\ valid' = [valid EXCEPT ![i] = FALSE] /\ node' = [node EXCEPT ![i] = NoNode]
        /\ lock' = [lock EXCEPT ![i] = NoProc]
        /\ UNCHANGED <<ref, fd, cwd, callVars, put, ret>>

\* An inode without references may be recycled: its copy is lost.
IputDrop(p) ==
    LET i == put[p]
    IN  /\ At(p, "drop") /\ Goto(p, ret[p])
        /\ ref' = [ref EXCEPT ![i] = @ - 1]
        /\ valid' = [valid EXCEPT ![i] = @ /\ ref[i] > 1]
        /\ node' = [node EXCEPT ![i] = IF ref[i] > 1 THEN @ ELSE NoNode]
        /\ put' = [put EXCEPT ![p] = NoInode] /\ ret' = [ret EXCEPT ![p] = "user"]
        /\ IF ret[p] = "user" THEN Return(p) ELSE UNCHANGED callVars
        /\ UNCHANGED <<diskVars, lock, fd, cwd>>
-----------------------------------------------------------------------------
\* sys_open() without O_CREATE, and with it of a file that exists: ilock().
OpenLock(p) ==
    LET i == IF At(p, "found") THEN dp[p] ELSE ip[p]
        bad == At(p, "exists") /\ (kind[p] # "create" \/ Loaded(i).type # "file")
    IN  /\ (At(p, "found") /\ kind[p] = "open") \/ At(p, "exists")
        /\ Unlocked(i) /\ Load(i) /\ ip' = [ip EXCEPT ![p] = i]
        /\ IF Loaded(i).type = "free" THEN Goto(p, "panic") /\ UNCHANGED <<lock, put, ret>>
           ELSE IF bad THEN Iput(p, i, "user") /\ UNCHANGED lock
           ELSE /\ Goto(p, "opened") /\ lock' = [lock EXCEPT ![i] = p]
                /\ UNCHANGED <<put, ret>>
        /\ UNCHANGED <<diskVars, ref, fd, cwd, kind, rest, new, dp>>

\* The rest of sys_open(), and the end of sys_mkdir().
Opened(p) ==
    /\ At(p, "opened") /\ kind[p] # "mkdir"
    /\ fd' = [fd EXCEPT ![p] = ip[p]] /\ Goto(p, "user") /\ Return(p)
    /\ lock' = [lock EXCEPT ![ip[p]] = NoProc]
    /\ UNCHANGED <<diskVars, ref, valid, node, cwd, put, ret>>

\* mkdir() is done; or open() meets a full table, or a directory it may not write.
NotOpened(p) ==
    /\ At(p, "opened") /\ Iput(p, ip[p], "user")
    /\ lock' = [lock EXCEPT ![ip[p]] = NoProc]
    /\ UNCHANGED <<diskVars, ref, valid, node, fd, cwd, callVars>>

\* fileclose() of the last reference.
Close(p) ==
    /\ At(p, "user") /\ fd[p] # NoInode
    /\ Iput(p, fd[p], "user") /\ fd' = [fd EXCEPT ![p] = NoInode]
    /\ UNCHANGED <<diskVars, cacheVars, cwd, callVars>>

Chdir(p) ==
    LET i == dp[p]
    IN  /\ At(p, "found") /\ kind[p] = "chdir" /\ Unlocked(i) /\ Load(i)
        /\ IF Loaded(i).type = "free" THEN Goto(p, "panic") /\ UNCHANGED <<cwd, put, ret>>
           ELSE IF Loaded(i).type = "dir"
           THEN Iput(p, cwd[p], "user") /\ cwd' = [cwd EXCEPT ![p] = i]
           ELSE Iput(p, i, "user") /\ UNCHANGED cwd
        /\ UNCHANGED <<diskVars, ref, lock, fd, callVars>>

\* create(): look the name up under the directory's lock (dirlookup() panics on what is no
\* directory); make the inode and its entry if there is none.  The new inode stays locked
\* during iput() of the directory.
Create(p) ==
    LET d == dp[p]
        n == Head(rest[p])
        old == Lookup(d, n)
        unused == {i \in Inum : disk[i].type = "free"}
        i == Min(unused)
        isDir == kind[p] = "mkdir"
    IN  /\ At(p, "found") /\ kind[p] \in {"create", "mkdir"} /\ Unlocked(d)
        /\ IF Loaded(d).type # "dir"
           THEN Goto(p, "panic") /\ UNCHANGED <<diskVars, cacheVars, ip, put, ret>>
           ELSE IF old # NoInode
           THEN /\ Iget(old) /\ Load(d) /\ Iput(p, d, "exists")
                /\ ip' = [ip EXCEPT ![p] = old] /\ UNCHANGED <<diskVars, lock>>
           ELSE IF unused = {}
           THEN Goto(p, "full") /\ UNCHANGED <<diskVars, cacheVars, ip, put, ret>>
           ELSE /\ Unlocked(i) /\ Iget(i)
                /\ lock' = [lock EXCEPT ![i] = p]
                /\ LET made == [type |-> IF isDir THEN "dir" ELSE "file", nlink |-> 1]
                   IN  Update([j \in {i, d} |->
                                 IF j = i THEN made
                                 ELSE IF isDir THEN AddLink(Loaded(j)) ELSE Loaded(j)])
                /\ entry' = [entry EXCEPT
                      ![i] = IF isDir THEN [NoEntries EXCEPT ![Dot] = i, ![DotDot] = d] ELSE @,
                      ![d][n] = i]
                /\ Iput(p, d, "opened") /\ ip' = [ip EXCEPT ![p] = i]
        /\ UNCHANGED <<fd, cwd, kind, rest, new, dp>>
-----------------------------------------------------------------------------
\* sys_unlink(): find the entry under the directory's lock and keep that lock; lock the
\* inode too and clear the entry; iput() the directory; drop the link.
UnlinkFind(p) ==
    LET d == dp[p]
        i == Lookup(d, Head(rest[p]))
        dots == Head(rest[p]) \in {Dot, DotDot}
        bad == dots \/ i = NoInode
    IN  /\ At(p, "found") /\ kind[p] = "unlink" /\ Unlocked(d) /\ Load(d)
        /\ IF Loaded(d).type = "free" \/ (~dots /\ Loaded(d).type # "dir")
           THEN Goto(p, "panic") /\ UNCHANGED <<ref, lock, ip, put, ret>>
           ELSE IF bad
           THEN Iput(p, d, "user") /\ UNCHANGED <<ref, lock, ip>>
           ELSE /\ Iget(i) /\ ip' = [ip EXCEPT ![p] = i] /\ Goto(p, "victim")
                /\ lock' = [lock EXCEPT ![d] = p] /\ UNCHANGED <<put, ret>>
        /\ UNCHANGED <<diskVars, fd, cwd, kind, rest, new, dp>>

UnlinkEntry(p) ==
    LET d == dp[p]
        i == ip[p]
        isDir == Loaded(i).type = "dir"
    IN  /\ At(p, "victim") /\ Unlocked(i)
        /\ IF Loaded(i).type = "free" \/ Loaded(i).nlink < 1
           THEN Goto(p, "panic") /\ UNCHANGED <<diskVars, valid, node, lock, put, ret>>
           ELSE IF isDir /\ ~IsEmpty(i)
           THEN /\ Load(i) /\ Iput(p, i, "unlinkbad") /\ UNCHANGED <<diskVars, lock>>
           ELSE /\ Update([j \in {i, d} |->
                             IF j = d /\ isDir THEN DropLink(Loaded(j)) ELSE Loaded(j)])
                /\ entry' = [entry EXCEPT ![d][Head(rest[p])] = NoInode]
                /\ lock' = [lock EXCEPT ![d] = NoProc, ![i] = p]
                /\ Iput(p, d, "unlinked")
        /\ UNCHANGED <<ref, fd, cwd, callVars>>

UnlinkDone(p) ==
    LET i == ip[p]
    IN  /\ At(p, "unlinked") /\ Update([j \in {i} |-> DropLink(Loaded(j))])
        /\ lock' = [lock EXCEPT ![i] = NoProc] /\ Iput(p, i, "user")
        /\ UNCHANGED <<entry, ref, fd, cwd, callVars>>

\* The directory is not empty, or dirlink() found the name: iunlockput(dp).
GiveUp(p) ==
    /\ pc[p] \in {"unlinkbad", "linkbad"}
    /\ lock' = [lock EXCEPT ![dp[p]] = NoProc]
    /\ Iput(p, dp[p], IF At(p, "linkbad") THEN "unbump" ELSE "user")
    /\ UNCHANGED <<diskVars, ref, valid, node, fd, cwd, callVars>>

\* sys_link(): count the new link first, then walk to the new name's directory.
LinkBump(p, start) ==
    LET i == dp[p]
    IN  /\ At(p, "found") /\ kind[p] = "link" /\ ip[p] = NoInode /\ Unlocked(i)
        /\ Loaded(i).nlink < MaxLink
        /\ IF Loaded(i).type = "free"
           THEN Goto(p, "panic") /\ UNCHANGED <<diskVars, ref, valid, node, rest, dp, ip, put, ret>>
           ELSE IF Loaded(i).type = "dir"
           THEN Load(i) /\ Iput(p, i, "user") /\ UNCHANGED <<diskVars, ref, rest, dp, ip>>
           ELSE /\ Update([j \in {i} |-> AddLink(Loaded(j))]) /\ Iget(start) /\ Goto(p, "walk")
                /\ ip' = [ip EXCEPT ![p] = i] /\ dp' = [dp EXCEPT ![p] = start]
                /\ rest' = [rest EXCEPT ![p] = new[p]] /\ UNCHANGED <<entry, put, ret>>
        /\ UNCHANGED <<lock, fd, cwd, kind, new>>

\* dirlink() of the new name.  When it exists, iput() of what it names, under dp's lock.
LinkEntry(p) ==
    LET d == dp[p]
        n == Head(rest[p])
        old == Lookup(d, n)
    IN  /\ At(p, "found") /\ kind[p] = "link" /\ ip[p] # NoInode /\ Unlocked(d) /\ Load(d)
        /\ IF Loaded(d).type # "dir"
           THEN Goto(p, "panic") /\ UNCHANGED <<entry, ref, lock, put, ret>>
           ELSE IF old # NoInode
           THEN /\ Iget(old) /\ lock' = [lock EXCEPT ![d] = p] /\ Iput(p, old, "linkbad")
                /\ UNCHANGED entry
           ELSE /\ entry' = [entry EXCEPT ![d][n] = ip[p]] /\ Iput(p, d, "linked")
                /\ UNCHANGED <<ref, lock>>
        /\ UNCHANGED <<disk, fd, cwd, callVars>>

LinkDone(p) ==
    /\ At(p, "linked") /\ Iput(p, ip[p], "user")
    /\ UNCHANGED <<diskVars, cacheVars, fd, cwd, callVars>>

Unbump(p) ==
    LET i == ip[p]
    IN  /\ At(p, "unbump") /\ Unlocked(i)
        /\ Update([j \in {i} |-> DropLink(Loaded(j))]) /\ Iput(p, i, "user")
        /\ UNCHANGED <<entry, ref, lock, fd, cwd, callVars>>
-----------------------------------------------------------------------------
Running == \A p \in Proc : pc[p] \notin {"panic", "full"}
Next ==
    /\ Running
    /\ \E p \in Proc :
          \/ \E q \in Request, start \in {Root, cwd[p]} : Call(p, q, start)
          \/ Close(p)
          \/ Walk(p) \/ IputLook(p) \/ IputFree(p) \/ IputDrop(p)
          \/ OpenLock(p) \/ Opened(p) \/ NotOpened(p) \/ Chdir(p) \/ Create(p)
          \/ UnlinkFind(p) \/ UnlinkEntry(p) \/ UnlinkDone(p) \/ GiveUp(p)
          \/ \E start \in {Root, cwd[p]} : LinkBump(p, start)
          \/ LinkEntry(p) \/ LinkDone(p) \/ Unbump(p)

Spec == Init /\ [][Next]_vars
-----------------------------------------------------------------------------
\* Directory entries count the links: every entry names an allocated inode, and the
\* link count of an inode is never below the number of names (and, for a directory,
\* of subdirectories) it has, so that none is freed while it can be reached.
Named(d) == d = Root \/ \E e \in Inum, n \in Name : entry[e][n] = d
Links(i) ==
    Cardinality({h \in Inum \X Name : entry[h[1]][h[2]] = i})
    + Cardinality({d \in Inum \ {i} : entry[d][DotDot] = i /\ Named(d)})
LinksCounted ==
    \A i \in Inum : /\ disk[i].nlink >= Links(i)
                   /\ \A d \in Inum, n \in Name : entry[d][n] = i => disk[i].type # "free"

\* Processes that walk from, or go on with, the directory dp; that hold ip.
Walking(p) ==
    \/ pc[p] \in {"walk", "found", "victim", "unlinkbad", "linkbad"}
    \/ pc[p] \in {"put", "free", "drop"} /\ ret[p] \in {"walk", "found", "unlinkbad", "linkbad"}
Holding(p) ==
    \/ pc[p] \in {"exists", "opened", "victim", "unlinked", "unbump", "linked", "linkbad"}
    \/ pc[p] \in {"walk", "found"} /\ ip[p] # NoInode
    \/ pc[p] \in {"put", "free", "drop"} /\ ip[p] # NoInode /\ ret[p] \notin {"user", "unlinkbad"}
Holders(i) ==
    Cardinality({p \in Proc : cwd[p] = i}) + Cardinality({p \in Proc : fd[p] = i})
    + Cardinality({p \in Proc : Walking(p) /\ dp[p] = i})
    + Cardinality({p \in Proc : Holding(p) /\ ip[p] = i})
    + Cardinality({p \in Proc : put[p] = i})

\* Every reference has one holder: an open file, a current directory, a call in
\* progress or an iput() about to drop it.
RefsHeld == Running => \A i \in Inum : ref[i] = Holders(i)

\* No one is left with an inode that was freed under it, and none of the kernel's
\* assertions on inodes fails ("ilock: no type", "unlink: nlink < 1").  Requests with
\* ".." from a removed current directory are excepted, README.md says why.
HeldStays ==
    \A p \in Proc :
        /\ ~At(p, "panic") /\ disk[cwd[p]].type = "dir"
        /\ fd[p] # NoInode => disk[fd[p]].type # "free"

\* The next two do not hold, and no run checks them; README.md says what TLC finds.

\* iput() frees an inode when its reference and link counts have fallen to zero
\* (fs.c:113-115).
FreedWhenUnused == \A i \in Inum : disk[i].type # "free" /\ disk[i].nlink = 0 => ref[i] > 0

\* No one waits for a lock whose holder waits for one of its own (fs.c:149).
Wants(p) == CASE At(p, "put") -> put[p] [] At(p, "victim") -> ip[p] [] OTHER -> NoInode
NoLockCycle ==
    ~\E p, r \in Proc : /\ Wants(p) # NoInode /\ Wants(r) # NoInode
                        /\ lock[Wants(p)] = r /\ lock[Wants(r)] = p
=============================================================================
