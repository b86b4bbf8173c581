---------------------------- MODULE InodesProofs ----------------------------
(***************************************************************************)
(* Proofs about Inodes.  The reference count of an inode is the number of  *)
(* its holders: each process holds what its claims say, by its open file,  *)
(* its current directory, the place of its call and the iput() it is in,   *)
(* and a step moves the claims of the one process that takes it.  The link *)
(* count is at least the names, the subdirectories and the links that a    *)
(* call has counted and not yet named, or no longer named and still        *)
(* counted: what a call keeps locked meanwhile, the others leave alone.    *)
(* With both, an inode that is freed has no use left: the last reference   *)
(* is that of the iput(), and without links nobody can look it up.         *)
(***************************************************************************)
EXTENDS Inodes, FiniteSetTheorems, WellFoundedInduction, TLAPS

\* Where the call of p stands; inside iput(), where it goes on.
InIput(p) == pc[p] \in {"put", "free", "drop"}
Place(p) == IF InIput(p) THEN ret[p] ELSE pc[p]

Places == {"user", "walk", "found", "exists", "opened", "victim", "unlinked",
           "unlinkbad", "linkbad", "linked", "unbump"}
WalkPlaces == {"walk", "found", "victim", "unlinkbad", "linkbad"}
HoldPlaces == {"exists", "opened", "victim", "unlinked", "unbump", "linked", "linkbad"}

\* What the calls and the cache hold; a link count may be any number here.
RefType ==
    /\ entry \in [Inum -> [AnyName -> Inum \cup {NoInode}]]
    /\ ref \in [Inum -> Nat]
    /\ fd \in [Proc -> Inum \cup {NoInode}] /\ cwd \in [Proc -> Inum]
    /\ pc \in [Proc -> PC] /\ ret \in [Proc -> PC]
    /\ rest \in [Proc -> Seq(AnyName)] /\ new \in [Proc -> Seq(AnyName)]
    /\ kind \in [Proc -> {"none", "open", "create", "mkdir", "unlink", "link", "chdir"}]
    /\ dp \in [Proc -> Inum \cup {NoInode}] /\ ip \in [Proc -> Inum \cup {NoInode}]
    /\ put \in [Proc -> Inum \cup {NoInode}]

\* What the place of a call says of its variables.
PlaceOk(p) ==
    LET at == Place(p)
    IN  /\ at \in Places
        /\ InIput(p) => at # "victim"
        /\ put[p] # NoInode <=> InIput(p)
        /\ at \in WalkPlaces => dp[p] # NoInode
        /\ at \in HoldPlaces => ip[p] # NoInode
        /\ at \in {"walk", "found"} =>
              /\ ip[p] # NoInode => kind[p] = "link"
              /\ at = "walk" \/ Parent(p) => rest[p] # <<>>
              /\ kind[p] = "link" => new[p] # <<>>
        /\ at \in {"exists", "opened"} => kind[p] \in {"open", "create", "mkdir"}
        /\ at # "user" /\ kind[p] \in {"open", "create"} => fd[p] = NoInode

\* Of a halted kernel nothing is said.
RefOk == RefType /\ (\A p \in Proc : PlaceOk(p)) /\ \A i \in Inum : ref[i] = Holders(i)
RefInv == Running => RefOk
-----------------------------------------------------------------------------
\* The references of one process to i.
Claim(b) == IF b THEN 1 ELSE 0
Claims(c, f, at, d, j, t, i) ==
    Claim(c = i) + Claim(f = i) + Claim(at \in WalkPlaces /\ d = i)
    + Claim((at \in HoldPlaces \/ at \in {"walk", "found"}) /\ j = i) + Claim(t = i)

LEMMA CountOne ==
    ASSUME NEW S \in SUBSET Proc, NEW T \in SUBSET Proc, NEW p \in Proc, \A r \in Proc \ {p} : r \in S <=> r \in T
    PROVE  /\ Cardinality(S) \in Nat /\ Cardinality(T) \in Nat
           /\ Cardinality(T) + Claim(p \in S) = Cardinality(S) + Claim(p \in T)
<1>1. IsFiniteSet(S) /\ IsFiniteSet(T) BY InodesAssumption, FS_Subset
<1>2. Cardinality(S) \in Nat /\ Cardinality(T) \in Nat BY <1>1, FS_CardinalityType
<1>3. CASE p \in S /\ p \in T
  <2>1. S = T BY <1>3
  <2> QED BY <1>2, <2>1
<1>4. CASE p \notin S /\ p \notin T
  <2>1. S = T BY <1>4
  <2> QED BY <1>2, <2>1
<1>5. CASE p \in S /\ p \notin T
  <2>1. S = T \cup {p} BY <1>5
  <2>2. Cardinality(S) = Cardinality(T) + 1 BY <1>1, <1>5, <2>1, FS_AddElement
  <2> QED BY <1>2, <1>5, <2>2 DEF Claim
<1>6. CASE p \notin S /\ p \in T
  <2>1. T = S \cup {p} BY <1>6
  <2>2. Cardinality(T) = Cardinality(S) + 1 BY <1>1, <1>6, <2>1, FS_AddElement
  <2> QED BY <1>2, <1>6, <2>2 DEF Claim
<1> QED BY <1>3, <1>4, <1>5, <1>6

\* r does nothing.
Idle(r) ==
    /\ fd'[r] = fd[r] /\ cwd'[r] = cwd[r] /\ pc'[r] = pc[r] /\ ret'[r] = ret[r]
    /\ rest'[r] = rest[r] /\ new'[r] = new[r] /\ kind'[r] = kind[r]
    /\ dp'[r] = dp[r] /\ ip'[r] = ip[r] /\ put'[r] = put[r]

LEMMA PlaceWalks ==
    ASSUME NEW p, NEW i \in Inum, PlaceOk(p)
    PROVE  /\ Walking(p) <=> Place(p) \in WalkPlaces
           /\ (Holding(p) /\ ip[p] = i) <=> (Place(p) \in HoldPlaces \/ Place(p) \in {"walk", "found"}) /\ ip[p] = i
<1>1. i # NoInode BY DEF Inum, NoInode
<1> USE <1>1 DEF Walking, Holding, PlaceOk, Place, InIput, Places, WalkPlaces, HoldPlaces
<1>2. CASE pc[p] \in {"put", "free", "drop"} BY <1>2
<1>3. CASE pc[p] \notin {"put", "free", "drop"} BY <1>3
<1> QED BY <1>2, <1>3

LEMMA PlaceWalksNext ==
    ASSUME NEW p, NEW i \in Inum, PlaceOk(p)'
    PROVE  /\ Walking(p)' <=> Place(p)' \in WalkPlaces
           /\ (Holding(p)' /\ ip'[p] = i) <=> (Place(p)' \in HoldPlaces \/ Place(p)' \in {"walk", "found"}) /\ ip'[p] = i
<1>1. i # NoInode BY DEF Inum, NoInode
<1> USE <1>1 DEF Walking, Holding, PlaceOk, Place, InIput, Places, WalkPlaces, HoldPlaces
<1>2. CASE pc'[p] \in {"put", "free", "drop"} BY <1>2
<1>3. CASE pc'[p] \notin {"put", "free", "drop"} BY <1>3
<1> QED BY <1>2, <1>3

\* The holders of i change by the claims of the process that steps.
LEMMA HoldersStep ==
    ASSUME NEW p \in Proc, \A r \in Proc \ {p} : Idle(r), PlaceOk(p), PlaceOk(p)', NEW i \in Inum
    PROVE  /\ Holders(i) \in Nat /\ Holders(i)' \in Nat
           /\ Holders(i)' + Claims(cwd[p], fd[p], Place(p), dp[p], ip[p], put[p], i)
                = Holders(i) + Claims(cwd'[p], fd'[p], Place(p)', dp'[p], ip'[p], put'[p], i)
<1>1. PICK C, F, W, D, T : /\ C = {r \in Proc : cwd[r] = i} /\ F = {r \in Proc : fd[r] = i}
                           /\ W = {r \in Proc : Walking(r) /\ dp[r] = i}
                           /\ D = {r \in Proc : Holding(r) /\ ip[r] = i} /\ T = {r \in Proc : put[r] = i}
  OBVIOUS
<1>2. PICK C2, F2, W2, D2, T2 :
         /\ C2 = {r \in Proc : cwd'[r] = i} /\ F2 = {r \in Proc : fd'[r] = i}
         /\ W2 = {r \in Proc : Walking(r)' /\ dp'[r] = i}
         /\ D2 = {r \in Proc : Holding(r)' /\ ip'[r] = i} /\ T2 = {r \in Proc : put'[r] = i}
  OBVIOUS
<1>3. /\ Holders(i) = Cardinality(C) + Cardinality(F) + Cardinality(W) + Cardinality(D) + Cardinality(T)
      /\ Holders(i)' = Cardinality(C2) + Cardinality(F2) + Cardinality(W2) + Cardinality(D2) + Cardinality(T2)
  BY <1>1, <1>2 DEF Holders
<1>4. \A r \in Proc \ {p} : /\ (r \in C <=> r \in C2) /\ (r \in F <=> r \in F2) /\ (r \in W <=> r \in W2)
                            /\ (r \in D <=> r \in D2) /\ (r \in T <=> r \in T2)
  BY <1>1, <1>2 DEF Idle, Walking, Holding
<1>5. /\ Cardinality(C) \in Nat /\ Cardinality(C2) \in Nat
      /\ Cardinality(C2) + Claim(p \in C) = Cardinality(C) + Claim(p \in C2)
  BY <1>1, <1>2, <1>4, CountOne
<1>6. /\ Cardinality(F) \in Nat /\ Cardinality(F2) \in Nat
      /\ Cardinality(F2) + Claim(p \in F) = Cardinality(F) + Claim(p \in F2)
  BY <1>1, <1>2, <1>4, CountOne
<1>7. /\ Cardinality(W) \in Nat /\ Cardinality(W2) \in Nat
      /\ Cardinality(W2) + Claim(p \in W) = Cardinality(W) + Claim(p \in W2)
  BY <1>1, <1>2, <1>4, CountOne
<1>8. /\ Cardinality(D) \in Nat /\ Cardinality(D2) \in Nat
      /\ Cardinality(D2) + Claim(p \in D) = Cardinality(D) + Claim(p \in D2)
  BY <1>1, <1>2, <1>4, CountOne
<1>9. /\ Cardinality(T) \in Nat /\ Cardinality(T2) \in Nat
      /\ Cardinality(T2) + Claim(p \in T) = Cardinality(T) + Claim(p \in T2)
  BY <1>1, <1>2, <1>4, CountOne
<1>10. Claims(cwd[p], fd[p], Place(p), dp[p], ip[p], put[p], i)
          = Claim(p \in C) + Claim(p \in F) + Claim(p \in W) + Claim(p \in D) + Claim(p \in T)
  BY <1>1, PlaceWalks DEF Claims, Claim
<1>11. Claims(cwd'[p], fd'[p], Place(p)', dp'[p], ip'[p], put'[p], i)
          = Claim(p \in C2) + Claim(p \in F2) + Claim(p \in W2) + Claim(p \in D2) + Claim(p \in T2)
  BY <1>2, PlaceWalksNext DEF Claims, Claim
<1>12. \A A : Claim(p \in A) \in Nat BY DEF Claim
<1>13. PICK c, f, w, d, t \in Nat : /\ c = Claim(p \in C) /\ f = Claim(p \in F) /\ w = Claim(p \in W)
                                    /\ d = Claim(p \in D) /\ t = Claim(p \in T)
  BY <1>12
<1>14. PICK c2, f2, w2, d2, t2 \in Nat : /\ c2 = Claim(p \in C2) /\ f2 = Claim(p \in F2) /\ w2 = Claim(p \in W2)
                                         /\ d2 = Claim(p \in D2) /\ t2 = Claim(p \in T2)
  BY <1>12
<1>15. Claims(cwd[p], fd[p], Place(p), dp[p], ip[p], put[p], i) = c + f + w + d + t BY <1>10, <1>13
<1>16. Claims(cwd'[p], fd'[p], Place(p)', dp'[p], ip'[p], put'[p], i) = c2 + f2 + w2 + d2 + t2 BY <1>11, <1>14
<1>17. /\ Cardinality(C2) + c = Cardinality(C) + c2 /\ Cardinality(F2) + f = Cardinality(F) + f2
       /\ Cardinality(W2) + w = Cardinality(W) + w2 /\ Cardinality(D2) + d = Cardinality(D) + d2
       /\ Cardinality(T2) + t = Cardinality(T) + t2
  BY <1>5, <1>6, <1>7, <1>8, <1>9, <1>13, <1>14
<1> QED BY <1>3, <1>5, <1>6, <1>7, <1>8, <1>9, <1>15, <1>16, <1>17

\* A step of p keeps the invariant when ref moves as the claims of p do.
LEMMA RefStep ==
    ASSUME RefOk, RefType', NEW p \in Proc, \A r \in Proc \ {p} : Idle(r), PlaceOk(p)',
           \A i \in Inum : ref'[i] + Claims(cwd[p], fd[p], Place(p), dp[p], ip[p], put[p], i)
                             = ref[i] + Claims(cwd'[p], fd'[p], Place(p)', dp'[p], ip'[p], put'[p], i)
    PROVE  RefOk'
<1>1. ASSUME NEW r \in Proc PROVE PlaceOk(r)'
  <2>1. CASE r = p BY <2>1
  <2>2. CASE r # p
    <3>1. Idle(r) /\ PlaceOk(r) BY <2>2 DEF RefOk
    <3> QED BY <3>1 DEF Idle, PlaceOk, Place, InIput, Parent
  <2> QED BY <2>1, <2>2
<1>2. ASSUME NEW i \in Inum PROVE ref'[i] = Holders(i)'
  <2>1. PlaceOk(p) /\ ref[i] = Holders(i) BY DEF RefOk
  <2>2. /\ Holders(i) \in Nat /\ Holders(i)' \in Nat
        /\ Holders(i)' + Claims(cwd[p], fd[p], Place(p), dp[p], ip[p], put[p], i)
             = Holders(i) + Claims(cwd'[p], fd'[p], Place(p)', dp'[p], ip'[p], put'[p], i)
    BY <2>1, HoldersStep
  <2>3. ref'[i] \in Nat BY DEF RefType
  <2>4. PICK x \in Nat : x = Claims(cwd[p], fd[p], Place(p), dp[p], ip[p], put[p], i) BY DEF Claims, Claim
  <2>5. PICK y \in Nat : y = Claims(cwd'[p], fd'[p], Place(p)', dp'[p], ip'[p], put'[p], i) BY DEF Claims, Claim
  <2>6. ref'[i] + x = ref[i] + y BY <2>4, <2>5
  <2> QED BY <2>1, <2>2, <2>3, <2>4, <2>5, <2>6
<1>3. (\A r \in Proc : PlaceOk(r))' /\ (\A i \in Inum : ref[i] = Holders(i))' BY <1>1, <1>2
<1> QED BY <1>3 DEF RefOk

\* The types of what p works on.
LEMMA CallType ==
    ASSUME RefOk, NEW p \in Proc
    PROVE  /\ fd[p] \in Inum \cup {NoInode} /\ cwd[p] \in Inum /\ pc[p] \in PC /\ ret[p] \in PC
           /\ rest[p] \in Seq(AnyName) /\ new[p] \in Seq(AnyName)
           /\ kind[p] \in {"none", "open", "create", "mkdir", "unlink", "link", "chdir"}
           /\ dp[p] \in Inum \cup {NoInode} /\ ip[p] \in Inum \cup {NoInode} /\ put[p] \in Inum \cup {NoInode}
           /\ PlaceOk(p) /\ NoInode \notin Inum /\ Root \in Inum
<1>1. NINODES \in Nat \ {0} BY InodesAssumption
<1>2. NoInode \notin Inum /\ Root \in Inum BY <1>1 DEF NoInode, Inum, Root
<1> QED BY <1>2 DEF RefOk, RefType

\* One more reference, or one less.
LEMMA RefMoves ==
    ASSUME RefType, NEW i \in Inum
    PROVE  /\ [ref EXCEPT ![i] = @ + 1] \in [Inum -> Nat]
           /\ \A j \in Inum : [ref EXCEPT ![i] = @ + 1][j] = ref[j] + Claim(j = i) /\ ref[j] \in Nat
           /\ ref[i] > 0 => /\ [ref EXCEPT ![i] = @ - 1] \in [Inum -> Nat]
                            /\ \A j \in Inum : [ref EXCEPT ![i] = @ - 1][j] + Claim(j = i) = ref[j]
  BY DEF RefType, Claim

LEMMA RefInit == Init => RefOk
<1> SUFFICES ASSUME Init PROVE RefOk
  OBVIOUS
<1>1. NINODES \in Nat \ {0} /\ IsFiniteSet(Proc) BY InodesAssumption
<1>2. NoInode \notin Inum /\ Root \in Inum BY <1>1 DEF NoInode, Inum, Root
<1>3. Cardinality(Proc) \in Nat /\ Cardinality({}) = 0 BY <1>1, FS_CardinalityType, FS_EmptySet
<1>4. RefType
  <2>1. entry \in [Inum -> [AnyName -> Inum \cup {NoInode}]] BY <1>2 DEF Init, NoEntries
  <2>2. ref \in [Inum -> Nat] BY <1>3 DEF Init
  <2>3. /\ fd \in [Proc -> Inum \cup {NoInode}] /\ cwd \in [Proc -> Inum]
        /\ pc \in [Proc -> PC] /\ ret \in [Proc -> PC]
        /\ dp \in [Proc -> Inum \cup {NoInode}] /\ ip \in [Proc -> Inum \cup {NoInode}]
        /\ put \in [Proc -> Inum \cup {NoInode}]
    BY <1>2 DEF Init, PC
  <2>4. /\ rest \in [Proc -> Seq(AnyName)] /\ new \in [Proc -> Seq(AnyName)]
        /\ kind \in [Proc -> {"none", "open", "create", "mkdir", "unlink", "link", "chdir"}]
    BY DEF Init
  <2> QED BY <2>1, <2>2, <2>3, <2>4 DEF RefType
<1>5. \A p \in Proc : PlaceOk(p)
  BY <1>2 DEF Init, PlaceOk, Place, InIput, Places, WalkPlaces, HoldPlaces
<1>6. ASSUME NEW i \in Inum PROVE ref[i] = Holders(i)
  <2>1. i # NoInode BY <1>2
  <2>2. {p \in Proc : fd[p] = i} = {} /\ {p \in Proc : put[p] = i} = {} BY <2>1 DEF Init
  <2>3. {p \in Proc : Walking(p) /\ dp[p] = i} = {} /\ {p \in Proc : Holding(p) /\ ip[p] = i} = {}
    BY <2>1 DEF Init
  <2>4. {p \in Proc : cwd[p] = i} = IF i = Root THEN Proc ELSE {} BY DEF Init
  <2>5. Holders(i) = Cardinality(IF i = Root THEN Proc ELSE {}) + 0 + 0 + 0 + 0 BY <1>3, <2>2, <2>3, <2>4 DEF Holders
  <2>6. ref[i] = IF i = Root THEN Cardinality(Proc) ELSE 0 BY DEF Init
  <2> QED BY <1>3, <2>5, <2>6
<1> QED BY <1>4, <1>5, <1>6 DEF RefOk
-----------------------------------------------------------------------------
\* The steps, action by action.
LEMMA RefCall ==
    ASSUME RefOk, NEW p \in Proc, NEW q \in Request, NEW start \in {Root, cwd[p]}, Call(p, q, start)
    PROVE  RefOk'
<1>1. pc[p] = "user" /\ (q.kind \in {"open", "create"} => fd[p] = NoInode) BY DEF Call, At
<1>2. PlaceOk(p) /\ start \in Inum /\ NoInode \notin Inum /\ RefType BY CallType DEF RefOk
<1>3. /\ ref' = [ref EXCEPT ![start] = @ + 1] /\ pc' = [pc EXCEPT ![p] = "walk"]
      /\ kind' = [kind EXCEPT ![p] = q.kind]
      /\ rest' = [rest EXCEPT ![p] = q.path] /\ new' = [new EXCEPT ![p] = q.new]
      /\ dp' = [dp EXCEPT ![p] = start] /\ ip' = [ip EXCEPT ![p] = NoInode]
      /\ UNCHANGED <<entry, fd, cwd, put, ret>>
  BY DEF Call, Iget, Goto, diskVars
<1>4. /\ q.kind \in {"open", "create", "mkdir", "unlink", "link", "chdir"}
      /\ q.path \in Seq(AnyName) /\ q.path # <<>> /\ q.new \in Seq(AnyName)
      /\ (q.kind = "link" => q.new # <<>>)
  BY InodesAssumption
<1>5. RefType'
  <2>1. ref' \in [Inum -> Nat] BY <1>2, <1>3, RefMoves
  <2> QED BY <1>2, <1>3, <1>4, <2>1 DEF RefType, PC
<1>6. \A r \in Proc \ {p} : Idle(r) BY <1>2, <1>3 DEF RefType, Idle
<1>7. /\ fd'[p] = fd[p] /\ cwd'[p] = cwd[p] /\ pc'[p] = "walk" /\ rest'[p] = q.path /\ new'[p] = q.new
      /\ kind'[p] = q.kind /\ dp'[p] = start /\ ip'[p] = NoInode /\ put'[p] = put[p] /\ ret'[p] = ret[p]
  BY <1>2, <1>3 DEF RefType
<1>8. Place(p) = "user" /\ Place(p)' = "walk" /\ put[p] = NoInode
  BY <1>1, <1>2, <1>7 DEF Place, InIput, PlaceOk
<1>9. PlaceOk(p)'
  BY <1>1, <1>2, <1>4, <1>7, <1>8 DEF PlaceOk, Place, InIput, Places, WalkPlaces, HoldPlaces
<1>10. ASSUME NEW i \in Inum
       PROVE  ref'[i] + Claims(cwd[p], fd[p], Place(p), dp[p], ip[p], put[p], i)
                = ref[i] + Claims(cwd'[p], fd'[p], Place(p)', dp'[p], ip'[p], put'[p], i)
  <2>1. ref'[i] = ref[i] + Claim(i = start) /\ ref[i] \in Nat BY <1>2, <1>3, RefMoves
  <2>2. i # NoInode BY <1>2
  <2> QED BY <1>7, <1>8, <2>1, <2>2 DEF Claims, Claim, WalkPlaces, HoldPlaces
<1> QED BY <1>5, <1>6, <1>9, <1>10, RefStep

LEMMA RefWalk ==
    ASSUME RefOk, NEW p \in Proc, Walk(p), pc'[p] # "panic"
    PROVE  RefOk'
<1> PICK d : d = dp[p] OBVIOUS
<1> PICK next : next = entry[d][Head(rest[p])] OBVIOUS
<1> PICK on : on = IF Len(rest[p]) = 1 THEN "found" ELSE "walk" OBVIOUS
<1>1. pc[p] = "walk" BY DEF Walk, At
<1>2. PlaceOk(p) /\ NoInode \notin Inum /\ RefType BY CallType DEF RefOk
<1>3. Place(p) = "walk" /\ ~InIput(p) /\ put[p] = NoInode BY <1>1, <1>2 DEF Place, InIput, PlaceOk
<1>4. /\ d \in Inum /\ rest[p] # <<>> /\ rest[p] \in Seq(AnyName) /\ new[p] \in Seq(AnyName)
      /\ (ip[p] # NoInode => kind[p] = "link") /\ (kind[p] = "link" => new[p] # <<>>)
      /\ kind[p] \in {"open", "create"} => fd[p] = NoInode
  BY <1>2, <1>3, CallType DEF PlaceOk, WalkPlaces
<1>5. UNCHANGED <<entry, fd, cwd, kind, new, ip>> BY DEF Walk, diskVars
<1>6. CASE /\ pc' = [pc EXCEPT ![p] = "found"] /\ UNCHANGED <<ref, rest, dp, put, ret>>
  <2>1. RefType' BY <1>2, <1>5, <1>6 DEF RefType, PC
  <2>2. \A r \in Proc \ {p} : Idle(r) BY <1>2, <1>5, <1>6 DEF RefType, Idle
  <2>3. /\ fd'[p] = fd[p] /\ cwd'[p] = cwd[p] /\ pc'[p] = "found" /\ rest'[p] = rest[p] /\ new'[p] = new[p]
        /\ kind'[p] = kind[p] /\ dp'[p] = d /\ ip'[p] = ip[p] /\ put'[p] = NoInode /\ ret'[p] = ret[p]
    BY <1>2, <1>3, <1>5, <1>6 DEF RefType
  <2>4. Place(p)' = "found" BY <2>3 DEF Place, InIput
  <2>5. PlaceOk(p)' BY <1>2, <1>4, <2>3, <2>4 DEF PlaceOk, InIput, Places, WalkPlaces, HoldPlaces
  <2>6. ASSUME NEW i \in Inum
        PROVE  ref'[i] + Claims(cwd[p], fd[p], Place(p), dp[p], ip[p], put[p], i)
                 = ref[i] + Claims(cwd'[p], fd'[p], Place(p)', dp'[p], ip'[p], put'[p], i)
    <3>1. ref'[i] = ref[i] BY <1>6
    <3> QED BY <1>3, <2>3, <2>4, <3>1 DEF Claims, WalkPlaces, HoldPlaces
  <2> QED BY <2>1, <2>2, <2>5, <2>6, RefStep
<1>7. CASE Iput(p, d, Failed(p)) /\ UNCHANGED <<ref, rest, dp>>
  <2> PICK f : f = Failed(p) OBVIOUS
  <2>1. f \in {"unbump", "user"} /\ (f = "unbump" <=> ip[p] # NoInode) BY DEF Failed
  <2>2. put' = [put EXCEPT ![p] = d] /\ ret' = [ret EXCEPT ![p] = f] /\ pc' = [pc EXCEPT ![p] = "put"]
    BY <1>7 DEF Iput, Goto
  <2>3. RefType' BY <1>2, <1>4, <1>5, <1>7, <2>1, <2>2 DEF RefType, PC
  <2>4. \A r \in Proc \ {p} : Idle(r) BY <1>2, <1>5, <1>7, <2>2 DEF RefType, Idle
  <2>5. /\ fd'[p] = fd[p] /\ cwd'[p] = cwd[p] /\ pc'[p] = "put" /\ rest'[p] = rest[p] /\ new'[p] = new[p]
        /\ kind'[p] = kind[p] /\ dp'[p] = d /\ ip'[p] = ip[p] /\ put'[p] = d /\ ret'[p] = f
    BY <1>2, <1>5, <1>7, <2>2 DEF RefType
  <2>6. Place(p)' = f BY <2>5 DEF Place, InIput
  <2>7. PlaceOk(p)' BY <1>2, <1>4, <2>1, <2>5, <2>6 DEF PlaceOk, InIput, Places, WalkPlaces, HoldPlaces
  <2>8. ASSUME NEW i \in Inum
        PROVE  ref'[i] + Claims(cwd[p], fd[p], Place(p), dp[p], ip[p], put[p], i)
                 = ref[i] + Claims(cwd'[p], fd'[p], Place(p)', dp'[p], ip'[p], put'[p], i)
    <3>1. ref'[i] = ref[i] /\ i # NoInode BY <1>2, <1>7
    <3> QED BY <1>3, <2>1, <2>5, <2>6, <3>1 DEF Claims, Claim, WalkPlaces, HoldPlaces
  <2> QED BY <2>3, <2>4, <2>7, <2>8, RefStep
<1>8. CASE /\ next \in Inum /\ ref' = [ref EXCEPT ![next] = @ + 1] /\ Iput(p, d, on)
           /\ rest' = [rest EXCEPT ![p] = Tail(@)] /\ dp' = [dp EXCEPT ![p] = next]
           /\ on = "found" => ~Parent(p)
  <2>1. on \in {"found", "walk"} OBVIOUS
  <2>2. put' = [put EXCEPT ![p] = d] /\ ret' = [ret EXCEPT ![p] = on] /\ pc' = [pc EXCEPT ![p] = "put"]
    BY <1>8 DEF Iput, Goto
  <2>3. Tail(rest[p]) \in Seq(AnyName) /\ (on = "walk" => Tail(rest[p]) # <<>>)
    <3>1. PICK s : s = rest[p] OBVIOUS
    <3>2. s \in Seq(AnyName) /\ s # <<>> BY <1>4, <3>1
    <3>3. Tail(s) \in Seq(AnyName) /\ Len(Tail(s)) = Len(s) - 1 /\ Len(s) \in Nat BY <3>2
    <3>4. Len(s) # 0 BY <3>2
    <3>5. on = "walk" => Len(s) # 1 BY <3>1
    <3>6. on = "walk" => Len(Tail(s)) # 0 BY <3>3, <3>4, <3>5
    <3>7. Len(<<>>) = 0 OBVIOUS
    <3> QED BY <3>1, <3>3, <3>6, <3>7
  <2>4. RefType'
    <3>1. ref' \in [Inum -> Nat] BY <1>2, <1>8, RefMoves
    <3> QED BY <1>2, <1>4, <1>5, <1>8, <2>1, <2>2, <2>3, <3>1 DEF RefType, PC
  <2>5. \A r \in Proc \ {p} : Idle(r) BY <1>2, <1>5, <1>8, <2>2 DEF RefType, Idle
  <2>6. /\ fd'[p] = fd[p] /\ cwd'[p] = cwd[p] /\ pc'[p] = "put" /\ rest'[p] = Tail(rest[p]) /\ new'[p] = new[p]
        /\ kind'[p] = kind[p] /\ dp'[p] = next /\ ip'[p] = ip[p] /\ put'[p] = d /\ ret'[p] = on
    BY <1>2, <1>5, <1>8, <2>2 DEF RefType
  <2>7. Place(p)' = on BY <2>6 DEF Place, InIput
  <2>8. Parent(p)' <=> Parent(p) BY <2>6 DEF Parent
  <2>9. PlaceOk(p)'
    BY <1>2, <1>4, <1>8, <2>1, <2>3, <2>6, <2>7, <2>8 DEF PlaceOk, InIput, Places, WalkPlaces, HoldPlaces
  <2>10. ASSUME NEW i \in Inum
         PROVE  ref'[i] + Claims(cwd[p], fd[p], Place(p), dp[p], ip[p], put[p], i)
                  = ref[i] + Claims(cwd'[p], fd'[p], Place(p)', dp'[p], ip'[p], put'[p], i)
    <3>1. ref'[i] = ref[i] + Claim(i = next) /\ ref[i] \in Nat /\ i # NoInode BY <1>2, <1>8, RefMoves
    <3> QED BY <1>3, <2>1, <2>6, <2>7, <3>1 DEF Claims, Claim, WalkPlaces, HoldPlaces
  <2> QED BY <2>4, <2>5, <2>9, <2>10, RefStep
<1>9. next \in Inum \cup {NoInode}
  <2>1. Head(rest[p]) \in AnyName BY <1>4
  <2> QED BY <1>2, <1>4, <2>1 DEF RefType
<1>10. CASE Loaded(d).type = "free"
  <2>1. pc' = [pc EXCEPT ![p] = "panic"] BY <1>10 DEF Walk, Goto
  <2> QED BY <1>2, <2>1 DEF RefType
<1>11. CASE Loaded(d).type # "free" /\ Loaded(d).type = "dir" /\ Parent(p) /\ Len(rest[p]) = 1
  BY <1>6, <1>11 DEF Walk, Goto
<1>12. CASE Loaded(d).type # "free" /\ ~(Loaded(d).type = "dir" /\ Parent(p) /\ Len(rest[p]) = 1)
            /\ (Loaded(d).type # "dir" \/ next = NoInode)
  BY <1>7, <1>12 DEF Walk, Lookup
<1>13. CASE Loaded(d).type # "free" /\ ~(Loaded(d).type = "dir" /\ Parent(p) /\ Len(rest[p]) = 1)
            /\ ~(Loaded(d).type # "dir" \/ next = NoInode)
  <2>1. /\ ref' = [ref EXCEPT ![next] = @ + 1] /\ Iput(p, d, on)
        /\ rest' = [rest EXCEPT ![p] = Tail(@)] /\ dp' = [dp EXCEPT ![p] = next]
    BY <1>13 DEF Walk, Lookup, Iget
  <2>2. next \in Inum /\ (on = "found" => ~Parent(p)) BY <1>9, <1>13
  <2> QED BY <1>8, <2>1, <2>2
<1> QED BY <1>10, <1>11, <1>12, <1>13

\* ref moves as the claims of p do, when p starts an iput(d) and goes on at `on`; the
\* others keep their files, directories and inodes.
Moved(p, on, d) ==
    \A i \in Inum : ref'[i] + Claims(cwd[p], fd[p], pc[p], dp[p], ip[p], NoInode, i)
                      = ref[i] + Claims(cwd'[p], fd'[p], on, dp[p], ip'[p], d, i)
OthersKeep(p) == \A r \in Proc \ {p} : fd'[r] = fd[r] /\ cwd'[r] = cwd[r] /\ ip'[r] = ip[r]

\* iput() begins: p goes on at `on` when it is done.
LEMMA PutStep ==
    ASSUME RefOk, NEW p \in Proc, NEW d \in Inum, NEW on \in Places \ {"victim", "walk", "found"},
           ~InIput(p), Iput(p, d, on), UNCHANGED <<rest, new, kind, dp>>,
           entry' \in [Inum -> [AnyName -> Inum \cup {NoInode}]], ref' \in [Inum -> Nat],
           fd' \in [Proc -> Inum \cup {NoInode}], cwd' \in [Proc -> Inum], ip' \in [Proc -> Inum \cup {NoInode}],
           OthersKeep(p), Moved(p, on, d),
           on = "user" \/ (pc[p] # "user" /\ fd'[p] = fd[p]),
           on \in WalkPlaces => dp[p] # NoInode,
           on \in HoldPlaces => ip'[p] # NoInode,
           on \in {"exists", "opened"} => kind[p] \in {"open", "create", "mkdir"}
    PROVE  RefOk'
<1>1. put' = [put EXCEPT ![p] = d] /\ ret' = [ret EXCEPT ![p] = on] /\ pc' = [pc EXCEPT ![p] = "put"]
  BY DEF Iput, Goto
<1>2. PlaceOk(p) /\ NoInode \notin Inum /\ RefType BY CallType DEF RefOk
<1>3. Place(p) = pc[p] /\ put[p] = NoInode BY <1>2 DEF Place, PlaceOk
<1>4. RefType' BY <1>1, <1>2 DEF RefType, PC, Places
<1>5. \A r \in Proc \ {p} : Idle(r) BY <1>1, <1>2 DEF RefType, Idle, OthersKeep
<1>6. /\ pc'[p] = "put" /\ rest'[p] = rest[p] /\ new'[p] = new[p] /\ kind'[p] = kind[p] /\ dp'[p] = dp[p]
      /\ put'[p] = d /\ ret'[p] = on
  BY <1>1, <1>2 DEF RefType
<1>7. Place(p)' = on BY <1>6 DEF Place, InIput
<1>8. kind[p] \in {"open", "create"} /\ pc[p] # "user" => fd[p] = NoInode BY <1>2, <1>3 DEF PlaceOk
<1>9. PlaceOk(p)' BY <1>2, <1>6, <1>7, <1>8 DEF PlaceOk, InIput
<1>10. \A i \in Inum : ref'[i] + Claims(cwd[p], fd[p], Place(p), dp[p], ip[p], put[p], i)
                         = ref[i] + Claims(cwd'[p], fd'[p], Place(p)', dp'[p], ip'[p], put'[p], i)
  BY <1>3, <1>6, <1>7 DEF Moved
<1> QED BY <1>4, <1>5, <1>9, <1>10, RefStep

\* The same when p keeps what it holds but for the place and the reference it puts.
LEMMA PutOnly ==
    ASSUME RefOk, NEW p \in Proc, NEW d \in Inum, NEW on \in Places \ {"victim", "walk", "found"},
           ~InIput(p), Iput(p, d, on), UNCHANGED <<rest, new, kind, dp, ref, fd, cwd, ip>>,
           entry' \in [Inum -> [AnyName -> Inum \cup {NoInode}]],
           on = "user" \/ pc[p] # "user",
           on \in WalkPlaces => dp[p] # NoInode,
           on \in HoldPlaces => ip[p] # NoInode,
           on \in {"exists", "opened"} => kind[p] \in {"open", "create", "mkdir"},
           \A i \in Inum : Claims(cwd[p], fd[p], pc[p], dp[p], ip[p], NoInode, i)
                             = Claims(cwd[p], fd[p], on, dp[p], ip[p], d, i)
    PROVE  RefOk'
<1>1. /\ ref' \in [Inum -> Nat] /\ fd' \in [Proc -> Inum \cup {NoInode}] /\ cwd' \in [Proc -> Inum]
      /\ ip' \in [Proc -> Inum \cup {NoInode}]
  BY DEF RefOk, RefType
<1>2. Moved(p, on, d) /\ OthersKeep(p) BY DEF Moved, OthersKeep
<1> QED BY <1>1, <1>2, PutStep

\* Inside iput(), only the position and the inode that is freed change.
LEMMA InsideStep ==
    ASSUME RefOk, NEW p \in Proc, InIput(p), NEW at \in {"free", "drop"}, pc' = [pc EXCEPT ![p] = at],
           entry' \in [Inum -> [AnyName -> Inum \cup {NoInode}]],
           UNCHANGED <<ref, fd, cwd, kind, rest, new, dp, ip, put, ret>>
    PROVE  RefOk'
<1>1. PlaceOk(p) /\ RefType BY DEF RefOk
<1>2. RefType' BY <1>1 DEF RefType, PC
<1>3. \A r \in Proc \ {p} : Idle(r) BY <1>1 DEF RefType, Idle
<1>4. pc'[p] = at BY <1>1 DEF RefType
<1>5. Place(p)' = Place(p) /\ InIput(p)' BY <1>4 DEF Place, InIput
<1>6. PlaceOk(p)' BY <1>1, <1>5 DEF PlaceOk, Parent
<1>7. \A i \in Inum : ref'[i] + Claims(cwd[p], fd[p], Place(p), dp[p], ip[p], put[p], i)
                        = ref[i] + Claims(cwd'[p], fd'[p], Place(p)', dp'[p], ip'[p], put'[p], i)
  BY <1>5
<1> QED BY <1>2, <1>3, <1>6, <1>7, RefStep

LEMMA RefIputLook == ASSUME RefOk, NEW p \in Proc, IputLook(p) PROVE RefOk'
<1>1. InIput(p) BY DEF IputLook, At, InIput
<1>2. UNCHANGED <<entry, ref, fd, cwd, kind, rest, new, dp, ip, put, ret>> BY DEF IputLook, diskVars, callVars
<1>3. entry' \in [Inum -> [AnyName -> Inum \cup {NoInode}]] BY <1>2 DEF RefOk, RefType
<1>4. pc' = [pc EXCEPT ![p] = "free"] \/ pc' = [pc EXCEPT ![p] = "drop"] BY DEF IputLook, Goto
<1> QED BY <1>1, <1>2, <1>3, <1>4, InsideStep

LEMMA RefIputFree == ASSUME RefOk, NEW p \in Proc, IputFree(p) PROVE RefOk'
<1>1. InIput(p) BY DEF IputFree, At, InIput
<1>2. UNCHANGED <<ref, fd, cwd, kind, rest, new, dp, ip, put, ret>> BY DEF IputFree, callVars
<1>3. entry' = [entry EXCEPT ![put[p]] = NoEntries] BY DEF IputFree
<1>4. entry' \in [Inum -> [AnyName -> Inum \cup {NoInode}]] BY <1>3 DEF RefOk, RefType, NoEntries
<1>5. pc' = [pc EXCEPT ![p] = "drop"] BY DEF IputFree, Goto
<1> QED BY <1>1, <1>2, <1>4, <1>5, InsideStep

\* What is being put has at least that reference.
LEMMA PutHeld ==
    ASSUME RefOk, NEW p \in Proc, InIput(p)
    PROVE  put[p] \in Inum /\ ref[put[p]] \in Nat /\ ref[put[p]] > 0
<1>1. PICK i : i = put[p] OBVIOUS
<1>2. i \in Inum BY <1>1, CallType DEF PlaceOk
<1>3. PICK C, F, W, D, T : /\ C = {r \in Proc : cwd[r] = i} /\ F = {r \in Proc : fd[r] = i}
                           /\ W = {r \in Proc : Walking(r) /\ dp[r] = i}
                           /\ D = {r \in Proc : Holding(r) /\ ip[r] = i} /\ T = {r \in Proc : put[r] = i}
  OBVIOUS
<1>4. ref[i] = Cardinality(C) + Cardinality(F) + Cardinality(W) + Cardinality(D) + Cardinality(T)
  BY <1>2, <1>3 DEF Holders, RefOk
<1>5. IsFiniteSet(C) /\ IsFiniteSet(F) /\ IsFiniteSet(W) /\ IsFiniteSet(D) /\ IsFiniteSet(T)
  BY <1>3, InodesAssumption, FS_Subset
<1>6. /\ Cardinality(C) \in Nat /\ Cardinality(F) \in Nat /\ Cardinality(W) \in Nat /\ Cardinality(D) \in Nat
      /\ Cardinality(T) \in Nat
  BY <1>5, FS_CardinalityType
<1>7. T # {} BY <1>1, <1>3
<1>8. Cardinality(T) # 0 BY <1>5, <1>7, FS_EmptySet
<1>9. ref[i] \in Nat /\ ref[i] > 0 BY <1>4, <1>6, <1>8
<1> QED BY <1>1, <1>2, <1>9

LEMMA RefIputDrop == ASSUME RefOk, NEW p \in Proc, IputDrop(p) PROVE RefOk'
<1> PICK i : i = put[p] OBVIOUS
<1> PICK on : on = ret[p] OBVIOUS
<1>1. pc[p] = "drop" BY DEF IputDrop, At
<1>2. PlaceOk(p) /\ NoInode \notin Inum /\ RefType BY CallType DEF RefOk
<1>3. Place(p) = on /\ InIput(p) BY <1>1 DEF Place, InIput
<1>4. i \in Inum /\ ref[i] > 0 BY <1>3, PutHeld
<1>5. /\ ref' = [ref EXCEPT ![i] = @ - 1] /\ pc' = [pc EXCEPT ![p] = on]
      /\ put' = [put EXCEPT ![p] = NoInode] /\ ret' = [ret EXCEPT ![p] = "user"]
      /\ UNCHANGED <<entry, fd, cwd>>
  BY DEF IputDrop, Goto, diskVars
<1>6. on \in Places \ {"victim"} BY <1>2, <1>3 DEF PlaceOk
<1>7. CASE on = "user"
  <2>1. /\ kind' = [kind EXCEPT ![p] = "none"] /\ rest' = [rest EXCEPT ![p] = <<>>]
        /\ new' = [new EXCEPT ![p] = <<>>]
        /\ dp' = [dp EXCEPT ![p] = NoInode] /\ ip' = [ip EXCEPT ![p] = NoInode]
    BY <1>7 DEF IputDrop, Return
  <2>2. RefType'
    <3>1. ref' \in [Inum -> Nat] BY <1>2, <1>4, <1>5, RefMoves
    <3>2. <<>> \in Seq(AnyName) OBVIOUS
    <3> QED BY <1>2, <1>5, <1>6, <2>1, <3>1, <3>2 DEF RefType, PC, Places
  <2>3. \A r \in Proc \ {p} : Idle(r) BY <1>2, <1>5, <2>1 DEF RefType, Idle
  <2>4. /\ fd'[p] = fd[p] /\ cwd'[p] = cwd[p] /\ pc'[p] = "user" /\ put'[p] = NoInode BY <1>2, <1>5, <1>7 DEF RefType
  <2>5. Place(p)' = "user" /\ ~InIput(p)' BY <2>4 DEF Place, InIput
  <2>6. PlaceOk(p)' BY <2>4, <2>5 DEF PlaceOk, Places, WalkPlaces, HoldPlaces
  <2>7. ASSUME NEW j \in Inum
        PROVE  ref'[j] + Claims(cwd[p], fd[p], Place(p), dp[p], ip[p], put[p], j)
                 = ref[j] + Claims(cwd'[p], fd'[p], Place(p)', dp'[p], ip'[p], put'[p], j)
    <3>1. ref'[j] + Claim(j = i) = ref[j] /\ ref[j] \in Nat BY <1>2, <1>4, <1>5, RefMoves
    <3>2. ref'[j] \in Nat BY <2>2 DEF RefType
    <3>3. j # NoInode BY <1>2
    <3> QED BY <1>3, <1>7, <2>4, <2>5, <3>1, <3>2, <3>3 DEF Claims, Claim, WalkPlaces, HoldPlaces
  <2> QED BY <2>2, <2>3, <2>6, <2>7, RefStep
<1>8. CASE on # "user"
  <2>1. UNCHANGED <<kind, rest, new, dp, ip>> BY <1>8 DEF IputDrop, callVars
  <2>2. RefType'
    <3>1. ref' \in [Inum -> Nat] BY <1>2, <1>4, <1>5, RefMoves
    <3> QED BY <1>2, <1>5, <1>6, <2>1, <3>1 DEF RefType, PC, Places
  <2>3. \A r \in Proc \ {p} : Idle(r) BY <1>2, <1>5, <2>1 DEF RefType, Idle
  <2>4. /\ fd'[p] = fd[p] /\ cwd'[p] = cwd[p] /\ pc'[p] = on /\ put'[p] = NoInode BY <1>2, <1>5 DEF RefType
  <2>5. Place(p)' = on /\ ~InIput(p)' BY <1>6, <2>4 DEF Place, InIput, Places
  <2>6. PlaceOk(p)' BY <1>2, <1>3, <1>6, <2>1, <2>4, <2>5 DEF PlaceOk, Parent
  <2>7. ASSUME NEW j \in Inum
        PROVE  ref'[j] + Claims(cwd[p], fd[p], Place(p), dp[p], ip[p], put[p], j)
                 = ref[j] + Claims(cwd'[p], fd'[p], Place(p)', dp'[p], ip'[p], put'[p], j)
    <3>1. ref'[j] + Claim(j = i) = ref[j] /\ ref[j] \in Nat BY <1>2, <1>4, <1>5, RefMoves
    <3>2. ref'[j] \in Nat BY <2>2 DEF RefType
    <3>3. j # NoInode BY <1>2
    <3> QED BY <1>3, <2>1, <2>4, <2>5, <3>1, <3>2, <3>3 DEF Claims, Claim
  <2> QED BY <2>2, <2>3, <2>6, <2>7, RefStep
<1> QED BY <1>7, <1>8

LEMMA RefOpenLock == ASSUME RefOk, NEW p \in Proc, OpenLock(p), pc'[p] # "panic" PROVE RefOk'
<1> PICK i : i = IF pc[p] = "found" THEN dp[p] ELSE ip[p] OBVIOUS
<1>1. (pc[p] = "found" /\ kind[p] = "open") \/ pc[p] = "exists" BY DEF OpenLock, At
<1>2. PlaceOk(p) /\ NoInode \notin Inum /\ RefType BY CallType DEF RefOk
<1>3. Place(p) = pc[p] /\ ~InIput(p) /\ put[p] = NoInode BY <1>1, <1>2 DEF Place, InIput, PlaceOk
<1>4. i \in Inum BY <1>1, <1>2, <1>3, CallType DEF PlaceOk, WalkPlaces, HoldPlaces
<1>5. /\ kind[p] \in {"open", "create", "mkdir"} /\ (kind[p] \in {"open", "create"} => fd[p] = NoInode)
      /\ pc[p] = "found" => ip[p] = NoInode
      /\ pc[p] = "exists" => ip[p] = i
  BY <1>1, <1>2, <1>3 DEF PlaceOk
<1>6. ip' = [ip EXCEPT ![p] = i] /\ UNCHANGED <<entry, ref, fd, cwd, kind, rest, new, dp>>
  BY DEF OpenLock, At, diskVars
<1>7. CASE pc' = [pc EXCEPT ![p] = "opened"] /\ UNCHANGED <<put, ret>>
  <2>1. RefType' BY <1>2, <1>4, <1>6, <1>7 DEF RefType, PC
  <2>2. \A r \in Proc \ {p} : Idle(r) BY <1>2, <1>6, <1>7 DEF RefType, Idle
  <2>3. pc'[p] = "opened" /\ ip'[p] = i BY <1>2, <1>6, <1>7 DEF RefType
  <2>4. Place(p)' = "opened" /\ ~InIput(p)' BY <2>3 DEF Place, InIput
  <2>5. PlaceOk(p)' BY <1>2, <1>3, <1>4, <1>5, <1>6, <1>7, <2>3, <2>4 DEF PlaceOk, Places, WalkPlaces, HoldPlaces
  <2>6. ASSUME NEW j \in Inum
        PROVE  ref'[j] + Claims(cwd[p], fd[p], Place(p), dp[p], ip[p], put[p], j)
                 = ref[j] + Claims(cwd'[p], fd'[p], Place(p)', dp'[p], ip'[p], put'[p], j)
    <3>1. ref'[j] = ref[j] /\ ref[j] \in Nat /\ j # NoInode BY <1>2, <1>6 DEF RefType
    <3>2. Claims(cwd[p], fd[p], Place(p), dp[p], ip[p], put[p], j)
            = Claims(cwd[p], fd[p], "opened", dp[p], i, NoInode, j)
      BY <1>1, <1>3, <1>5, <3>1 DEF Claims, Claim, WalkPlaces, HoldPlaces
    <3> QED BY <1>3, <1>6, <1>7, <2>3, <2>4, <3>1, <3>2
  <2> QED BY <2>1, <2>2, <2>5, <2>6, RefStep
<1>8. CASE pc[p] = "exists" /\ Iput(p, i, "user")
  <2>1. ip' = ip BY <1>2, <1>5, <1>6, <1>8 DEF RefType
  <2>2. entry' \in [Inum -> [AnyName -> Inum \cup {NoInode}]] BY <1>2, <1>6 DEF RefType
  <2>3. "user" \in Places \ {"victim", "walk", "found"} BY DEF Places
  <2>4. "user" \notin WalkPlaces /\ "user" \notin HoldPlaces BY DEF WalkPlaces, HoldPlaces
  <2>5. ASSUME NEW j \in Inum
        PROVE  Claims(cwd[p], fd[p], pc[p], dp[p], ip[p], NoInode, j)
                 = Claims(cwd[p], fd[p], "user", dp[p], ip[p], i, j)
    <3>1. j # NoInode BY <1>2
    <3> QED BY <1>5, <1>8, <3>1 DEF Claims, Claim, WalkPlaces, HoldPlaces
  <2> QED BY <1>3, <1>4, <1>6, <1>8, <2>1, <2>2, <2>3, <2>4, <2>5, PutOnly
<1>9. CASE Loaded(i).type = "free"
  <2>1. pc' = [pc EXCEPT ![p] = "panic"] BY <1>9 DEF OpenLock, Goto, At
  <2> QED BY <1>2, <2>1 DEF RefType
<1>10. CASE Loaded(i).type # "free" /\ (pc[p] = "exists" /\ (kind[p] # "create" \/ Loaded(i).type # "file"))
  BY <1>8, <1>10 DEF OpenLock, At
<1>11. CASE Loaded(i).type # "free" /\ ~(pc[p] = "exists" /\ (kind[p] # "create" \/ Loaded(i).type # "file"))
  BY <1>7, <1>11 DEF OpenLock, At, Goto
<1> QED BY <1>9, <1>10, <1>11

LEMMA RefOpened == ASSUME RefOk, NEW p \in Proc, Opened(p) PROVE RefOk'
<1>1. pc[p] = "opened" /\ kind[p] # "mkdir" BY DEF Opened, At
<1>2. PlaceOk(p) /\ NoInode \notin Inum /\ RefType BY CallType DEF RefOk
<1>3. Place(p) = "opened" /\ ~InIput(p) /\ put[p] = NoInode BY <1>1, <1>2 DEF Place, InIput, PlaceOk
<1>4. fd[p] = NoInode /\ ip[p] \in Inum BY <1>1, <1>2, <1>3, CallType DEF PlaceOk, HoldPlaces
<1>5. /\ fd' = [fd EXCEPT ![p] = ip[p]] /\ pc' = [pc EXCEPT ![p] = "user"]
      /\ kind' = [kind EXCEPT ![p] = "none"] /\ rest' = [rest EXCEPT ![p] = <<>>]
      /\ new' = [new EXCEPT ![p] = <<>>]
      /\ dp' = [dp EXCEPT ![p] = NoInode] /\ ip' = [ip EXCEPT ![p] = NoInode]
      /\ UNCHANGED <<entry, ref, cwd, put, ret>>
  BY DEF Opened, Goto, Return, diskVars
<1>6. RefType'
  <2>1. <<>> \in Seq(AnyName) OBVIOUS
  <2> QED BY <1>2, <1>4, <1>5, <2>1 DEF RefType, PC
<1>7. \A r \in Proc \ {p} : Idle(r) BY <1>2, <1>5 DEF RefType, Idle
<1>8. fd'[p] = ip[p] /\ pc'[p] = "user" /\ put'[p] = NoInode /\ cwd'[p] = cwd[p] BY <1>2, <1>3, <1>5 DEF RefType
<1>9. Place(p)' = "user" /\ ~InIput(p)' BY <1>8 DEF Place, InIput
<1>10. PlaceOk(p)' BY <1>8, <1>9 DEF PlaceOk, Places, WalkPlaces, HoldPlaces
<1>11. ASSUME NEW j \in Inum
       PROVE  ref'[j] + Claims(cwd[p], fd[p], Place(p), dp[p], ip[p], put[p], j)
                = ref[j] + Claims(cwd'[p], fd'[p], Place(p)', dp'[p], ip'[p], put'[p], j)
  <2>1. ref'[j] = ref[j] /\ ref[j] \in Nat /\ j # NoInode BY <1>2, <1>5 DEF RefType
  <2>2. Claims(cwd[p], fd[p], Place(p), dp[p], ip[p], put[p], j)
          = Claims(cwd'[p], fd'[p], Place(p)', dp'[p], ip'[p], put'[p], j)
    BY <1>3, <1>4, <1>8, <1>9, <2>1 DEF Claims, Claim, WalkPlaces, HoldPlaces
  <2> QED BY <2>1, <2>2
<1> QED BY <1>6, <1>7, <1>10, <1>11, RefStep

LEMMA UserIsNone ==
    /\ "user" \in Places \ {"victim", "walk", "found"} /\ "user" \notin WalkPlaces /\ "user" \notin HoldPlaces
  BY DEF Places, WalkPlaces, HoldPlaces

LEMMA RefNotOpened == ASSUME RefOk, NEW p \in Proc, NotOpened(p) PROVE RefOk'
<1>1. pc[p] = "opened" /\ Iput(p, ip[p], "user") BY DEF NotOpened, At
<1>2. PlaceOk(p) /\ NoInode \notin Inum /\ RefType BY CallType DEF RefOk
<1>3. ip[p] \in Inum /\ ~InIput(p) BY <1>1, <1>2, CallType DEF Place, InIput, PlaceOk, HoldPlaces
<1>4. UNCHANGED <<entry, rest, new, kind, dp, ref, fd, cwd, ip>> BY DEF NotOpened, diskVars, callVars
<1>5. entry' \in [Inum -> [AnyName -> Inum \cup {NoInode}]] BY <1>2, <1>4 DEF RefType
<1>6. ASSUME NEW j \in Inum
      PROVE  Claims(cwd[p], fd[p], pc[p], dp[p], ip[p], NoInode, j)
               = Claims(cwd[p], fd[p], "user", dp[p], ip[p], ip[p], j)
  <2>1. j # NoInode BY <1>2
  <2> QED BY <1>1, <2>1 DEF Claims, Claim, WalkPlaces, HoldPlaces
<1> QED BY <1>1, <1>3, <1>4, <1>5, <1>6, UserIsNone, PutOnly

LEMMA RefClose == ASSUME RefOk, NEW p \in Proc, Close(p) PROVE RefOk'
<1>1. pc[p] = "user" /\ fd[p] # NoInode /\ Iput(p, fd[p], "user") /\ fd' = [fd EXCEPT ![p] = NoInode]
  BY DEF Close, At
<1>2. PlaceOk(p) /\ NoInode \notin Inum /\ RefType /\ fd[p] \in Inum BY <1>1, CallType DEF RefOk
<1>3. ~InIput(p) BY <1>1 DEF InIput
<1>4. UNCHANGED <<entry, rest, new, kind, dp, ref, cwd, ip>> BY DEF Close, diskVars, cacheVars, callVars
<1>5. /\ entry' \in [Inum -> [AnyName -> Inum \cup {NoInode}]] /\ ref' \in [Inum -> Nat]
      /\ fd' \in [Proc -> Inum \cup {NoInode}] /\ cwd' \in [Proc -> Inum] /\ ip' \in [Proc -> Inum \cup {NoInode}]
      /\ OthersKeep(p) /\ fd'[p] = NoInode
  BY <1>1, <1>2, <1>4 DEF RefType, OthersKeep
<1>6. ASSUME NEW j \in Inum
      PROVE  ref'[j] + Claims(cwd[p], fd[p], pc[p], dp[p], ip[p], NoInode, j)
               = ref[j] + Claims(cwd'[p], fd'[p], "user", dp[p], ip'[p], fd[p], j)
  <2>1. j # NoInode BY <1>2
  <2>2. Claims(cwd[p], fd[p], pc[p], dp[p], ip[p], NoInode, j)
          = Claims(cwd[p], NoInode, "user", dp[p], ip[p], fd[p], j)
    BY <1>1, <2>1 DEF Claims, Claim, WalkPlaces, HoldPlaces
  <2> QED BY <1>4, <1>5, <2>2
<1>7. Moved(p, "user", fd[p]) BY <1>6 DEF Moved
<1> QED BY <1>1, <1>2, <1>3, <1>4, <1>5, <1>7, UserIsNone, PutStep

LEMMA RefChdir == ASSUME RefOk, NEW p \in Proc, Chdir(p), pc'[p] # "panic" PROVE RefOk'
<1> PICK i : i = dp[p] OBVIOUS
<1>1. pc[p] = "found" /\ kind[p] = "chdir" BY DEF Chdir, At
<1>2. PlaceOk(p) /\ NoInode \notin Inum /\ RefType BY CallType DEF RefOk
<1>3. Place(p) = "found" /\ ~InIput(p) BY <1>1 DEF Place, InIput
<1>4. i \in Inum /\ cwd[p] \in Inum /\ ip[p] = NoInode BY <1>1, <1>2, <1>3, CallType DEF PlaceOk, WalkPlaces
<1>5. UNCHANGED <<entry, rest, new, kind, dp, ref, fd, ip>> BY DEF Chdir, diskVars, callVars
<1>6. /\ entry' \in [Inum -> [AnyName -> Inum \cup {NoInode}]] /\ ref' \in [Inum -> Nat]
      /\ fd' \in [Proc -> Inum \cup {NoInode}] /\ ip' \in [Proc -> Inum \cup {NoInode}]
  BY <1>2, <1>5 DEF RefType
<1>7. CASE Iput(p, cwd[p], "user") /\ cwd' = [cwd EXCEPT ![p] = i]
  <2>1. cwd' \in [Proc -> Inum] /\ cwd'[p] = i /\ OthersKeep(p)
    BY <1>2, <1>4, <1>5, <1>7 DEF RefType, OthersKeep
  <2>2. ASSUME NEW j \in Inum
        PROVE  ref'[j] + Claims(cwd[p], fd[p], pc[p], dp[p], ip[p], NoInode, j)
                 = ref[j] + Claims(cwd'[p], fd'[p], "user", dp[p], ip'[p], cwd[p], j)
    <3>1. j # NoInode BY <1>2
    <3>2. Claims(cwd[p], fd[p], pc[p], dp[p], ip[p], NoInode, j)
            = Claims(i, fd[p], "user", dp[p], ip[p], cwd[p], j)
      BY <1>1, <1>4, <3>1 DEF Claims, Claim, WalkPlaces, HoldPlaces
    <3> QED BY <1>5, <2>1, <3>2
  <2>3. Moved(p, "user", cwd[p]) BY <2>2 DEF Moved
  <2> QED BY <1>3, <1>4, <1>5, <1>6, <1>7, <2>1, <2>3, UserIsNone, PutStep
<1>8. CASE Iput(p, i, "user") /\ cwd' = cwd
  <2>1. ASSUME NEW j \in Inum
        PROVE  Claims(cwd[p], fd[p], pc[p], dp[p], ip[p], NoInode, j)
                 = Claims(cwd[p], fd[p], "user", dp[p], ip[p], i, j)
    <3>1. j # NoInode BY <1>2
    <3> QED BY <1>1, <1>4, <3>1 DEF Claims, Claim, WalkPlaces, HoldPlaces
  <2> QED BY <1>3, <1>4, <1>5, <1>6, <1>8, <2>1, UserIsNone, PutOnly
<1>9. CASE Loaded(i).type = "free"
  <2>1. pc' = [pc EXCEPT ![p] = "panic"] BY <1>9 DEF Chdir, Goto
  <2> QED BY <1>2, <2>1 DEF RefType
<1>10. CASE Loaded(i).type # "free" /\ Loaded(i).type = "dir" BY <1>7, <1>10 DEF Chdir
<1>11. CASE Loaded(i).type # "free" /\ Loaded(i).type # "dir" BY <1>8, <1>11 DEF Chdir
<1> QED BY <1>9, <1>10, <1>11

\* ialloc() returns an inode.
LEMMA MinIn ==
    ASSUME NEW S \in SUBSET Inum, S # {}
    PROVE  Min(S) \in S
<1>1. S \subseteq Nat BY InodesAssumption DEF Inum
<1>2. PICK x \in S : \A y \in S : <<y, x>> \notin OpToRel(<, Nat) BY <1>1, WFMin, NatLessThanWellFounded
<1>3. OpToRel(<, Nat) = {s \in Nat \X Nat : s[1] < s[2]} BY Zenon DEF OpToRel
<1>4. \A y \in S : <<y, x>> \notin {s \in Nat \X Nat : s[1] < s[2]} BY <1>2, <1>3, Zenon
<1>5. ASSUME NEW y \in S PROVE x <= y
  <2>1. x \in Nat /\ y \in Nat BY <1>1
  <2>2. y < x => <<y, x>> \in {s \in Nat \X Nat : s[1] < s[2]} BY <2>1
  <2>3. ~(y < x) BY <1>4, <2>2
  <2> QED BY <2>1, <2>3
<1> QED BY <1>5 DEF Min

LEMMA RefCreate == ASSUME RefOk, NEW p \in Proc, Create(p), pc'[p] \notin {"full", "panic"} PROVE RefOk'
<1> PICK d : d = dp[p] OBVIOUS
<1> PICK n : n = Head(rest[p]) OBVIOUS
<1> PICK old : old = entry[d][n] OBVIOUS
<1> PICK unused : unused = {j \in Inum : disk[j].type = "free"} OBVIOUS
<1> PICK i : i = Min(unused) OBVIOUS
<1>1. pc[p] = "found" /\ kind[p] \in {"create", "mkdir"} BY DEF Create, At
<1>2. PlaceOk(p) /\ NoInode \notin Inum /\ RefType BY CallType DEF RefOk
<1>3. Place(p) = "found" /\ ~InIput(p) BY <1>1 DEF Place, InIput
<1>4. d \in Inum /\ ip[p] = NoInode /\ n \in AnyName
  <2>1. Parent(p) BY <1>1 DEF Parent
  <2>2. rest[p] # <<>> /\ rest[p] \in Seq(AnyName) BY <1>2, <1>3, <2>1, CallType DEF PlaceOk
  <2>3. n \in AnyName BY <2>2
  <2> QED BY <1>1, <1>2, <1>3, <2>3, CallType DEF PlaceOk, WalkPlaces
<1>5. old \in Inum \cup {NoInode} BY <1>2, <1>4 DEF RefType
<1>6. UNCHANGED <<rest, new, kind, dp, fd, cwd>> BY DEF Create
<1>7. fd' \in [Proc -> Inum \cup {NoInode}] /\ cwd' \in [Proc -> Inum] BY <1>2, <1>6 DEF RefType
<1>8. ASSUME NEW it \in Inum, NEW on \in {"exists", "opened"}, Iput(p, d, on),
             ref' = [ref EXCEPT ![it] = @ + 1], ip' = [ip EXCEPT ![p] = it],
             entry' \in [Inum -> [AnyName -> Inum \cup {NoInode}]]
      PROVE  RefOk'
  <2>1. /\ ip' \in [Proc -> Inum \cup {NoInode}] /\ ip'[p] = it /\ \A r \in Proc \ {p} : ip'[r] = ip[r]
    BY <1>2, <1>8 DEF RefType
  <2>2. ref' \in [Inum -> Nat] BY <1>2, <1>8, RefMoves
  <2>3. ASSUME NEW j \in Inum
        PROVE  ref'[j] + Claims(cwd[p], fd[p], pc[p], dp[p], ip[p], NoInode, j)
                 = ref[j] + Claims(cwd'[p], fd'[p], on, dp[p], ip'[p], d, j)
    <3>1. j # NoInode BY <1>2
    <3>2. ref'[j] = ref[j] + Claim(j = it) /\ ref[j] \in Nat BY <1>2, <1>8, RefMoves
    <3>3. PICK x \in Nat : x = Claims(cwd[p], fd[p], pc[p], dp[p], ip[p], NoInode, j) BY DEF Claims, Claim
    <3>4. Claims(cwd[p], fd[p], on, dp[p], it, d, j) = x + Claim(j = it)
      BY <1>1, <1>4, <1>8, <3>1, <3>3 DEF Claims, Claim, WalkPlaces, HoldPlaces
    <3>5. Claim(j = it) \in Nat BY DEF Claim
    <3> QED BY <1>6, <2>1, <3>2, <3>3, <3>4, <3>5
  <2>4. /\ on \in Places \ {"victim", "walk", "found"} /\ on \notin WalkPlaces
        /\ on \in HoldPlaces => ip'[p] # NoInode
    BY <1>2, <1>8, <2>1 DEF Places, WalkPlaces
  <2>5. UNCHANGED <<rest, new, kind, dp>> /\ fd'[p] = fd[p] /\ pc[p] # "user" BY <1>1, <1>6
  <2>6. OthersKeep(p) /\ Moved(p, on, d) BY <1>6, <2>1, <2>3 DEF OthersKeep, Moved
  <2>7. kind[p] \in {"open", "create", "mkdir"} BY <1>1
  <2> QED BY <1>3, <1>4, <1>7, <1>8, <2>1, <2>2, <2>4, <2>5, <2>6, <2>7, PutStep
<1>9. CASE Loaded(d).type # "dir"
  <2>1. pc' = [pc EXCEPT ![p] = "panic"] BY <1>9 DEF Create, Goto
  <2> QED BY <1>2, <2>1 DEF RefType
<1>10. CASE Loaded(d).type = "dir" /\ old # NoInode
  <2>1. /\ ref' = [ref EXCEPT ![old] = @ + 1] /\ Iput(p, d, "exists") /\ ip' = [ip EXCEPT ![p] = old] /\ entry' = entry
    BY <1>10 DEF Create, Lookup, Iget, diskVars
  <2>2. entry' \in [Inum -> [AnyName -> Inum \cup {NoInode}]] BY <1>2, <2>1 DEF RefType
  <2> QED BY <1>5, <1>8, <1>10, <2>1, <2>2
<1>11. CASE Loaded(d).type = "dir" /\ old = NoInode /\ unused = {}
  <2>1. pc' = [pc EXCEPT ![p] = "full"] BY <1>11 DEF Create, Lookup, Goto
  <2> QED BY <1>2, <2>1 DEF RefType
<1>12. CASE Loaded(d).type = "dir" /\ old = NoInode /\ unused # {}
  <2> PICK isDir : isDir = (kind[p] = "mkdir") OBVIOUS
  <2>1. unused \subseteq Inum OBVIOUS
  <2>2. i \in Inum BY <1>12, <2>1, MinIn
  <2>3. ref' = [ref EXCEPT ![i] = @ + 1] /\ Iput(p, d, "opened") /\ ip' = [ip EXCEPT ![p] = i]
    BY <1>12 DEF Create, Lookup, Iget
  <2>4. PICK first : /\ first \in [AnyName -> Inum \cup {NoInode}]
                     /\ entry' = [entry EXCEPT ![i] = first, ![d][n] = i]
    <3>1. entry' = [entry EXCEPT
                      ![i] = IF kind[p] = "mkdir" THEN [NoEntries EXCEPT ![Dot] = i, ![DotDot] = d] ELSE @,
                      ![d][n] = i]
      BY <1>12 DEF Create, Lookup
    <3>2. entry[i] \in [AnyName -> Inum \cup {NoInode}] BY <1>2, <2>2 DEF RefType
    <3>3. [NoEntries EXCEPT ![Dot] = i, ![DotDot] = d] \in [AnyName -> Inum \cup {NoInode}]
      BY <1>4, <2>2 DEF NoEntries
    <3> QED BY <3>1, <3>2, <3>3
  <2>5. entry' \in [Inum -> [AnyName -> Inum \cup {NoInode}]] BY <1>2, <1>4, <2>2, <2>4 DEF RefType
  <2> QED BY <1>8, <2>2, <2>3, <2>5
<1> QED BY <1>9, <1>10, <1>11, <1>12

LEMMA RefUnlinkFind == ASSUME RefOk, NEW p \in Proc, UnlinkFind(p), pc'[p] # "panic" PROVE RefOk'
<1> PICK d : d = dp[p] OBVIOUS
<1> PICK i : i = entry[d][Head(rest[p])] OBVIOUS
<1>1. pc[p] = "found" /\ kind[p] = "unlink" BY DEF UnlinkFind, At
<1>2. PlaceOk(p) /\ NoInode \notin Inum /\ RefType BY CallType DEF RefOk
<1>3. Place(p) = "found" /\ ~InIput(p) /\ put[p] = NoInode BY <1>1, <1>2 DEF Place, InIput, PlaceOk
<1>4. d \in Inum /\ ip[p] = NoInode /\ i \in Inum \cup {NoInode}
  <2>1. Parent(p) BY <1>1 DEF Parent
  <2>2. rest[p] # <<>> /\ rest[p] \in Seq(AnyName) BY <1>2, <1>3, <2>1, CallType DEF PlaceOk
  <2>3. Head(rest[p]) \in AnyName BY <2>2
  <2>4. d \in Inum /\ ip[p] = NoInode BY <1>1, <1>2, <1>3, CallType DEF PlaceOk, WalkPlaces
  <2> QED BY <1>2, <2>3, <2>4 DEF RefType
<1>5. UNCHANGED <<entry, fd, cwd, kind, rest, new, dp>> BY DEF UnlinkFind, diskVars
<1>6. CASE Iput(p, d, "user") /\ UNCHANGED <<ref, ip>>
  <2>1. entry' \in [Inum -> [AnyName -> Inum \cup {NoInode}]] BY <1>2, <1>5 DEF RefType
  <2>2. ASSUME NEW j \in Inum
        PROVE  Claims(cwd[p], fd[p], pc[p], dp[p], ip[p], NoInode, j)
                 = Claims(cwd[p], fd[p], "user", dp[p], ip[p], d, j)
    <3>1. j # NoInode BY <1>2
    <3> QED BY <1>1, <1>4, <3>1 DEF Claims, Claim, WalkPlaces, HoldPlaces
  <2> QED BY <1>3, <1>4, <1>5, <1>6, <2>1, <2>2, UserIsNone, PutOnly
<1>7. CASE /\ i # NoInode /\ ref' = [ref EXCEPT ![i] = @ + 1] /\ ip' = [ip EXCEPT ![p] = i]
           /\ pc' = [pc EXCEPT ![p] = "victim"] /\ UNCHANGED <<put, ret>>
  <2>1. RefType'
    <3>1. ref' \in [Inum -> Nat] BY <1>2, <1>4, <1>7, RefMoves
    <3> QED BY <1>2, <1>4, <1>5, <1>7, <3>1 DEF RefType, PC
  <2>2. \A r \in Proc \ {p} : Idle(r) BY <1>2, <1>5, <1>7 DEF RefType, Idle
  <2>3. pc'[p] = "victim" /\ ip'[p] = i BY <1>2, <1>7 DEF RefType
  <2>4. Place(p)' = "victim" /\ ~InIput(p)' BY <2>3 DEF Place, InIput
  <2>5. PlaceOk(p)' BY <1>1, <1>3, <1>4, <1>5, <1>7, <1>2, <2>3, <2>4 DEF PlaceOk, Places, WalkPlaces, HoldPlaces
  <2>6. ASSUME NEW j \in Inum
        PROVE  ref'[j] + Claims(cwd[p], fd[p], Place(p), dp[p], ip[p], put[p], j)
                 = ref[j] + Claims(cwd'[p], fd'[p], Place(p)', dp'[p], ip'[p], put'[p], j)
    <3>1. ref'[j] = ref[j] + Claim(j = i) /\ ref[j] \in Nat /\ j # NoInode BY <1>2, <1>4, <1>7, RefMoves
    <3> QED BY <1>3, <1>4, <1>5, <1>7, <2>3, <2>4, <3>1 DEF Claims, Claim, WalkPlaces, HoldPlaces
  <2> QED BY <2>1, <2>2, <2>5, <2>6, RefStep
<1> PICK halt \in BOOLEAN :
      halt <=> Loaded(d).type = "free" \/ (~(Head(rest[p]) \in {Dot, DotDot}) /\ Loaded(d).type # "dir")
  OBVIOUS
<1>8. CASE halt
  <2>1. pc' = [pc EXCEPT ![p] = "panic"] BY <1>8 DEF UnlinkFind, Goto
  <2> QED BY <1>2, <2>1 DEF RefType
<1>9. CASE ~halt /\ (Head(rest[p]) \in {Dot, DotDot} \/ i = NoInode) BY <1>6, <1>9 DEF UnlinkFind, Lookup
<1>10. CASE ~halt /\ ~(Head(rest[p]) \in {Dot, DotDot} \/ i = NoInode)
  BY <1>7, <1>10 DEF UnlinkFind, Lookup, Iget, Goto
<1> QED BY <1>8, <1>9, <1>10

LEMMA RefUnlinkEntry == ASSUME RefOk, NEW p \in Proc, UnlinkEntry(p), pc'[p] # "panic" PROVE RefOk'
<1> PICK d : d = dp[p] OBVIOUS
<1> PICK i : i = ip[p] OBVIOUS
<1>1. pc[p] = "victim" BY DEF UnlinkEntry, At
<1>2. PlaceOk(p) /\ NoInode \notin Inum /\ RefType BY CallType DEF RefOk
<1>3. Place(p) = "victim" /\ ~InIput(p) BY <1>1 DEF Place, InIput
<1>4. d \in Inum /\ i \in Inum BY <1>2, <1>3, CallType DEF PlaceOk, WalkPlaces, HoldPlaces
<1>5. UNCHANGED <<ref, fd, cwd, rest, new, kind, dp, ip>> BY DEF UnlinkEntry, callVars
<1>6. CASE Iput(p, i, "unlinkbad") /\ entry' = entry
  <2>1. entry' \in [Inum -> [AnyName -> Inum \cup {NoInode}]] BY <1>2, <1>6 DEF RefType
  <2>2. ASSUME NEW j \in Inum
        PROVE  Claims(cwd[p], fd[p], pc[p], dp[p], ip[p], NoInode, j)
                 = Claims(cwd[p], fd[p], "unlinkbad", dp[p], ip[p], i, j)
    <3>1. j # NoInode BY <1>2
    <3> QED BY <1>1, <1>4, <3>1 DEF Claims, Claim, WalkPlaces, HoldPlaces
  <2>3. "unlinkbad" \in Places \ {"victim", "walk", "found"} /\ "unlinkbad" \notin HoldPlaces BY DEF Places, HoldPlaces
  <2>4. dp[p] # NoInode BY <1>2, <1>4
  <2> QED BY <1>1, <1>3, <1>4, <1>5, <1>6, <2>1, <2>2, <2>3, <2>4, PutOnly
<1>7. CASE Iput(p, d, "unlinked") /\ entry' = [entry EXCEPT ![d][Head(rest[p])] = NoInode]
  <2>1. entry' \in [Inum -> [AnyName -> Inum \cup {NoInode}]] BY <1>2, <1>7 DEF RefType
  <2>2. ASSUME NEW j \in Inum
        PROVE  Claims(cwd[p], fd[p], pc[p], dp[p], ip[p], NoInode, j)
                 = Claims(cwd[p], fd[p], "unlinked", dp[p], ip[p], d, j)
    <3>1. j # NoInode BY <1>2
    <3> QED BY <1>1, <1>4, <3>1 DEF Claims, Claim, WalkPlaces, HoldPlaces
  <2>3. "unlinked" \in Places \ {"victim", "walk", "found"} /\ "unlinked" \notin WalkPlaces BY DEF Places, WalkPlaces
  <2>4. ip[p] # NoInode BY <1>2, <1>4
  <2> QED BY <1>1, <1>3, <1>4, <1>5, <1>7, <2>1, <2>2, <2>3, <2>4, PutOnly
<1>8. CASE Loaded(i).type = "free" \/ Loaded(i).nlink < 1
  <2>1. pc' = [pc EXCEPT ![p] = "panic"] BY <1>8 DEF UnlinkEntry, Goto
  <2> QED BY <1>2, <2>1 DEF RefType
<1>9. CASE ~(Loaded(i).type = "free" \/ Loaded(i).nlink < 1) /\ Loaded(i).type = "dir" /\ ~IsEmpty(i)
  BY <1>6, <1>9 DEF UnlinkEntry, diskVars
<1>10. CASE ~(Loaded(i).type = "free" \/ Loaded(i).nlink < 1) /\ ~(Loaded(i).type = "dir" /\ ~IsEmpty(i))
  BY <1>7, <1>10 DEF UnlinkEntry
<1> QED BY <1>8, <1>9, <1>10

\* What p holds at these places becomes what it puts.
LEMMA RefHeldPut ==
    ASSUME RefOk, NEW p \in Proc, pc[p] \in {"unlinked", "linked", "unbump"}, Iput(p, ip[p], "user"),
           UNCHANGED <<entry, ref, fd, cwd, kind, rest, new, dp, ip>>
    PROVE  RefOk'
<1>1. PlaceOk(p) /\ NoInode \notin Inum /\ RefType BY CallType DEF RefOk
<1>2. ~InIput(p) /\ Place(p) = pc[p] BY DEF InIput, Place
<1>3. ip[p] \in Inum BY <1>1, <1>2, CallType DEF PlaceOk, HoldPlaces
<1>4. entry' \in [Inum -> [AnyName -> Inum \cup {NoInode}]] BY <1>1 DEF RefType
<1>5. ASSUME NEW j \in Inum
      PROVE  Claims(cwd[p], fd[p], pc[p], dp[p], ip[p], NoInode, j)
               = Claims(cwd[p], fd[p], "user", dp[p], ip[p], ip[p], j)
  <2>1. j # NoInode BY <1>1
  <2> QED BY <2>1 DEF Claims, Claim, WalkPlaces, HoldPlaces
<1> QED BY <1>2, <1>3, <1>4, <1>5, UserIsNone, PutOnly

LEMMA RefUnlinkDone == ASSUME RefOk, NEW p \in Proc, UnlinkDone(p) PROVE RefOk'
<1>1. pc[p] = "unlinked" /\ Iput(p, ip[p], "user") BY DEF UnlinkDone, At
<1>2. UNCHANGED <<entry, ref, fd, cwd, kind, rest, new, dp, ip>> BY DEF UnlinkDone, callVars
<1> QED BY <1>1, <1>2, RefHeldPut

LEMMA RefLinkDone == ASSUME RefOk, NEW p \in Proc, LinkDone(p) PROVE RefOk'
<1>1. pc[p] = "linked" /\ Iput(p, ip[p], "user") BY DEF LinkDone, At
<1>2. UNCHANGED <<entry, ref, fd, cwd, kind, rest, new, dp, ip>> BY DEF LinkDone, diskVars, cacheVars, callVars
<1> QED BY <1>1, <1>2, RefHeldPut

LEMMA RefUnbump == ASSUME RefOk, NEW p \in Proc, Unbump(p) PROVE RefOk'
<1>1. pc[p] = "unbump" /\ Iput(p, ip[p], "user") BY DEF Unbump, At
<1>2. UNCHANGED <<entry, ref, fd, cwd, kind, rest, new, dp, ip>> BY DEF Unbump, callVars
<1> QED BY <1>1, <1>2, RefHeldPut

LEMMA RefGiveUp == ASSUME RefOk, NEW p \in Proc, GiveUp(p) PROVE RefOk'
<1> PICK d : d = dp[p] OBVIOUS
<1> PICK on : on = IF pc[p] = "linkbad" THEN "unbump" ELSE "user" OBVIOUS
<1>1. pc[p] \in {"unlinkbad", "linkbad"} /\ Iput(p, d, on) BY DEF GiveUp, At
<1>2. PlaceOk(p) /\ NoInode \notin Inum /\ RefType BY CallType DEF RefOk
<1>3. ~InIput(p) /\ Place(p) = pc[p] BY <1>1 DEF InIput, Place
<1>4. d \in Inum /\ (on = "unbump" => ip[p] # NoInode)
  BY <1>1, <1>2, <1>3, CallType DEF PlaceOk, WalkPlaces, HoldPlaces
<1>5. UNCHANGED <<entry, ref, fd, cwd, kind, rest, new, dp, ip>> BY DEF GiveUp, diskVars, callVars
<1>6. entry' \in [Inum -> [AnyName -> Inum \cup {NoInode}]] BY <1>2, <1>5 DEF RefType
<1>7. ASSUME NEW j \in Inum
      PROVE  Claims(cwd[p], fd[p], pc[p], dp[p], ip[p], NoInode, j)
               = Claims(cwd[p], fd[p], on, dp[p], ip[p], d, j)
  <2>1. j # NoInode BY <1>2
  <2> QED BY <1>1, <2>1 DEF Claims, Claim, WalkPlaces, HoldPlaces
<1>8. on \in Places \ {"victim", "walk", "found"} /\ on \notin WalkPlaces /\ (on \in HoldPlaces => ip[p] # NoInode)
  BY <1>4 DEF Places, WalkPlaces, HoldPlaces
<1> QED BY <1>1, <1>3, <1>4, <1>5, <1>6, <1>7, <1>8, PutOnly

LEMMA RefLinkBump ==
    ASSUME RefOk, NEW p \in Proc, NEW start \in {Root, cwd[p]}, LinkBump(p, start), pc'[p] # "panic"
    PROVE  RefOk'
<1> PICK i : i = dp[p] OBVIOUS
<1>1. pc[p] = "found" /\ kind[p] = "link" /\ ip[p] = NoInode BY DEF LinkBump, At
<1>2. PlaceOk(p) /\ NoInode \notin Inum /\ RefType /\ start \in Inum BY CallType DEF RefOk
<1>3. Place(p) = "found" /\ ~InIput(p) /\ put[p] = NoInode BY <1>1, <1>2 DEF Place, InIput, PlaceOk
<1>4. i \in Inum /\ new[p] \in Seq(AnyName) /\ new[p] # <<>>
  BY <1>1, <1>2, <1>3, CallType DEF PlaceOk, WalkPlaces
<1>5. UNCHANGED <<fd, cwd, kind, new>> BY DEF LinkBump
<1>6. CASE Iput(p, i, "user") /\ UNCHANGED <<entry, ref, rest, dp, ip>>
  <2>1. entry' \in [Inum -> [AnyName -> Inum \cup {NoInode}]] BY <1>2, <1>6 DEF RefType
  <2>2. ASSUME NEW j \in Inum
        PROVE  Claims(cwd[p], fd[p], pc[p], dp[p], ip[p], NoInode, j)
                 = Claims(cwd[p], fd[p], "user", dp[p], ip[p], i, j)
    <3>1. j # NoInode BY <1>2
    <3> QED BY <1>1, <1>4, <3>1 DEF Claims, Claim, WalkPlaces, HoldPlaces
  <2> QED BY <1>3, <1>4, <1>5, <1>6, <2>1, <2>2, UserIsNone, PutOnly
<1>7. CASE /\ ref' = [ref EXCEPT ![start] = @ + 1] /\ pc' = [pc EXCEPT ![p] = "walk"]
           /\ ip' = [ip EXCEPT ![p] = i] /\ dp' = [dp EXCEPT ![p] = start]
           /\ rest' = [rest EXCEPT ![p] = new[p]] /\ UNCHANGED <<entry, put, ret>>
  <2>1. RefType'
    <3>1. ref' \in [Inum -> Nat] BY <1>2, <1>7, RefMoves
    <3> QED BY <1>2, <1>4, <1>5, <1>7, <3>1 DEF RefType, PC
  <2>2. \A r \in Proc \ {p} : Idle(r) BY <1>2, <1>5, <1>7 DEF RefType, Idle
  <2>3. pc'[p] = "walk" /\ ip'[p] = i /\ dp'[p] = start /\ rest'[p] = new[p] BY <1>2, <1>7 DEF RefType
  <2>4. Place(p)' = "walk" /\ ~InIput(p)' BY <2>3 DEF Place, InIput
  <2>5. PlaceOk(p)'
    BY <1>1, <1>2, <1>3, <1>4, <1>5, <1>7, <2>3, <2>4 DEF PlaceOk, Places, WalkPlaces, HoldPlaces
  <2>6. ASSUME NEW j \in Inum
        PROVE  ref'[j] + Claims(cwd[p], fd[p], Place(p), dp[p], ip[p], put[p], j)
                 = ref[j] + Claims(cwd'[p], fd'[p], Place(p)', dp'[p], ip'[p], put'[p], j)
    <3>1. ref'[j] = ref[j] + Claim(j = start) /\ ref[j] \in Nat /\ j # NoInode BY <1>2, <1>7, RefMoves
    <3>2. cwd'[p] = cwd[p] /\ fd'[p] = fd[p] /\ put'[p] = NoInode BY <1>3, <1>5, <1>7
    <3> QED BY <1>1, <1>3, <2>3, <2>4, <3>1, <3>2 DEF Claims, Claim, WalkPlaces, HoldPlaces
  <2> QED BY <2>1, <2>2, <2>5, <2>6, RefStep
<1>8. CASE Loaded(i).type = "free"
  <2>1. pc' = [pc EXCEPT ![p] = "panic"] BY <1>8 DEF LinkBump, Goto
  <2> QED BY <1>2, <2>1 DEF RefType
<1>9. CASE Loaded(i).type # "free" /\ Loaded(i).type = "dir" BY <1>6, <1>9 DEF LinkBump, diskVars
<1>10. CASE Loaded(i).type # "free" /\ Loaded(i).type # "dir" BY <1>7, <1>10 DEF LinkBump, Iget, Goto
<1> QED BY <1>8, <1>9, <1>10

LEMMA RefLinkEntry == ASSUME RefOk, NEW p \in Proc, LinkEntry(p), pc'[p] # "panic" PROVE RefOk'
<1> PICK d : d = dp[p] OBVIOUS
<1> PICK n : n = Head(rest[p]) OBVIOUS
<1> PICK old : old = entry[d][n] OBVIOUS
<1>1. pc[p] = "found" /\ kind[p] = "link" /\ ip[p] # NoInode BY DEF LinkEntry, At
<1>2. PlaceOk(p) /\ NoInode \notin Inum /\ RefType /\ ip[p] \in Inum BY <1>1, CallType DEF RefOk
<1>3. Place(p) = "found" /\ ~InIput(p) BY <1>1 DEF Place, InIput
<1>4. d \in Inum /\ n \in AnyName
  <2>1. Parent(p) BY <1>1 DEF Parent
  <2>2. rest[p] # <<>> /\ rest[p] \in Seq(AnyName) BY <1>2, <1>3, <2>1, CallType DEF PlaceOk
  <2>3. n \in AnyName BY <2>2
  <2> QED BY <1>2, <1>3, <2>3, CallType DEF PlaceOk, WalkPlaces
<1>5. old \in Inum \cup {NoInode} BY <1>2, <1>4 DEF RefType
<1>6. UNCHANGED <<fd, cwd, kind, rest, new, dp, ip>> BY DEF LinkEntry, callVars
<1>7. Loaded(d).type = "dir"
  <2>1. Loaded(d).type # "dir" => pc' = [pc EXCEPT ![p] = "panic"] BY DEF LinkEntry, Goto
  <2> QED BY <1>2, <2>1 DEF RefType
<1>8. CASE old # NoInode
  <2>1. ref' = [ref EXCEPT ![old] = @ + 1] /\ Iput(p, old, "linkbad") /\ entry' = entry
    BY <1>8, <1>7 DEF LinkEntry, Lookup, Iget
  <2>2. /\ entry' \in [Inum -> [AnyName -> Inum \cup {NoInode}]] /\ fd' \in [Proc -> Inum \cup {NoInode}]
        /\ cwd' \in [Proc -> Inum] /\ ip' \in [Proc -> Inum \cup {NoInode}]
    BY <1>2, <1>6, <2>1 DEF RefType
  <2>3. ref' \in [Inum -> Nat] BY <1>2, <1>5, <1>8, <2>1, RefMoves
  <2>4. ASSUME NEW j \in Inum
        PROVE  ref'[j] + Claims(cwd[p], fd[p], pc[p], dp[p], ip[p], NoInode, j)
                 = ref[j] + Claims(cwd'[p], fd'[p], "linkbad", dp[p], ip'[p], old, j)
    <3>1. j # NoInode BY <1>2
    <3>2. ref'[j] = ref[j] + Claim(j = old) /\ ref[j] \in Nat BY <1>2, <1>5, <1>8, <2>1, RefMoves
    <3>3. PICK x \in Nat : x = Claims(cwd[p], fd[p], pc[p], dp[p], ip[p], NoInode, j) BY DEF Claims, Claim
    <3>4. Claims(cwd[p], fd[p], "linkbad", dp[p], ip[p], old, j) = x + Claim(j = old)
      BY <1>1, <1>4, <3>1, <3>3 DEF Claims, Claim, WalkPlaces, HoldPlaces
    <3>5. Claim(j = old) \in Nat BY DEF Claim
    <3> QED BY <1>6, <3>2, <3>3, <3>4, <3>5
  <2>5. "linkbad" \in Places \ {"victim", "walk", "found"} BY DEF Places
  <2>6. dp[p] # NoInode /\ ip'[p] # NoInode BY <1>2, <1>4, <1>6
  <2>7. pc[p] # "user" /\ fd'[p] = fd[p] /\ old \in Inum BY <1>1, <1>5, <1>6, <1>8
  <2>8. OthersKeep(p) /\ Moved(p, "linkbad", old) BY <1>6, <2>4 DEF OthersKeep, Moved
  <2> QED BY <1>3, <1>6, <2>1, <2>2, <2>3, <2>5, <2>6, <2>7, <2>8, PutStep
<1>9. CASE old = NoInode
  <2>1. entry' = [entry EXCEPT ![d][n] = ip[p]] /\ Iput(p, d, "linked") /\ ref' = ref
    BY <1>9, <1>7 DEF LinkEntry, Lookup
  <2>2. entry' \in [Inum -> [AnyName -> Inum \cup {NoInode}]] BY <1>2, <2>1 DEF RefType
  <2>3. ASSUME NEW j \in Inum
        PROVE  Claims(cwd[p], fd[p], pc[p], dp[p], ip[p], NoInode, j)
                 = Claims(cwd[p], fd[p], "linked", dp[p], ip[p], d, j)
    <3>1. j # NoInode BY <1>2
    <3> QED BY <1>1, <3>1 DEF Claims, Claim, WalkPlaces, HoldPlaces
  <2>4. "linked" \in Places \ {"victim", "walk", "found"} /\ "linked" \notin WalkPlaces BY DEF Places, WalkPlaces
  <2> QED BY <1>1, <1>3, <1>4, <1>6, <2>1, <2>2, <2>3, <2>4, PutOnly
<1> QED BY <1>8, <1>9
-----------------------------------------------------------------------------
LEMMA RefNext == RefInv /\ [Next]_vars => RefInv'
<1> SUFFICES ASSUME RefInv, [Next]_vars, Running' PROVE RefOk'
  BY DEF RefInv
<1>1. CASE UNCHANGED vars
  <2>1. UNCHANGED <<entry, ref, fd, cwd, pc, ret, rest, new, kind, dp, ip, put>>
    BY <1>1 DEF vars, diskVars, cacheVars, callVars
  <2>2. Running BY <2>1 DEF Running
  <2>3. RefOk BY <2>2 DEF RefInv
  <2>4. RefType' BY <2>1, <2>3 DEF RefOk, RefType
  <2>5. \A p \in Proc : PlaceOk(p)' BY <2>1, <2>3 DEF RefOk, PlaceOk, Place, InIput, Parent
  <2>6. ASSUME NEW i \in Inum PROVE ref'[i] = Holders(i)'
    BY <2>1, <2>3 DEF RefOk, Holders, Walking, Holding
  <2> QED BY <2>4, <2>5, <2>6 DEF RefOk
<1>2. CASE Next
  <2>1. RefOk BY <1>2 DEF Next, RefInv
  <2>2. PICK p \in Proc :
          \/ \E q \in Request, start \in {Root, cwd[p]} : Call(p, q, start)
          \/ Close(p)
          \/ Walk(p) \/ IputLook(p) \/ IputFree(p) \/ IputDrop(p)
          \/ OpenLock(p) \/ Opened(p) \/ NotOpened(p) \/ Chdir(p) \/ Create(p)
          \/ UnlinkFind(p) \/ UnlinkEntry(p) \/ UnlinkDone(p) \/ GiveUp(p)
          \/ \E start \in {Root, cwd[p]} : LinkBump(p, start)
          \/ LinkEntry(p) \/ LinkDone(p) \/ Unbump(p)
    BY <1>2, Zenon DEF Next
  <2>3. pc'[p] # "panic" /\ pc'[p] # "full" BY DEF Running
  <2>4. CASE \E q \in Request, start \in {Root, cwd[p]} : Call(p, q, start) BY <2>1, <2>4, RefCall
  <2>5. CASE Close(p) BY <2>1, <2>5, RefClose
  <2>6. CASE Walk(p) BY <2>1, <2>3, <2>6, RefWalk
  <2>7. CASE IputLook(p) BY <2>1, <2>7, RefIputLook
  <2>8. CASE IputFree(p) BY <2>1, <2>8, RefIputFree
  <2>9. CASE IputDrop(p) BY <2>1, <2>9, RefIputDrop
  <2>10. CASE OpenLock(p) BY <2>1, <2>3, <2>10, RefOpenLock
  <2>11. CASE Opened(p) BY <2>1, <2>11, RefOpened
  <2>12. CASE NotOpened(p) BY <2>1, <2>12, RefNotOpened
  <2>13. CASE Chdir(p) BY <2>1, <2>3, <2>13, RefChdir
  <2>14. CASE Create(p) BY <2>1, <2>3, <2>14, RefCreate
  <2>15. CASE UnlinkFind(p) BY <2>1, <2>3, <2>15, RefUnlinkFind
  <2>16. CASE UnlinkEntry(p) BY <2>1, <2>3, <2>16, RefUnlinkEntry
  <2>17. CASE UnlinkDone(p) BY <2>1, <2>17, RefUnlinkDone
  <2>18. CASE GiveUp(p) BY <2>1, <2>18, RefGiveUp
  <2>19. CASE \E start \in {Root, cwd[p]} : LinkBump(p, start) BY <2>1, <2>3, <2>19, RefLinkBump
  <2>20. CASE LinkEntry(p) BY <2>1, <2>3, <2>20, RefLinkEntry
  <2>21. CASE LinkDone(p) BY <2>1, <2>21, RefLinkDone
  <2>22. CASE Unbump(p) BY <2>1, <2>22, RefUnbump
  <2> QED BY <2>2, <2>4, <2>5, <2>6, <2>7, <2>8, <2>9, <2>10, <2>11, <2>12, <2>13, <2>14, <2>15, <2>16,
             <2>17, <2>18, <2>19, <2>20, <2>21, <2>22
<1> QED BY <1>1, <1>2

THEOREM RefsInductive == Spec => []RefInv
<1>1. Init => RefInv BY RefInit DEF RefInv
<1>2. RefInv /\ [Next]_vars => RefInv' BY RefNext
<1> QED BY <1>1, <1>2, PTL DEF Spec

\* The references to an inode are those somebody holds: no call forgets one and none
\* gives one up twice, on any path of any interleaving.
THEOREM RefsHeldHolds == Spec => []RefsHeld
<1>1. RefInv => RefsHeld BY DEF RefInv, RefOk, RefsHeld
<1> QED BY <1>1, RefsInductive, PTL
-----------------------------------------------------------------------------
\* Link counts.  The inode that the call of p has locked.
Mine(p) ==
    IF Place(p) \in {"victim", "unlinkbad", "linkbad"} THEN dp[p]
    ELSE IF Place(p) \in {"opened", "unlinked"} THEN ip[p] ELSE NoInode

\* p has counted a link to ip that has no entry yet, or taken away the entry of one that
\* is still counted.
Linking(p) == Place(p) \in {"walk", "found", "linkbad", "unbump"} /\ ip[p] # NoInode
Pending(p) == Linking(p) \/ Place(p) = "unlinked"
Pend(i) == {p \in Proc : Pending(p) /\ ip[p] = i}

\* What a call knows since it holds a lock, or a link.
CallOk(p) ==
    /\ Mine(p) # NoInode => lock[Mine(p)] = p
    /\ pc[p] = "free" => lock[put[p]] = p /\ put[p] # Mine(p) /\ disk[put[p]].nlink = 0
    /\ pc[p] = "victim" => Head(rest[p]) \in Name /\ entry[dp[p]][Head(rest[p])] = ip[p]
    /\ Linking(p) => disk[ip[p]].type = "file"

NodeType ==
    /\ disk \in [Inum -> Node] /\ node \in [Inum -> Node]
    /\ valid \in [Inum -> BOOLEAN] /\ lock \in [Inum -> Proc \cup {NoProc}]
\* The copy in memory is what is on disk; only directories have entries, and those two.
Copied(i) == valid[i] => node[i] = disk[i]
InodeOk(i) ==
    /\ disk[i].type = "free" => disk[i].nlink = 0
    /\ disk[i].type # "dir" => \A n \in AnyName : entry[i][n] = NoInode
    /\ disk[i].type = "dir" => entry[i][Dot] # NoInode /\ entry[i][DotDot] # NoInode
\* A directory has one name, in the directory its ".." names.
Only(i, e, n) == \A f \in Inum, m \in Name : entry[f][m] = i => f = e /\ m = n
NameOk(i) ==
    \A e \in Inum, n \in Name : entry[e][n] = i =>
        /\ disk[i].type # "free"
        /\ disk[i].type = "dir" => i # Root /\ entry[i][DotDot] = e /\ Only(i, e, n)
\* The root has a link of its own.
Base(i) == IF i = Root THEN 1 ELSE 0
Counted(i) == disk[i].nlink >= Links(i) + Cardinality(Pend(i)) + Base(i)

LinkOk ==
    /\ NodeType /\ (\A p \in Proc : CallOk(p))
    /\ \A i \in Inum : Copied(i) /\ InodeOk(i) /\ NameOk(i) /\ Counted(i)
LinkInv == LinksCounted /\ (Running => LinkOk)

\* The two sets that Links counts.
Names(i) == {h \in Inum \X Name : entry[h[1]][h[2]] = i}
Subs(i) == {d \in Inum \ {i} : entry[d][DotDot] = i /\ Named(d)}

LEMMA FiniteLinks ==
    \A i : /\ IsFiniteSet(Names(i)) /\ IsFiniteSet(Subs(i)) /\ IsFiniteSet(Pend(i))
           /\ Links(i) = Cardinality(Names(i)) + Cardinality(Subs(i))
           /\ Cardinality(Names(i)) \in Nat /\ Cardinality(Subs(i)) \in Nat /\ Cardinality(Pend(i)) \in Nat
<1> SUFFICES ASSUME NEW i
             PROVE  /\ IsFiniteSet(Names(i)) /\ IsFiniteSet(Subs(i)) /\ IsFiniteSet(Pend(i))
                    /\ Links(i) = Cardinality(Names(i)) + Cardinality(Subs(i))
  BY FS_CardinalityType
<1>1. IsFiniteSet(Inum)
  <2>1. NINODES \in Int /\ 1 \in Int BY InodesAssumption
  <2> QED BY <2>1, FS_Interval DEF Inum
<1>2. IsFiniteSet(Inum \X Name) BY <1>1, InodesAssumption, FS_Product
<1>3. Names(i) \in SUBSET (Inum \X Name) BY DEF Names
<1>4. Subs(i) \in SUBSET Inum BY DEF Subs
<1>5. Pend(i) \in SUBSET Proc BY DEF Pend
<1>6. IsFiniteSet(Proc) BY InodesAssumption
<1>7. Links(i) = Cardinality(Names(i)) + Cardinality(Subs(i)) BY Zenon DEF Links, Names, Subs
<1> QED BY <1>1, <1>2, <1>3, <1>4, <1>5, <1>6, <1>7, FS_Subset

LEMMA FiniteLinksNext ==
    (\A i : /\ IsFiniteSet(Names(i)) /\ IsFiniteSet(Subs(i)) /\ IsFiniteSet(Pend(i))
            /\ Links(i) = Cardinality(Names(i)) + Cardinality(Subs(i))
            /\ Cardinality(Names(i)) \in Nat /\ Cardinality(Subs(i)) \in Nat /\ Cardinality(Pend(i)) \in Nat)'
  BY FiniteLinks, PTL

\* A pending link is counted.
LEMMA PendingCounted ==
    ASSUME RefOk, LinkOk, NEW p \in Proc, Pending(p)
    PROVE  ip[p] \in Inum /\ disk[ip[p]].nlink \in Nat \ {0}
<1> PICK i : i = ip[p] OBVIOUS
<1>1. i \in Inum
  <2>1. PlaceOk(p) /\ ip[p] \in Inum \cup {NoInode} BY CallType
  <2> QED BY <2>1 DEF Pending, Linking, PlaceOk, HoldPlaces
<1>2. Counted(i) /\ disk[i].nlink \in Nat BY <1>1 DEF LinkOk, NodeType, Node
<1>3. Pend(i) # {} BY DEF Pend
<1>4. Cardinality(Pend(i)) # 0 BY <1>3, FiniteLinks, FS_EmptySet
<1>5. PICK l \in Nat : l = Links(i)
  <2>1. Links(i) \in Nat BY FiniteLinks
  <2> QED BY <2>1
<1>6. PICK b \in Nat : b = Base(i) BY DEF Base
<1>7. PICK m \in Nat : m = Cardinality(Pend(i)) BY FiniteLinks
<1>8. disk[i].nlink >= l + m + b BY <1>2, <1>5, <1>6, <1>7 DEF Counted
<1>9. disk[i].nlink # 0 BY <1>2, <1>4, <1>7, <1>8
<1> QED BY <1>1, <1>2, <1>9

LEMMA MineType ==
    ASSUME RefOk, NEW p \in Proc
    PROVE  Mine(p) # NoInode => Mine(p) \in Inum
<1>1. dp[p] \in Inum \cup {NoInode} /\ ip[p] \in Inum \cup {NoInode} BY CallType
<1> QED BY <1>1 DEF Mine

\* What is in memory of an inode is what is on disk.
LEMMA LoadedDisk ==
    ASSUME LinkOk, NEW i \in Inum
    PROVE  Loaded(i) = disk[i] /\ disk[i] \in Node /\ lock[i] \in Proc \cup {NoProc}
  BY DEF LinkOk, NodeType, Copied, Loaded

\* p leaves alone what the others have locked, and no file with links becomes something else.
Undisturbed(p) ==
    /\ \A x \in Inum : lock[x] \notin {NoProc, p} => lock'[x] = lock[x] /\ disk'[x] = disk[x] /\ entry'[x] = entry[x]
    /\ \A x \in Inum : disk[x].nlink # 0 /\ disk[x].type = "file" => disk'[x].type = "file"

LEMMA OthersOk ==
    ASSUME RefOk, LinkOk, NEW p \in Proc, \A r \in Proc \ {p} : Idle(r), Undisturbed(p), NEW r \in Proc \ {p}
    PROVE  CallOk(r)' /\ (Pending(r)' <=> Pending(r)) /\ ip'[r] = ip[r]
<1>1. Idle(r) /\ CallOk(r) /\ PlaceOk(r) /\ r \in Proc /\ r # p BY DEF LinkOk, RefOk
<1>2. NoProc \notin Proc BY InodesAssumption
<1>3. dp[r] \in Inum \cup {NoInode} /\ ip[r] \in Inum \cup {NoInode} /\ put[r] \in Inum \cup {NoInode}
  BY CallType
<1>4. Place(r)' = Place(r) /\ (InIput(r)' <=> InIput(r)) BY <1>1 DEF Idle, Place, InIput
<1>5. Mine(r)' = Mine(r) BY <1>1, <1>4 DEF Idle, Mine
<1>6. Linking(r)' <=> Linking(r) BY <1>1, <1>4 DEF Idle, Linking
<1>7. Pending(r)' <=> Pending(r) BY <1>4, <1>6 DEF Pending
<1>8. \A x \in Inum : lock[x] = r => lock'[x] = r /\ disk'[x] = disk[x] /\ entry'[x] = entry[x]
  BY <1>1, <1>2 DEF Undisturbed
<1>9. Mine(r) # NoInode => Mine(r) \in Inum BY <1>3 DEF Mine
<1>10. (Mine(r) # NoInode => lock[Mine(r)] = r)' BY <1>1, <1>5, <1>8, <1>9 DEF CallOk
<1>11. (pc[r] = "free" => lock[put[r]] = r /\ put[r] # Mine(r) /\ disk[put[r]].nlink = 0)'
  <2>1. SUFFICES ASSUME pc'[r] = "free"
                 PROVE  lock'[put'[r]] = r /\ put'[r] # Mine(r)' /\ disk'[put'[r]].nlink = 0
    OBVIOUS
  <2>2. pc[r] = "free" /\ put'[r] = put[r] BY <1>1, <2>1 DEF Idle
  <2>3. put[r] \in Inum BY <1>1, <1>3, <2>2 DEF PlaceOk, InIput
  <2>4. lock[put[r]] = r /\ put[r] # Mine(r) /\ disk[put[r]].nlink = 0 BY <1>1, <2>2 DEF CallOk
  <2> QED BY <1>5, <1>8, <2>2, <2>3, <2>4
<1>12. (pc[r] = "victim" => Head(rest[r]) \in Name /\ entry[dp[r]][Head(rest[r])] = ip[r])'
  <2>1. SUFFICES ASSUME pc'[r] = "victim"
                 PROVE  Head(rest'[r]) \in Name /\ entry'[dp'[r]][Head(rest'[r])] = ip'[r]
    OBVIOUS
  <2>2. pc[r] = "victim" /\ dp'[r] = dp[r] /\ rest'[r] = rest[r] /\ ip'[r] = ip[r] BY <1>1, <2>1 DEF Idle
  <2>3. Place(r) = "victim" BY <2>2 DEF Place, InIput
  <2>4. dp[r] \in Inum /\ Mine(r) = dp[r] BY <1>1, <1>3, <2>3 DEF PlaceOk, WalkPlaces, Mine
  <2>5. dp[r] # NoInode BY <1>1, <2>3 DEF PlaceOk, WalkPlaces
  <2>6. lock[dp[r]] = r /\ Head(rest[r]) \in Name /\ entry[dp[r]][Head(rest[r])] = ip[r]
    BY <1>1, <2>2, <2>4, <2>5 DEF CallOk
  <2> QED BY <1>8, <2>2, <2>4, <2>6
<1>13. (Linking(r) => disk[ip[r]].type = "file")'
  <2>1. SUFFICES ASSUME Linking(r) PROVE disk'[ip[r]].type = "file"
    BY <1>1, <1>6 DEF Idle
  <2>2. ip[r] \in Inum /\ disk[ip[r]].nlink # 0 BY <1>1, <2>1, PendingCounted DEF Pending
  <2>3. disk[ip[r]].type = "file" BY <1>1, <2>1 DEF CallOk
  <2> QED BY <2>2, <2>3 DEF Undisturbed
<1>14. CallOk(r)' BY <1>10, <1>11, <1>12, <1>13 DEF CallOk
<1> QED BY <1>1, <1>7, <1>14 DEF Idle

LEMMA LinkStep ==
    ASSUME RefOk, LinkOk, NEW p \in Proc, \A r \in Proc \ {p} : Idle(r), Undisturbed(p), CallOk(p)', NodeType',
           \A i \in Inum : Copied(i)' /\ InodeOk(i)' /\ NameOk(i)' /\ Counted(i)'
    PROVE  LinkOk'
<1>1. ASSUME NEW r \in Proc PROVE CallOk(r)'
  <2>1. CASE r = p BY <2>1
  <2>2. CASE r # p BY <2>2, OthersOk
  <2> QED BY <2>1, <2>2
<1>2. (\A r \in Proc : CallOk(r))' /\ (\A i \in Inum : Copied(i) /\ InodeOk(i) /\ NameOk(i) /\ Counted(i))'
  BY <1>1
<1> QED BY <1>2 DEF LinkOk

\* The links p has pending on i, and all that i has; disk may move by as much as they do.
Owes(p, i) == Claim(Pending(p) /\ ip[p] = i)

LEMMA CountedStep ==
    ASSUME RefOk, LinkOk, NEW p \in Proc, \A r \in Proc \ {p} : Idle(r), Undisturbed(p), NEW i \in Inum,
           disk'[i].nlink \in Nat, Links(i)' + disk[i].nlink + Owes(p, i)' =< Links(i) + disk'[i].nlink + Owes(p, i)
    PROVE  Counted(i)'
<1>1. PICK S, T : S = Pend(i) /\ T = {r \in Proc : Pending(r)' /\ ip'[r] = i} OBVIOUS
<1>2. S \in SUBSET Proc /\ T \in SUBSET Proc BY <1>1 DEF Pend
<1>3. \A r \in Proc \ {p} : r \in S <=> r \in T BY <1>1, OthersOk DEF Pend
<1>4. /\ Cardinality(S) \in Nat /\ Cardinality(T) \in Nat
      /\ Cardinality(T) + Claim(p \in S) = Cardinality(S) + Claim(p \in T)
  BY <1>2, <1>3, CountOne
<1>5. Owes(p, i) = Claim(p \in S) /\ Owes(p, i)' = Claim(p \in T) BY <1>1 DEF Pend, Owes, Claim
<1>6. PICK x, y \in Nat : x = Claim(p \in S) /\ y = Claim(p \in T) BY DEF Claim
<1>7. PICK k \in Nat : k = Links(i)
  <2>1. Links(i) \in Nat BY FiniteLinks
  <2> QED BY <2>1
<1>8. PICK k2 \in Nat : k2 = Links(i)'
  <2>1. Links(i)' \in Nat BY FiniteLinksNext
  <2> QED BY <2>1
<1>9. PICK b \in Nat : b = Base(i) BY DEF Base
<1>10. PICK c \in Nat : c = disk[i].nlink BY DEF LinkOk, NodeType, Node
<1>11. PICK c2 \in Nat : c2 = disk'[i].nlink OBVIOUS
<1>12. k2 + c + y =< k + c2 + x BY <1>5, <1>6, <1>7, <1>8, <1>10, <1>11
<1>13. c >= k + Cardinality(S) + b
  <2>1. Counted(i) BY DEF LinkOk
  <2> QED BY <1>1, <1>7, <1>9, <1>10, <2>1 DEF Counted
<1>14. PICK s, t \in Nat : s = Cardinality(S) /\ t = Cardinality(T) /\ t + x = s + y BY <1>4, <1>6
<1>15. c2 >= k2 + t + b BY <1>12, <1>13, <1>14
<1>16. Pend(i)' = T /\ Base(i)' = Base(i) BY <1>1 DEF Pend, Base
<1> QED BY <1>8, <1>9, <1>11, <1>14, <1>15, <1>16 DEF Counted

\* A step that changes no entry and no type.
Retallies(p) ==
    \A j \in Inum :
        /\ disk'[j].type = disk[j].type /\ (disk[j].type = "free" => disk'[j].nlink = 0)
        /\ disk[j].nlink + Owes(p, j)' =< disk'[j].nlink + Owes(p, j)
        /\ lock[j] \notin {NoProc, p} => lock'[j] = lock[j] /\ disk'[j] = disk[j]
        /\ Copied(j)'

LEMMA RetallyStep ==
    ASSUME RefOk, LinkOk, NEW p \in Proc, \A r \in Proc \ {p} : Idle(r), entry' = entry, Retallies(p),
           NodeType', CallOk(p)'
    PROVE  LinkOk'
<1>1. Undisturbed(p) BY DEF Undisturbed, Retallies
<1>2. ASSUME NEW i \in Inum PROVE Copied(i)' /\ InodeOk(i)' /\ NameOk(i)' /\ Counted(i)'
  <2>1. Copied(i)' /\ disk'[i].type = disk[i].type /\ (disk[i].type = "free" => disk'[i].nlink = 0) BY DEF Retallies
  <2>2. InodeOk(i) /\ NameOk(i) BY DEF LinkOk
  <2>3. InodeOk(i)' BY <2>1, <2>2 DEF InodeOk
  <2>4. NameOk(i)' BY <2>1, <2>2 DEF NameOk, Only
  <2>5. Links(i)' = Links(i) BY DEF Links, Named
  <2>6. PICK k \in Nat : k = Links(i)
    <3>1. Links(i) \in Nat BY FiniteLinks
    <3> QED BY <3>1
  <2>7. PICK x, y \in Nat : x = Owes(p, i) /\ y = Owes(p, i)' BY DEF Owes, Claim
  <2>8. PICK c \in Nat : c = disk[i].nlink BY DEF LinkOk, NodeType, Node
  <2>9. PICK c2 \in Nat : c2 = disk'[i].nlink BY DEF NodeType, Node
  <2>10. c + y =< c2 + x BY <2>7, <2>8, <2>9 DEF Retallies
  <2>11. k + c + y =< k + c2 + x BY <2>10
  <2>12. Links(i)' + disk[i].nlink + Owes(p, i)' =< Links(i) + disk'[i].nlink + Owes(p, i)
    BY <2>5, <2>6, <2>7, <2>8, <2>9, <2>11
  <2>13. disk'[i].nlink \in Nat BY <2>9
  <2>14. Counted(i)' BY <1>1, <2>12, <2>13, CountedStep
  <2> QED BY <2>1, <2>3, <2>4, <2>14
<1> QED BY <1>1, <1>2, LinkStep

\* A step that leaves the disk alone, and may forget a link that is still counted.
Quiet(p) ==
    \A j \in Inum :
        /\ lock[j] \notin {NoProc, p} => lock'[j] = lock[j]
        /\ Pending(p)' /\ ip'[p] = j => Pending(p) /\ ip[p] = j
        /\ Copied(j)'

LEMMA QuietStep ==
    ASSUME RefOk, LinkOk, NEW p \in Proc, \A r \in Proc \ {p} : Idle(r), disk' = disk, entry' = entry, Quiet(p),
           NodeType', CallOk(p)'
    PROVE  LinkOk'
<1>1. ASSUME NEW j \in Inum
      PROVE  /\ disk'[j].type = disk[j].type /\ (disk[j].type = "free" => disk'[j].nlink = 0)
             /\ disk[j].nlink + Owes(p, j)' =< disk'[j].nlink + Owes(p, j)
             /\ lock[j] \notin {NoProc, p} => lock'[j] = lock[j] /\ disk'[j] = disk[j]
             /\ Copied(j)'
  <2>1. InodeOk(j) BY DEF LinkOk
  <2>2. PICK c \in Nat : c = disk[j].nlink BY DEF LinkOk, NodeType, Node
  <2>3. PICK x, y \in Nat : x = Owes(p, j) /\ y = Owes(p, j)' BY DEF Owes, Claim
  <2>4. y =< x BY <2>3 DEF Quiet, Owes, Claim
  <2> QED BY <2>1, <2>2, <2>3, <2>4 DEF Quiet, InodeOk
<1>2. Retallies(p) BY <1>1 DEF Retallies
<1> QED BY <1>2, RetallyStep

LEMMA LoadKeeps ==
    ASSUME LinkOk, NEW i \in Inum, Load(i), disk' = disk
    PROVE  /\ valid' \in [Inum -> BOOLEAN] /\ node' \in [Inum -> Node]
           /\ \A j \in Inum : Copied(j)'
<1>1. Loaded(i) = disk[i] /\ disk[i] \in Node BY LoadedDisk
<1>2. valid' = [valid EXCEPT ![i] = TRUE] /\ node' = [node EXCEPT ![i] = disk[i]] BY <1>1 DEF Load
<1> QED BY <1>1, <1>2 DEF LinkOk, NodeType, Copied

LEMMA UpdateKeeps ==
    ASSUME LinkOk, NEW S \in SUBSET Inum, NEW change \in [S -> Node], Update(change)
    PROVE  /\ valid' \in [Inum -> BOOLEAN] /\ node' \in [Inum -> Node] /\ disk' \in [Inum -> Node]
           /\ \A j \in Inum : Copied(j)' /\ disk'[j] = IF j \in S THEN change[j] ELSE disk[j]
<1>1. DOMAIN change = S OBVIOUS
<1>2. /\ valid' = [i \in Inum |-> i \in S \/ valid[i]]
      /\ node' = [i \in Inum |-> IF i \in S THEN change[i] ELSE node[i]]
      /\ disk' = [i \in Inum |-> IF i \in S THEN change[i] ELSE disk[i]]
  BY <1>1 DEF Update
<1> QED BY <1>2 DEF LinkOk, NodeType, Copied
-----------------------------------------------------------------------------
\* The steps that leave the disk alone.
LEMMA Putting ==
    ASSUME RefOk, NEW p \in Proc, NEW i, NEW next, Iput(p, i, next)
    PROVE  /\ pc'[p] = "put" /\ put'[p] = i /\ ret'[p] = next /\ Place(p)' = next
           /\ \A r \in Proc \ {p} : pc'[r] = pc[r] /\ put'[r] = put[r] /\ ret'[r] = ret[r]
<1>1. put' = [put EXCEPT ![p] = i] /\ ret' = [ret EXCEPT ![p] = next] /\ pc' = [pc EXCEPT ![p] = "put"]
  BY DEF Iput, Goto
<1> QED BY <1>1 DEF RefOk, RefType, Place, InIput

LEMMA Going ==
    ASSUME RefOk, NEW p \in Proc, NEW w \in Places, Goto(p, w), UNCHANGED <<put, ret>>
    PROVE  /\ pc'[p] = w /\ put'[p] = put[p] /\ ret'[p] = ret[p] /\ Place(p)' = w
           /\ \A r \in Proc \ {p} : pc'[r] = pc[r] /\ put'[r] = put[r] /\ ret'[r] = ret[r]
<1>1. pc' = [pc EXCEPT ![p] = w] BY DEF Goto
<1> QED BY <1>1 DEF RefOk, RefType, Place, InIput, Places

\* The call of p is over: nothing is locked and nothing pending.
LEMMA Ended ==
    ASSUME NEW p \in Proc, Place(p)' \in {"user", "exists", "linked"}, pc'[p] \notin {"free", "victim"}
    PROVE  CallOk(p)' /\ ~Pending(p)'
  BY DEF CallOk, Mine, Linking, Pending

\* A lock taken, and one given back.
LEMMA LockMoves ==
    ASSUME LinkOk, NEW p \in Proc, NEW i \in Inum
    PROVE  /\ [lock EXCEPT ![i] = p] \in [Inum -> Proc \cup {NoProc}]
           /\ [lock EXCEPT ![i] = NoProc] \in [Inum -> Proc \cup {NoProc}]
           /\ lock[i] \in {NoProc, p} =>
                 /\ \A j \in Inum : lock[j] \notin {NoProc, p} => [lock EXCEPT ![i] = p][j] = lock[j]
                 /\ \A j \in Inum : lock[j] \notin {NoProc, p} => [lock EXCEPT ![i] = NoProc][j] = lock[j]
  BY DEF LinkOk, NodeType

LEMMA LinkCall ==
    ASSUME RefOk, LinkOk, NEW p \in Proc, NEW q \in Request, NEW start \in {Root, cwd[p]}, Call(p, q, start)
    PROVE  LinkOk'
<1>1. /\ Goto(p, "walk") /\ UNCHANGED <<disk, entry, valid, node, lock, fd, cwd, put, ret>>
      /\ kind' = [kind EXCEPT ![p] = q.kind]
      /\ rest' = [rest EXCEPT ![p] = q.path] /\ new' = [new EXCEPT ![p] = q.new]
      /\ dp' = [dp EXCEPT ![p] = start] /\ ip' = [ip EXCEPT ![p] = NoInode]
  BY DEF Call, diskVars
<1>2. /\ pc'[p] = "walk" /\ Place(p)' = "walk"
      /\ \A r \in Proc \ {p} : pc'[r] = pc[r] /\ put'[r] = put[r] /\ ret'[r] = ret[r]
  BY <1>1, Going DEF Places
<1>3. \A r \in Proc \ {p} : Idle(r) BY <1>1, <1>2 DEF RefOk, RefType, Idle
<1>4. ip'[p] = NoInode BY <1>1 DEF RefOk, RefType
<1>5. CallOk(p)' /\ ~Pending(p)' BY <1>2, <1>4 DEF CallOk, Mine, Linking, Pending
<1>6. NodeType' BY <1>1 DEF LinkOk, NodeType
<1>7. Quiet(p) BY <1>1, <1>5 DEF LinkOk, Quiet, Copied
<1> QED BY <1>1, <1>3, <1>5, <1>6, <1>7, QuietStep

\* iput() after the last step of a call, in which nothing on disk or in the locks of others changes.
LEMMA LinkPutUser ==
    ASSUME RefOk, LinkOk, NEW p \in Proc, NEW i, Iput(p, i, "user"), disk' = disk, entry' = entry,
           UNCHANGED <<kind, rest, new, dp>>, \A r \in Proc \ {p} : fd'[r] = fd[r] /\ cwd'[r] = cwd[r] /\ ip'[r] = ip[r],
           valid' \in [Inum -> BOOLEAN], node' \in [Inum -> Node], lock' \in [Inum -> Proc \cup {NoProc}],
           \A j \in Inum : Copied(j)' /\ (lock[j] \notin {NoProc, p} => lock'[j] = lock[j])
    PROVE  LinkOk'
<1>1. /\ pc'[p] = "put" /\ Place(p)' = "user"
      /\ \A r \in Proc \ {p} : pc'[r] = pc[r] /\ put'[r] = put[r] /\ ret'[r] = ret[r]
  BY Putting
<1>2. \A r \in Proc \ {p} : Idle(r) BY <1>1 DEF Idle
<1>3. CallOk(p)' /\ ~Pending(p)' BY <1>1, Ended
<1>4. NodeType' BY DEF LinkOk, NodeType
<1>5. Quiet(p) BY <1>3 DEF Quiet
<1> QED BY <1>2, <1>3, <1>4, <1>5, QuietStep

LEMMA LinkClose == ASSUME RefOk, LinkOk, NEW p \in Proc, Close(p) PROVE LinkOk'
<1>1. /\ Iput(p, fd[p], "user") /\ fd' = [fd EXCEPT ![p] = NoInode]
      /\ UNCHANGED <<disk, entry, ref, valid, node, lock, cwd, kind, rest, new, dp, ip>>
  BY DEF Close, diskVars, cacheVars, callVars
<1>2. \A r \in Proc \ {p} : fd'[r] = fd[r] BY <1>1 DEF RefOk, RefType
<1> QED BY <1>1, <1>2, LinkPutUser DEF LinkOk, NodeType, Copied

LEMMA LinkLinkDone == ASSUME RefOk, LinkOk, NEW p \in Proc, LinkDone(p) PROVE LinkOk'
<1>1. /\ Iput(p, ip[p], "user")
      /\ UNCHANGED <<disk, entry, ref, valid, node, lock, fd, cwd, kind, rest, new, dp, ip>>
  BY DEF LinkDone, diskVars, cacheVars, callVars
<1> QED BY <1>1, LinkPutUser DEF LinkOk, NodeType, Copied

LEMMA LinkNotOpened == ASSUME RefOk, LinkOk, NEW p \in Proc, NotOpened(p) PROVE LinkOk'
<1>1. /\ pc[p] = "opened" /\ Iput(p, ip[p], "user") /\ lock' = [lock EXCEPT ![ip[p]] = NoProc]
      /\ UNCHANGED <<disk, entry, ref, valid, node, fd, cwd, kind, rest, new, dp, ip>>
  BY DEF NotOpened, At, diskVars, callVars
<1>2. Place(p) = "opened" BY <1>1 DEF Place, InIput
<1>3. ip[p] # NoInode /\ ip[p] \in Inum BY <1>2, CallType DEF PlaceOk, HoldPlaces
<1>4. lock[ip[p]] = p BY <1>2, <1>3 DEF LinkOk, CallOk, Mine
<1> QED BY <1>1, <1>3, <1>4, LockMoves, LinkPutUser DEF LinkOk, NodeType, Copied

LEMMA LinkOpened == ASSUME RefOk, LinkOk, NEW p \in Proc, Opened(p) PROVE LinkOk'
<1>1. /\ pc[p] = "opened" /\ Goto(p, "user") /\ lock' = [lock EXCEPT ![ip[p]] = NoProc]
      /\ fd' = [fd EXCEPT ![p] = ip[p]] /\ Return(p)
      /\ UNCHANGED <<disk, entry, ref, valid, node, cwd, put, ret>>
  BY DEF Opened, At, diskVars
<1>2. Place(p) = "opened" BY <1>1 DEF Place, InIput
<1>3. ip[p] # NoInode /\ ip[p] \in Inum BY <1>2, CallType DEF PlaceOk, HoldPlaces
<1>4. lock[ip[p]] = p BY <1>2, <1>3 DEF LinkOk, CallOk, Mine
<1>5. /\ pc'[p] = "user" /\ Place(p)' = "user"
      /\ \A r \in Proc \ {p} : pc'[r] = pc[r] /\ put'[r] = put[r] /\ ret'[r] = ret[r]
  BY <1>1, Going DEF Places
<1>6. \A r \in Proc \ {p} : Idle(r) BY <1>1, <1>5 DEF RefOk, RefType, Idle, Return
<1>7. CallOk(p)' /\ ~Pending(p)' BY <1>5, Ended
<1>8. NodeType' BY <1>1, <1>3, LockMoves DEF LinkOk, NodeType
<1>9. Quiet(p) BY <1>1, <1>3, <1>4, <1>7, LockMoves DEF LinkOk, Quiet, Copied
<1> QED BY <1>1, <1>6, <1>7, <1>8, <1>9, QuietStep

LEMMA LinkWalk == ASSUME RefOk, LinkOk, NEW p \in Proc, Walk(p), pc'[p] # "panic" PROVE LinkOk'
<1> PICK d : d = dp[p] OBVIOUS
<1> PICK next : next = entry[d][Head(rest[p])] OBVIOUS
<1> PICK on : on = IF Len(rest[p]) = 1 THEN "found" ELSE "walk" OBVIOUS
<1>1. /\ pc[p] = "walk" /\ Load(d) /\ UNCHANGED <<disk, entry, lock, fd, cwd, kind, new, ip>>
  BY DEF Walk, At, diskVars
<1>2. Place(p) = "walk" /\ PlaceOk(p) BY <1>1, CallType DEF Place, InIput
<1>3. d \in Inum BY <1>2, CallType DEF PlaceOk, WalkPlaces
<1>4. /\ Place(p)' \in {"found", "walk", Failed(p)} /\ pc'[p] \in {"put", "found"}
      /\ \A r \in Proc \ {p} : Idle(r)
  <2>1. CASE Goto(p, "panic")
    <3>1. pc' = [pc EXCEPT ![p] = "panic"] BY <2>1 DEF Goto
    <3> QED BY <3>1 DEF RefOk, RefType
  <2>2. CASE Goto(p, "found") /\ UNCHANGED <<ref, rest, dp, put, ret>>
    <3>1. /\ pc'[p] = "found" /\ Place(p)' = "found"
          /\ \A r \in Proc \ {p} : pc'[r] = pc[r] /\ put'[r] = put[r] /\ ret'[r] = ret[r]
      BY <2>2, Going DEF Places
    <3> QED BY <1>1, <2>2, <3>1 DEF Idle
  <2>3. CASE Iput(p, d, Failed(p)) /\ UNCHANGED <<ref, rest, dp>>
    <3>1. /\ pc'[p] = "put" /\ Place(p)' = Failed(p)
          /\ \A r \in Proc \ {p} : pc'[r] = pc[r] /\ put'[r] = put[r] /\ ret'[r] = ret[r]
      BY <2>3, Putting
    <3> QED BY <1>1, <2>3, <3>1 DEF Idle
  <2>4. CASE /\ Iput(p, d, on) /\ rest' = [rest EXCEPT ![p] = Tail(@)] /\ dp' = [dp EXCEPT ![p] = next]
    <3>1. /\ pc'[p] = "put" /\ Place(p)' = on
          /\ \A r \in Proc \ {p} : pc'[r] = pc[r] /\ put'[r] = put[r] /\ ret'[r] = ret[r]
      BY <2>4, Putting
    <3> QED BY <1>1, <2>4, <3>1 DEF RefOk, RefType, Idle
  <2> QED BY <2>1, <2>2, <2>3, <2>4 DEF Walk, Lookup
<1>5. Place(p)' \in {"found", "walk", "unbump"} \/ (Place(p)' = "user" /\ ip[p] = NoInode) BY <1>4 DEF Failed
<1>6. (Pending(p)' => Pending(p)) /\ (Linking(p)' => Linking(p)) BY <1>1, <1>2, <1>5 DEF Pending, Linking
<1>7. CallOk(p)'
  <2>1. Mine(p)' = NoInode BY <1>5 DEF Mine
  <2> QED BY <1>1, <1>4, <1>6, <2>1 DEF LinkOk, CallOk
<1>8. NodeType' BY <1>1, <1>3, LoadKeeps DEF LinkOk, NodeType
<1>9. Quiet(p) BY <1>1, <1>3, <1>6, LoadKeeps DEF Quiet
<1> QED BY <1>1, <1>4, <1>7, <1>8, <1>9, QuietStep

LEMMA LinkIputLook == ASSUME RefOk, LinkOk, NEW p \in Proc, IputLook(p) PROVE LinkOk'
<1> PICK i : i = put[p] OBVIOUS
<1>1. /\ pc[p] = "put" /\ lock[i] = NoProc
      /\ UNCHANGED <<disk, entry, ref, valid, node, fd, cwd, kind, rest, new, dp, ip, put, ret>>
  BY DEF IputLook, At, Unlocked, diskVars, callVars
<1>2. InIput(p) /\ PlaceOk(p) /\ Place(p) = ret[p] BY <1>1, CallType DEF InIput, Place
<1>3. i \in Inum BY <1>2, CallType DEF PlaceOk
<1>4. \/ valid[i] /\ node[i].nlink = 0 /\ Goto(p, "free") /\ lock' = [lock EXCEPT ![i] = p]
      \/ Goto(p, "drop") /\ lock' = lock
  BY DEF IputLook
<1>5. /\ \/ pc'[p] = "free" /\ valid[i] /\ node[i].nlink = 0 /\ lock' = [lock EXCEPT ![i] = p]
         \/ pc'[p] = "drop" /\ lock' = lock
      /\ \A r \in Proc \ {p} : pc'[r] = pc[r]
  <2>1. \A w : Goto(p, w) => pc'[p] = w /\ \A r \in Proc \ {p} : pc'[r] = pc[r]
    <3>1. pc \in [Proc -> PC] BY DEF RefOk, RefType
    <3> SUFFICES ASSUME NEW w, pc' = [pc EXCEPT ![p] = w] PROVE pc'[p] = w /\ \A r \in Proc \ {p} : pc'[r] = pc[r]
      BY DEF Goto
    <3> QED BY <3>1
  <2> QED BY <1>4, <2>1
<1>6. \A r \in Proc \ {p} : Idle(r) BY <1>1, <1>5 DEF Idle
<1>7. Place(p)' = Place(p) BY <1>1, <1>2, <1>5 DEF Place, InIput
<1>8. Mine(p)' = Mine(p) /\ (Linking(p)' <=> Linking(p)) /\ (Pending(p)' <=> Pending(p))
  BY <1>1, <1>7 DEF Mine, Linking, Pending
<1>9. CallOk(p)'
  <2>1. CallOk(p) /\ p # NoProc BY InodesAssumption DEF LinkOk
  <2>2. Mine(p) # NoInode => Mine(p) \in Inum /\ Mine(p) # i
    <3>1. Mine(p) # NoInode => lock[Mine(p)] = p BY <2>1 DEF CallOk
    <3>2. Mine(p) # NoInode => Mine(p) \in Inum BY MineType
    <3> QED BY <1>1, <2>1, <3>1, <3>2
  <2>3. pc'[p] = "free" => lock'[i] = p /\ disk[i].nlink = 0 BY <1>3, <1>5 DEF LinkOk, NodeType, Copied
  <2>4. Mine(p) # NoInode => lock'[Mine(p)] = p
    <3>1. \A x \in Inum \ {i} : lock'[x] = lock[x]
      <4>1. lock \in [Inum -> Proc \cup {NoProc}] BY DEF LinkOk, NodeType
      <4> QED BY <1>5, <4>1
    <3>2. Mine(p) # NoInode => lock[Mine(p)] = p BY <2>1 DEF CallOk
    <3> QED BY <2>2, <3>1, <3>2
  <2>5. Mine(p) # NoInode => i # Mine(p) BY <2>2
  <2>6. i # NoInode BY <1>3, CallType
  <2> QED BY <1>1, <1>5, <1>8, <2>1, <2>3, <2>4, <2>5, <2>6 DEF CallOk
<1>10. NodeType' BY <1>1, <1>3, <1>5, LockMoves DEF LinkOk, NodeType
<1>11. Quiet(p) BY <1>1, <1>3, <1>5, <1>8, LockMoves DEF LinkOk, Quiet, Copied
<1> QED BY <1>1, <1>6, <1>9, <1>10, <1>11, QuietStep

LEMMA LinkIputDrop == ASSUME RefOk, LinkOk, NEW p \in Proc, IputDrop(p) PROVE LinkOk'
<1> PICK i : i = put[p] OBVIOUS
<1>1. /\ pc[p] = "drop" /\ Goto(p, ret[p])
      /\ valid' = [valid EXCEPT ![i] = @ /\ ref[i] > 1]
      /\ node' = [node EXCEPT ![i] = IF ref[i] > 1 THEN @ ELSE NoNode]
      /\ put' = [put EXCEPT ![p] = NoInode] /\ ret' = [ret EXCEPT ![p] = "user"]
      /\ IF ret[p] = "user" THEN Return(p) ELSE UNCHANGED <<kind, rest, new, dp, ip>>
      /\ UNCHANGED <<disk, entry, lock, fd, cwd>>
  BY DEF IputDrop, At, diskVars, callVars
<1>2. InIput(p) /\ PlaceOk(p) /\ Place(p) = ret[p] BY <1>1, CallType DEF InIput, Place
<1>3. i \in Inum /\ ret[p] \in Places \ {"victim"} BY <1>2, CallType DEF PlaceOk
<1>4. pc'[p] = ret[p] /\ \A r \in Proc \ {p} : pc'[r] = pc[r] /\ put'[r] = put[r] /\ ret'[r] = ret[r]
  BY <1>1 DEF Goto, RefOk, RefType
<1>5. Place(p)' = Place(p) BY <1>2, <1>3, <1>4 DEF Place, InIput, Places
<1>6. \A r \in Proc \ {p} : Idle(r) BY <1>1, <1>4 DEF Idle, Return, RefOk, RefType
<1>7. CallOk(p)' /\ (Pending(p)' => Pending(p) /\ ip'[p] = ip[p])
  <2>1. CASE ret[p] = "user"
    <3>1. Place(p)' = "user" /\ pc'[p] = "user" BY <1>2, <1>4, <1>5, <2>1
    <3> QED BY <3>1, Ended
  <2>2. CASE ret[p] # "user"
    <3>1. UNCHANGED <<kind, rest, new, dp, ip>> BY <1>1, <2>2
    <3>2. Mine(p)' = Mine(p) /\ (Linking(p)' <=> Linking(p)) /\ (Pending(p)' <=> Pending(p))
      BY <1>5, <3>1 DEF Mine, Linking, Pending
    <3>3. pc'[p] # "free" /\ pc'[p] # "victim" BY <1>3, <1>4 DEF Places
    <3> QED BY <1>1, <3>1, <3>2, <3>3 DEF LinkOk, CallOk
  <2> QED BY <2>1, <2>2
<1>8. /\ valid' \in [Inum -> BOOLEAN] /\ node' \in [Inum -> Node]
      /\ \A j \in Inum : Copied(j)'
  <2>1. NoNode \in Node BY DEF NoNode, Node
  <2>2. PICK more \in BOOLEAN : more <=> ref[i] > 1 OBVIOUS
  <2>3. valid' = [valid EXCEPT ![i] = @ /\ more] /\ node' = [node EXCEPT ![i] = IF more THEN @ ELSE NoNode]
    BY <1>1, <2>2
  <2>4. valid \in [Inum -> BOOLEAN] /\ node \in [Inum -> Node] BY DEF LinkOk, NodeType
  <2>5. valid' \in [Inum -> BOOLEAN] /\ node' \in [Inum -> Node] BY <2>1, <2>3, <2>4
  <2>6. ASSUME NEW j \in Inum PROVE Copied(j)'
    <3>1. valid'[j] => valid[j] /\ node'[j] = node[j]
      <4>1. CASE j = i BY <2>3, <2>4, <4>1
      <4>2. CASE j # i BY <2>3, <2>4, <4>2
      <4> QED BY <4>1, <4>2
    <3>2. Copied(j) BY DEF LinkOk
    <3> QED BY <1>1, <3>1, <3>2 DEF Copied
  <2> QED BY <2>5, <2>6
<1>9. NodeType' BY <1>1, <1>8 DEF LinkOk, NodeType
<1>10. Quiet(p) BY <1>1, <1>7, <1>8 DEF Quiet
<1> QED BY <1>1, <1>6, <1>7, <1>9, <1>10, QuietStep

LEMMA LinkOpenLock == ASSUME RefOk, LinkOk, NEW p \in Proc, OpenLock(p), pc'[p] # "panic" PROVE LinkOk'
<1> PICK i : i = IF pc[p] = "found" THEN dp[p] ELSE ip[p] OBVIOUS
<1>1. /\ pc[p] = "found" \/ pc[p] = "exists"
      /\ lock[i] = NoProc /\ Load(i) /\ ip' = [ip EXCEPT ![p] = i]
      /\ UNCHANGED <<disk, entry, ref, fd, cwd, kind, rest, new, dp>>
  BY DEF OpenLock, At, Unlocked, diskVars
<1>2. PlaceOk(p) /\ Place(p) = pc[p] BY <1>1, CallType DEF InIput, Place
<1>3. i \in Inum BY <1>1, <1>2, CallType DEF PlaceOk, WalkPlaces, HoldPlaces
<1>4. \A r \in Proc \ {p} : ip'[r] = ip[r] BY <1>1 DEF RefOk, RefType
<1>5. \/ Goto(p, "panic") /\ UNCHANGED <<lock, put, ret>>
      \/ Iput(p, i, "user") /\ lock' = lock
      \/ Goto(p, "opened") /\ lock' = [lock EXCEPT ![i] = p] /\ UNCHANGED <<put, ret>>
  BY DEF OpenLock, At
<1>6. CASE Goto(p, "panic")
  <2>1. pc' = [pc EXCEPT ![p] = "panic"] BY <1>6 DEF Goto
  <2> QED BY <2>1 DEF RefOk, RefType
<1>7. CASE Iput(p, i, "user") /\ lock' = lock
  <2>1. lock' \in [Inum -> Proc \cup {NoProc}] BY <1>7 DEF LinkOk, NodeType
  <2>2. \A j \in Inum : lock[j] \notin {NoProc, p} => lock'[j] = lock[j] BY <1>7
  <2> QED BY <1>1, <1>3, <1>4, <1>7, <2>1, <2>2, LoadKeeps, LinkPutUser
<1>8. CASE Goto(p, "opened") /\ lock' = [lock EXCEPT ![i] = p] /\ UNCHANGED <<put, ret>>
  <2>1. /\ pc'[p] = "opened" /\ Place(p)' = "opened"
        /\ \A r \in Proc \ {p} : pc'[r] = pc[r] /\ put'[r] = put[r] /\ ret'[r] = ret[r]
    BY <1>8, Going DEF Places
  <2>2. \A r \in Proc \ {p} : Idle(r) BY <1>1, <1>4, <2>1 DEF Idle
  <2>3. ip'[p] = i BY <1>1 DEF RefOk, RefType
  <2>4. lock'[i] = p BY <1>3, <1>8 DEF LinkOk, NodeType
  <2>5. CallOk(p)' /\ ~Pending(p)' BY <2>1, <2>3, <2>4 DEF CallOk, Mine, Linking, Pending
  <2>6. NodeType' BY <1>1, <1>3, <1>8, LoadKeeps, LockMoves DEF LinkOk, NodeType
  <2>7. Quiet(p) BY <1>1, <1>3, <1>8, <2>5, LoadKeeps, LockMoves DEF Quiet
  <2> QED BY <1>1, <2>2, <2>5, <2>6, <2>7, QuietStep
<1> QED BY <1>5, <1>6, <1>7, <1>8

LEMMA LinkChdir == ASSUME RefOk, LinkOk, NEW p \in Proc, Chdir(p), pc'[p] # "panic" PROVE LinkOk'
<1> PICK i : i = dp[p] OBVIOUS
<1>1. /\ pc[p] = "found" /\ Load(i) /\ UNCHANGED <<disk, entry, ref, lock, fd, kind, rest, new, dp, ip>>
  BY DEF Chdir, At, diskVars, callVars
<1>2. PlaceOk(p) /\ Place(p) = pc[p] BY <1>1, CallType DEF InIput, Place
<1>3. i \in Inum BY <1>1, <1>2, CallType DEF PlaceOk, WalkPlaces
<1>4. \/ Goto(p, "panic")
      \/ Iput(p, cwd[p], "user") /\ cwd' = [cwd EXCEPT ![p] = i]
      \/ Iput(p, i, "user") /\ cwd' = cwd
  BY DEF Chdir
<1>5. lock' \in [Inum -> Proc \cup {NoProc}] BY <1>1 DEF LinkOk, NodeType
<1>6. \A j \in Inum : lock[j] \notin {NoProc, p} => lock'[j] = lock[j] BY <1>1
<1>7. CASE Goto(p, "panic")
  <2>1. pc' = [pc EXCEPT ![p] = "panic"] BY <1>7 DEF Goto
  <2> QED BY <2>1 DEF RefOk, RefType
<1>8. CASE Iput(p, cwd[p], "user") /\ cwd' = [cwd EXCEPT ![p] = i]
  <2>1. \A r \in Proc \ {p} : cwd'[r] = cwd[r] BY <1>8 DEF RefOk, RefType
  <2> QED BY <1>1, <1>3, <1>5, <1>6, <1>8, <2>1, LoadKeeps, LinkPutUser
<1>9. CASE Iput(p, i, "user") /\ cwd' = cwd BY <1>1, <1>3, <1>5, <1>6, <1>9, LoadKeeps, LinkPutUser
<1> QED BY <1>4, <1>7, <1>8, <1>9

LEMMA LinkUnlinkFind == ASSUME RefOk, LinkOk, NEW p \in Proc, UnlinkFind(p), pc'[p] # "panic" PROVE LinkOk'
<1> PICK d : d = dp[p] OBVIOUS
<1> PICK n : n = Head(rest[p]) OBVIOUS
<1> PICK i : i = entry[d][n] OBVIOUS
<1>1. /\ pc[p] = "found" /\ kind[p] = "unlink" /\ lock[d] = NoProc /\ Load(d)
      /\ UNCHANGED <<disk, entry, fd, cwd, kind, rest, new, dp>>
  BY DEF UnlinkFind, At, Unlocked, diskVars
<1>2. PlaceOk(p) /\ Place(p) = pc[p] BY <1>1, CallType DEF InIput, Place
<1>3. d \in Inum BY <1>1, <1>2, CallType DEF PlaceOk, WalkPlaces
<1>4. n \in AnyName
  <2>1. rest[p] # <<>> /\ rest[p] \in Seq(AnyName) BY <1>1, <1>2, CallType DEF PlaceOk, Parent
  <2> QED BY <2>1
<1>5. \/ Goto(p, "panic")
      \/ Iput(p, d, "user") /\ UNCHANGED <<lock, ip>>
      \/ /\ n \notin {Dot, DotDot} /\ ip' = [ip EXCEPT ![p] = i] /\ Goto(p, "victim")
         /\ lock' = [lock EXCEPT ![d] = p] /\ UNCHANGED <<put, ret>>
  BY DEF UnlinkFind, Lookup
<1>6. CASE Goto(p, "panic")
  <2>1. pc' = [pc EXCEPT ![p] = "panic"] BY <1>6 DEF Goto
  <2> QED BY <2>1 DEF RefOk, RefType
<1>7. CASE Iput(p, d, "user") /\ UNCHANGED <<lock, ip>>
  <2>1. lock' \in [Inum -> Proc \cup {NoProc}] BY <1>7 DEF LinkOk, NodeType
  <2>2. \A j \in Inum : lock[j] \notin {NoProc, p} => lock'[j] = lock[j] BY <1>7
  <2> QED BY <1>1, <1>3, <1>7, <2>1, <2>2, LoadKeeps, LinkPutUser
<1>8. CASE /\ n \notin {Dot, DotDot} /\ ip' = [ip EXCEPT ![p] = i] /\ Goto(p, "victim")
           /\ lock' = [lock EXCEPT ![d] = p] /\ UNCHANGED <<put, ret>>
  <2>1. /\ pc'[p] = "victim" /\ Place(p)' = "victim"
        /\ \A r \in Proc \ {p} : pc'[r] = pc[r] /\ put'[r] = put[r] /\ ret'[r] = ret[r]
    BY <1>8, Going DEF Places
  <2>2. ip'[p] = i /\ \A r \in Proc \ {p} : ip'[r] = ip[r] BY <1>8 DEF RefOk, RefType
  <2>3. \A r \in Proc \ {p} : Idle(r) BY <1>1, <2>1, <2>2 DEF Idle
  <2>4. lock'[d] = p BY <1>3, <1>8 DEF LinkOk, NodeType
  <2>5. n \in Name BY <1>4, <1>8 DEF AnyName
  <2>6. CallOk(p)' /\ ~Pending(p)' BY <1>1, <2>1, <2>2, <2>4, <2>5 DEF CallOk, Mine, Linking, Pending
  <2>7. NodeType' BY <1>1, <1>3, <1>8, LoadKeeps, LockMoves DEF LinkOk, NodeType
  <2>8. Quiet(p) BY <1>1, <1>3, <1>8, <2>6, LoadKeeps, LockMoves DEF Quiet
  <2> QED BY <1>1, <2>3, <2>6, <2>7, <2>8, QuietStep
<1> QED BY <1>5, <1>6, <1>7, <1>8

LEMMA LinkGiveUp == ASSUME RefOk, LinkOk, NEW p \in Proc, GiveUp(p) PROVE LinkOk'
<1> PICK d : d = dp[p] OBVIOUS
<1> PICK next : next = IF pc[p] = "linkbad" THEN "unbump" ELSE "user" OBVIOUS
<1>1. /\ pc[p] \in {"unlinkbad", "linkbad"} /\ lock' = [lock EXCEPT ![d] = NoProc] /\ Iput(p, d, next)
      /\ UNCHANGED <<disk, entry, valid, node, fd, cwd, kind, rest, new, dp, ip>>
  BY DEF GiveUp, At, diskVars, callVars
<1>2. PlaceOk(p) /\ Place(p) = pc[p] BY <1>1, CallType DEF InIput, Place
<1>3. d \in Inum /\ d # NoInode BY <1>1, <1>2, CallType DEF PlaceOk, WalkPlaces
<1>4. lock[d] = p BY <1>1, <1>2, <1>3 DEF LinkOk, CallOk, Mine
<1>5. /\ pc'[p] = "put" /\ Place(p)' = next
      /\ \A r \in Proc \ {p} : pc'[r] = pc[r] /\ put'[r] = put[r] /\ ret'[r] = ret[r]
  BY <1>1, Putting
<1>6. \A r \in Proc \ {p} : Idle(r) BY <1>1, <1>5 DEF Idle
<1>7. (Linking(p)' => Linking(p)) /\ (Pending(p)' => Pending(p)) BY <1>1, <1>2, <1>5 DEF Linking, Pending
<1>8. CallOk(p)'
  <2>1. Mine(p)' = NoInode BY <1>5 DEF Mine
  <2> QED BY <1>1, <1>5, <1>7, <2>1 DEF LinkOk, CallOk
<1>9. NodeType' BY <1>1, <1>3, LockMoves DEF LinkOk, NodeType
<1>10. Quiet(p) BY <1>1, <1>3, <1>4, <1>7, LockMoves DEF LinkOk, Quiet, Copied
<1> QED BY <1>1, <1>6, <1>8, <1>9, <1>10, QuietStep
-----------------------------------------------------------------------------
\* The steps that count a link, or take one back.
LEMMA LinkLess ==
    ASSUME RefOk, LinkOk, NEW p \in Proc, Pending(p), NEW i, i = ip[p], lock[i] \in {NoProc, p},
           Update([j \in {i} |-> DropLink(Loaded(j))]), Iput(p, i, "user"),
           UNCHANGED <<entry, fd, cwd, kind, rest, new, dp, ip>>,
           lock' \in [Inum -> Proc \cup {NoProc}],
           \A j \in Inum : lock[j] \notin {NoProc, p} => lock'[j] = lock[j]
    PROVE  LinkOk'
<1>1. i \in Inum /\ disk[i].nlink \in Nat \ {0} BY PendingCounted
<1>2. Loaded(i) = disk[i] /\ disk[i] \in Node BY <1>1, LoadedDisk
<1>3. PICK nd : nd = DropLink(disk[i]) OBVIOUS
<1>4. nd \in Node /\ nd.type = disk[i].type /\ nd.nlink = disk[i].nlink - 1 BY <1>1, <1>2, <1>3 DEF DropLink, Node
<1>5. PICK change : change = [j \in {i} |-> DropLink(Loaded(j))] OBVIOUS
<1>6. change \in [{i} -> Node] /\ change[i] = nd BY <1>2, <1>3, <1>4, <1>5
<1>7. Update(change) /\ {i} \in SUBSET Inum BY <1>1, <1>5
<1>8. /\ valid' \in [Inum -> BOOLEAN] /\ node' \in [Inum -> Node] /\ disk' \in [Inum -> Node]
      /\ \A j \in Inum : Copied(j)' /\ disk'[j] = IF j \in {i} THEN change[j] ELSE disk[j]
  <2>1. PICK S : S = {i} OBVIOUS
  <2>2. S \in SUBSET Inum /\ change \in [S -> Node] BY <1>6, <1>7, <2>1
  <2>3. /\ valid' \in [Inum -> BOOLEAN] /\ node' \in [Inum -> Node] /\ disk' \in [Inum -> Node]
        /\ \A j \in Inum : Copied(j)' /\ disk'[j] = IF j \in S THEN change[j] ELSE disk[j]
    BY <1>7, <2>2, UpdateKeeps
  <2> QED BY <2>1, <2>3
<1>9. /\ pc'[p] = "put" /\ Place(p)' = "user"
      /\ \A r \in Proc \ {p} : pc'[r] = pc[r] /\ put'[r] = put[r] /\ ret'[r] = ret[r]
  BY Putting
<1>10. \A r \in Proc \ {p} : Idle(r) BY <1>9 DEF Idle
<1>11. CallOk(p)' /\ ~Pending(p)' BY <1>9, Ended
<1>12. NodeType' BY <1>8 DEF NodeType
<1>13. ASSUME NEW j \in Inum
       PROVE  /\ disk'[j].type = disk[j].type /\ (disk[j].type = "free" => disk'[j].nlink = 0)
              /\ disk[j].nlink + Owes(p, j)' =< disk'[j].nlink + Owes(p, j)
              /\ lock[j] \notin {NoProc, p} => lock'[j] = lock[j] /\ disk'[j] = disk[j]
              /\ Copied(j)'
  <2>1. Owes(p, j)' = 0 BY <1>11 DEF Owes, Claim
  <2>2. InodeOk(j) BY DEF LinkOk
  <2>3. PICK c \in Nat : c = disk[j].nlink BY DEF LinkOk, NodeType, Node
  <2>4. CASE j = i
    <3>1. Owes(p, j) = 1 BY <2>4 DEF Owes, Claim
    <3>2. disk'[j] = nd BY <1>6, <1>8, <2>4
    <3>3. c # 0 BY <1>1, <2>3, <2>4
    <3>4. disk[j].type # "free" BY <2>2, <2>3, <3>3 DEF InodeOk
    <3>5. nd.nlink = c - 1 BY <1>4, <2>3, <2>4
    <3>6. c + 0 =< (c - 1) + 1 BY <2>3
    <3> QED BY <1>4, <1>8, <2>1, <2>3, <2>4, <3>1, <3>2, <3>4, <3>5, <3>6
  <2>5. CASE j # i
    <3>1. Owes(p, j) = 0 BY <2>5 DEF Owes, Claim
    <3>2. disk'[j] = disk[j] BY <1>8, <2>5
    <3> QED BY <1>8, <2>1, <2>2, <2>3, <3>1, <3>2 DEF InodeOk
  <2> QED BY <2>4, <2>5
<1>14. Retallies(p) BY <1>13 DEF Retallies
<1> QED BY <1>10, <1>11, <1>12, <1>14, RetallyStep

LEMMA LinkUnlinkDone == ASSUME RefOk, LinkOk, NEW p \in Proc, UnlinkDone(p) PROVE LinkOk'
<1> PICK i : i = ip[p] OBVIOUS
<1>1. /\ pc[p] = "unlinked" /\ Update([j \in {i} |-> DropLink(Loaded(j))])
      /\ lock' = [lock EXCEPT ![i] = NoProc] /\ Iput(p, i, "user")
      /\ UNCHANGED <<entry, fd, cwd, kind, rest, new, dp, ip>>
  BY DEF UnlinkDone, At, callVars
<1>2. Place(p) = "unlinked" /\ Pending(p) BY <1>1 DEF InIput, Place, Pending
<1>3. i \in Inum /\ i # NoInode BY <1>2, PendingCounted, CallType
<1>4. lock[i] = p BY <1>2, <1>3 DEF LinkOk, CallOk, Mine
<1> QED BY <1>1, <1>2, <1>3, <1>4, LockMoves, LinkLess

LEMMA LinkUnbump == ASSUME RefOk, LinkOk, NEW p \in Proc, Unbump(p) PROVE LinkOk'
<1> PICK i : i = ip[p] OBVIOUS
<1>1. /\ pc[p] = "unbump" /\ lock[i] = NoProc /\ Update([j \in {i} |-> DropLink(Loaded(j))])
      /\ lock' = lock /\ Iput(p, i, "user") /\ UNCHANGED <<entry, fd, cwd, kind, rest, new, dp, ip>>
  BY DEF Unbump, At, Unlocked, callVars
<1>2. Place(p) = "unbump" /\ PlaceOk(p) BY <1>1, CallType DEF InIput, Place
<1>3. Pending(p) BY <1>2 DEF Pending, Linking, PlaceOk, HoldPlaces
<1>4. lock' \in [Inum -> Proc \cup {NoProc}] BY <1>1 DEF LinkOk, NodeType
<1>5. \A j \in Inum : lock[j] \notin {NoProc, p} => lock'[j] = lock[j] BY <1>1
<1> QED BY <1>1, <1>3, <1>4, <1>5, LinkLess

LEMMA LinkLinkBump ==
    ASSUME RefOk, LinkOk, NEW p \in Proc, NEW start \in {Root, cwd[p]}, LinkBump(p, start), pc'[p] # "panic"
    PROVE  LinkOk'
<1> PICK i : i = dp[p] OBVIOUS
<1>1. /\ pc[p] = "found" /\ ip[p] = NoInode /\ lock[i] = NoProc /\ UNCHANGED <<lock, fd, cwd, kind, new>>
  BY DEF LinkBump, At, Unlocked
<1>2. PlaceOk(p) /\ Place(p) = pc[p] BY <1>1, CallType DEF InIput, Place
<1>3. i \in Inum BY <1>1, <1>2, CallType DEF PlaceOk, WalkPlaces
<1>4. lock' \in [Inum -> Proc \cup {NoProc}] BY <1>1 DEF LinkOk, NodeType
<1>5. \A j \in Inum : lock[j] \notin {NoProc, p} => lock'[j] = lock[j] BY <1>1
<1>6. Loaded(i) = disk[i] /\ disk[i] \in Node BY <1>3, LoadedDisk
<1>7. \/ Goto(p, "panic")
      \/ Load(i) /\ Iput(p, i, "user") /\ UNCHANGED <<disk, entry, ref, rest, dp, ip>>
      \/ /\ disk[i].type # "free" /\ disk[i].type # "dir"
         /\ Update([j \in {i} |-> AddLink(Loaded(j))]) /\ Goto(p, "walk")
         /\ ip' = [ip EXCEPT ![p] = i] /\ dp' = [dp EXCEPT ![p] = start]
         /\ rest' = [rest EXCEPT ![p] = new[p]] /\ UNCHANGED <<entry, put, ret>>
  BY <1>6 DEF LinkBump, diskVars
<1>8. CASE Goto(p, "panic")
  <2>1. pc' = [pc EXCEPT ![p] = "panic"] BY <1>8 DEF Goto
  <2> QED BY <2>1 DEF RefOk, RefType
<1>9. CASE Load(i) /\ Iput(p, i, "user") /\ UNCHANGED <<disk, entry, ref, rest, dp, ip>>
  BY <1>1, <1>3, <1>4, <1>5, <1>9, LoadKeeps, LinkPutUser
<1>10. CASE /\ disk[i].type # "free" /\ disk[i].type # "dir"
            /\ Update([j \in {i} |-> AddLink(Loaded(j))]) /\ Goto(p, "walk")
            /\ ip' = [ip EXCEPT ![p] = i] /\ dp' = [dp EXCEPT ![p] = start]
            /\ rest' = [rest EXCEPT ![p] = new[p]] /\ UNCHANGED <<entry, put, ret>>
  <2>1. /\ pc'[p] = "walk" /\ Place(p)' = "walk"
        /\ \A r \in Proc \ {p} : pc'[r] = pc[r] /\ put'[r] = put[r] /\ ret'[r] = ret[r]
    BY <1>10, Going DEF Places
  <2>2. ip'[p] = i /\ \A r \in Proc \ {p} : ip'[r] = ip[r] BY <1>10 DEF RefOk, RefType
  <2>3. \A r \in Proc \ {p} : Idle(r) BY <1>1, <1>10, <2>1, <2>2 DEF RefOk, RefType, Idle
  <2>4. PICK nd : nd = AddLink(disk[i]) OBVIOUS
  <2>5. nd \in Node /\ nd.type = disk[i].type /\ nd.nlink = disk[i].nlink + 1 /\ disk[i].type = "file"
    BY <1>6, <1>10, <2>4 DEF AddLink, Node
  <2>6. PICK change : change = [j \in {i} |-> AddLink(Loaded(j))] OBVIOUS
  <2>7. change \in [{i} -> Node] /\ change[i] = nd BY <1>6, <2>4, <2>5, <2>6
  <2>8. Update(change) /\ {i} \in SUBSET Inum BY <1>3, <1>10, <2>6
  <2>9. /\ valid' \in [Inum -> BOOLEAN] /\ node' \in [Inum -> Node] /\ disk' \in [Inum -> Node]
        /\ \A j \in Inum : Copied(j)' /\ disk'[j] = IF j \in {i} THEN change[j] ELSE disk[j]
    <3>1. PICK S : S = {i} OBVIOUS
    <3>2. S \in SUBSET Inum /\ change \in [S -> Node] BY <2>7, <2>8, <3>1
    <3>3. /\ valid' \in [Inum -> BOOLEAN] /\ node' \in [Inum -> Node] /\ disk' \in [Inum -> Node]
          /\ \A j \in Inum : Copied(j)' /\ disk'[j] = IF j \in S THEN change[j] ELSE disk[j]
      BY <2>8, <3>2, UpdateKeeps
    <3> QED BY <3>1, <3>3
  <2>10. disk'[i] = nd /\ i # NoInode BY <1>3, <2>7, <2>9, CallType
  <2>11. CallOk(p)' BY <2>1, <2>2, <2>5, <2>10 DEF CallOk, Mine, Linking
  <2>12. ~Pending(p) BY <1>1, <1>2 DEF Pending, Linking
  <2>13. NodeType' BY <1>4, <2>9 DEF NodeType
  <2>14. ASSUME NEW j \in Inum
         PROVE  /\ disk'[j].type = disk[j].type /\ (disk[j].type = "free" => disk'[j].nlink = 0)
                /\ disk[j].nlink + Owes(p, j)' =< disk'[j].nlink + Owes(p, j)
                /\ lock[j] \notin {NoProc, p} => lock'[j] = lock[j] /\ disk'[j] = disk[j]
                /\ Copied(j)'
    <3>1. Owes(p, j) = 0 BY <2>12 DEF Owes, Claim
    <3>2. InodeOk(j) BY DEF LinkOk
    <3>3. PICK c \in Nat : c = disk[j].nlink BY DEF LinkOk, NodeType, Node
    <3>4. CASE j = i
      <4>1. PICK y \in {0, 1} : y = Owes(p, j)' BY DEF Owes, Claim
      <4>2. nd.nlink = c + 1 BY <2>5, <3>3, <3>4
      <4>3. c + y =< (c + 1) + 0 BY <3>3, <4>1
      <4> QED BY <1>1, <2>5, <2>9, <2>10, <3>1, <3>3, <3>4, <4>1, <4>2, <4>3
    <3>5. CASE j # i
      <4>1. Owes(p, j)' = 0 BY <2>2, <3>5 DEF Owes, Claim
      <4>2. disk'[j] = disk[j] BY <2>9, <3>5
      <4> QED BY <1>5, <2>9, <3>1, <3>2, <3>3, <4>1, <4>2 DEF InodeOk
    <3> QED BY <3>4, <3>5
  <2>15. Retallies(p) BY <2>14 DEF Retallies
  <2> QED BY <1>10, <2>3, <2>11, <2>13, <2>15, RetallyStep
<1> QED BY <1>7, <1>8, <1>9, <1>10
-----------------------------------------------------------------------------
\* The steps that change entries: a name or a subdirectory more, or less.
LEMMA SetMoves ==
    ASSUME NEW S, NEW T, IsFiniteSet(S), IsFiniteSet(T)
    PROVE  /\ T \subseteq S => Cardinality(T) =< Cardinality(S)
           /\ \A h : T \subseteq S \cup {h} => Cardinality(T) =< Cardinality(S) + 1
           /\ \A h : T \subseteq S \ {h} /\ h \in S => Cardinality(T) + 1 =< Cardinality(S)
<1>1. Cardinality(S) \in Nat /\ Cardinality(T) \in Nat BY FS_CardinalityType
<1>2. T \subseteq S => Cardinality(T) =< Cardinality(S) BY FS_Subset
<1>3. ASSUME NEW h, T \subseteq S \cup {h} PROVE Cardinality(T) =< Cardinality(S) + 1
  <2>1. PICK U : U = S \cup {h} OBVIOUS
  <2>2. IsFiniteSet(U) /\ Cardinality(U) \in Nat /\ Cardinality(U) =< Cardinality(S) + 1
    <3>1. CASE h \in S
      <4>1. U = S BY <2>1, <3>1
      <4> QED BY <1>1, <4>1
    <3>2. CASE h \notin S
      <4>1. IsFiniteSet(U) /\ Cardinality(U) = Cardinality(S) + 1 BY <2>1, <3>2, FS_AddElement
      <4> QED BY <1>1, <4>1
    <3> QED BY <3>1, <3>2
  <2>3. T \subseteq U BY <1>3, <2>1
  <2>4. Cardinality(T) =< Cardinality(U) BY <2>2, <2>3, FS_Subset
  <2> QED BY <1>1, <2>2, <2>4
<1>4. ASSUME NEW h, T \subseteq S \ {h}, h \in S PROVE Cardinality(T) + 1 =< Cardinality(S)
  <2>1. PICK U : U = T \cup {h} OBVIOUS
  <2>2. h \notin T /\ U \subseteq S BY <1>4, <2>1
  <2>3. IsFiniteSet(U) /\ Cardinality(U) = Cardinality(T) + 1 BY <2>1, <2>2, FS_AddElement
  <2>4. Cardinality(U) =< Cardinality(S) BY <2>2, FS_Subset
  <2> QED BY <2>3, <2>4
<1> QED BY <1>2, <1>3, <1>4

LEMMA LinksMove ==
    ASSUME NEW i
    PROVE  /\ Names(i)' \subseteq Names(i) /\ Subs(i)' \subseteq Subs(i) => Links(i)' =< Links(i)
           /\ \A h : Names(i)' \subseteq Names(i) \cup {h} /\ Subs(i)' \subseteq Subs(i) => Links(i)' =< Links(i) + 1
           /\ \A h : Names(i)' \subseteq Names(i) /\ Subs(i)' \subseteq Subs(i) \cup {h} => Links(i)' =< Links(i) + 1
           /\ \A h : Names(i)' \subseteq Names(i) \ {h} /\ h \in Names(i) /\ Subs(i)' \subseteq Subs(i)
                        => Links(i)' + 1 =< Links(i)
           /\ \A h : Names(i)' \subseteq Names(i) /\ Subs(i)' \subseteq Subs(i) \ {h} /\ h \in Subs(i)
                        => Links(i)' + 1 =< Links(i)
<1>1. PICK N, N2, S, S2 : N = Names(i) /\ N2 = Names(i)' /\ S = Subs(i) /\ S2 = Subs(i)' OBVIOUS
<1>2. /\ IsFiniteSet(N) /\ IsFiniteSet(S) /\ Cardinality(N) \in Nat /\ Cardinality(S) \in Nat
      /\ Links(i) = Cardinality(N) + Cardinality(S)
  BY <1>1, FiniteLinks
<1>3. /\ IsFiniteSet(N2) /\ IsFiniteSet(S2) /\ Cardinality(N2) \in Nat /\ Cardinality(S2) \in Nat
      /\ Links(i)' = Cardinality(N2) + Cardinality(S2)
  BY <1>1, FiniteLinksNext
<1>4. /\ N2 \subseteq N => Cardinality(N2) =< Cardinality(N)
      /\ \A h : N2 \subseteq N \cup {h} => Cardinality(N2) =< Cardinality(N) + 1
      /\ \A h : N2 \subseteq N \ {h} /\ h \in N => Cardinality(N2) + 1 =< Cardinality(N)
  BY <1>2, <1>3, SetMoves
<1>5. /\ S2 \subseteq S => Cardinality(S2) =< Cardinality(S)
      /\ \A h : S2 \subseteq S \cup {h} => Cardinality(S2) =< Cardinality(S) + 1
      /\ \A h : S2 \subseteq S \ {h} /\ h \in S => Cardinality(S2) + 1 =< Cardinality(S)
  BY <1>2, <1>3, SetMoves
<1>6. PICK n, n2, s, s2 \in Nat : n = Cardinality(N) /\ n2 = Cardinality(N2) /\ s = Cardinality(S) /\ s2 = Cardinality(S2)
  BY <1>2, <1>3
<1>7. Links(i) = n + s /\ Links(i)' = n2 + s2 BY <1>2, <1>3, <1>6
<1>8. /\ N2 \subseteq N => n2 =< n
      /\ \A h : N2 \subseteq N \cup {h} => n2 =< n + 1
      /\ \A h : N2 \subseteq N \ {h} /\ h \in N => n2 + 1 =< n
  BY <1>4, <1>6
<1>9. /\ S2 \subseteq S => s2 =< s
      /\ \A h : S2 \subseteq S \cup {h} => s2 =< s + 1
      /\ \A h : S2 \subseteq S \ {h} /\ h \in S => s2 + 1 =< s
  BY <1>5, <1>6
<1>10. /\ N2 \subseteq N /\ S2 \subseteq S => n2 + s2 =< n + s
       /\ \A h : N2 \subseteq N \cup {h} /\ S2 \subseteq S => n2 + s2 =< n + s + 1
       /\ \A h : N2 \subseteq N /\ S2 \subseteq S \cup {h} => n2 + s2 =< n + s + 1
       /\ \A h : N2 \subseteq N \ {h} /\ h \in N /\ S2 \subseteq S => n2 + s2 + 1 =< n + s
       /\ \A h : N2 \subseteq N /\ S2 \subseteq S \ {h} /\ h \in S => n2 + s2 + 1 =< n + s
  <2>1. N2 \subseteq N /\ S2 \subseteq S => n2 + s2 =< n + s BY <1>8, <1>9
  <2>2. ASSUME NEW h, N2 \subseteq N \cup {h}, S2 \subseteq S PROVE n2 + s2 =< n + s + 1
    <3>1. n2 =< n + 1 /\ s2 =< s BY <1>8, <1>9, <2>2
    <3> QED BY <3>1
  <2>3. ASSUME NEW h, N2 \subseteq N, S2 \subseteq S \cup {h} PROVE n2 + s2 =< n + s + 1
    <3>1. n2 =< n /\ s2 =< s + 1 BY <1>8, <1>9, <2>3
    <3> QED BY <3>1
  <2>4. ASSUME NEW h, N2 \subseteq N \ {h}, h \in N, S2 \subseteq S PROVE n2 + s2 + 1 =< n + s
    <3>1. n2 + 1 =< n /\ s2 =< s BY <1>8, <1>9, <2>4
    <3> QED BY <3>1
  <2>5. ASSUME NEW h, N2 \subseteq N, S2 \subseteq S \ {h}, h \in S PROVE n2 + s2 + 1 =< n + s
    <3>1. n2 =< n /\ s2 + 1 =< s BY <1>8, <1>9, <2>5
    <3> QED BY <3>1
  <2> QED BY <2>1, <2>2, <2>3, <2>4, <2>5
<1> QED BY <1>1, <1>7, <1>10

\* An inode with no links has no names, no subdirectories and nothing pending; it is not the root.
LEMMA NoLinks ==
    ASSUME LinkOk, NEW i \in Inum, disk[i].nlink = 0
    PROVE  /\ Names(i) = {} /\ Subs(i) = {} /\ Pend(i) = {} /\ i # Root /\ Links(i) = 0
           /\ \A e \in Inum, n \in Name : entry[e][n] # i
<1>1. PICK n, s, t, b \in Nat : /\ n = Cardinality(Names(i)) /\ s = Cardinality(Subs(i))
                                /\ t = Cardinality(Pend(i)) /\ b = Base(i)
  BY FiniteLinks DEF Base
<1>2. Links(i) = n + s /\ Counted(i) BY <1>1, FiniteLinks DEF LinkOk
<1>3. 0 >= (n + s) + t + b BY <1>1, <1>2 DEF Counted
<1>4. n = 0 /\ s = 0 /\ t = 0 /\ b = 0 BY <1>3
<1>5. Names(i) = {} /\ Subs(i) = {} /\ Pend(i) = {} BY <1>1, <1>4, FiniteLinks, FS_EmptySet
<1>6. i # Root BY <1>1, <1>4 DEF Base
<1>7. \A e \in Inum, m \in Name : entry[e][m] # i
  <2>1. ASSUME NEW e \in Inum, NEW m \in Name, entry[e][m] = i PROVE FALSE
    <3>1. <<e, m>> \in Names(i) BY <2>1 DEF Names
    <3> QED BY <1>5, <3>1
  <2> QED BY <2>1
<1> QED BY <1>2, <1>4, <1>5, <1>6, <1>7

\* An inode that loses names only stays counted.
LEMMA StillCounted ==
    ASSUME RefOk, LinkOk, NEW p \in Proc, \A r \in Proc \ {p} : Idle(r), Undisturbed(p), NEW i \in Inum,
           disk'[i].nlink = disk[i].nlink, Names(i)' \subseteq Names(i), Subs(i)' \subseteq Subs(i),
           Pending(p)' /\ ip'[p] = i => Pending(p) /\ ip[p] = i
    PROVE  Counted(i)'
<1>1. PICK k \in Nat : k = Links(i)
  <2>1. Links(i) \in Nat BY FiniteLinks
  <2> QED BY <2>1
<1>2. PICK k2 \in Nat : k2 = Links(i)'
  <2>1. Links(i)' \in Nat BY FiniteLinksNext
  <2> QED BY <2>1
<1>3. k2 =< k
  <2>1. Links(i)' =< Links(i) BY LinksMove
  <2> QED BY <1>1, <1>2, <2>1
<1>4. PICK x, y \in Nat : x = Owes(p, i) /\ y = Owes(p, i)' BY DEF Owes, Claim
<1>5. y =< x BY <1>4 DEF Owes, Claim
<1>6. PICK c \in Nat : c = disk[i].nlink BY DEF LinkOk, NodeType, Node
<1>7. k2 + c + y =< k + c + x BY <1>3, <1>5
<1>8. Links(i)' + disk[i].nlink + Owes(p, i)' =< Links(i) + disk'[i].nlink + Owes(p, i)
  BY <1>1, <1>2, <1>4, <1>6, <1>7
<1>9. disk'[i].nlink \in Nat BY <1>6
<1> QED BY <1>8, <1>9, CountedStep

LEMMA LinkIputFree == ASSUME RefOk, LinkOk, NEW p \in Proc, IputFree(p) PROVE LinkOk'
<1> PICK i : i = put[p] OBVIOUS
<1>1. /\ pc[p] = "free" /\ Goto(p, "drop")
      /\ disk' = [disk EXCEPT ![i].type = "free"]
      /\ entry' = [entry EXCEPT ![i] = NoEntries]
      /\ valid' = [valid EXCEPT ![i] = FALSE] /\ node' = [node EXCEPT ![i] = NoNode]
      /\ lock' = [lock EXCEPT ![i] = NoProc]
      /\ UNCHANGED <<fd, cwd, kind, rest, new, dp, ip, put, ret>>
  BY DEF IputFree, At, callVars
<1>2. InIput(p) /\ PlaceOk(p) /\ Place(p) = ret[p] BY <1>1, CallType DEF InIput, Place
<1>3. i \in Inum /\ NoInode \notin Inum BY <1>2, CallType DEF PlaceOk
<1>4. CallOk(p) /\ lock[i] = p /\ i # Mine(p) /\ disk[i].nlink = 0 BY <1>1 DEF LinkOk, CallOk
<1>5. /\ Names(i) = {} /\ Subs(i) = {} /\ Pend(i) = {} /\ i # Root
      /\ \A e \in Inum, n \in Name : entry[e][n] # i
  BY <1>3, <1>4, NoLinks
<1>6. pc'[p] = "drop" /\ \A r \in Proc \ {p} : pc'[r] = pc[r] BY <1>1 DEF Goto, RefOk, RefType
<1>7. \A r \in Proc \ {p} : Idle(r) BY <1>1, <1>6 DEF Idle
<1>8. Place(p)' = Place(p) BY <1>1, <1>2, <1>6 DEF Place, InIput
<1>9. Mine(p)' = Mine(p) /\ (Linking(p)' <=> Linking(p)) /\ (Pending(p)' <=> Pending(p))
  BY <1>1, <1>8 DEF Mine, Linking, Pending
<1>10. PICK nd : nd = [disk[i] EXCEPT !.type = "free"] OBVIOUS
<1>11. nd \in Node /\ nd.type = "free" /\ nd.nlink = 0
  <2>1. disk[i] \in Node BY <1>3 DEF LinkOk, NodeType
  <2> QED BY <1>4, <1>10, <2>1 DEF Node
<1>12. disk' = [disk EXCEPT ![i] = nd] BY <1>1, <1>3, <1>10 DEF LinkOk, NodeType
<1>13. /\ disk' \in [Inum -> Node] /\ disk'[i] = nd /\ \A j \in Inum \ {i} : disk'[j] = disk[j]
  BY <1>3, <1>11, <1>12 DEF LinkOk, NodeType
<1>14. /\ \A n \in AnyName : entry'[i][n] = NoInode
       /\ \A j \in Inum \ {i} : entry'[j] = entry[j] /\ lock'[j] = lock[j]
  BY <1>1, <1>3 DEF RefOk, RefType, LinkOk, NodeType, NoEntries
<1>15. Undisturbed(p) BY <1>4, <1>13, <1>14 DEF Undisturbed
<1>16. CallOk(p)'
  <2>1. Mine(p) # NoInode => Mine(p) \in Inum BY MineType
  <2>2. Linking(p) => ip[p] \in Inum /\ ip[p] # i
    <3>1. SUFFICES ASSUME Linking(p) PROVE ip[p] \in Inum /\ ip[p] # i
      OBVIOUS
    <3>2. ip[p] \in Inum /\ disk[ip[p]].nlink # 0 BY <3>1, PendingCounted DEF Pending
    <3> QED BY <1>4, <3>2
  <2> QED BY <1>1, <1>4, <1>6, <1>9, <1>13, <1>14, <2>1, <2>2 DEF CallOk
<1>17. NodeType'
  <2>1. NoNode \in Node BY DEF NoNode, Node
  <2>2. lock' \in [Inum -> Proc \cup {NoProc}] BY <1>1, <1>3, LockMoves
  <2> QED BY <1>1, <1>13, <2>1, <2>2 DEF LinkOk, NodeType
<1>18. \A e \in Inum, n \in AnyName, j \in Inum : entry'[e][n] = j => e # i /\ entry[e][n] = j BY <1>3, <1>14
<1>19. Name \subseteq AnyName /\ DotDot \in AnyName BY DEF AnyName
<1>20. ASSUME NEW j \in Inum PROVE Copied(j)' /\ InodeOk(j)' /\ NameOk(j)' /\ Counted(j)'
  <2>1. Copied(j) /\ InodeOk(j) /\ NameOk(j) BY DEF LinkOk
  <2>2. Copied(j)'
    <3>1. valid'[i] = FALSE /\ \A x \in Inum \ {i} : valid'[x] = valid[x] /\ node'[x] = node[x]
      BY <1>1, <1>3 DEF LinkOk, NodeType
    <3> QED BY <1>13, <2>1, <3>1 DEF Copied
  <2>3. InodeOk(j)'
    <3>1. CASE j = i BY <1>11, <1>13, <1>14, <3>1 DEF InodeOk
    <3>2. CASE j # i BY <1>13, <1>14, <2>1, <3>2 DEF InodeOk
    <3> QED BY <3>1, <3>2
  <2>4. NameOk(j)'
    <3>1. SUFFICES ASSUME NEW e \in Inum, NEW n \in Name, entry'[e][n] = j
                   PROVE  /\ disk'[j].type # "free"
                          /\ disk'[j].type = "dir" => j # Root /\ entry'[j][DotDot] = e /\ Only(j, e, n)'
      BY DEF NameOk
    <3>2. entry[e][n] = j /\ j # i BY <1>5, <1>18, <1>19, <3>1
    <3>3. disk'[j] = disk[j] /\ entry'[j] = entry[j] BY <1>13, <1>14, <3>2
    <3>4. Only(j, e, n) => Only(j, e, n)' BY <1>18, <1>19 DEF Only
    <3> QED BY <2>1, <3>2, <3>3, <3>4 DEF NameOk
  <2>5. Counted(j)'
    <3>1. Names(j)' \subseteq Names(j)
      <4>1. SUFFICES ASSUME NEW h \in Inum \X Name, entry'[h[1]][h[2]] = j PROVE entry[h[1]][h[2]] = j
        BY DEF Names
      <4> QED BY <1>18, <1>19, <4>1
    <3>2. \A d \in Inum : Named(d)' => Named(d) BY <1>18, <1>19 DEF Named
    <3>3. Subs(j)' \subseteq Subs(j)
      <4>1. SUFFICES ASSUME NEW d \in Inum \ {j}, entry'[d][DotDot] = j, Named(d)'
                     PROVE  entry[d][DotDot] = j /\ Named(d)
        BY DEF Subs
      <4> QED BY <1>18, <1>19, <3>2, <4>1
    <3>4. disk'[j].nlink = disk[j].nlink BY <1>4, <1>11, <1>13
    <3>5. Pending(p)' /\ ip'[p] = j => Pending(p) /\ ip[p] = j BY <1>1, <1>9
    <3> QED BY <1>7, <1>15, <3>1, <3>3, <3>4, <3>5, StillCounted
  <2> QED BY <2>2, <2>3, <2>4, <2>5
<1> QED BY <1>7, <1>15, <1>16, <1>17, <1>20, LinkStep

LEMMA LinkLinkEntry == ASSUME RefOk, LinkOk, NEW p \in Proc, LinkEntry(p), pc'[p] # "panic" PROVE LinkOk'
<1> PICK d : d = dp[p] OBVIOUS
<1> PICK n : n = Head(rest[p]) OBVIOUS
<1> PICK old : old = entry[d][n] OBVIOUS
<1> PICK i : i = ip[p] OBVIOUS
<1>1. /\ pc[p] = "found" /\ kind[p] = "link" /\ i # NoInode /\ lock[d] = NoProc /\ Load(d)
      /\ UNCHANGED <<disk, fd, cwd, kind, rest, new, dp, ip>>
  BY DEF LinkEntry, At, Unlocked, callVars
<1>2. PlaceOk(p) /\ Place(p) = pc[p] BY <1>1, CallType DEF InIput, Place
<1>3. d \in Inum /\ NoInode \notin Inum BY <1>1, <1>2, CallType DEF PlaceOk, WalkPlaces
<1>4. n \in AnyName
  <2>1. rest[p] # <<>> /\ rest[p] \in Seq(AnyName) BY <1>1, <1>2, CallType DEF PlaceOk, Parent
  <2> QED BY <2>1
<1>5. Linking(p) /\ Pending(p) BY <1>1, <1>2 DEF Linking, Pending
<1>6. i \in Inum /\ disk[i].type = "file" BY <1>5, PendingCounted DEF LinkOk, CallOk
<1>7. Loaded(d) = disk[d] BY <1>3, LoadedDisk
<1>8. valid' \in [Inum -> BOOLEAN] /\ node' \in [Inum -> Node] /\ \A j \in Inum : Copied(j)'
  BY <1>1, <1>3, LoadKeeps
<1>9. \/ Goto(p, "panic")
      \/ lock' = [lock EXCEPT ![d] = p] /\ Iput(p, old, "linkbad") /\ entry' = entry
      \/ /\ disk[d].type = "dir" /\ old = NoInode
         /\ entry' = [entry EXCEPT ![d][n] = i] /\ Iput(p, d, "linked") /\ lock' = lock
  BY <1>7 DEF LinkEntry, Lookup
<1>10. CASE Goto(p, "panic")
  <2>1. pc' = [pc EXCEPT ![p] = "panic"] BY <1>10 DEF Goto
  <2> QED BY <2>1 DEF RefOk, RefType
<1>11. CASE lock' = [lock EXCEPT ![d] = p] /\ Iput(p, old, "linkbad") /\ entry' = entry
  <2>1. /\ pc'[p] = "put" /\ Place(p)' = "linkbad"
        /\ \A r \in Proc \ {p} : pc'[r] = pc[r] /\ put'[r] = put[r] /\ ret'[r] = ret[r]
    BY <1>11, Putting
  <2>2. \A r \in Proc \ {p} : Idle(r) BY <1>1, <2>1 DEF Idle
  <2>3. lock'[d] = p BY <1>3, <1>11 DEF LinkOk, NodeType
  <2>4. CallOk(p)' BY <1>1, <1>6, <2>1, <2>3 DEF CallOk, Mine, Linking
  <2>5. NodeType' BY <1>1, <1>3, <1>8, <1>11, LockMoves DEF LinkOk, NodeType
  <2>6. Quiet(p) BY <1>1, <1>3, <1>5, <1>8, <1>11, LockMoves DEF Quiet
  <2> QED BY <1>1, <1>11, <2>2, <2>4, <2>5, <2>6, QuietStep
<1>12. CASE /\ disk[d].type = "dir" /\ old = NoInode
            /\ entry' = [entry EXCEPT ![d][n] = i] /\ Iput(p, d, "linked") /\ lock' = lock
  <2>1. /\ pc'[p] = "put" /\ Place(p)' = "linked"
        /\ \A r \in Proc \ {p} : pc'[r] = pc[r] /\ put'[r] = put[r] /\ ret'[r] = ret[r]
    BY <1>12, Putting
  <2>2. \A r \in Proc \ {p} : Idle(r) BY <1>1, <2>1 DEF Idle
  <2>3. CallOk(p)' /\ ~Pending(p)' BY <2>1, Ended
  <2>4. InodeOk(d) /\ InodeOk(i) BY <1>3, <1>6 DEF LinkOk
  <2>5. n \in Name /\ n # Dot /\ n # DotDot /\ i # d
    <3>1. entry[d][n] = NoInode /\ entry[d][Dot] # NoInode /\ entry[d][DotDot] # NoInode
      BY <1>12, <2>4 DEF InodeOk
    <3> QED BY <1>4, <1>6, <1>12, <3>1 DEF AnyName
  <2>6. \A e \in Inum, m \in AnyName : entry'[e][m] = IF e = d /\ m = n THEN i ELSE entry[e][m]
    BY <1>3, <1>4, <1>12 DEF RefOk, RefType
  <2>7. Name \subseteq AnyName /\ Dot \in AnyName /\ DotDot \in AnyName BY DEF AnyName
  <2>8. \A e \in Inum, m \in Name, j \in Inum : entry'[e][m] = j <=> (e = d /\ m = n /\ j = i) \/ entry[e][m] = j
    <3>1. SUFFICES ASSUME NEW e \in Inum, NEW m \in Name, NEW j \in Inum
                   PROVE  entry'[e][m] = j <=> (e = d /\ m = n /\ j = i) \/ entry[e][m] = j
      OBVIOUS
    <3>2. entry'[e][m] = IF e = d /\ m = n THEN i ELSE entry[e][m] BY <2>6, <2>7
    <3>3. CASE e = d /\ m = n
      <4>1. entry[e][m] = NoInode /\ entry'[e][m] = i BY <1>12, <3>2, <3>3
      <4> QED BY <1>3, <3>3, <4>1
    <3>4. CASE ~(e = d /\ m = n) BY <3>2, <3>4
    <3> QED BY <3>3, <3>4
  <2>9. \A e \in Inum : entry'[e][DotDot] = entry[e][DotDot] /\ entry'[e][Dot] = entry[e][Dot] BY <2>5, <2>6, <2>7
  <2>10. \A x \in Inum : x # d => entry'[x] = entry[x] BY <1>12 DEF RefOk, RefType
  <2>11. Undisturbed(p) BY <1>1, <1>3, <1>12, <2>10 DEF Undisturbed
  <2>12. NodeType' BY <1>1, <1>8, <1>12 DEF LinkOk, NodeType
  <2>13. ASSUME NEW j \in Inum PROVE Copied(j)' /\ InodeOk(j)' /\ NameOk(j)' /\ Counted(j)'
    <3>1. Copied(j)' /\ InodeOk(j) /\ NameOk(j) /\ disk'[j] = disk[j] BY <1>1, <1>8 DEF LinkOk
    <3>2. InodeOk(j)'
      <4>1. CASE j = d BY <1>12, <2>9, <3>1, <4>1 DEF InodeOk
      <4>2. CASE j # d BY <2>10, <3>1, <4>2 DEF InodeOk
      <4> QED BY <4>1, <4>2
    <3>3. NameOk(j)'
      <4>1. SUFFICES ASSUME NEW e \in Inum, NEW m \in Name, entry'[e][m] = j
                     PROVE  /\ disk'[j].type # "free"
                            /\ disk'[j].type = "dir" => j # Root /\ entry'[j][DotDot] = e /\ Only(j, e, m)'
        BY DEF NameOk
      <4>2. CASE j = i BY <1>6, <3>1, <4>2
      <4>3. CASE j # i
        <5>1. entry[e][m] = j BY <2>8, <4>1, <4>3
        <5>2. Only(j, e, m) => Only(j, e, m)' BY <2>8, <4>3 DEF Only
        <5> QED BY <2>9, <3>1, <5>1, <5>2 DEF NameOk
      <4> QED BY <4>2, <4>3
    <3>4. \A x \in Inum : Named(x)' => Named(x) \/ x = i BY <2>8 DEF Named
    <3>5. Subs(j)' \subseteq Subs(j)
      <4>1. SUFFICES ASSUME NEW x \in Inum \ {j}, entry'[x][DotDot] = j, Named(x)'
                     PROVE  entry[x][DotDot] = j /\ Named(x)
        BY DEF Subs
      <4>2. entry[x][DotDot] = j BY <2>9, <4>1
      <4>3. x # i
        <5>1. entry[i][DotDot] = NoInode BY <1>6, <2>4, <2>7 DEF InodeOk
        <5> QED BY <1>3, <4>2, <5>1
      <4> QED BY <3>4, <4>1, <4>2, <4>3
    <3>6. Counted(j)'
      <4>1. CASE j # i
        <5>1. Names(j)' \subseteq Names(j)
          <6>1. SUFFICES ASSUME NEW h \in Inum \X Name, entry'[h[1]][h[2]] = j PROVE entry[h[1]][h[2]] = j
            BY DEF Names
          <6> QED BY <2>8, <4>1, <6>1
        <5> QED BY <2>2, <2>3, <2>11, <3>1, <3>5, <5>1, StillCounted
      <4>2. CASE j = i
        <5>1. Names(j)' \subseteq Names(j) \cup {<<d, n>>}
          <6>1. SUFFICES ASSUME NEW h \in Inum \X Name, entry'[h[1]][h[2]] = j
                         PROVE  entry[h[1]][h[2]] = j \/ h = <<d, n>>
            BY DEF Names
          <6>2. CASE h[1] = d /\ h[2] = n BY <6>2
          <6>3. CASE ~(h[1] = d /\ h[2] = n) BY <2>8, <6>1, <6>3
          <6> QED BY <6>2, <6>3
        <5>2. Links(j)' =< Links(j) + 1 BY <3>5, <5>1, LinksMove
        <5>3. Owes(p, j) = 1 /\ Owes(p, j)' = 0 BY <1>5, <2>3, <4>2 DEF Owes, Claim
        <5>4. PICK k \in Nat : k = Links(j)
          <6>1. Links(j) \in Nat BY FiniteLinks
          <6> QED BY <6>1
        <5>5. PICK k2 \in Nat : k2 = Links(j)'
          <6>1. Links(j)' \in Nat BY FiniteLinksNext
          <6> QED BY <6>1
        <5>6. PICK c \in Nat : c = disk[j].nlink BY DEF LinkOk, NodeType, Node
        <5>7. disk'[j].nlink = c BY <3>1, <5>6
        <5>8. k2 + c + 0 =< k + c + 1 BY <5>2, <5>4, <5>5, <5>6
        <5>9. Links(j)' + disk[j].nlink + Owes(p, j)' =< Links(j) + disk'[j].nlink + Owes(p, j)
          BY <5>3, <5>4, <5>5, <5>6, <5>7, <5>8
        <5>10. disk'[j].nlink \in Nat BY <5>7
        <5> QED BY <2>2, <2>11, <5>9, <5>10, CountedStep
      <4> QED BY <4>1, <4>2
    <3> QED BY <3>1, <3>2, <3>3, <3>6
  <2> QED BY <2>2, <2>3, <2>11, <2>12, <2>13, LinkStep
<1> QED BY <1>9, <1>10, <1>11, <1>12

LEMMA LinkUnlinkEntry == ASSUME RefOk, LinkOk, NEW p \in Proc, UnlinkEntry(p), pc'[p] # "panic" PROVE LinkOk'
<1> PICK d : d = dp[p] OBVIOUS
<1> PICK n : n = Head(rest[p]) OBVIOUS
<1> PICK i : i = ip[p] OBVIOUS
<1> PICK isDir \in BOOLEAN : isDir <=> disk[i].type = "dir" OBVIOUS
<1>1. pc[p] = "victim" /\ lock[i] = NoProc /\ UNCHANGED <<fd, cwd, kind, rest, new, dp, ip>>
  BY DEF UnlinkEntry, At, Unlocked, callVars
<1>2. PlaceOk(p) /\ Place(p) = "victim" /\ p # NoProc BY <1>1, CallType, InodesAssumption DEF InIput, Place
<1>3. d \in Inum /\ i \in Inum /\ NoInode \notin Inum
  BY <1>1, <1>2, CallType DEF PlaceOk, WalkPlaces, HoldPlaces
<1>4. lock[d] = p /\ n \in Name /\ entry[d][n] = i BY <1>1, <1>2, <1>3 DEF LinkOk, CallOk, Mine
<1>5. i # d BY <1>1, <1>2, <1>4
<1>6. InodeOk(d) /\ InodeOk(i) /\ NameOk(i) BY <1>3 DEF LinkOk
<1>7. n \in AnyName /\ n # Dot /\ n # DotDot BY <1>4, InodesAssumption DEF AnyName
<1>8. disk[d].type = "dir" /\ disk[d] \in Node BY <1>3, <1>4, <1>6, <1>7, LoadedDisk DEF InodeOk
<1>9. Loaded(i) = disk[i] /\ Loaded(d) = disk[d] /\ disk[i] \in Node BY <1>3, LoadedDisk
<1>10. ~Pending(p) BY <1>2 DEF Pending, Linking
<1>11. \/ Goto(p, "panic")
       \/ Load(i) /\ Iput(p, i, "unlinkbad") /\ UNCHANGED <<disk, entry, lock>>
       \/ /\ Update([j \in {i, d} |-> IF j = d /\ isDir THEN DropLink(Loaded(j)) ELSE Loaded(j)])
          /\ entry' = [entry EXCEPT ![d][n] = NoInode]
          /\ lock' = [lock EXCEPT ![d] = NoProc, ![i] = p]
          /\ Iput(p, d, "unlinked")
  BY <1>9 DEF UnlinkEntry, diskVars
<1>12. CASE Goto(p, "panic")
  <2>1. pc' = [pc EXCEPT ![p] = "panic"] BY <1>12 DEF Goto
  <2> QED BY <2>1 DEF RefOk, RefType
<1>13. CASE Load(i) /\ Iput(p, i, "unlinkbad") /\ UNCHANGED <<disk, entry, lock>>
  <2>1. /\ pc'[p] = "put" /\ Place(p)' = "unlinkbad"
        /\ \A r \in Proc \ {p} : pc'[r] = pc[r] /\ put'[r] = put[r] /\ ret'[r] = ret[r]
    BY <1>13, Putting
  <2>2. \A r \in Proc \ {p} : Idle(r) BY <1>1, <2>1 DEF Idle
  <2>3. CallOk(p)' /\ ~Pending(p)' BY <1>1, <1>4, <1>13, <2>1 DEF CallOk, Mine, Linking, Pending
  <2>4. NodeType' BY <1>3, <1>13, LoadKeeps DEF LinkOk, NodeType
  <2>5. Quiet(p) BY <1>3, <1>13, <2>3, LoadKeeps DEF Quiet
  <2> QED BY <1>13, <2>2, <2>3, <2>4, <2>5, QuietStep
<1>14. CASE /\ Update([j \in {i, d} |-> IF j = d /\ isDir THEN DropLink(Loaded(j)) ELSE Loaded(j)])
            /\ entry' = [entry EXCEPT ![d][n] = NoInode]
            /\ lock' = [lock EXCEPT ![d] = NoProc, ![i] = p]
            /\ Iput(p, d, "unlinked")
  <2>1. /\ pc'[p] = "put" /\ Place(p)' = "unlinked"
        /\ \A r \in Proc \ {p} : pc'[r] = pc[r] /\ put'[r] = put[r] /\ ret'[r] = ret[r]
    BY <1>14, Putting
  <2>2. \A r \in Proc \ {p} : Idle(r) BY <1>1, <2>1 DEF Idle
  <2>3. /\ lock' \in [Inum -> Proc \cup {NoProc}] /\ lock'[i] = p
        /\ \A j \in Inum : lock[j] \notin {NoProc, p} => lock'[j] = lock[j]
    BY <1>1, <1>3, <1>4, <1>14 DEF LinkOk, NodeType
  <2>4. CallOk(p)' BY <1>1, <2>1, <2>3 DEF CallOk, Mine, Linking
  <2>5. Pending(p)' /\ ip'[p] = i BY <1>1, <2>1 DEF Pending
  \* A directory that loses its name is one subdirectory less of d.
  <2>6. \A e \in Inum, m \in AnyName : entry'[e][m] = IF e = d /\ m = n THEN NoInode ELSE entry[e][m]
    BY <1>3, <1>7, <1>14 DEF RefOk, RefType
  <2>7. Name \subseteq AnyName /\ Dot \in AnyName /\ DotDot \in AnyName BY DEF AnyName
  <2>8. \A e \in Inum, m \in AnyName, j \in Inum : entry'[e][m] = j => entry[e][m] = j /\ ~(e = d /\ m = n)
    BY <1>3, <2>6
  <2>9. \A e \in Inum : entry'[e][DotDot] = entry[e][DotDot] /\ entry'[e][Dot] = entry[e][Dot] BY <1>7, <2>6, <2>7
  <2>10. \A e \in Inum : Named(e)' => Named(e) BY <2>7, <2>8 DEF Named
  <2>11. \A j \in Inum : Subs(j)' \subseteq Subs(j)
    <3>1. SUFFICES ASSUME NEW j \in Inum, NEW x \in Inum \ {j}, entry'[x][DotDot] = j, Named(x)'
                   PROVE  entry[x][DotDot] = j /\ Named(x)
      BY DEF Subs
    <3> QED BY <2>9, <2>10, <3>1
  <2>12. \A j \in Inum : Names(j)' \subseteq Names(j) \ {<<d, n>>}
    <3>1. SUFFICES ASSUME NEW j \in Inum, NEW h \in Inum \X Name, entry'[h[1]][h[2]] = j
                   PROVE  entry[h[1]][h[2]] = j /\ h # <<d, n>>
      BY DEF Names
    <3>2. h[1] \in Inum /\ h[2] \in AnyName BY <2>7
    <3>3. entry[h[1]][h[2]] = j /\ ~(h[1] = d /\ h[2] = n) BY <2>8, <3>1, <3>2
    <3> QED BY <3>3
  <2>13. <<d, n>> \in Names(i) BY <1>3, <1>4 DEF Names
  <2>14. isDir => i \in Subs(d) /\ i \notin Subs(d)'
    <3>1. SUFFICES ASSUME isDir PROVE i \in Subs(d) /\ i \notin Subs(d)'
      OBVIOUS
    <3>2. i # Root /\ entry[i][DotDot] = d /\ Only(i, d, n) BY <1>3, <1>4, <1>6, <3>1 DEF NameOk
    <3>3. Named(i) BY <1>3, <1>4 DEF Named
    <3>4. i \in Subs(d) BY <1>3, <1>5, <3>2, <3>3 DEF Subs
    <3>5. ~Named(i)'
      <4>1. SUFFICES ASSUME NEW e \in Inum, NEW m \in Name, entry'[e][m] = i PROVE FALSE
        BY <3>2 DEF Named
      <4>2. entry[e][m] = i /\ ~(e = d /\ m = n) BY <1>3, <2>7, <2>8, <4>1
      <4> QED BY <3>2, <4>2 DEF Only
    <3> QED BY <3>4, <3>5 DEF Subs
  <2>15. isDir => Links(d)' + 1 =< Links(d)
    <3>1. Names(d)' \subseteq Names(d) /\ Subs(d)' \subseteq Subs(d) BY <1>3, <2>11, <2>12
    <3>2. isDir => Subs(d)' \subseteq Subs(d) \ {i} /\ i \in Subs(d) BY <2>14, <3>1
    <3> QED BY <3>1, <3>2, LinksMove
  <2>16. Links(i)' + 1 =< Links(i) BY <1>3, <2>11, <2>12, <2>13, LinksMove
  <2>17. isDir => disk[d].nlink # 0
    <3>1. disk[d].nlink = 0 => Subs(d) = {} BY <1>3, NoLinks
    <3> QED BY <2>14, <3>1
  \* The counts.
  <2>18. PICK nd : nd = IF isDir THEN DropLink(disk[d]) ELSE disk[d] OBVIOUS
  <2>19. nd \in Node /\ nd.type = "dir" /\ nd.nlink = IF isDir THEN disk[d].nlink - 1 ELSE disk[d].nlink
    BY <1>8, <2>17, <2>18 DEF DropLink, Node
  <2>20. PICK change : change = [j \in {i, d} |-> IF j = d /\ isDir THEN DropLink(Loaded(j)) ELSE Loaded(j)]
    OBVIOUS
  <2>21. change \in [{i, d} -> Node] /\ change[i] = disk[i] /\ change[d] = nd
    BY <1>5, <1>9, <2>18, <2>19, <2>20
  <2>22. Update(change) /\ {i, d} \in SUBSET Inum BY <1>3, <1>14, <2>20
  <2>23. /\ valid' \in [Inum -> BOOLEAN] /\ node' \in [Inum -> Node] /\ disk' \in [Inum -> Node]
         /\ \A j \in Inum : Copied(j)' /\ disk'[j] = IF j \in {i, d} THEN change[j] ELSE disk[j]
    <3>1. PICK S : S = {i, d} OBVIOUS
    <3>2. S \in SUBSET Inum /\ change \in [S -> Node] BY <2>21, <2>22, <3>1
    <3>3. /\ valid' \in [Inum -> BOOLEAN] /\ node' \in [Inum -> Node] /\ disk' \in [Inum -> Node]
          /\ \A j \in Inum : Copied(j)' /\ disk'[j] = IF j \in S THEN change[j] ELSE disk[j]
      BY <2>22, <3>2, UpdateKeeps
    <3> QED BY <3>1, <3>3
  <2>24. disk'[d] = nd /\ \A j \in Inum : j # d => disk'[j] = disk[j] BY <1>3, <2>21, <2>23
  <2>25. \A j \in Inum : disk'[j].type = disk[j].type BY <1>8, <2>19, <2>24
  <2>26. \A x \in Inum : x # d => entry'[x] = entry[x] BY <1>14 DEF RefOk, RefType
  <2>27. Undisturbed(p) BY <1>4, <2>3, <2>24, <2>25, <2>26 DEF Undisturbed
  <2>28. NodeType' BY <2>3, <2>23 DEF NodeType
  <2>29. ASSUME NEW j \in Inum PROVE Copied(j)' /\ InodeOk(j)' /\ NameOk(j)' /\ Counted(j)'
    <3>1. Copied(j)' /\ InodeOk(j) /\ NameOk(j) BY <2>23 DEF LinkOk
    <3>2. InodeOk(j)'
      <4>1. CASE j = d BY <1>8, <2>9, <2>25, <3>1, <4>1 DEF InodeOk
      <4>2. CASE j # d BY <2>24, <2>26, <3>1, <4>2 DEF InodeOk
      <4> QED BY <4>1, <4>2
    <3>3. NameOk(j)'
      <4>1. SUFFICES ASSUME NEW e \in Inum, NEW m \in Name, entry'[e][m] = j
                     PROVE  /\ disk'[j].type # "free"
                            /\ disk'[j].type = "dir" => j # Root /\ entry'[j][DotDot] = e /\ Only(j, e, m)'
        BY DEF NameOk
      <4>2. entry[e][m] = j BY <2>7, <2>8, <4>1
      <4>3. Only(j, e, m) => Only(j, e, m)' BY <2>7, <2>8 DEF Only
      <4> QED BY <2>9, <2>25, <3>1, <4>2, <4>3 DEF NameOk
    <3>4. Counted(j)'
      <4>1. PICK k \in Nat : k = Links(j)
        <5>1. Links(j) \in Nat BY FiniteLinks
        <5> QED BY <5>1
      <4>2. PICK k2 \in Nat : k2 = Links(j)'
        <5>1. Links(j)' \in Nat BY FiniteLinksNext
        <5> QED BY <5>1
      <4>3. PICK c \in Nat : c = disk[j].nlink BY DEF LinkOk, NodeType, Node
      <4>4. Owes(p, j) = 0 BY <1>10 DEF Owes, Claim
      <4>5. CASE j = i
        <5>1. Owes(p, j)' = 1 BY <2>5, <4>5 DEF Owes, Claim
        <5>2. disk'[j].nlink = c BY <1>5, <2>24, <4>3, <4>5
        <5>3. k2 + c + 1 =< k + c + 0 BY <2>16, <4>1, <4>2, <4>5
        <5>4. Links(j)' + disk[j].nlink + Owes(p, j)' =< Links(j) + disk'[j].nlink + Owes(p, j)
          BY <4>1, <4>2, <4>3, <4>4, <5>1, <5>2, <5>3
        <5>5. disk'[j].nlink \in Nat BY <5>2
        <5> QED BY <2>2, <2>27, <5>4, <5>5, CountedStep
      <4>6. CASE j = d /\ isDir
        <5>1. Owes(p, j)' = 0 BY <1>5, <2>5, <4>6 DEF Owes, Claim
        <5>2. PICK c2 \in Nat : c2 = disk'[j].nlink /\ c2 = c - 1
          <6>1. disk'[j].nlink = c - 1 /\ c # 0 BY <2>17, <2>19, <2>24, <4>3, <4>6
          <6> QED BY <6>1
        <5>3. k2 + c + 0 =< k + c2 + 0 BY <2>15, <4>1, <4>2, <4>6, <5>2
        <5>4. Links(j)' + disk[j].nlink + Owes(p, j)' =< Links(j) + disk'[j].nlink + Owes(p, j)
          BY <4>1, <4>2, <4>3, <4>4, <5>1, <5>2, <5>3
        <5>5. disk'[j].nlink \in Nat BY <5>2
        <5> QED BY <2>2, <2>27, <5>4, <5>5, CountedStep
      <4>7. CASE j # i /\ ~(j = d /\ isDir)
        <5>1. disk'[j].nlink = disk[j].nlink BY <2>19, <2>24, <4>7
        <5>2. Names(j)' \subseteq Names(j) /\ Subs(j)' \subseteq Subs(j) BY <2>11, <2>12
        <5>3. ip'[p] # j BY <2>5, <4>7
        <5> QED BY <2>2, <2>27, <5>1, <5>2, <5>3, StillCounted
      <4> QED BY <4>5, <4>6, <4>7
    <3> QED BY <3>1, <3>2, <3>3, <3>4
  <2> QED BY <2>2, <2>4, <2>27, <2>28, <2>29, LinkStep
<1> QED BY <1>11, <1>12, <1>13, <1>14

LEMMA LinkCreate == ASSUME RefOk, LinkOk, NEW p \in Proc, Create(p), pc'[p] \notin {"full", "panic"} PROVE LinkOk'
<1> PICK d : d = dp[p] OBVIOUS
<1> PICK n : n = Head(rest[p]) OBVIOUS
<1> PICK old : old = entry[d][n] OBVIOUS
<1> PICK unused : unused = {j \in Inum : disk[j].type = "free"} OBVIOUS
<1> PICK i : i = Min(unused) OBVIOUS
<1> PICK isDir \in BOOLEAN : isDir <=> kind[p] = "mkdir" OBVIOUS
<1>1. /\ pc[p] = "found" /\ kind[p] \in {"create", "mkdir"} /\ lock[d] = NoProc
      /\ UNCHANGED <<fd, cwd, kind, rest, new, dp>>
  BY DEF Create, At, Unlocked
<1>2. PlaceOk(p) /\ Place(p) = pc[p] BY <1>1, CallType DEF InIput, Place
<1>3. d \in Inum /\ NoInode \notin Inum /\ Root \in Inum /\ ip[p] = NoInode
  BY <1>1, <1>2, CallType DEF PlaceOk, WalkPlaces
<1>4. n \in AnyName
  <2>1. Parent(p) BY <1>1 DEF Parent
  <2>2. rest[p] # <<>> /\ rest[p] \in Seq(AnyName) BY <1>1, <1>2, <2>1, CallType DEF PlaceOk
  <2> QED BY <2>2
<1>5. Loaded(d) = disk[d] /\ disk[d] \in Node BY <1>3, LoadedDisk
<1>6. ~Pending(p) BY <1>1, <1>2, <1>3 DEF Pending, Linking
<1>7. PICK made : made = [type |-> IF isDir THEN "dir" ELSE "file", nlink |-> 1] OBVIOUS
<1>8. PICK dots : dots = IF isDir THEN [NoEntries EXCEPT ![Dot] = i, ![DotDot] = d] ELSE entry[i] OBVIOUS
<1>9. PICK nd : nd = IF isDir THEN AddLink(disk[d]) ELSE disk[d] OBVIOUS
<1>10. \/ Goto(p, "panic")
       \/ Goto(p, "full")
       \/ Load(d) /\ Iput(p, d, "exists") /\ ip' = [ip EXCEPT ![p] = old] /\ UNCHANGED <<disk, entry, lock>>
       \/ /\ disk[d].type = "dir" /\ old = NoInode /\ unused # {} /\ lock[i] = NoProc
          /\ lock' = [lock EXCEPT ![i] = p]
          /\ Update([j \in {i, d} |-> IF j = i THEN made ELSE IF isDir THEN AddLink(Loaded(j)) ELSE Loaded(j)])
          /\ entry' = [entry EXCEPT ![i] = IF isDir THEN [NoEntries EXCEPT ![Dot] = i, ![DotDot] = d] ELSE @,
                                    ![d][n] = i]
          /\ Iput(p, d, "opened") /\ ip' = [ip EXCEPT ![p] = i]
  BY <1>5, <1>7 DEF Create, Lookup, Unlocked, diskVars
<1>11. CASE Goto(p, "panic")
  <2>1. pc' = [pc EXCEPT ![p] = "panic"] BY <1>11 DEF Goto
  <2> QED BY <2>1 DEF RefOk, RefType
<1>12. CASE Goto(p, "full")
  <2>1. pc' = [pc EXCEPT ![p] = "full"] BY <1>12 DEF Goto
  <2> QED BY <2>1 DEF RefOk, RefType
<1>13. CASE Load(d) /\ Iput(p, d, "exists") /\ ip' = [ip EXCEPT ![p] = old] /\ UNCHANGED <<disk, entry, lock>>
  <2>1. /\ pc'[p] = "put" /\ Place(p)' = "exists"
        /\ \A r \in Proc \ {p} : pc'[r] = pc[r] /\ put'[r] = put[r] /\ ret'[r] = ret[r]
    BY <1>13, Putting
  <2>2. \A r \in Proc \ {p} : Idle(r) BY <1>1, <1>13, <2>1 DEF Idle, RefOk, RefType
  <2>3. CallOk(p)' /\ ~Pending(p)' BY <2>1, Ended
  <2>4. NodeType' BY <1>3, <1>13, LoadKeeps DEF LinkOk, NodeType
  <2>5. Quiet(p) BY <1>3, <1>13, <2>3, LoadKeeps DEF Quiet
  <2> QED BY <1>13, <2>2, <2>3, <2>4, <2>5, QuietStep
<1>14. CASE /\ disk[d].type = "dir" /\ old = NoInode /\ unused # {} /\ lock[i] = NoProc
            /\ lock' = [lock EXCEPT ![i] = p]
            /\ Update([j \in {i, d} |-> IF j = i THEN made ELSE IF isDir THEN AddLink(Loaded(j)) ELSE Loaded(j)])
            /\ entry' = [entry EXCEPT ![i] = IF isDir THEN [NoEntries EXCEPT ![Dot] = i, ![DotDot] = d] ELSE @,
                                      ![d][n] = i]
            /\ Iput(p, d, "opened") /\ ip' = [ip EXCEPT ![p] = i]
  <2>1. i \in Inum /\ disk[i].type = "free"
    <3>1. unused \in SUBSET Inum OBVIOUS
    <3>2. i \in unused BY <1>14, <3>1, MinIn
    <3> QED BY <3>2
  <2>2. InodeOk(d) /\ InodeOk(i) BY <1>3, <2>1 DEF LinkOk
  <2>3. i # d /\ disk[i].nlink = 0 /\ \A m \in AnyName : entry[i][m] = NoInode
    BY <1>14, <2>1, <2>2 DEF InodeOk
  <2>4. /\ Names(i) = {} /\ Subs(i) = {} /\ i # Root /\ Links(i) = 0
        /\ \A e \in Inum, m \in Name : entry[e][m] # i
    BY <2>1, <2>3, NoLinks
  <2>5. n \in Name /\ n # Dot /\ n # DotDot
    <3>1. entry[d][n] = NoInode /\ entry[d][Dot] # NoInode /\ entry[d][DotDot] # NoInode
      BY <1>14, <2>2 DEF InodeOk
    <3> QED BY <1>4, <3>1 DEF AnyName
  <2>6. Name \subseteq AnyName /\ Dot \in AnyName /\ DotDot \in AnyName /\ Dot # DotDot
        /\ Dot \notin Name /\ DotDot \notin Name
    BY InodesAssumption DEF AnyName
  <2>7. /\ pc'[p] = "put" /\ Place(p)' = "opened"
        /\ \A r \in Proc \ {p} : pc'[r] = pc[r] /\ put'[r] = put[r] /\ ret'[r] = ret[r]
    BY <1>14, Putting
  <2>8. ip'[p] = i /\ \A r \in Proc \ {p} : ip'[r] = ip[r] BY <1>14 DEF RefOk, RefType
  <2>9. \A r \in Proc \ {p} : Idle(r) BY <1>1, <2>7, <2>8 DEF Idle
  <2>10. /\ lock' \in [Inum -> Proc \cup {NoProc}] /\ lock'[i] = p
         /\ \A j \in Inum : lock[j] \notin {NoProc, p} => lock'[j] = lock[j]
    BY <1>14, <2>1 DEF LinkOk, NodeType
  <2>11. CallOk(p)' /\ ~Pending(p)' BY <2>7, <2>8, <2>10 DEF CallOk, Mine, Linking, Pending
  \* The new entries.
  <2>12. entry' = [entry EXCEPT ![i] = dots, ![d][n] = i]
    <3>1. CASE isDir BY <1>8, <1>14, <3>1
    <3>2. CASE ~isDir BY <1>8, <1>14, <3>2
    <3> QED BY <3>1, <3>2
  <2>13. /\ \A m \in AnyName : dots[m] = IF isDir /\ m = Dot THEN i ELSE IF isDir /\ m = DotDot THEN d ELSE NoInode
         /\ dots \in [AnyName -> Inum \cup {NoInode}]
    <3>1. CASE isDir BY <1>3, <1>8, <2>1, <2>6, <3>1 DEF NoEntries
    <3>2. CASE ~isDir BY <1>8, <2>1, <2>3, <3>2 DEF RefOk, RefType
    <3> QED BY <3>1, <3>2
  <2>14. /\ entry'[i] = dots /\ \A m \in AnyName : entry'[d][m] = IF m = n THEN i ELSE entry[d][m]
         /\ \A x \in Inum \ {i, d} : entry'[x] = entry[x]
    BY <1>3, <1>4, <2>1, <2>3, <2>12 DEF RefOk, RefType
  <2>15. \A e \in Inum, m \in Name, j \in Inum : entry'[e][m] = j <=> (e = d /\ m = n /\ j = i) \/ entry[e][m] = j
    <3>1. SUFFICES ASSUME NEW e \in Inum, NEW m \in Name, NEW j \in Inum
                   PROVE  entry'[e][m] = j <=> (e = d /\ m = n /\ j = i) \/ entry[e][m] = j
      OBVIOUS
    <3>2. m \in AnyName /\ m # Dot /\ m # DotDot BY <2>6
    <3>3. CASE e = i
      <4>1. entry'[e][m] = NoInode /\ entry[e][m] = NoInode
        <5>1. entry'[e][m] = dots[m] /\ dots[m] = NoInode BY <2>13, <2>14, <3>2, <3>3
        <5> QED BY <2>3, <3>2, <3>3, <5>1
      <4>2. entry'[e][m] # j /\ entry[e][m] # j BY <1>3, <4>1
      <4> QED BY <2>3, <3>3, <4>2
    <3>4. CASE e = d
      <4>1. entry'[e][m] = IF m = n THEN i ELSE entry[e][m] BY <2>14, <3>2, <3>4
      <4>2. CASE m = n
        <5>1. entry[e][m] = NoInode /\ entry'[e][m] = i BY <1>14, <3>4, <4>1, <4>2
        <5> QED BY <1>3, <3>4, <4>2, <5>1
      <4>3. CASE m # n BY <4>1, <4>3
      <4> QED BY <4>2, <4>3
    <3>5. CASE e \notin {i, d} BY <2>14, <3>5
    <3> QED BY <3>3, <3>4, <3>5
  <2>16. \A e \in Inum : e # i => entry'[e][DotDot] = entry[e][DotDot] /\ entry'[e][Dot] = entry[e][Dot]
    BY <2>5, <2>6, <2>14
  <2>17. entry'[i][DotDot] = IF isDir THEN d ELSE NoInode BY <2>6, <2>13, <2>14
  <2>18. \A x \in Inum : Named(x)' => Named(x) \/ x = i BY <2>15 DEF Named
  <2>19. \A j \in Inum : Names(j)' \subseteq Names(j) \cup (IF j = i THEN {<<d, n>>} ELSE {})
    <3>1. SUFFICES ASSUME NEW j \in Inum, NEW h \in Inum \X Name, entry'[h[1]][h[2]] = j
                   PROVE  entry[h[1]][h[2]] = j \/ (h = <<d, n>> /\ j = i)
      BY DEF Names
    <3>2. (h[1] = d /\ h[2] = n /\ j = i) \/ entry[h[1]][h[2]] = j BY <2>15, <3>1
    <3> QED BY <3>2
  <2>20. \A j \in Inum : Subs(j)' \subseteq Subs(j) \cup (IF j = d /\ isDir THEN {i} ELSE {})
    <3>1. SUFFICES ASSUME NEW j \in Inum, NEW x \in Inum \ {j}, entry'[x][DotDot] = j, Named(x)'
                   PROVE  (entry[x][DotDot] = j /\ Named(x)) \/ (x = i /\ j = d /\ isDir)
      BY DEF Subs
    <3>2. CASE x = i BY <1>3, <2>17, <3>1, <3>2
    <3>3. CASE x # i BY <2>16, <2>18, <3>1, <3>3
    <3> QED BY <3>2, <3>3
  \* The inodes.
  <2>21. made \in Node /\ made.type = (IF isDir THEN "dir" ELSE "file") /\ made.nlink = 1 BY <1>7 DEF Node
  <2>22. nd \in Node /\ nd.type = "dir" /\ nd.nlink = IF isDir THEN disk[d].nlink + 1 ELSE disk[d].nlink
    BY <1>5, <1>9, <1>14 DEF AddLink, Node
  <2>23. PICK change : change = [j \in {i, d} |-> IF j = i THEN made
                                                  ELSE IF isDir THEN AddLink(Loaded(j)) ELSE Loaded(j)]
    OBVIOUS
  <2>24. change \in [{i, d} -> Node] /\ change[i] = made /\ change[d] = nd
    BY <1>5, <1>9, <2>3, <2>21, <2>22, <2>23
  <2>25. Update(change) /\ {i, d} \in SUBSET Inum BY <1>3, <1>14, <2>1, <2>23
  <2>26. /\ valid' \in [Inum -> BOOLEAN] /\ node' \in [Inum -> Node] /\ disk' \in [Inum -> Node]
         /\ \A j \in Inum : Copied(j)' /\ disk'[j] = IF j \in {i, d} THEN change[j] ELSE disk[j]
    <3>1. PICK S : S = {i, d} OBVIOUS
    <3>2. S \in SUBSET Inum /\ change \in [S -> Node] BY <2>24, <2>25, <3>1
    <3>3. /\ valid' \in [Inum -> BOOLEAN] /\ node' \in [Inum -> Node] /\ disk' \in [Inum -> Node]
          /\ \A j \in Inum : Copied(j)' /\ disk'[j] = IF j \in S THEN change[j] ELSE disk[j]
      BY <2>25, <3>2, UpdateKeeps
    <3> QED BY <3>1, <3>3
  <2>27. disk'[i] = made /\ disk'[d] = nd /\ \A j \in Inum : j \notin {i, d} => disk'[j] = disk[j]
    BY <1>3, <2>1, <2>24, <2>26
  <2>28. \A j \in Inum : j # i => disk'[j].type = disk[j].type BY <1>14, <2>22, <2>27
  <2>29. Undisturbed(p)
    <3>1. \A x \in Inum : lock[x] \notin {NoProc, p} => x \notin {i, d} BY <1>1, <1>14
    <3>2. \A x \in Inum : disk[x].nlink # 0 => x # i BY <2>3
    <3> QED BY <2>10, <2>14, <2>27, <2>28, <3>1, <3>2 DEF Undisturbed
  <2>30. NodeType' BY <2>10, <2>26 DEF NodeType
  <2>31. ASSUME NEW j \in Inum PROVE Copied(j)' /\ InodeOk(j)' /\ NameOk(j)' /\ Counted(j)'
    <3>1. Copied(j)' /\ InodeOk(j) /\ NameOk(j) BY <2>26 DEF LinkOk
    <3>2. InodeOk(j)'
      <4>1. CASE j = i
        <5>1. disk'[j] = made /\ entry'[j] = dots BY <2>14, <2>27, <4>1
        <5>2. \A m \in AnyName : ~isDir => dots[m] = NoInode BY <2>13
        <5>3. isDir => dots[Dot] # NoInode /\ dots[DotDot] # NoInode BY <1>3, <2>1, <2>6, <2>13
        <5> QED BY <2>21, <5>1, <5>2, <5>3 DEF InodeOk
      <4>2. CASE j = d
        <5>1. disk'[j].type = "dir" /\ disk[j].type = "dir" BY <1>14, <2>28, <2>3, <4>2
        <5>2. entry'[j][Dot] = entry[j][Dot] /\ entry'[j][DotDot] = entry[j][DotDot] BY <2>3, <2>16, <4>2
        <5> QED BY <3>1, <5>1, <5>2 DEF InodeOk
      <4>3. CASE j \notin {i, d} BY <2>14, <2>27, <3>1, <4>3 DEF InodeOk
      <4> QED BY <4>1, <4>2, <4>3
    <3>3. NameOk(j)'
      <4>1. SUFFICES ASSUME NEW e \in Inum, NEW m \in Name, entry'[e][m] = j
                     PROVE  /\ disk'[j].type # "free"
                            /\ disk'[j].type = "dir" => j # Root /\ entry'[j][DotDot] = e /\ Only(j, e, m)'
        BY DEF NameOk
      <4>2. CASE j = i
        <5>1. e = d /\ m = n BY <2>4, <2>15, <4>1, <4>2
        <5>2. Only(j, e, m)' BY <2>4, <2>15, <4>2, <5>1 DEF Only
        <5> QED BY <2>4, <2>17, <2>21, <2>27, <4>2, <5>1, <5>2
      <4>3. CASE j # i
        <5>1. entry[e][m] = j BY <2>15, <4>1, <4>3
        <5>2. Only(j, e, m) => Only(j, e, m)' BY <2>15, <4>3 DEF Only
        <5> QED BY <2>16, <2>28, <3>1, <4>3, <5>1, <5>2 DEF NameOk
      <4> QED BY <4>2, <4>3
    <3>4. Counted(j)'
      <4>1. PICK k \in Nat : k = Links(j)
        <5>1. Links(j) \in Nat BY FiniteLinks
        <5> QED BY <5>1
      <4>2. PICK k2 \in Nat : k2 = Links(j)'
        <5>1. Links(j)' \in Nat BY FiniteLinksNext
        <5> QED BY <5>1
      <4>3. PICK c \in Nat : c = disk[j].nlink BY DEF LinkOk, NodeType, Node
      <4>4. Owes(p, j) = 0 /\ Owes(p, j)' = 0 BY <1>6, <2>11 DEF Owes, Claim
      <4>5. Names(j)' \subseteq Names(j) \cup (IF j = i THEN {<<d, n>>} ELSE {})
            /\ Subs(j)' \subseteq Subs(j) \cup (IF j = d /\ isDir THEN {i} ELSE {})
        BY <2>19, <2>20
      <4>6. CASE j = i \/ (j = d /\ isDir)
        <5>1. PICK c2 \in Nat : c2 = disk'[j].nlink /\ c2 = c + 1
          <6>1. CASE j = i
            <7>1. c = 0 /\ disk'[j].nlink = 1 BY <2>3, <2>21, <2>27, <4>3, <6>1
            <7> QED BY <7>1
          <6>2. CASE j = d /\ isDir
            <7>1. disk'[j].nlink = c + 1 BY <2>22, <2>27, <4>3, <6>2
            <7> QED BY <7>1
          <6> QED BY <4>6, <6>1, <6>2
        <5>2. Links(j)' =< Links(j) + 1
          <6>1. CASE j = i
            <7>1. Names(j)' \subseteq Names(j) \cup {<<d, n>>} /\ Subs(j)' \subseteq Subs(j) BY <2>3, <4>5, <6>1
            <7> QED BY <7>1, LinksMove
          <6>2. CASE j = d /\ isDir
            <7>1. Names(j)' \subseteq Names(j) /\ Subs(j)' \subseteq Subs(j) \cup {i} BY <2>3, <4>5, <6>2
            <7> QED BY <7>1, LinksMove
          <6> QED BY <4>6, <6>1, <6>2
        <5>3. k2 + c + 0 =< k + c2 + 0 BY <4>1, <4>2, <5>1, <5>2
        <5>4. Links(j)' + disk[j].nlink + Owes(p, j)' =< Links(j) + disk'[j].nlink + Owes(p, j)
          BY <4>1, <4>2, <4>3, <4>4, <5>1, <5>3
        <5>5. disk'[j].nlink \in Nat BY <5>1
        <5> QED BY <2>9, <2>29, <5>4, <5>5, CountedStep
      <4>7. CASE j # i /\ ~(j = d /\ isDir)
        <5>1. disk'[j].nlink = disk[j].nlink BY <2>22, <2>27, <4>7
        <5>2. Names(j)' \subseteq Names(j) /\ Subs(j)' \subseteq Subs(j) BY <4>5, <4>7
        <5> QED BY <2>9, <2>11, <2>29, <5>1, <5>2, StillCounted
      <4> QED BY <4>6, <4>7
    <3> QED BY <3>1, <3>2, <3>3, <3>4
  <2> QED BY <2>9, <2>11, <2>29, <2>30, <2>31, LinkStep
<1> QED BY <1>10, <1>11, <1>12, <1>13, <1>14
-----------------------------------------------------------------------------
\* A step on which the kernel halts leaves the disk as it was.
LEMMA HaltKeeps ==
    ASSUME RefOk, LinkOk, NEW p \in Proc, pc'[p] \in {"panic", "full"},
           \/ Walk(p) \/ OpenLock(p) \/ Chdir(p) \/ Create(p) \/ UnlinkFind(p) \/ UnlinkEntry(p)
           \/ (\E start \in {Root, cwd[p]} : LinkBump(p, start)) \/ LinkEntry(p)
    PROVE  disk' = disk /\ entry' = entry
<1>1. \A w : Goto(p, w) => pc'[p] = w BY DEF Goto, RefOk, RefType
<1>2. \A i, next : Iput(p, i, next) => pc'[p] = "put" BY <1>1 DEF Iput
<1>3. CASE Walk(p) BY <1>3 DEF Walk, diskVars
<1>4. CASE OpenLock(p) BY <1>4 DEF OpenLock, diskVars
<1>5. CASE Chdir(p) BY <1>5 DEF Chdir, diskVars
<1>6. CASE UnlinkFind(p) BY <1>6 DEF UnlinkFind, diskVars
<1>7. CASE Create(p)
  <2>1. ~Iput(p, dp[p], "opened") BY <1>2
  <2>2. UNCHANGED diskVars BY <1>7, <2>1 DEF Create
  <2> QED BY <2>2 DEF diskVars
<1>8. CASE UnlinkEntry(p)
  <2>1. ~Iput(p, dp[p], "unlinked") /\ ~Iput(p, ip[p], "unlinkbad") BY <1>2
  <2>2. UNCHANGED diskVars BY <1>8, <2>1 DEF UnlinkEntry
  <2> QED BY <2>2 DEF diskVars
<1>9. CASE \E start \in {Root, cwd[p]} : LinkBump(p, start)
  <2>1. PICK start \in {Root, cwd[p]} : LinkBump(p, start) BY <1>9
  <2>2. ~Goto(p, "walk") BY <1>1
  <2>3. UNCHANGED diskVars BY <2>1, <2>2 DEF LinkBump
  <2> QED BY <2>3 DEF diskVars
<1>10. CASE LinkEntry(p)
  <2>1. ~Iput(p, dp[p], "linked") BY <1>2
  <2> QED BY <1>10, <2>1 DEF LinkEntry
<1> QED BY <1>3, <1>4, <1>5, <1>6, <1>7, <1>8, <1>9, <1>10

LEMMA LinkOkCounts == LinkOk => LinksCounted
<1> SUFFICES ASSUME LinkOk, NEW i \in Inum
             PROVE  /\ disk[i].nlink >= Links(i)
                    /\ \A d \in Inum, n \in Name : entry[d][n] = i => disk[i].type # "free"
  BY DEF LinksCounted
<1>1. Counted(i) /\ NameOk(i) BY DEF LinkOk
<1>2. PICK k, t, b, c \in Nat : k = Links(i) /\ t = Cardinality(Pend(i)) /\ b = Base(i) /\ c = disk[i].nlink
  <2>1. Links(i) \in Nat /\ Cardinality(Pend(i)) \in Nat BY FiniteLinks
  <2>2. disk[i].nlink \in Nat BY DEF LinkOk, NodeType, Node
  <2> QED BY <2>1, <2>2 DEF Base
<1>3. c >= k + t + b BY <1>1, <1>2 DEF Counted
<1>4. c >= k BY <1>3
<1> QED BY <1>1, <1>2, <1>4 DEF NameOk

LEMMA LinkInit == Init => LinkOk
<1> SUFFICES ASSUME Init PROVE LinkOk
  OBVIOUS
<1>1. RefOk BY RefInit
<1>2. NoInode \notin Inum /\ Root \in Inum
  <2>1. NINODES \in Nat \ {0} BY InodesAssumption
  <2> QED BY <2>1 DEF NoInode, Inum, Root
<1>3. NodeType
  <2>1. NoNode \in Node /\ [type |-> "dir", nlink |-> 1] \in Node BY DEF NoNode, Node
  <2> QED BY <2>1 DEF Init, NodeType
<1>4. \A p \in Proc : Place(p) = "user" /\ pc[p] = "user" BY DEF Init, Place, InIput
<1>5. \A p \in Proc : CallOk(p) /\ ~Pending(p) BY <1>4 DEF CallOk, Mine, Linking, Pending
<1>6. Dot \notin Name /\ DotDot \notin Name /\ Dot # DotDot /\ Name \subseteq AnyName
      /\ Dot \in AnyName /\ DotDot \in AnyName
  BY InodesAssumption DEF AnyName
<1>7. \A e \in Inum, n \in Name : entry[e][n] = NoInode BY <1>6 DEF Init, NoEntries
<1>8. /\ entry[Root][DotDot] = Root /\ entry[Root][Dot] = Root
      /\ \A e \in Inum \ {Root}, n \in AnyName : entry[e][n] = NoInode
  BY <1>2, <1>6 DEF Init, NoEntries
<1>9. disk[Root] = [type |-> "dir", nlink |-> 1] /\ \A i \in Inum \ {Root} : disk[i] = NoNode BY <1>2 DEF Init
<1>10. ASSUME NEW i \in Inum PROVE Copied(i) /\ InodeOk(i) /\ NameOk(i) /\ Counted(i)
  <2>1. Copied(i) BY DEF Init, Copied
  <2>2. InodeOk(i)
    <3>1. CASE i = Root BY <1>2, <1>8, <1>9, <3>1 DEF InodeOk
    <3>2. CASE i # Root BY <1>8, <1>9, <3>2 DEF InodeOk, NoNode
    <3> QED BY <3>1, <3>2
  <2>3. NameOk(i) BY <1>2, <1>7 DEF NameOk
  <2>4. Names(i) = {} BY <1>2, <1>7 DEF Names
  <2>5. Subs(i) = {} BY <1>2, <1>6, <1>8 DEF Subs
  <2>6. Pend(i) = {} BY <1>5 DEF Pend
  <2>7. Links(i) = 0 /\ Cardinality(Pend(i)) = 0
    <3>1. Cardinality({}) = 0 BY FS_EmptySet
    <3>2. Links(i) = 0 + 0 /\ Cardinality(Pend(i)) = 0 BY <2>4, <2>5, <2>6, <3>1, FiniteLinks
    <3> QED BY <3>2
  <2>8. disk[i].nlink = Base(i) /\ Base(i) \in Nat BY <1>9 DEF Base, NoNode
  <2>9. Counted(i) BY <2>7, <2>8 DEF Counted
  <2> QED BY <2>1, <2>2, <2>3, <2>9
<1> QED BY <1>3, <1>5, <1>10 DEF LinkOk

LEMMA LinkNext == RefInv /\ LinkInv /\ [Next]_vars => LinkInv'
<1> SUFFICES ASSUME RefInv, LinkInv, [Next]_vars PROVE LinkInv'
  OBVIOUS
<1>2. CASE UNCHANGED vars
  <2>1. UNCHANGED <<disk, entry, valid, node, lock, pc, ret, rest, dp, ip, put>>
    BY <1>2 DEF vars, diskVars, cacheVars, callVars
  <2>2. LinksCounted' BY <2>1 DEF LinkInv, LinksCounted, Links, Named
  <2>3. ASSUME Running' PROVE LinkOk'
    <3>1. LinkOk BY <2>1, <2>3 DEF LinkInv, Running
    <3>2. \A i \in Inum : Links(i)' = Links(i) /\ Pend(i)' = Pend(i)
      BY <2>1 DEF Links, Named, Pend, Pending, Linking, Place, InIput
    <3>3. \A i \in Inum : Copied(i)' /\ InodeOk(i)' /\ NameOk(i)' /\ Counted(i)'
      BY <2>1, <3>1, <3>2 DEF LinkOk, Copied, InodeOk, NameOk, Only, Counted, Base
    <3>4. \A p \in Proc : CallOk(p)' BY <2>1, <3>1 DEF LinkOk, CallOk, Mine, Linking, Place, InIput
    <3>5. NodeType' BY <2>1, <3>1 DEF LinkOk, NodeType
    <3> QED BY <3>3, <3>4, <3>5 DEF LinkOk
  <2> QED BY <2>2, <2>3 DEF LinkInv
<1>3. CASE Next
  <2>1. RefOk /\ LinkOk BY <1>3 DEF Next, RefInv, LinkInv
  <2>2. PICK p \in Proc :
          \/ \E q \in Request, start \in {Root, cwd[p]} : Call(p, q, start)
          \/ Close(p)
          \/ Walk(p) \/ IputLook(p) \/ IputFree(p) \/ IputDrop(p)
          \/ OpenLock(p) \/ Opened(p) \/ NotOpened(p) \/ Chdir(p) \/ Create(p)
          \/ UnlinkFind(p) \/ UnlinkEntry(p) \/ UnlinkDone(p) \/ GiveUp(p)
          \/ \E start \in {Root, cwd[p]} : LinkBump(p, start)
          \/ LinkEntry(p) \/ LinkDone(p) \/ Unbump(p)
    BY <1>3, Zenon DEF Next
  <2> PICK halts \in BOOLEAN : halts <=> pc'[p] \in {"panic", "full"} OBVIOUS
  <2>3. halts => ~Running' BY DEF Running
  <2>4. LinkOk' \/ (halts /\ disk' = disk /\ entry' = entry)
    <3>1. CASE \E q \in Request, start \in {Root, cwd[p]} : Call(p, q, start) BY <2>1, <3>1, LinkCall
    <3>2. CASE Close(p) BY <2>1, <3>2, LinkClose
    <3>3. CASE Walk(p) BY <2>1, <3>3, LinkWalk, HaltKeeps
    <3>4. CASE IputLook(p) BY <2>1, <3>4, LinkIputLook
    <3>5. CASE IputFree(p) BY <2>1, <3>5, LinkIputFree
    <3>6. CASE IputDrop(p) BY <2>1, <3>6, LinkIputDrop
    <3>7. CASE OpenLock(p) BY <2>1, <3>7, LinkOpenLock, HaltKeeps
    <3>8. CASE Opened(p) BY <2>1, <3>8, LinkOpened
    <3>9. CASE NotOpened(p) BY <2>1, <3>9, LinkNotOpened
    <3>10. CASE Chdir(p) BY <2>1, <3>10, LinkChdir, HaltKeeps
    <3>11. CASE Create(p) BY <2>1, <3>11, LinkCreate, HaltKeeps
    <3>12. CASE UnlinkFind(p) BY <2>1, <3>12, LinkUnlinkFind, HaltKeeps
    <3>13. CASE UnlinkEntry(p) BY <2>1, <3>13, LinkUnlinkEntry, HaltKeeps
    <3>14. CASE UnlinkDone(p) BY <2>1, <3>14, LinkUnlinkDone
    <3>15. CASE GiveUp(p) BY <2>1, <3>15, LinkGiveUp
    <3>16. CASE \E start \in {Root, cwd[p]} : LinkBump(p, start) BY <2>1, <3>16, LinkLinkBump, HaltKeeps
    <3>17. CASE LinkEntry(p) BY <2>1, <3>17, LinkLinkEntry, HaltKeeps
    <3>18. CASE LinkDone(p) BY <2>1, <3>18, LinkLinkDone
    <3>19. CASE Unbump(p) BY <2>1, <3>19, LinkUnbump
    <3> QED BY <2>2, <3>1, <3>2, <3>3, <3>4, <3>5, <3>6, <3>7, <3>8, <3>9, <3>10, <3>11, <3>12, <3>13, <3>14,
               <3>15, <3>16, <3>17, <3>18, <3>19
  <2>5. CASE LinkOk'
    <3>1. (LinkOk => LinksCounted)' BY LinkOkCounts, PTL
    <3>2. LinksCounted' BY <2>5, <3>1

    <3> QED BY <2>5, <3>2 DEF LinkInv
  <2>6. CASE halts /\ disk' = disk /\ entry' = entry
    <3>1. LinksCounted' BY <2>6 DEF LinkInv, LinksCounted, Links, Named
    <3> QED BY <2>3, <2>6, <3>1 DEF LinkInv
  <2> QED BY <2>4, <2>5, <2>6
<1> QED BY <1>2, <1>3

THEOREM LinksInductive == Spec => []LinkInv
<1>1. Init => LinkInv BY LinkInit, LinkOkCounts DEF LinkInv
<1>2. RefInv /\ LinkInv /\ [Next]_vars => LinkInv' BY LinkNext
<1> QED BY <1>1, <1>2, RefsInductive, PTL DEF Spec

\* Directory entries and link counts agree, on every path of every interleaving: an entry
\* names an allocated inode, and the count of an inode is at least the names and the
\* subdirectories it has; iput() frees none that can be reached (fs.c:349, sysfile.c:211).
THEOREM LinksCountedHolds == Spec => []LinksCounted
<1>1. LinkInv => LinksCounted BY DEF LinkInv
<1> QED BY <1>1, LinksInductive, PTL
-----------------------------------------------------------------------------
\* Nobody is left with a freed inode, and no assertion fails, when no request has a "..":
\* the ".." of a removed directory is the only way to an inode that nothing holds or names.
Plain == Name \cup {Dot}
NoDotDot == \A q \in Request : q.path \in Seq(Plain) /\ q.new \in Seq(Plain)

\* p has a use for i; an iput() that only has to drop the count has none.
Uses(p, i) ==
    \/ cwd[p] = i
    \/ fd[p] = i
    \/ Place(p) \in WalkPlaces /\ dp[p] = i
    \/ (Place(p) \in HoldPlaces \/ Place(p) \in {"walk", "found"}) /\ ip[p] = i
    \/ pc[p] # "drop" /\ put[p] = i

UsesOk(p) == \A i \in Inum : Uses(p, i) => disk[i].type # "free"
DotOk(i) == disk[i].type = "dir" => entry[i][Dot] = i
Sound(p) ==
    /\ rest[p] \in Seq(Plain) /\ new[p] \in Seq(Plain)
    /\ pc[p] = "free" => ref[put[p]] = 1
    /\ UsesOk(p)
    /\ disk[cwd[p]].type = "dir"
    /\ Place(p) = "found" /\ Parent(p) => disk[dp[p]].type = "dir"
HeldOk == (\A p \in Proc : Sound(p)) /\ \A i \in Inum : DotOk(i)
HeldInv == HeldStays /\ (Running => HeldOk)

\* The holders of an inode with one reference that is being put.
LEMMA Sole ==
    ASSUME RefOk, NEW p \in Proc, NEW i \in Inum, put[p] = i, ref[i] = 1, NEW r \in Proc
    PROVE  /\ cwd[r] # i /\ fd[r] # i
           /\ ~(Place(r) \in WalkPlaces /\ dp[r] = i)
           /\ ~((Place(r) \in HoldPlaces \/ Place(r) \in {"walk", "found"}) /\ ip[r] = i)
           /\ put[r] = i => r = p
<1>1. PICK C, F, W, D, T : /\ C = {q \in Proc : cwd[q] = i} /\ F = {q \in Proc : fd[q] = i}
                           /\ W = {q \in Proc : Walking(q) /\ dp[q] = i}
                           /\ D = {q \in Proc : Holding(q) /\ ip[q] = i} /\ T = {q \in Proc : put[q] = i}
  OBVIOUS
<1>2. 1 = Cardinality(C) + Cardinality(F) + Cardinality(W) + Cardinality(D) + Cardinality(T)
  <2>1. ref[i] = Holders(i) BY DEF RefOk
  <2> QED BY <1>1, <2>1 DEF Holders
<1>3. IsFiniteSet(C) /\ IsFiniteSet(F) /\ IsFiniteSet(W) /\ IsFiniteSet(D) /\ IsFiniteSet(T)
  BY <1>1, InodesAssumption, FS_Subset
<1>4. PICK c, f, w, d, t \in Nat : /\ c = Cardinality(C) /\ f = Cardinality(F) /\ w = Cardinality(W)
                                   /\ d = Cardinality(D) /\ t = Cardinality(T)
  BY <1>3, FS_CardinalityType
<1>5. p \in T BY <1>1
<1>6. t # 0 BY <1>3, <1>4, <1>5, FS_EmptySet
<1>7. c + f + w + d + t = 1 BY <1>2, <1>4
<1>8. c = 0 /\ f = 0 /\ w = 0 /\ d = 0 /\ t = 1 BY <1>6, <1>7
<1>9. C = {} /\ F = {} /\ W = {} /\ D = {} BY <1>3, <1>4, <1>8, FS_EmptySet
<1>10. r \in T => r = p
  <2>1. SUFFICES ASSUME r \in T, r # p PROVE FALSE
    OBVIOUS
  <2>2. PICK U : U = T \ {p} OBVIOUS
  <2>3. IsFiniteSet(U) /\ Cardinality(U) = Cardinality(T) - 1 BY <1>3, <1>5, <2>2, FS_RemoveElement
  <2>4. Cardinality(U) = 0
    <3>1. Cardinality(T) = 1 BY <1>4, <1>8
    <3> QED BY <2>3, <3>1
  <2>5. U = {} BY <2>3, <2>4, FS_EmptySet
  <2> QED BY <2>1, <2>2, <2>5
<1>11. PlaceOk(r) BY DEF RefOk
<1>12. /\ Walking(r) <=> Place(r) \in WalkPlaces
       /\ (Holding(r) /\ ip[r] = i) <=> (Place(r) \in HoldPlaces \/ Place(r) \in {"walk", "found"}) /\ ip[r] = i
  BY <1>11, PlaceWalks
<1> QED BY <1>1, <1>9, <1>10, <1>12

LEMMA SoleUse ==
    ASSUME RefOk, HeldOk, NEW p \in Proc, pc[p] = "free", NEW r \in Proc \ {p}
    PROVE  put[p] \in Inum /\ ref[put[p]] = 1 /\ ~Uses(r, put[p]) /\ put[r] # put[p]
<1>1. put[p] \in Inum
  <2>1. InIput(p) /\ PlaceOk(p) BY CallType DEF InIput
  <2> QED BY <2>1, CallType DEF PlaceOk
<1>2. ref[put[p]] = 1 BY DEF HeldOk, Sound
<1>3. /\ cwd[r] # put[p] /\ fd[r] # put[p]
      /\ ~(Place(r) \in WalkPlaces /\ dp[r] = put[p])
      /\ ~((Place(r) \in HoldPlaces \/ Place(r) \in {"walk", "found"}) /\ ip[r] = put[p])
      /\ put[r] = put[p] => r = p
  BY <1>1, <1>2, Sole
<1> QED BY <1>1, <1>2, <1>3 DEF Uses

\* What p can get a reference to: the root, what it uses, what has a name.
Reach(p, x) == x = Root \/ Uses(p, x) \/ \E e \in Inum, m \in Name : entry[e][m] = x

LEMMA Alive ==
    ASSUME RefOk, LinkOk, HeldOk, NEW p \in Proc, NEW x \in Inum, Reach(p, x)
    PROVE  disk[x].type # "free" /\ \A r \in Proc \ {p} : pc[r] = "free" => put[r] # x
<1>1. disk[x].type # "free"
  <2>1. CASE Uses(p, x) BY <2>1 DEF HeldOk, Sound, UsesOk
  <2>2. CASE \E e \in Inum, m \in Name : entry[e][m] = x BY <2>2 DEF LinkOk, NameOk
  <2>3. CASE x = Root
    <3>1. disk[x].nlink # 0 BY <2>3, NoLinks
    <3> QED BY <3>1 DEF LinkOk, InodeOk
  <2> QED BY <2>1, <2>2, <2>3 DEF Reach
<1>2. ASSUME NEW r \in Proc \ {p}, pc[r] = "free", put[r] = x PROVE FALSE
  <2>1. disk[x].nlink = 0 BY <1>2 DEF LinkOk, CallOk
  <2>2. x # Root /\ \A e \in Inum, m \in Name : entry[e][m] # x BY <2>1, NoLinks
  <2>3. Uses(p, x) BY <2>2 DEF Reach
  <2>4. ~Uses(p, x) BY <1>2, SoleUse
  <2> QED BY <2>3, <2>4
<1> QED BY <1>1, <1>2

LEMMA LookupReach ==
    ASSUME HeldOk, NEW p \in Proc, NEW d \in Inum, Uses(p, d), disk[d].type = "dir", NEW m \in Plain,
           NEW x, x = entry[d][m]
    PROVE  Reach(p, x)
<1>1. CASE m = Dot BY <1>1 DEF HeldOk, DotOk, Reach
<1>2. CASE m \in Name BY <1>2 DEF Reach
<1> QED BY <1>1, <1>2 DEF Plain

\* What a step of p owes the others.
Harmless(p) ==
    /\ \A x \in Inum : \/ disk'[x].type = disk[x].type
                       \/ disk[x].type = "free"
                       \/ \A r \in Proc \ {p} : ~Uses(r, x)
    /\ \A r \in Proc \ {p} : pc[r] = "free" => ref'[put[r]] = ref[put[r]]

LEMMA HeldStep ==
    ASSUME RefOk, HeldOk, NEW p \in Proc, \A r \in Proc \ {p} : Idle(r), Harmless(p), Sound(p)',
           \A x \in Inum : DotOk(x)'
    PROVE  HeldOk'
<1>1. ASSUME NEW r \in Proc \ {p} PROVE Sound(r)'
  <2>1. Idle(r) /\ Sound(r) /\ PlaceOk(r) BY DEF HeldOk, RefOk
  <2>2. Place(r)' = Place(r) BY <2>1 DEF Idle, Place, InIput
  <2>3. \A x \in Inum : Uses(r, x)' <=> Uses(r, x) BY <2>1, <2>2 DEF Idle, Uses
  <2>4. \A x \in Inum : Uses(r, x) => disk[x].type # "free" /\ disk'[x].type = disk[x].type
    BY <2>1 DEF Sound, UsesOk, Harmless
  <2>5. UsesOk(r)' BY <2>3, <2>4 DEF UsesOk
  <2>6. disk'[cwd'[r]].type = "dir"
    <3>1. cwd[r] \in Inum /\ Uses(r, cwd[r]) BY CallType DEF Uses
    <3> QED BY <2>1, <2>4, <3>1 DEF Sound, Idle
  <2>7. (Place(r) = "found" /\ Parent(r) => disk[dp[r]].type = "dir")'
    <3>1. SUFFICES ASSUME Place(r) = "found", Parent(r) PROVE disk'[dp[r]].type = "dir"
      BY <2>1, <2>2 DEF Idle, Parent
    <3>2. dp[r] \in Inum BY <2>1, <3>1, CallType DEF PlaceOk, WalkPlaces
    <3>3. Uses(r, dp[r]) BY <3>1 DEF Uses, WalkPlaces
    <3> QED BY <2>1, <2>4, <3>1, <3>2, <3>3 DEF Sound
  <2>8. (pc[r] = "free" => ref[put[r]] = 1)' BY <2>1 DEF Sound, Idle, Harmless
  <2>9. (rest[r] \in Seq(Plain) /\ new[r] \in Seq(Plain))' BY <2>1 DEF Sound, Idle
  <2> QED BY <2>5, <2>6, <2>7, <2>8, <2>9 DEF Sound
<1>2. (\A r \in Proc : Sound(r))'
  <2>1. ASSUME NEW r \in Proc PROVE Sound(r)'
    <3>1. CASE r = p BY <3>1
    <3>2. CASE r # p BY <1>1, <3>2
    <3> QED BY <3>1, <3>2
  <2> QED BY <2>1
<1>3. (\A i \in Inum : DotOk(i))' OBVIOUS
<1> QED BY <1>2, <1>3 DEF HeldOk

\* A step that frees and makes no inode.
Calm(p) ==
    /\ \A x \in Inum : /\ disk'[x].type = disk[x].type /\ entry'[x][Dot] = entry[x][Dot]
                       /\ Uses(p, x)' => Reach(p, x)
    /\ rest'[p] \in Seq(Plain) /\ new'[p] \in Seq(Plain)
    /\ pc'[p] = "free" => ref'[put'[p]] = 1
    /\ cwd'[p] \in Inum /\ disk[cwd'[p]].type = "dir"
    /\ Place(p)' = "found" /\ Parent(p)' => dp'[p] \in Inum /\ disk[dp'[p]].type = "dir"

LEMMA CalmStep ==
    ASSUME RefOk, LinkOk, HeldOk, NEW p \in Proc, \A r \in Proc \ {p} : Idle(r), Calm(p), Harmless(p)
    PROVE  HeldOk'
<1>1. \A x \in Inum : Uses(p, x)' => disk'[x].type # "free"
  <2>1. \A x \in Inum : Uses(p, x)' => Reach(p, x) /\ disk'[x].type = disk[x].type BY DEF Calm
  <2> QED BY <2>1, Alive
<1>2. Sound(p)' BY <1>1 DEF Calm, Sound, UsesOk
<1>3. \A x \in Inum : DotOk(x)' BY DEF HeldOk, DotOk, Calm
<1> QED BY <1>2, <1>3, HeldStep

LEMMA GetHarmless ==
    ASSUME RefOk, LinkOk, HeldOk, NEW p \in Proc, NEW i \in Inum, Reach(p, i) \/ disk[i].type = "free",
           ref' = [ref EXCEPT ![i] = @ + 1]
    PROVE  \A r \in Proc \ {p} : pc[r] = "free" => ref'[put[r]] = ref[put[r]]
<1> SUFFICES ASSUME NEW r \in Proc \ {p}, pc[r] = "free" PROVE ref'[put[r]] = ref[put[r]]
  OBVIOUS
<1>1. put[r] \in Inum BY SoleUse
<1>2. put[r] # i
  <2>1. CASE Reach(p, i) BY <2>1, Alive
  <2>2. CASE disk[i].type = "free"
    <3>1. Uses(r, put[r]) BY DEF Uses
    <3>2. disk[put[r]].type # "free" BY <1>1, <3>1 DEF HeldOk, Sound, UsesOk
    <3> QED BY <2>2, <3>2
  <2> QED BY <2>1, <2>2
<1> QED BY <1>1, <1>2 DEF RefOk, RefType

\* The last iput() of a call, of something the call has.
LEMMA HeldPutUser ==
    ASSUME RefOk, LinkOk, HeldOk, NEW p \in Proc, \A r \in Proc \ {p} : Idle(r),
           NEW i, Iput(p, i, "user"), i \in Inum, Uses(p, i), ref' = ref, rest' = rest, new' = new,
           \A x \in Inum : disk'[x].type = disk[x].type /\ entry'[x][Dot] = entry[x][Dot],
           fd'[p] \in {fd[p], NoInode}, cwd'[p] \in Inum, disk[cwd'[p]].type = "dir", Uses(p, cwd'[p])
    PROVE  HeldOk' /\ pc'[p] \notin {"panic", "full"}
<1>1. pc'[p] = "put" /\ put'[p] = i /\ Place(p)' = "user" BY Putting
<1>2. NoInode \notin Inum BY CallType
<1>3. \A x \in Inum : Uses(p, x)' => Reach(p, x)
  BY <1>1, <1>2 DEF Uses, Reach, WalkPlaces, HoldPlaces
<1>4. Sound(p) BY DEF HeldOk
<1>5. Calm(p) BY <1>1, <1>3, <1>4 DEF Calm, Sound
<1>6. Harmless(p) BY DEF Harmless
<1> QED BY <1>1, <1>5, <1>6, CalmStep

\* The current directory, the file and what the call has are in use.
LEMMA InUse ==
    ASSUME RefOk, NEW p \in Proc
    PROVE  /\ cwd[p] \in Inum /\ Uses(p, cwd[p]) /\ Uses(p, fd[p])
           /\ Place(p) \in WalkPlaces => dp[p] \in Inum /\ Uses(p, dp[p])
           /\ Place(p) \in HoldPlaces => ip[p] \in Inum /\ Uses(p, ip[p])
           /\ Place(p) \in {"walk", "found"} /\ ip[p] # NoInode => ip[p] \in Inum /\ Uses(p, ip[p])
           /\ pc[p] \in {"put", "free"} => put[p] \in Inum /\ Uses(p, put[p])
<1>1. PlaceOk(p) BY CallType
<1>2. Place(p) \in WalkPlaces => dp[p] \in Inum BY <1>1, CallType DEF PlaceOk
<1>3. Place(p) \in HoldPlaces => ip[p] \in Inum BY <1>1, CallType DEF PlaceOk
<1>4. pc[p] \in {"put", "free"} => put[p] \in Inum BY <1>1, CallType DEF PlaceOk, InIput
<1> QED BY <1>2, <1>3, <1>4, CallType DEF Uses

LEMMA HeldClose ==
    ASSUME RefOk, LinkOk, HeldOk, NEW p \in Proc, \A r \in Proc \ {p} : Idle(r), Close(p)
    PROVE  HeldOk' /\ pc'[p] \notin {"panic", "full"}
<1>1. /\ fd[p] # NoInode /\ Iput(p, fd[p], "user") /\ fd' = [fd EXCEPT ![p] = NoInode]
      /\ UNCHANGED <<disk, entry, ref, cwd, rest, new>>
  BY DEF Close, diskVars, cacheVars, callVars
<1>2. fd'[p] = NoInode /\ fd[p] \in Inum BY <1>1, CallType DEF RefOk, RefType
<1>3. disk[cwd[p]].type = "dir" BY DEF HeldOk, Sound
<1> QED BY <1>1, <1>2, <1>3, InUse, HeldPutUser

LEMMA HeldLinkDone ==
    ASSUME RefOk, LinkOk, HeldOk, NEW p \in Proc, \A r \in Proc \ {p} : Idle(r), LinkDone(p)
    PROVE  HeldOk' /\ pc'[p] \notin {"panic", "full"}
<1>1. /\ pc[p] = "linked" /\ Iput(p, ip[p], "user") /\ UNCHANGED <<disk, entry, ref, fd, cwd, rest, new>>
  BY DEF LinkDone, At, diskVars, cacheVars, callVars
<1>2. Place(p) \in HoldPlaces BY <1>1 DEF Place, InIput, HoldPlaces
<1>3. disk[cwd[p]].type = "dir" BY DEF HeldOk, Sound
<1> QED BY <1>1, <1>2, <1>3, InUse, HeldPutUser

LEMMA HeldNotOpened ==
    ASSUME RefOk, LinkOk, HeldOk, NEW p \in Proc, \A r \in Proc \ {p} : Idle(r), NotOpened(p)
    PROVE  HeldOk' /\ pc'[p] \notin {"panic", "full"}
<1>1. /\ pc[p] = "opened" /\ Iput(p, ip[p], "user") /\ UNCHANGED <<disk, entry, ref, fd, cwd, rest, new>>
  BY DEF NotOpened, At, diskVars, callVars
<1>2. Place(p) \in HoldPlaces BY <1>1 DEF Place, InIput, HoldPlaces
<1>3. disk[cwd[p]].type = "dir" BY DEF HeldOk, Sound
<1> QED BY <1>1, <1>2, <1>3, InUse, HeldPutUser

\* A count taken back changes no type.
LEMMA DropKeeps ==
    ASSUME LinkOk, NEW i \in Inum, Update([j \in {i} |-> DropLink(Loaded(j))])
    PROVE  \A x \in Inum : disk'[x].type = disk[x].type
<1>1. PICK change : change = [j \in {i} |-> DropLink(Loaded(j))] OBVIOUS
<1>2. DOMAIN change = {i} /\ change[i] = DropLink(disk[i]) BY <1>1, LoadedDisk
<1>3. disk' = [x \in Inum |-> IF x \in {i} THEN change[x] ELSE disk[x]] BY <1>1, <1>2 DEF Update
<1>4. DropLink(disk[i]).type = disk[i].type
  <2>1. disk[i] \in Node BY LoadedDisk
  <2> QED BY <2>1 DEF DropLink, Node
<1> QED BY <1>2, <1>3, <1>4

LEMMA HeldUnlinkDone ==
    ASSUME RefOk, LinkOk, HeldOk, NEW p \in Proc, \A r \in Proc \ {p} : Idle(r), UnlinkDone(p)
    PROVE  HeldOk' /\ pc'[p] \notin {"panic", "full"}
<1>1. /\ pc[p] = "unlinked" /\ Iput(p, ip[p], "user") /\ Update([j \in {ip[p]} |-> DropLink(Loaded(j))])
      /\ UNCHANGED <<entry, ref, fd, cwd, rest, new>>
  BY DEF UnlinkDone, At, callVars
<1>2. Place(p) \in HoldPlaces BY <1>1 DEF Place, InIput, HoldPlaces
<1>3. disk[cwd[p]].type = "dir" BY DEF HeldOk, Sound
<1>4. ip[p] \in Inum /\ Uses(p, ip[p]) BY <1>2, InUse
<1>5. \A x \in Inum : disk'[x].type = disk[x].type BY <1>1, <1>4, DropKeeps
<1> QED BY <1>1, <1>3, <1>4, <1>5, InUse, HeldPutUser

LEMMA HeldUnbump ==
    ASSUME RefOk, LinkOk, HeldOk, NEW p \in Proc, \A r \in Proc \ {p} : Idle(r), Unbump(p)
    PROVE  HeldOk' /\ pc'[p] \notin {"panic", "full"}
<1>1. /\ pc[p] = "unbump" /\ Iput(p, ip[p], "user") /\ Update([j \in {ip[p]} |-> DropLink(Loaded(j))])
      /\ UNCHANGED <<entry, ref, fd, cwd, rest, new>>
  BY DEF Unbump, At, callVars
<1>2. Place(p) \in HoldPlaces BY <1>1 DEF Place, InIput, HoldPlaces
<1>3. disk[cwd[p]].type = "dir" BY DEF HeldOk, Sound
<1>4. ip[p] \in Inum /\ Uses(p, ip[p]) BY <1>2, InUse
<1>5. \A x \in Inum : disk'[x].type = disk[x].type BY <1>1, <1>4, DropKeeps
<1> QED BY <1>1, <1>3, <1>4, <1>5, InUse, HeldPutUser

LEMMA HeldCall ==
    ASSUME RefOk, LinkOk, HeldOk, NoDotDot, NEW p \in Proc, \A r \in Proc \ {p} : Idle(r),
           NEW q \in Request, NEW start \in {Root, cwd[p]}, Call(p, q, start)
    PROVE  HeldOk' /\ pc'[p] \notin {"panic", "full"}
<1>1. /\ pc[p] = "user" /\ Goto(p, "walk") /\ ref' = [ref EXCEPT ![start] = @ + 1]
      /\ rest' = [rest EXCEPT ![p] = q.path] /\ new' = [new EXCEPT ![p] = q.new]
      /\ dp' = [dp EXCEPT ![p] = start] /\ ip' = [ip EXCEPT ![p] = NoInode]
      /\ UNCHANGED <<disk, entry, fd, cwd, put, ret>>
  BY DEF Call, At, Iget, diskVars
<1>2. /\ rest'[p] = q.path /\ new'[p] = q.new /\ dp'[p] = start /\ ip'[p] = NoInode
  BY <1>1 DEF RefOk, RefType
<1>3. pc'[p] = "walk" /\ Place(p)' = "walk" /\ put'[p] = put[p] BY <1>1, Going DEF Places
<1>4. start \in Inum /\ Reach(p, start) /\ NoInode \notin Inum BY CallType, InUse DEF Reach
<1>5. \A x \in Inum : Uses(p, x)' => Reach(p, x)
  BY <1>1, <1>2, <1>3, <1>4 DEF Uses, Reach, WalkPlaces, HoldPlaces
<1>6. rest'[p] \in Seq(Plain) /\ new'[p] \in Seq(Plain) BY <1>2 DEF NoDotDot
<1>7. cwd'[p] \in Inum /\ disk[cwd'[p]].type = "dir" BY <1>1, CallType DEF HeldOk, Sound
<1>8. Calm(p) BY <1>1, <1>3, <1>5, <1>6, <1>7 DEF Calm
<1>9. \A r \in Proc \ {p} : pc[r] = "free" => ref'[put[r]] = ref[put[r]] BY <1>1, <1>4, GetHarmless
<1>10. Harmless(p) BY <1>1, <1>9 DEF Harmless
<1> QED BY <1>3, <1>8, <1>10, CalmStep

LEMMA HeldOpened ==
    ASSUME RefOk, LinkOk, HeldOk, NEW p \in Proc, \A r \in Proc \ {p} : Idle(r), Opened(p)
    PROVE  HeldOk' /\ pc'[p] \notin {"panic", "full"}
<1>1. /\ pc[p] = "opened" /\ Goto(p, "user") /\ fd' = [fd EXCEPT ![p] = ip[p]]
      /\ rest' = [rest EXCEPT ![p] = <<>>] /\ new' = [new EXCEPT ![p] = <<>>]
      /\ UNCHANGED <<disk, entry, ref, cwd, put, ret>>
  BY DEF Opened, At, Return, diskVars
<1>2. rest'[p] = <<>> /\ new'[p] = <<>> /\ fd'[p] = ip[p] BY <1>1 DEF RefOk, RefType
<1>3. pc'[p] = "user" /\ Place(p)' = "user" /\ put'[p] = put[p] BY <1>1, Going DEF Places
<1>4. Place(p) \in HoldPlaces BY <1>1 DEF Place, InIput, HoldPlaces
<1>5. Uses(p, ip[p]) BY <1>4, InUse
<1>6. \A x \in Inum : Uses(p, x)' => Reach(p, x)
  BY <1>1, <1>2, <1>3, <1>5 DEF Uses, Reach, WalkPlaces, HoldPlaces
<1>7. rest'[p] \in Seq(Plain) /\ new'[p] \in Seq(Plain) BY <1>2
<1>8. cwd'[p] \in Inum /\ disk[cwd'[p]].type = "dir" BY <1>1, CallType DEF HeldOk, Sound
<1>9. Calm(p) BY <1>1, <1>3, <1>6, <1>7, <1>8 DEF Calm
<1>10. Harmless(p) BY <1>1 DEF Harmless
<1> QED BY <1>3, <1>9, <1>10, CalmStep

LEMMA HeldChdir ==
    ASSUME RefOk, LinkOk, HeldOk, NEW p \in Proc, \A r \in Proc \ {p} : Idle(r), Chdir(p)
    PROVE  HeldOk' /\ pc'[p] \notin {"panic", "full"}
<1> PICK i : i = dp[p] OBVIOUS
<1>1. pc[p] = "found" /\ UNCHANGED <<disk, entry, ref, fd, rest, new>> BY DEF Chdir, At, diskVars, callVars
<1>2. Place(p) \in WalkPlaces BY <1>1 DEF Place, InIput, WalkPlaces
<1>3. i \in Inum /\ Uses(p, i) /\ cwd[p] \in Inum /\ Uses(p, cwd[p]) BY <1>2, InUse
<1>4. Loaded(i) = disk[i] /\ disk[i].type # "free" BY <1>3, LoadedDisk DEF HeldOk, Sound, UsesOk
<1>5. disk[cwd[p]].type = "dir" BY DEF HeldOk, Sound
<1>6. \/ disk[i].type = "dir" /\ Iput(p, cwd[p], "user") /\ cwd' = [cwd EXCEPT ![p] = i]
      \/ Iput(p, i, "user") /\ cwd' = cwd
  BY <1>4 DEF Chdir
<1>7. CASE disk[i].type = "dir" /\ Iput(p, cwd[p], "user") /\ cwd' = [cwd EXCEPT ![p] = i]
  <2>1. cwd'[p] = i BY <1>7 DEF RefOk, RefType
  <2> QED BY <1>1, <1>3, <1>7, <2>1, HeldPutUser
<1>8. CASE Iput(p, i, "user") /\ cwd' = cwd BY <1>1, <1>3, <1>5, <1>8, HeldPutUser
<1> QED BY <1>6, <1>7, <1>8

LEMMA HeldOpenLock ==
    ASSUME RefOk, LinkOk, HeldOk, NEW p \in Proc, \A r \in Proc \ {p} : Idle(r), OpenLock(p)
    PROVE  HeldOk' /\ pc'[p] \notin {"panic", "full"}
<1> PICK i : i = IF pc[p] = "found" THEN dp[p] ELSE ip[p] OBVIOUS
<1>1. /\ pc[p] = "found" \/ pc[p] = "exists"
      /\ ip' = [ip EXCEPT ![p] = i] /\ UNCHANGED <<disk, entry, ref, fd, cwd, rest, new, dp>>
  BY DEF OpenLock, At, diskVars
<1>2. i \in Inum /\ Uses(p, i)
  <2>1. CASE pc[p] = "found"
    <3>1. Place(p) \in WalkPlaces BY <2>1 DEF Place, InIput, WalkPlaces
    <3> QED BY <2>1, <3>1, InUse
  <2>2. CASE pc[p] = "exists"
    <3>1. Place(p) \in HoldPlaces BY <2>2 DEF Place, InIput, HoldPlaces
    <3> QED BY <2>2, <3>1, InUse
  <2> QED BY <1>1, <2>1, <2>2
<1>3. Loaded(i) = disk[i] /\ disk[i].type # "free" BY <1>2, LoadedDisk DEF HeldOk, Sound, UsesOk
<1>4. cwd[p] \in Inum /\ Uses(p, cwd[p]) /\ disk[cwd[p]].type = "dir" BY InUse DEF HeldOk, Sound
<1>5. Iput(p, i, "user") \/ (Goto(p, "opened") /\ UNCHANGED <<put, ret>>) BY <1>3 DEF OpenLock, At
<1>6. CASE Iput(p, i, "user") BY <1>1, <1>2, <1>4, <1>6, HeldPutUser
<1>7. CASE Goto(p, "opened") /\ UNCHANGED <<put, ret>>
  <2>1. pc'[p] = "opened" /\ Place(p)' = "opened" /\ put'[p] = put[p] BY <1>7, Going DEF Places
  <2>2. ip'[p] = i BY <1>1 DEF RefOk, RefType
  <2>3. put[p] = NoInode /\ NoInode \notin Inum
    <3>1. ~InIput(p) BY <1>1 DEF InIput
    <3> QED BY <3>1, CallType DEF PlaceOk
  <2>4. \A x \in Inum : Uses(p, x)' => Reach(p, x)
    BY <1>1, <1>2, <2>1, <2>2, <2>3 DEF Uses, Reach, WalkPlaces, HoldPlaces
  <2>5. Sound(p) BY DEF HeldOk
  <2>6. Calm(p) BY <1>1, <1>4, <2>1, <2>4, <2>5 DEF Calm, Sound
  <2>7. Harmless(p) BY <1>1 DEF Harmless
  <2> QED BY <2>1, <2>6, <2>7, CalmStep
<1> QED BY <1>5, <1>6, <1>7

LEMMA HeldIputLook ==
    ASSUME RefOk, LinkOk, HeldOk, NEW p \in Proc, \A r \in Proc \ {p} : Idle(r), IputLook(p)
    PROVE  HeldOk' /\ pc'[p] \notin {"panic", "full"}
<1>1. /\ pc[p] = "put" /\ UNCHANGED <<disk, entry, ref, fd, cwd, rest, new, kind, dp, ip, put, ret>>
  BY DEF IputLook, At, diskVars, callVars
<1>2. (ref[put[p]] = 1 /\ Goto(p, "free")) \/ Goto(p, "drop") BY DEF IputLook, LastRef
<1>3. (ref[put[p]] = 1 /\ pc'[p] = "free") \/ pc'[p] = "drop"
  <2>1. \A w : Goto(p, w) => pc'[p] = w
    <3>1. pc \in [Proc -> PC] BY DEF RefOk, RefType
    <3> QED BY <3>1 DEF Goto
  <2> QED BY <1>2, <2>1
<1>4. Place(p)' = Place(p) BY <1>1, <1>3 DEF Place, InIput
<1>5. \A x \in Inum : Uses(p, x)' => Reach(p, x) BY <1>1, <1>4 DEF Uses, Reach
<1>6. Sound(p) BY DEF HeldOk
<1>7. cwd[p] \in Inum /\ (Place(p) = "found" => dp[p] \in Inum) BY InUse DEF WalkPlaces
<1>8. Parent(p)' <=> Parent(p) BY <1>1 DEF Parent
<1>9. Calm(p) BY <1>1, <1>3, <1>4, <1>5, <1>6, <1>7, <1>8 DEF Calm, Sound
<1>10. Harmless(p) BY <1>1 DEF Harmless
<1> QED BY <1>3, <1>9, <1>10, CalmStep

LEMMA HeldIputDrop ==
    ASSUME RefOk, LinkOk, HeldOk, NEW p \in Proc, \A r \in Proc \ {p} : Idle(r), IputDrop(p)
    PROVE  HeldOk' /\ pc'[p] \notin {"panic", "full"}
<1>1. /\ pc[p] = "drop" /\ Goto(p, ret[p]) /\ ref' = [ref EXCEPT ![put[p]] = @ - 1]
      /\ put' = [put EXCEPT ![p] = NoInode] /\ UNCHANGED <<disk, entry, fd, cwd>>
      /\ \/ ret[p] = "user" /\ rest' = [rest EXCEPT ![p] = <<>>] /\ new' = [new EXCEPT ![p] = <<>>]
         \/ ret[p] # "user" /\ UNCHANGED <<rest, new, kind, dp, ip>>
  BY DEF IputDrop, At, Return, diskVars, callVars
<1>2. InIput(p) /\ PlaceOk(p) /\ Place(p) = ret[p] BY <1>1, CallType DEF InIput, Place
<1>3. put[p] \in Inum /\ ret[p] \in Places BY <1>2, CallType DEF PlaceOk
<1>4. pc'[p] = ret[p] /\ put'[p] = NoInode BY <1>1 DEF Goto, RefOk, RefType
<1>5. Place(p)' = ret[p] BY <1>3, <1>4 DEF Place, InIput, Places
<1>6. Sound(p) /\ cwd[p] \in Inum BY InUse DEF HeldOk
<1>7. NoInode \notin Inum BY CallType
<1>8. Calm(p)
  <2>1. CASE ret[p] = "user"
    <3>1. rest'[p] = <<>> /\ new'[p] = <<>> BY <1>1, <2>1 DEF RefOk, RefType
    <3>2. rest'[p] \in Seq(Plain) /\ new'[p] \in Seq(Plain) BY <3>1
    <3>3. \A x \in Inum : Uses(p, x)' => Reach(p, x)
      BY <1>1, <1>4, <1>5, <1>7, <2>1 DEF Uses, Reach, WalkPlaces, HoldPlaces
    <3> QED BY <1>1, <1>4, <1>5, <1>6, <2>1, <3>2, <3>3 DEF Calm, Sound
  <2>2. CASE ret[p] # "user"
    <3>1. UNCHANGED <<rest, new, kind, dp, ip>> BY <1>1, <2>2
    <3>2. \A x \in Inum : Uses(p, x)' => Reach(p, x) BY <1>1, <1>2, <1>4, <1>5, <1>7, <3>1 DEF Uses, Reach
    <3>3. Place(p) = "found" => dp[p] \in Inum BY InUse DEF WalkPlaces
    <3>4. Parent(p)' <=> Parent(p) BY <3>1 DEF Parent
    <3>5. pc'[p] # "free" BY <1>3, <1>4 DEF Places
    <3> QED BY <1>1, <1>2, <1>5, <1>6, <3>1, <3>2, <3>3, <3>4, <3>5 DEF Calm, Sound
  <2> QED BY <2>1, <2>2
<1>9. \A r \in Proc \ {p} : pc[r] = "free" => ref'[put[r]] = ref[put[r]]
  <2>1. SUFFICES ASSUME NEW r \in Proc \ {p}, pc[r] = "free" PROVE ref'[put[r]] = ref[put[r]]
    OBVIOUS
  <2>2. put[r] \in Inum /\ put[p] # put[r] BY <2>1, SoleUse
  <2>3. ref \in [Inum -> Nat] BY DEF RefOk, RefType
  <2> QED BY <1>1, <2>2, <2>3
<1>10. Harmless(p) BY <1>1, <1>9 DEF Harmless
<1>11. pc'[p] \notin {"panic", "full"} BY <1>3, <1>4 DEF Places
<1> QED BY <1>8, <1>10, <1>11, CalmStep

\* An iput() in the middle of a call, that goes on with what the call can have.
LEMMA HeldPut ==
    ASSUME RefOk, LinkOk, HeldOk, NEW p \in Proc, \A r \in Proc \ {p} : Idle(r), Harmless(p),
           NEW i, NEW next, Iput(p, i, next), i \in Inum => Reach(p, i), UNCHANGED <<fd, cwd>>,
           \A x \in Inum : disk'[x].type = disk[x].type /\ entry'[x][Dot] = entry[x][Dot],
           next \in WalkPlaces /\ dp'[p] \in Inum => Reach(p, dp'[p]),
           next \in HoldPlaces \cup {"walk", "found"} /\ ip'[p] \in Inum => Reach(p, ip'[p]),
           rest'[p] \in Seq(Plain), new'[p] \in Seq(Plain), next = "found" => ~Parent(p)'
    PROVE  HeldOk' /\ pc'[p] \notin {"panic", "full"}
<1>1. pc'[p] = "put" /\ put'[p] = i /\ Place(p)' = next BY Putting
<1>2. \A x \in Inum : Uses(p, x)' => Reach(p, x) BY <1>1 DEF Uses, Reach
<1>3. cwd'[p] \in Inum /\ disk[cwd'[p]].type = "dir" BY InUse DEF HeldOk, Sound
<1>4. Calm(p) BY <1>1, <1>2, <1>3 DEF Calm
<1> QED BY <1>1, <1>4, CalmStep

\* The names that a call still has to look up.
LEMMA RestPlain ==
    ASSUME HeldOk, NEW p \in Proc
    PROVE  /\ rest[p] \in Seq(Plain) /\ new[p] \in Seq(Plain)
           /\ rest[p] # <<>> => Head(rest[p]) \in Plain /\ Tail(rest[p]) \in Seq(Plain)
<1>1. rest[p] \in Seq(Plain) /\ new[p] \in Seq(Plain) BY DEF HeldOk, Sound
<1> QED BY <1>1

LEMMA HeldWalk ==
    ASSUME RefOk, LinkOk, HeldOk, NEW p \in Proc, \A r \in Proc \ {p} : Idle(r), Walk(p)
    PROVE  HeldOk' /\ pc'[p] \notin {"panic", "full"}
<1> PICK d : d = dp[p] OBVIOUS
<1> PICK n : n = Head(rest[p]) OBVIOUS
<1> PICK next : next = entry[d][n] OBVIOUS
<1> PICK on : on = IF Len(rest[p]) = 1 THEN "found" ELSE "walk" OBVIOUS
<1>1. pc[p] = "walk" /\ UNCHANGED <<disk, entry, fd, cwd, kind, new, ip>> BY DEF Walk, At, diskVars
<1>2. Place(p) = "walk" /\ PlaceOk(p) BY <1>1, CallType DEF Place, InIput
<1>3. /\ d \in Inum /\ Uses(p, d) /\ NoInode \notin Inum /\ put[p] = NoInode
      /\ ip[p] # NoInode => ip[p] \in Inum /\ Uses(p, ip[p])
  <2>1. put[p] = NoInode BY <1>1, <1>2 DEF PlaceOk, InIput
  <2> QED BY <1>2, <2>1, InUse, CallType DEF WalkPlaces
<1>4. Loaded(d) = disk[d] /\ disk[d].type # "free" BY <1>3, LoadedDisk DEF HeldOk, Sound, UsesOk
<1>5. rest[p] # <<>> BY <1>2 DEF PlaceOk
<1>6. n \in Plain /\ rest[p] \in Seq(Plain) /\ Tail(rest[p]) \in Seq(Plain) /\ new[p] \in Seq(Plain)
  BY <1>5, RestPlain
<1>7. \/ disk[d].type = "dir" /\ Goto(p, "found") /\ UNCHANGED <<ref, rest, dp, put, ret>>
      \/ Iput(p, d, Failed(p)) /\ UNCHANGED <<ref, rest, dp>>
      \/ /\ disk[d].type = "dir" /\ next # NoInode /\ (Parent(p) => Len(rest[p]) # 1)
         /\ ref' = [ref EXCEPT ![next] = @ + 1] /\ Iput(p, d, on)
         /\ rest' = [rest EXCEPT ![p] = Tail(@)] /\ dp' = [dp EXCEPT ![p] = next]
  BY <1>4 DEF Walk, Lookup, Iget
<1>8. CASE disk[d].type = "dir" /\ Goto(p, "found") /\ UNCHANGED <<ref, rest, dp, put, ret>>
  <2>1. pc'[p] = "found" /\ Place(p)' = "found" /\ put'[p] = put[p] BY <1>8, Going DEF Places
  <2>2. \A x \in Inum : Uses(p, x)' => Reach(p, x)
    BY <1>1, <1>2, <1>3, <1>8, <2>1 DEF Uses, Reach, WalkPlaces
  <2>3. cwd'[p] \in Inum /\ disk[cwd'[p]].type = "dir" BY <1>1, InUse DEF HeldOk, Sound
  <2>4. Calm(p) BY <1>1, <1>3, <1>6, <1>8, <2>1, <2>2, <2>3 DEF Calm
  <2>5. Harmless(p) BY <1>1, <1>8 DEF Harmless
  <2> QED BY <2>1, <2>4, <2>5, CalmStep
<1>9. CASE Iput(p, d, Failed(p)) /\ UNCHANGED <<ref, rest, dp>>
  <2>1. Harmless(p) BY <1>1, <1>9 DEF Harmless
  <2>2. Failed(p) \notin WalkPlaces \cup {"walk", "found"} BY DEF Failed, WalkPlaces
  <2> QED BY <1>1, <1>3, <1>6, <1>9, <2>1, <2>2, HeldPut DEF Reach
<1>10. CASE /\ disk[d].type = "dir" /\ next # NoInode /\ (Parent(p) => Len(rest[p]) # 1)
            /\ ref' = [ref EXCEPT ![next] = @ + 1] /\ Iput(p, d, on)
            /\ rest' = [rest EXCEPT ![p] = Tail(@)] /\ dp' = [dp EXCEPT ![p] = next]
  <2>1. next \in Inum
    <3>1. n \in AnyName BY <1>6 DEF Plain, AnyName
    <3>2. entry[d][n] \in Inum \cup {NoInode} BY <1>3, <3>1 DEF RefOk, RefType
    <3> QED BY <1>10, <3>2
  <2>2. Reach(p, next) BY <1>3, <1>6, <1>10, <2>1, LookupReach
  <2>3. rest'[p] = Tail(rest[p]) /\ dp'[p] = next BY <1>10 DEF RefOk, RefType
  <2>4. \A r \in Proc \ {p} : pc[r] = "free" => ref'[put[r]] = ref[put[r]] BY <1>10, <2>1, <2>2, GetHarmless
  <2>5. Harmless(p) BY <1>1, <2>4 DEF Harmless
  <2>6. on = "found" => ~Parent(p)' BY <1>1, <1>10 DEF Parent
  <2> QED BY <1>1, <1>3, <1>6, <1>10, <2>2, <2>3, <2>5, <2>6, HeldPut DEF Reach
<1> QED BY <1>7, <1>8, <1>9, <1>10

LEMMA HeldGiveUp ==
    ASSUME RefOk, LinkOk, HeldOk, NEW p \in Proc, \A r \in Proc \ {p} : Idle(r), GiveUp(p)
    PROVE  HeldOk' /\ pc'[p] \notin {"panic", "full"}
<1> PICK next : next = IF pc[p] = "linkbad" THEN "unbump" ELSE "user" OBVIOUS
<1>1. /\ pc[p] \in {"unlinkbad", "linkbad"} /\ Iput(p, dp[p], next)
      /\ UNCHANGED <<disk, entry, ref, fd, cwd, kind, rest, new, dp, ip>>
  BY DEF GiveUp, At, diskVars, callVars
<1>2. Place(p) = pc[p] BY <1>1 DEF InIput, Place
<1>3. dp[p] \in Inum /\ Uses(p, dp[p]) BY <1>1, <1>2, InUse DEF WalkPlaces
<1>4. pc[p] = "linkbad" => Uses(p, ip[p]) BY <1>2, InUse DEF HoldPlaces
<1>5. Harmless(p) BY <1>1 DEF Harmless
<1>6. next \notin WalkPlaces \cup {"walk", "found"} /\ (next \in HoldPlaces => pc[p] = "linkbad")
  BY DEF WalkPlaces, HoldPlaces
<1>7. rest'[p] \in Seq(Plain) /\ new'[p] \in Seq(Plain) BY <1>1, RestPlain
<1> QED BY <1>1, <1>3, <1>4, <1>5, <1>6, <1>7, HeldPut DEF Reach

LEMMA HeldUnlinkFind ==
    ASSUME RefOk, LinkOk, HeldOk, NEW p \in Proc, \A r \in Proc \ {p} : Idle(r), UnlinkFind(p)
    PROVE  HeldOk' /\ pc'[p] \notin {"panic", "full"}
<1> PICK d : d = dp[p] OBVIOUS
<1> PICK n : n = Head(rest[p]) OBVIOUS
<1> PICK i : i = entry[d][n] OBVIOUS
<1>1. pc[p] = "found" /\ kind[p] = "unlink" /\ UNCHANGED <<disk, entry, fd, cwd, kind, rest, new, dp>>
  BY DEF UnlinkFind, At, diskVars
<1>2. PlaceOk(p) /\ Place(p) = "found" /\ Parent(p) BY <1>1, CallType DEF InIput, Place, Parent
<1>3. d \in Inum /\ Uses(p, d) /\ NoInode \notin Inum /\ put[p] = NoInode
  <2>1. put[p] = NoInode BY <1>1, <1>2 DEF PlaceOk, InIput
  <2> QED BY <1>2, <2>1, InUse, CallType DEF WalkPlaces
<1>4. Loaded(d) = disk[d] /\ disk[d].type = "dir" BY <1>2, <1>3, LoadedDisk DEF HeldOk, Sound
<1>5. n \in Plain /\ rest'[p] \in Seq(Plain) /\ new'[p] \in Seq(Plain)
  <2>1. rest[p] # <<>> BY <1>2 DEF PlaceOk
  <2> QED BY <1>1, <2>1, RestPlain
<1>6. \/ Iput(p, d, "user") /\ UNCHANGED <<ref, lock, ip>>
      \/ /\ n # Dot /\ i # NoInode /\ ref' = [ref EXCEPT ![i] = @ + 1]
         /\ ip' = [ip EXCEPT ![p] = i] /\ Goto(p, "victim") /\ UNCHANGED <<put, ret>>
  BY <1>4 DEF UnlinkFind, Lookup, Iget
<1>7. CASE Iput(p, d, "user") /\ UNCHANGED <<ref, lock, ip>>
  <2>1. Harmless(p) BY <1>1, <1>7 DEF Harmless
  <2> QED BY <1>1, <1>3, <1>5, <1>7, <2>1, HeldPut DEF Reach, WalkPlaces, HoldPlaces
<1>8. CASE /\ n # Dot /\ i # NoInode /\ ref' = [ref EXCEPT ![i] = @ + 1]
           /\ ip' = [ip EXCEPT ![p] = i] /\ Goto(p, "victim") /\ UNCHANGED <<put, ret>>
  <2>1. n \in Name BY <1>5, <1>8 DEF Plain
  <2>2. i \in Inum
    <3>1. n \in AnyName BY <2>1 DEF AnyName
    <3>2. entry[d][n] \in Inum \cup {NoInode} BY <1>3, <3>1 DEF RefOk, RefType
    <3> QED BY <1>8, <3>2
  <2>3. Reach(p, i) BY <1>3, <2>1 DEF Reach
  <2>4. pc'[p] = "victim" /\ Place(p)' = "victim" /\ put'[p] = put[p] BY <1>8, Going DEF Places
  <2>5. ip'[p] = i BY <1>8 DEF RefOk, RefType
  <2>6. \A x \in Inum : Uses(p, x)' => Reach(p, x)
    BY <1>1, <1>2, <1>3, <2>3, <2>4, <2>5 DEF Uses, Reach, WalkPlaces, HoldPlaces
  <2>7. cwd'[p] \in Inum /\ disk[cwd'[p]].type = "dir" BY <1>1, InUse DEF HeldOk, Sound
  <2>8. Calm(p) BY <1>1, <1>5, <2>4, <2>6, <2>7 DEF Calm
  <2>9. \A r \in Proc \ {p} : pc[r] = "free" => ref'[put[r]] = ref[put[r]] BY <1>8, <2>2, <2>3, GetHarmless
  <2>10. Harmless(p) BY <1>1, <2>9 DEF Harmless
  <2> QED BY <2>4, <2>8, <2>10, CalmStep
<1> QED BY <1>6, <1>7, <1>8

LEMMA HeldUnlinkEntry ==
    ASSUME RefOk, LinkOk, HeldOk, NEW p \in Proc, \A r \in Proc \ {p} : Idle(r), UnlinkEntry(p)
    PROVE  HeldOk' /\ pc'[p] \notin {"panic", "full"}
<1> PICK d : d = dp[p] OBVIOUS
<1> PICK n : n = Head(rest[p]) OBVIOUS
<1> PICK i : i = ip[p] OBVIOUS
<1> PICK isDir \in BOOLEAN : isDir <=> disk[i].type = "dir" OBVIOUS
<1>1. pc[p] = "victim" /\ UNCHANGED <<ref, fd, cwd, kind, rest, new, dp, ip>>
  BY DEF UnlinkEntry, At, callVars
<1>2. Place(p) = "victim" BY <1>1 DEF InIput, Place
<1>3. d \in Inum /\ i \in Inum /\ Uses(p, d) /\ Uses(p, i) BY <1>2, InUse DEF WalkPlaces, HoldPlaces
<1>4. n \in Name /\ entry[d][n] = i BY <1>1 DEF LinkOk, CallOk
<1>5. Loaded(i) = disk[i] /\ Loaded(d) = disk[d] /\ disk[i] \in Node /\ disk[d] \in Node BY <1>3, LoadedDisk
<1>6. disk[i].type # "free" BY <1>3 DEF HeldOk, Sound, UsesOk
<1>7. disk[i].nlink # 0 BY <1>3, <1>4, NoLinks
<1>8. ~(disk[i].nlink < 1)
  <2>1. PICK c \in Nat : c = disk[i].nlink BY <1>5 DEF Node
  <2>2. ~(c < 1) BY <1>7, <2>1
  <2> QED BY <2>1, <2>2
<1>9. \/ Iput(p, i, "unlinkbad") /\ UNCHANGED <<disk, entry>>
      \/ /\ Update([j \in {i, d} |-> IF j = d /\ isDir THEN DropLink(Loaded(j)) ELSE Loaded(j)])
         /\ entry' = [entry EXCEPT ![d][n] = NoInode]
         /\ Iput(p, d, "unlinked")
  BY <1>5, <1>6, <1>8 DEF UnlinkEntry, diskVars
<1>10. rest'[p] \in Seq(Plain) /\ new'[p] \in Seq(Plain) BY <1>1, RestPlain
<1>11. CASE Iput(p, i, "unlinkbad") /\ UNCHANGED <<disk, entry>>
  <2>1. Harmless(p) BY <1>1, <1>11 DEF Harmless
  <2> QED BY <1>1, <1>3, <1>10, <1>11, <2>1, HeldPut DEF Reach
<1>12. CASE /\ Update([j \in {i, d} |-> IF j = d /\ isDir THEN DropLink(Loaded(j)) ELSE Loaded(j)])
            /\ entry' = [entry EXCEPT ![d][n] = NoInode]
            /\ Iput(p, d, "unlinked")
  <2>1. PICK change : change = [j \in {i, d} |-> IF j = d /\ isDir THEN DropLink(Loaded(j)) ELSE Loaded(j)]
    OBVIOUS
  <2>2. PICK S : S = {i, d} OBVIOUS
  <2>3. DOMAIN change = S /\ \A x \in S : change[x] = IF x = d /\ isDir THEN DropLink(disk[x]) ELSE disk[x]
    BY <1>5, <2>1, <2>2
  <2>4. DropLink(disk[d]).type = disk[d].type BY <1>5 DEF DropLink, Node
  <2>5. disk' = [x \in Inum |-> IF x \in S THEN change[x] ELSE disk[x]] BY <1>12, <2>1, <2>3 DEF Update
  <2>6. \A x \in Inum : disk'[x].type = disk[x].type BY <2>3, <2>4, <2>5
  <2>7. n # Dot /\ n \in AnyName /\ Dot \in AnyName BY <1>4, InodesAssumption DEF AnyName
  <2>8. \A x \in Inum : entry'[x][Dot] = entry[x][Dot] BY <1>3, <1>12, <2>7 DEF RefOk, RefType
  <2>9. Harmless(p) BY <1>1, <2>6 DEF Harmless
  <2> QED BY <1>1, <1>3, <1>10, <1>12, <2>6, <2>8, <2>9, HeldPut DEF Reach, WalkPlaces
<1> QED BY <1>9, <1>11, <1>12

LEMMA HeldLinkBump ==
    ASSUME RefOk, LinkOk, HeldOk, NEW p \in Proc, \A r \in Proc \ {p} : Idle(r),
           NEW start \in {Root, cwd[p]}, LinkBump(p, start)
    PROVE  HeldOk' /\ pc'[p] \notin {"panic", "full"}
<1> PICK i : i = dp[p] OBVIOUS
<1>1. pc[p] = "found" /\ UNCHANGED <<fd, cwd, new>> BY DEF LinkBump, At
<1>2. Place(p) = "found" /\ PlaceOk(p) BY <1>1, CallType DEF InIput, Place
<1>3. /\ i \in Inum /\ Uses(p, i) /\ NoInode \notin Inum /\ put[p] = NoInode
      /\ start \in Inum /\ Reach(p, start)
  <2>1. put[p] = NoInode BY <1>1, <1>2 DEF PlaceOk, InIput
  <2> QED BY <1>2, <2>1, InUse, CallType DEF WalkPlaces, Reach
<1>4. Loaded(i) = disk[i] /\ disk[i] \in Node /\ disk[i].type # "free"
  BY <1>3, LoadedDisk DEF HeldOk, Sound, UsesOk
<1>5. rest[p] \in Seq(Plain) /\ new[p] \in Seq(Plain) BY RestPlain
<1>6. \/ Iput(p, i, "user") /\ UNCHANGED <<disk, entry, ref, rest, dp, ip>>
      \/ /\ Update([j \in {i} |-> AddLink(Loaded(j))]) /\ Goto(p, "walk")
         /\ ref' = [ref EXCEPT ![start] = @ + 1]
         /\ ip' = [ip EXCEPT ![p] = i] /\ dp' = [dp EXCEPT ![p] = start]
         /\ rest' = [rest EXCEPT ![p] = new[p]] /\ UNCHANGED <<entry, put, ret>>
  BY <1>4 DEF LinkBump, Iget, diskVars
<1>7. CASE Iput(p, i, "user") /\ UNCHANGED <<disk, entry, ref, rest, dp, ip>>
  <2>1. Harmless(p) BY <1>7 DEF Harmless
  <2> QED BY <1>1, <1>3, <1>5, <1>7, <2>1, HeldPut DEF Reach, WalkPlaces, HoldPlaces
<1>8. CASE /\ Update([j \in {i} |-> AddLink(Loaded(j))]) /\ Goto(p, "walk")
           /\ ref' = [ref EXCEPT ![start] = @ + 1]
           /\ ip' = [ip EXCEPT ![p] = i] /\ dp' = [dp EXCEPT ![p] = start]
           /\ rest' = [rest EXCEPT ![p] = new[p]] /\ UNCHANGED <<entry, put, ret>>
  <2>1. \A x \in Inum : disk'[x].type = disk[x].type
    <3>1. PICK change : change = [j \in {i} |-> AddLink(Loaded(j))] OBVIOUS
    <3>2. DOMAIN change = {i} /\ change[i] = AddLink(disk[i]) BY <1>4, <3>1
    <3>3. disk' = [x \in Inum |-> IF x \in {i} THEN change[x] ELSE disk[x]] BY <1>8, <3>1, <3>2 DEF Update
    <3>4. AddLink(disk[i]).type = disk[i].type BY <1>4 DEF AddLink, Node
    <3> QED BY <3>2, <3>3, <3>4
  <2>2. pc'[p] = "walk" /\ Place(p)' = "walk" /\ put'[p] = put[p] BY <1>8, Going DEF Places
  <2>3. ip'[p] = i /\ dp'[p] = start /\ rest'[p] = new[p] BY <1>8 DEF RefOk, RefType
  <2>4. \A x \in Inum : Uses(p, x)' => Reach(p, x)
    BY <1>1, <1>3, <2>2, <2>3 DEF Uses, Reach, HoldPlaces
  <2>5. cwd'[p] \in Inum /\ disk[cwd'[p]].type = "dir" BY <1>1, InUse DEF HeldOk, Sound
  <2>6. Calm(p) BY <1>1, <1>5, <1>8, <2>1, <2>2, <2>3, <2>4, <2>5 DEF Calm
  <2>7. \A r \in Proc \ {p} : pc[r] = "free" => ref'[put[r]] = ref[put[r]] BY <1>3, <1>8, GetHarmless
  <2>8. Harmless(p) BY <2>1, <2>7 DEF Harmless
  <2> QED BY <2>2, <2>6, <2>8, CalmStep
<1> QED BY <1>6, <1>7, <1>8

LEMMA HeldLinkEntry ==
    ASSUME RefOk, LinkOk, HeldOk, NEW p \in Proc, \A r \in Proc \ {p} : Idle(r), LinkEntry(p)
    PROVE  HeldOk' /\ pc'[p] \notin {"panic", "full"}
<1> PICK d : d = dp[p] OBVIOUS
<1> PICK n : n = Head(rest[p]) OBVIOUS
<1> PICK old : old = entry[d][n] OBVIOUS
<1> PICK i : i = ip[p] OBVIOUS
<1>1. pc[p] = "found" /\ i # NoInode /\ UNCHANGED <<disk, fd, cwd, kind, rest, new, dp, ip>>
  BY DEF LinkEntry, At, callVars
<1>2. Place(p) = "found" /\ PlaceOk(p) /\ Parent(p) BY <1>1, CallType DEF InIput, Place, Parent
<1>3. d \in Inum /\ i \in Inum /\ Uses(p, d) /\ Uses(p, i) BY <1>1, <1>2, InUse DEF WalkPlaces
<1>4. Loaded(d) = disk[d] /\ disk[d].type = "dir" BY <1>2, <1>3, LoadedDisk DEF HeldOk, Sound
<1>5. n \in Plain /\ n \in AnyName /\ rest'[p] \in Seq(Plain) /\ new'[p] \in Seq(Plain)
  <2>1. rest[p] # <<>> BY <1>2 DEF PlaceOk
  <2> QED BY <1>1, <2>1, RestPlain DEF Plain, AnyName
<1>6. \/ old # NoInode /\ ref' = [ref EXCEPT ![old] = @ + 1] /\ Iput(p, old, "linkbad") /\ entry' = entry
      \/ old = NoInode /\ entry' = [entry EXCEPT ![d][n] = i] /\ Iput(p, d, "linked") /\ ref' = ref
  BY <1>4 DEF LinkEntry, Lookup, Iget
<1>7. CASE old # NoInode /\ ref' = [ref EXCEPT ![old] = @ + 1] /\ Iput(p, old, "linkbad") /\ entry' = entry
  <2>1. old \in Inum
    <3>1. entry[d][n] \in Inum \cup {NoInode} BY <1>3, <1>5 DEF RefOk, RefType
    <3> QED BY <1>7, <3>1
  <2>2. Reach(p, old) BY <1>3, <1>4, <1>5, LookupReach
  <2>3. \A r \in Proc \ {p} : pc[r] = "free" => ref'[put[r]] = ref[put[r]] BY <1>7, <2>1, <2>2, GetHarmless
  <2>4. Harmless(p) BY <1>1, <2>3 DEF Harmless
  <2> QED BY <1>1, <1>3, <1>5, <1>7, <2>2, <2>4, HeldPut DEF Reach
<1>8. CASE old = NoInode /\ entry' = [entry EXCEPT ![d][n] = i] /\ Iput(p, d, "linked") /\ ref' = ref
  <2>1. n # Dot
    <3>1. InodeOk(d) BY <1>3 DEF LinkOk
    <3> QED BY <1>4, <1>8, <3>1 DEF InodeOk
  <2>2. Dot \in AnyName BY DEF AnyName
  <2>3. \A x \in Inum : entry'[x][Dot] = entry[x][Dot] BY <1>3, <1>5, <1>8, <2>1, <2>2 DEF RefOk, RefType
  <2>4. Harmless(p) BY <1>1, <1>8 DEF Harmless
  <2> QED BY <1>1, <1>3, <1>5, <1>8, <2>3, <2>4, HeldPut DEF Reach, WalkPlaces
<1> QED BY <1>6, <1>7, <1>8

LEMMA HeldIputFree ==
    ASSUME RefOk, LinkOk, HeldOk, NEW p \in Proc, \A r \in Proc \ {p} : Idle(r), IputFree(p)
    PROVE  HeldOk' /\ pc'[p] \notin {"panic", "full"}
<1> PICK i : i = put[p] OBVIOUS
<1>1. /\ pc[p] = "free" /\ Goto(p, "drop") /\ disk' = [disk EXCEPT ![i].type = "free"]
      /\ entry' = [entry EXCEPT ![i] = NoEntries]
      /\ UNCHANGED <<ref, fd, cwd, kind, rest, new, dp, ip, put, ret>>
  BY DEF IputFree, At, callVars
<1>2. pc'[p] = "drop" BY <1>1 DEF Goto, RefOk, RefType
<1>3. Place(p)' = Place(p) /\ (Parent(p)' <=> Parent(p)) BY <1>1, <1>2 DEF Place, InIput, Parent
<1>4. i \in Inum /\ Uses(p, i) BY <1>1, InUse
<1>5. ref[i] = 1 /\ Sound(p) BY <1>1 DEF HeldOk, Sound
\* Nobody has a use for the inode any more: neither p nor another.
<1>6. \A r \in Proc \ {p} : ~Uses(r, i) BY <1>1, SoleUse
<1>7. /\ cwd[p] # i /\ fd[p] # i
      /\ ~(Place(p) \in WalkPlaces /\ dp[p] = i)
      /\ ~((Place(p) \in HoldPlaces \/ Place(p) \in {"walk", "found"}) /\ ip[p] = i)
  BY <1>4, <1>5, Sole
<1>8. \A x \in Inum : Uses(p, x)' => x # i /\ Uses(p, x) BY <1>1, <1>2, <1>3, <1>7 DEF Uses
<1>9. disk'[i].type = "free" /\ \A x \in Inum \ {i} : disk'[x] = disk[x]
  <2>1. disk \in [Inum -> Node] BY DEF LinkOk, NodeType
  <2>2. disk'[i] = [disk[i] EXCEPT !.type = "free"] /\ \A x \in Inum \ {i} : disk'[x] = disk[x]
    BY <1>1, <1>4, <2>1
  <2>3. disk[i] \in Node BY <1>4, <2>1
  <2> QED BY <2>2, <2>3 DEF Node
<1>10. UsesOk(p)' BY <1>5, <1>8, <1>9 DEF Sound, UsesOk
<1>11. disk'[cwd'[p]].type = "dir"
  <2>1. cwd[p] \in Inum BY InUse
  <2> QED BY <1>1, <1>5, <1>7, <1>9, <2>1 DEF Sound
<1>12. (Place(p) = "found" /\ Parent(p) => disk[dp[p]].type = "dir")'
  <2>1. SUFFICES ASSUME Place(p) = "found", Parent(p) PROVE disk'[dp[p]].type = "dir"
    BY <1>1, <1>3
  <2>2. dp[p] \in Inum /\ dp[p] # i BY <1>7, <2>1, InUse DEF WalkPlaces
  <2> QED BY <1>5, <1>9, <2>1, <2>2 DEF Sound
<1>13. Sound(p)' BY <1>1, <1>2, <1>5, <1>10, <1>11, <1>12 DEF Sound
<1>14. ASSUME NEW x \in Inum PROVE DotOk(x)'
  <2>1. CASE x = i BY <1>9, <2>1 DEF DotOk
  <2>2. CASE x # i
    <3>1. entry'[x] = entry[x] BY <1>1, <2>2 DEF RefOk, RefType
    <3> QED BY <1>9, <2>2, <3>1 DEF HeldOk, DotOk
  <2> QED BY <2>1, <2>2
<1>15. Harmless(p) BY <1>1, <1>6, <1>9 DEF Harmless
<1> QED BY <1>2, <1>13, <1>14, <1>15, HeldStep

LEMMA HeldCreate ==
    ASSUME RefOk, LinkOk, HeldOk, NEW p \in Proc, \A r \in Proc \ {p} : Idle(r), Create(p)
    PROVE  pc'[p] # "panic" /\ (pc'[p] = "full" \/ HeldOk')
<1> PICK d : d = dp[p] OBVIOUS
<1> PICK n : n = Head(rest[p]) OBVIOUS
<1> PICK old : old = entry[d][n] OBVIOUS
<1> PICK unused : unused = {j \in Inum : disk[j].type = "free"} OBVIOUS
<1> PICK i : i = Min(unused) OBVIOUS
<1> PICK isDir \in BOOLEAN : isDir <=> kind[p] = "mkdir" OBVIOUS
<1> PICK made : made = [type |-> IF isDir THEN "dir" ELSE "file", nlink |-> 1] OBVIOUS
<1>1. pc[p] = "found" /\ kind[p] \in {"create", "mkdir"} /\ UNCHANGED <<fd, cwd, kind, rest, new, dp>>
  BY DEF Create, At
<1>2. PlaceOk(p) /\ Place(p) = "found" /\ Parent(p) BY <1>1, CallType DEF InIput, Place, Parent
<1>3. d \in Inum /\ Uses(p, d) /\ NoInode \notin Inum BY <1>2, InUse, CallType DEF WalkPlaces
<1>4. Loaded(d) = disk[d] /\ disk[d] \in Node /\ disk[d].type = "dir"
  BY <1>2, <1>3, LoadedDisk DEF HeldOk, Sound
<1>5. n \in Plain /\ n \in AnyName /\ rest'[p] \in Seq(Plain) /\ new'[p] \in Seq(Plain)
  <2>1. rest[p] # <<>> BY <1>2 DEF PlaceOk
  <2> QED BY <1>1, <2>1, RestPlain DEF Plain, AnyName
<1>6. \/ Goto(p, "full")
      \/ /\ old # NoInode /\ ref' = [ref EXCEPT ![old] = @ + 1] /\ Iput(p, d, "exists")
         /\ ip' = [ip EXCEPT ![p] = old] /\ UNCHANGED <<disk, entry>>
      \/ /\ old = NoInode /\ unused # {} /\ ref' = [ref EXCEPT ![i] = @ + 1]
         /\ Update([j \in {i, d} |-> IF j = i THEN made ELSE IF isDir THEN AddLink(Loaded(j)) ELSE Loaded(j)])
         /\ entry' = [entry EXCEPT ![i] = IF isDir THEN [NoEntries EXCEPT ![Dot] = i, ![DotDot] = d] ELSE @,
                                   ![d][n] = i]
         /\ Iput(p, d, "opened") /\ ip' = [ip EXCEPT ![p] = i]
  BY <1>4 DEF Create, Lookup, Iget, diskVars
<1>7. CASE Goto(p, "full")
  <2>1. pc' = [pc EXCEPT ![p] = "full"] BY <1>7 DEF Goto
  <2> QED BY <2>1 DEF RefOk, RefType
<1>8. CASE /\ old # NoInode /\ ref' = [ref EXCEPT ![old] = @ + 1] /\ Iput(p, d, "exists")
           /\ ip' = [ip EXCEPT ![p] = old] /\ UNCHANGED <<disk, entry>>
  <2>1. old \in Inum
    <3>1. entry[d][n] \in Inum \cup {NoInode} BY <1>3, <1>5 DEF RefOk, RefType
    <3> QED BY <1>8, <3>1
  <2>2. Reach(p, old) BY <1>3, <1>4, <1>5, LookupReach
  <2>3. ip'[p] = old BY <1>8 DEF RefOk, RefType
  <2>4. \A r \in Proc \ {p} : pc[r] = "free" => ref'[put[r]] = ref[put[r]] BY <1>8, <2>1, <2>2, GetHarmless
  <2>5. Harmless(p) BY <1>8, <2>4 DEF Harmless
  <2> QED BY <1>1, <1>3, <1>5, <1>8, <2>2, <2>3, <2>5, HeldPut DEF Reach, WalkPlaces
<1>9. CASE /\ old = NoInode /\ unused # {} /\ ref' = [ref EXCEPT ![i] = @ + 1]
           /\ Update([j \in {i, d} |-> IF j = i THEN made ELSE IF isDir THEN AddLink(Loaded(j)) ELSE Loaded(j)])
           /\ entry' = [entry EXCEPT ![i] = IF isDir THEN [NoEntries EXCEPT ![Dot] = i, ![DotDot] = d] ELSE @,
                                     ![d][n] = i]
           /\ Iput(p, d, "opened") /\ ip' = [ip EXCEPT ![p] = i]
  <2>1. i \in Inum /\ disk[i].type = "free" /\ i # d
    <3>1. unused \in SUBSET Inum OBVIOUS
    <3>2. i \in unused BY <1>9, <3>1, MinIn
    <3> QED BY <1>4, <3>2
  <2>2. pc'[p] = "put" /\ put'[p] = d /\ Place(p)' = "opened" BY <1>9, Putting
  <2>3. ip'[p] = i BY <1>9 DEF RefOk, RefType
  <2>4. disk'[i] = made /\ \A x \in Inum \ {i} : disk'[x].type = disk[x].type
    <3>1. PICK change : change = [j \in {i, d} |-> IF j = i THEN made ELSE IF isDir THEN AddLink(Loaded(j)) ELSE Loaded(j)]
      OBVIOUS
    <3>2. PICK S : S = {i, d} OBVIOUS
    <3>3. DOMAIN change = S /\ change[i] = made /\ change[d] = IF isDir THEN AddLink(disk[d]) ELSE disk[d]
      BY <1>4, <2>1, <3>1, <3>2
    <3>4. AddLink(disk[d]).type = disk[d].type BY <1>4 DEF AddLink, Node
    <3>5. disk' = [x \in Inum |-> IF x \in S THEN change[x] ELSE disk[x]] BY <1>9, <3>1, <3>3 DEF Update
    <3> QED BY <2>1, <3>2, <3>3, <3>4, <3>5
  <2>5. disk'[i].type # "free" /\ (disk'[i].type = "dir" => isDir) BY <2>4
  <2>6. \A x \in Inum : disk[x].type # "free" => x # i /\ disk'[x].type = disk[x].type BY <2>1, <2>4
  <2>7. \A x \in Inum : Uses(p, x)' => x = i \/ Uses(p, x)
    BY <1>1, <1>3, <2>2, <2>3 DEF Uses, WalkPlaces
  <2>8. UsesOk(p)' BY <2>5, <2>6, <2>7 DEF HeldOk, Sound, UsesOk
  <2>9. disk'[cwd'[p]].type = "dir"
    <3>1. cwd[p] \in Inum /\ disk[cwd[p]].type = "dir" BY InUse DEF HeldOk, Sound
    <3> QED BY <1>1, <2>6, <3>1
  <2>10. Sound(p)' BY <1>5, <2>2, <2>8, <2>9 DEF Sound
  <2>11. /\ Dot \in AnyName /\ DotDot \in AnyName /\ Dot # DotDot /\ n # Dot
    <3>1. InodeOk(d) BY <1>3 DEF LinkOk
    <3> QED BY <1>4, <1>9, <3>1, InodesAssumption DEF InodeOk, AnyName
  <2>12. PICK dots : dots = IF isDir THEN [NoEntries EXCEPT ![Dot] = i, ![DotDot] = d] ELSE entry[i] OBVIOUS
  <2>13. entry' = [entry EXCEPT ![i] = dots, ![d][n] = i]
    <3>1. CASE isDir BY <1>9, <2>12, <3>1
    <3>2. CASE ~isDir BY <1>9, <2>12, <3>2
    <3> QED BY <3>1, <3>2
  <2>14. isDir => dots[Dot] = i BY <2>11, <2>12 DEF NoEntries
  <2>15. entry'[i] = dots /\ \A x \in Inum \ {i} : entry'[x][Dot] = entry[x][Dot]
    BY <1>3, <2>1, <2>11, <2>13 DEF RefOk, RefType
  <2>16. ASSUME NEW x \in Inum PROVE DotOk(x)'
    <3>1. CASE x = i BY <2>5, <2>14, <2>15, <3>1 DEF DotOk
    <3>2. CASE x # i BY <2>4, <2>15, <3>2 DEF HeldOk, DotOk
    <3> QED BY <3>1, <3>2
  <2>17. \A r \in Proc \ {p} : pc[r] = "free" => ref'[put[r]] = ref[put[r]] BY <1>9, <2>1, GetHarmless
  <2>18. Harmless(p) BY <2>1, <2>4, <2>17 DEF Harmless
  <2>19. HeldOk' BY <2>10, <2>16, <2>18, HeldStep
  <2> QED BY <2>2, <2>19
<1> QED BY <1>6, <1>7, <1>8, <1>9

\* A step of p moves nobody else.
LEMMA Unmoved ==
    ASSUME RefOk, NEW p \in Proc, NEW r \in Proc \ {p},
           fd' = fd \/ (\E v : fd' = [fd EXCEPT ![p] = v]), cwd' = cwd \/ (\E v : cwd' = [cwd EXCEPT ![p] = v]),
           pc' = pc \/ (\E v : pc' = [pc EXCEPT ![p] = v]), ret' = ret \/ (\E v : ret' = [ret EXCEPT ![p] = v]),
           put' = put \/ (\E v : put' = [put EXCEPT ![p] = v]), dp' = dp \/ (\E v : dp' = [dp EXCEPT ![p] = v]),
           ip' = ip \/ (\E v : ip' = [ip EXCEPT ![p] = v]), kind' = kind \/ (\E v : kind' = [kind EXCEPT ![p] = v]),
           rest' = rest \/ (\E v : rest' = [rest EXCEPT ![p] = v]), new' = new \/ (\E v : new' = [new EXCEPT ![p] = v])
    PROVE  Idle(r)
<1>1. fd'[r] = fd[r] /\ cwd'[r] = cwd[r] BY DEF RefOk, RefType
<1>2. pc'[r] = pc[r] /\ ret'[r] = ret[r] /\ put'[r] = put[r] BY DEF RefOk, RefType
<1>3. dp'[r] = dp[r] /\ ip'[r] = ip[r] /\ kind'[r] = kind[r] BY DEF RefOk, RefType
<1>4. rest'[r] = rest[r] /\ new'[r] = new[r] BY DEF RefOk, RefType
<1> QED BY <1>1, <1>2, <1>3, <1>4 DEF Idle

LEMMA StepIdle ==
    ASSUME RefOk, NEW p \in Proc, NEW r \in Proc \ {p},
           \/ \E q \in Request, start \in {Root, cwd[p]} : Call(p, q, start)
           \/ Close(p)
           \/ Walk(p) \/ IputLook(p) \/ IputFree(p) \/ IputDrop(p)
           \/ OpenLock(p) \/ Opened(p) \/ NotOpened(p) \/ Chdir(p) \/ Create(p)
           \/ UnlinkFind(p) \/ UnlinkEntry(p) \/ UnlinkDone(p) \/ GiveUp(p)
           \/ \E start \in {Root, cwd[p]} : LinkBump(p, start)
           \/ LinkEntry(p) \/ LinkDone(p) \/ Unbump(p)
    PROVE  Idle(r)
<1> USE DEF Iput, Goto, callVars
<1>1. CASE \E q \in Request, start \in {Root, cwd[p]} : Call(p, q, start) BY <1>1, Unmoved DEF Call
<1>2. CASE Close(p) BY <1>2, Unmoved DEF Close
<1>3. CASE Walk(p) BY <1>3, Unmoved DEF Walk
<1>4. CASE IputLook(p) BY <1>4, Unmoved DEF IputLook
<1>5. CASE IputFree(p) BY <1>5, Unmoved DEF IputFree
<1>6. CASE IputDrop(p) BY <1>6, Unmoved DEF IputDrop, Return
<1>7. CASE OpenLock(p) BY <1>7, Unmoved DEF OpenLock
<1>8. CASE Opened(p) BY <1>8, Unmoved DEF Opened, Return
<1>9. CASE NotOpened(p) BY <1>9, Unmoved DEF NotOpened
<1>10. CASE Chdir(p) BY <1>10, Unmoved DEF Chdir
<1>11. CASE Create(p) BY <1>11, Unmoved DEF Create
<1>12. CASE UnlinkFind(p) BY <1>12, Unmoved DEF UnlinkFind
<1>13. CASE UnlinkEntry(p) BY <1>13, Unmoved DEF UnlinkEntry
<1>14. CASE UnlinkDone(p) BY <1>14, Unmoved DEF UnlinkDone
<1>15. CASE GiveUp(p) BY <1>15, Unmoved DEF GiveUp
<1>16. CASE \E start \in {Root, cwd[p]} : LinkBump(p, start) BY <1>16, Unmoved DEF LinkBump
<1>17. CASE LinkEntry(p) BY <1>17, Unmoved DEF LinkEntry
<1>18. CASE LinkDone(p) BY <1>18, Unmoved DEF LinkDone
<1>19. CASE Unbump(p) BY <1>19, Unmoved DEF Unbump
<1> QED BY <1>1, <1>2, <1>3, <1>4, <1>5, <1>6, <1>7, <1>8, <1>9, <1>10, <1>11, <1>12, <1>13, <1>14,
           <1>15, <1>16, <1>17, <1>18, <1>19

LEMMA HeldInit == ASSUME NoDotDot PROVE Init => HeldOk
<1> SUFFICES ASSUME Init PROVE HeldOk
  OBVIOUS
<1>1. NoInode \notin Inum /\ Root \in Inum
  <2>1. NINODES \in Nat \ {0} BY InodesAssumption
  <2> QED BY <2>1 DEF NoInode, Inum, Root
<1>2. /\ disk[Root].type = "dir" /\ \A i \in Inum \ {Root} : disk[i].type = "free"
  BY <1>1 DEF Init, NoNode
<1>3. entry[Root][Dot] = Root
  <2>1. Dot \in AnyName /\ DotDot \in AnyName /\ Dot # DotDot BY InodesAssumption DEF AnyName
  <2> QED BY <1>1, <2>1 DEF Init, NoEntries
<1>4. ASSUME NEW p \in Proc PROVE Sound(p)
  <2>1. /\ pc[p] = "user" /\ rest[p] = <<>> /\ new[p] = <<>> /\ cwd[p] = Root
        /\ fd[p] = NoInode /\ put[p] = NoInode
    BY DEF Init
  <2>2. Place(p) = "user" BY <2>1 DEF Place, InIput
  <2>3. \A i \in Inum : Uses(p, i) => i = Root BY <1>1, <2>1, <2>2 DEF Uses, WalkPlaces, HoldPlaces
  <2>4. UsesOk(p) BY <1>2, <2>3 DEF UsesOk
  <2>5. <<>> \in Seq(Plain) OBVIOUS
  <2> QED BY <1>2, <2>1, <2>2, <2>4, <2>5 DEF Sound
<1>5. ASSUME NEW i \in Inum PROVE DotOk(i) BY <1>2, <1>3 DEF DotOk
<1> QED BY <1>4, <1>5 DEF HeldOk

\* HeldOk is all that HeldStays says, while the kernel runs.
LEMMA HeldOkStays == Running /\ RefOk /\ HeldOk => HeldStays
<1> SUFFICES ASSUME RefOk, HeldOk, Running, NEW p \in Proc
             PROVE  /\ ~At(p, "panic") /\ disk[cwd[p]].type = "dir"
                    /\ fd[p] # NoInode => disk[fd[p]].type # "free"
  BY DEF HeldStays
<1>1. fd[p] \in Inum \cup {NoInode} /\ Uses(p, fd[p]) BY InUse, CallType
<1> QED BY <1>1 DEF HeldOk, Sound, UsesOk, Running, At

LEMMA HeldNext == ASSUME NoDotDot PROVE RefInv /\ LinkInv /\ HeldInv /\ [Next]_vars => HeldInv'
<1> SUFFICES ASSUME RefInv, LinkInv, HeldInv, [Next]_vars PROVE HeldInv'
  OBVIOUS
<1>1. CASE UNCHANGED vars
  <2>1. UNCHANGED <<disk, entry, ref, fd, cwd, pc, ret, rest, new, kind, dp, ip, put>>
    BY <1>1 DEF vars, diskVars, cacheVars, callVars
  <2>2. HeldStays' BY <2>1 DEF HeldInv, HeldStays, At
  <2>3. ASSUME Running' PROVE HeldOk'
    <3>1. HeldOk BY <2>1, <2>3 DEF HeldInv, Running
    <3>2. \A p \in Proc : Place(p)' = Place(p) /\ (Parent(p)' <=> Parent(p)) BY <2>1 DEF Place, InIput, Parent
    <3>3. \A p \in Proc, i \in Inum : Uses(p, i)' <=> Uses(p, i) BY <2>1, <3>2 DEF Uses
    <3>4. \A p \in Proc : UsesOk(p)' BY <2>1, <3>1, <3>3 DEF HeldOk, Sound, UsesOk
    <3>5. \A p \in Proc : Sound(p)' BY <2>1, <3>1, <3>2, <3>4 DEF HeldOk, Sound
    <3>6. \A i \in Inum : DotOk(i)' BY <2>1, <3>1 DEF HeldOk, DotOk
    <3> QED BY <3>5, <3>6 DEF HeldOk
  <2> QED BY <2>2, <2>3 DEF HeldInv
<1>2. CASE Next
  <2>1. RefOk /\ LinkOk /\ HeldOk /\ HeldStays /\ Running BY <1>2 DEF Next, RefInv, LinkInv, HeldInv
  <2>2. PICK p \in Proc :
          \/ \E q \in Request, start \in {Root, cwd[p]} : Call(p, q, start)
          \/ Close(p)
          \/ Walk(p) \/ IputLook(p) \/ IputFree(p) \/ IputDrop(p)
          \/ OpenLock(p) \/ Opened(p) \/ NotOpened(p) \/ Chdir(p) \/ Create(p)
          \/ UnlinkFind(p) \/ UnlinkEntry(p) \/ UnlinkDone(p) \/ GiveUp(p)
          \/ \E start \in {Root, cwd[p]} : LinkBump(p, start)
          \/ LinkEntry(p) \/ LinkDone(p) \/ Unbump(p)
    BY <1>2, Zenon DEF Next
  <2>3. \A r \in Proc \ {p} : Idle(r) BY <2>1, <2>2, StepIdle
  <2> PICK full \in BOOLEAN : full <=> pc'[p] = "full" /\ Create(p) OBVIOUS
  <2>4. pc'[p] # "panic" /\ ((HeldOk' /\ pc'[p] # "full") \/ full)
    <3>1. CASE \E q \in Request, start \in {Root, cwd[p]} : Call(p, q, start) BY <2>1, <2>3, <3>1, HeldCall
    <3>2. CASE Close(p) BY <2>1, <2>3, <3>2, HeldClose
    <3>3. CASE Walk(p) BY <2>1, <2>3, <3>3, HeldWalk
    <3>4. CASE IputLook(p) BY <2>1, <2>3, <3>4, HeldIputLook
    <3>5. CASE IputFree(p) BY <2>1, <2>3, <3>5, HeldIputFree
    <3>6. CASE IputDrop(p) BY <2>1, <2>3, <3>6, HeldIputDrop
    <3>7. CASE OpenLock(p) BY <2>1, <2>3, <3>7, HeldOpenLock
    <3>8. CASE Opened(p) BY <2>1, <2>3, <3>8, HeldOpened
    <3>9. CASE NotOpened(p) BY <2>1, <2>3, <3>9, HeldNotOpened
    <3>10. CASE Chdir(p) BY <2>1, <2>3, <3>10, HeldChdir
    <3>11. CASE Create(p) BY <2>1, <2>3, <3>11, HeldCreate
    <3>12. CASE UnlinkFind(p) BY <2>1, <2>3, <3>12, HeldUnlinkFind
    <3>13. CASE UnlinkEntry(p) BY <2>1, <2>3, <3>13, HeldUnlinkEntry
    <3>14. CASE UnlinkDone(p) BY <2>1, <2>3, <3>14, HeldUnlinkDone
    <3>15. CASE GiveUp(p) BY <2>1, <2>3, <3>15, HeldGiveUp
    <3>16. CASE \E start \in {Root, cwd[p]} : LinkBump(p, start) BY <2>1, <2>3, <3>16, HeldLinkBump
    <3>17. CASE LinkEntry(p) BY <2>1, <2>3, <3>17, HeldLinkEntry
    <3>18. CASE LinkDone(p) BY <2>1, <2>3, <3>18, HeldLinkDone
    <3>19. CASE Unbump(p) BY <2>1, <2>3, <3>19, HeldUnbump
    <3> QED BY <2>2, <3>1, <3>2, <3>3, <3>4, <3>5, <3>6, <3>7, <3>8, <3>9, <3>10, <3>11, <3>12, <3>13, <3>14,
               <3>15, <3>16, <3>17, <3>18, <3>19
  <2>5. CASE full
    <3>1. pc'[p] = "full" /\ Create(p) BY <2>5
    <3>2. disk' = disk BY <2>1, <3>1, HaltKeeps
    <3>3. fd' = fd /\ cwd' = cwd BY <3>1 DEF Create
    <3>4. \A r \in Proc : pc'[r] # "panic" BY <2>1, <2>3, <2>4 DEF Running, Idle
    <3>5. HeldStays' BY <2>1, <3>2, <3>3, <3>4 DEF HeldStays, At
    <3>6. ~Running' BY <3>1 DEF Running
    <3> QED BY <3>5, <3>6 DEF HeldInv
  <2>6. CASE HeldOk' /\ pc'[p] # "full"
    <3>1. Running' BY <2>1, <2>3, <2>4, <2>6 DEF Running, Idle
    <3>2. RefOk' BY <3>1, RefNext DEF RefInv
    <3>3. (Running /\ RefOk /\ HeldOk => HeldStays)' BY HeldOkStays, PTL
    <3>4. HeldStays' BY <2>6, <3>1, <3>2, <3>3
    <3> QED BY <2>6, <3>4 DEF HeldInv
  <2> QED BY <2>4, <2>5, <2>6
<1> QED BY <1>1, <1>2

\* What a process has a reference to is not freed under it, and no assertion on an inode
\* fails, while the requests have no "..".
THEOREM HeldStaysHolds == ASSUME NoDotDot PROVE Spec => []HeldStays
<1>1. Init => HeldInv
  <2>1. Init => RefOk /\ HeldOk /\ Running BY RefInit, HeldInit DEF Init, Running
  <2> QED BY <2>1, HeldOkStays DEF HeldInv
<1>2. RefInv /\ LinkInv /\ HeldInv /\ [Next]_vars => HeldInv' BY HeldNext
<1>3. HeldInv => HeldStays BY DEF HeldInv
<1> QED BY <1>1, <1>2, <1>3, RefsInductive, LinksInductive, PTL DEF Spec
=============================================================================
