---------------------------- MODULE MemoryProofs ----------------------------
(***************************************************************************)
(* What holds of Memory for any number of slots, pages, programs and sizes *)
(* of page: no page is lost or freed twice, no call leaves an address      *)
(* space half built, and the history is complete.                          *)
(***************************************************************************)
EXTENDS Memory, FiniteSetTheorems, NaturalsInduction, WellFoundedInduction, TLAPS

\* What the position of a process says of the locals of its call.
WorkOk(p) ==
    LET w == work[p]
    IN  /\ pc[p] \in {"none", "user"} => w = NoWork
        /\ pc[p] = "kstack" => w.op = "fork"
        /\ pc[p] = "setup" => w.op \in {"fork", "exec"}
        /\ pc[p] \in {"page", "map"} => w.op \in {"fork", "exec", "stack", "sbrk"}
        /\ pc[p] = "reap" => w.op = "none"
        /\ w.mem => pc[p] \in {"map", "panic"}
        /\ pc[p] = "map" => w.mem /\ w.va < w.goal /\ w.goal < KERNBASE
        /\ w.junk > 0 => pc[p] \in {"free", "reap"}
        /\ w.new # NoVm => pc[p] \in {"setup", "page", "map", "panic"} /\ w.op \in {"fork", "exec", "stack"}

\* What the state of a slot says of its pages.
SlotOk(q) ==
    /\ pc[q] = "none" <=> state[q] # "LIVE"
    /\ state[q] = "UNUSED" => ~kstack[q] /\ vm[q] = NoVm
    /\ state[q] = "EMBRYO" => vm[q] = NoVm
    /\ state[q] = "LIVE" => kstack[q]
    /\ state[q] = "ZOMBIE" => kstack[q] \/ \E p \in Slot : pc[p] = "reap" /\ work[p].kid = q

\* The slot that fork() fills or wait() empties.
KidOk(p) ==
    LET q == work[p].kid
    IN  /\ work[p].op = "fork" => q \in Slot /\ state[q] = "EMBRYO" /\ (kstack[q] <=> pc[p] # "kstack")
        /\ pc[p] = "reap" => q \in Slot /\ state[q] = "ZOMBIE" /\ ~kstack[q] /\ vm[q] = NoVm

\* No slot is filled twice at once, and one wait() at a time holds ptable.lock.
OneOwner ==
    \A p, r \in Slot :
        /\ work[p].op = "fork" /\ work[r].op = "fork" /\ work[p].kid = work[r].kid => p = r
        /\ pc[p] = "reap" /\ pc[r] = "reap" => p = r

PageInv == (\A p \in Slot : WorkOk(p) /\ SlotOk(p) /\ KidOk(p)) /\ OneOwner

IndInv == TypeOK /\ PageInv /\ PagesConserved
-----------------------------------------------------------------------------
\* Induction, of a set: the theorems of the library that take a predicate are out of
\* the provers' reach, the least element of a set is not.
LEMMA Induction ==
    ASSUME NEW S, NEW N \in Nat, 0 \in S, \A n \in 0 .. N - 1 : n \in S => n + 1 \in S
    PROVE  0 .. N \subseteq S
<1> SUFFICES ASSUME NEW k \in 0 .. N, k \notin S PROVE FALSE
  OBVIOUS
<1> DEFINE T == {n \in 0 .. N : n \notin S}
<1>1. T \subseteq Nat /\ T # {} OBVIOUS
<1> HIDE DEF T
<1>2. PICK x \in T : \A y \in T : <<y, x>> \notin OpToRel(<, Nat) BY <1>1, WFMin, NatLessThanWellFounded
<1>3. OpToRel(<, Nat) = {s \in Nat \X Nat : s[1] < s[2]} BY Zenon DEF OpToRel
<1>4. \A y \in T : <<y, x>> \notin {s \in Nat \X Nat : s[1] < s[2]} BY <1>2, <1>3, Zenon
<1>5. x \in 0 .. N /\ x \notin S BY DEF T
<1>6. x # 0 BY <1>5
<1>7. x - 1 \in 0 .. N - 1 /\ x - 1 + 1 = x BY <1>5, <1>6
<1>8. x - 1 \notin S BY <1>5, <1>7
<1>9. x - 1 \in T BY <1>7, <1>8 DEF T
<1>10. x - 1 \in Nat /\ x \in Nat /\ <<x - 1, x>>[1] = x - 1 /\ <<x - 1, x>>[2] = x
       /\ <<x - 1, x>> \in Nat \X Nat /\ x - 1 < x
  BY <1>5, <1>7
<1> QED BY <1>4, <1>9, <1>10, Zenon

\* A recursive function over 0 .. N exists.
IsStep(G, N, V) == G \in [1 .. N -> [V -> V]]
Iterates(g, G, N, V, v) == g \in [0 .. N -> V] /\ g[0] = v /\ \A n \in 1 .. N : g[n] = G[n][g[n - 1]]
LEMMA Recursion ==
    ASSUME NEW V, NEW v \in V, NEW N \in Nat, NEW G, IsStep(G, N, V)
    PROVE  \E g : Iterates(g, G, N, V, v)
<1> DEFINE Good(k, g) == g[0] = v /\ \A n \in 1 .. k : g[n] = G[n][g[n - 1]]
           S == {k \in 0 .. N : \E g \in [0 .. k -> V] : Good(k, g)}
<1>0. G \in [1 .. N -> [V -> V]] BY DEF IsStep
<1>1. 0 \in S
  <2>1. [i \in 0 .. 0 |-> v] \in [0 .. 0 -> V] /\ Good(0, [i \in 0 .. 0 |-> v]) OBVIOUS
  <2>2. \E g \in [0 .. 0 -> V] : Good(0, g) BY <2>1
  <2> QED BY <2>2
<1>2. ASSUME NEW k \in 0 .. N - 1, k \in S PROVE k + 1 \in S
  <2>1. PICK g \in [0 .. k -> V] : Good(k, g) BY <1>2
  <2> DEFINE h == [i \in 0 .. k + 1 |-> IF i = k + 1 THEN G[k + 1][g[k]] ELSE g[i]]
  <2>2. k + 1 \in 1 .. N /\ g[k] \in V OBVIOUS
  <2>3. G[k + 1][g[k]] \in V BY <2>2, <1>0
  <2>4. h \in [0 .. k + 1 -> V] BY <2>3
  <2>5. h[0] = v BY <2>1
  <2>6. ASSUME NEW n \in 1 .. k + 1 PROVE h[n] = G[n][h[n - 1]]
    <3>1. CASE n = k + 1
      <4>1. h[n] = G[k + 1][g[k]] /\ h[n - 1] = g[k] BY <3>1
      <4> QED BY <4>1, <3>1
    <3>2. CASE n # k + 1
      <4>1. n \in 1 .. k /\ n - 1 \in 0 .. k /\ n \in 0 .. k /\ n - 1 # k + 1 BY <3>2
      <4>2. h[n] = g[n] /\ h[n - 1] = g[n - 1] BY <4>1
      <4> QED BY <4>1, <4>2, <2>1
    <3> QED BY <3>1, <3>2
  <2>7. Good(k + 1, h) BY <2>5, <2>6
  <2>8. \E f \in [0 .. k + 1 -> V] : Good(k + 1, f) BY <2>4, <2>7
  <2>9. k + 1 \in 0 .. N OBVIOUS
  <2> QED BY <2>8, <2>9
<1> HIDE DEF S
<1>3. 0 .. N \subseteq S BY <1>1, <1>2, Induction, Zenon
<1>4. N \in S BY <1>3
<1> QED BY <1>4 DEF S, Iterates

\* g adds up f.
Sums(g, f) == g \in [0 .. NPROC -> Nat] /\ g[0] = 0 /\ \A n \in 1 .. NPROC : g[n] = g[n - 1] + f[n]

LEMMA TotalDef ==
    ASSUME NEW f \in [Slot -> Nat]
    PROVE  \E g : Sums(g, f) /\ Total(f) = g[NPROC]
<1> DEFINE Def(g) == [n \in 0 .. NPROC |-> IF n = 0 THEN 0 ELSE g[n - 1] + f[n]]
           G == [n \in 1 .. NPROC |-> [v \in Nat |-> v + f[n]]]
           r == CHOOSE g : g = Def(g)
<1>0. Slot = 1 .. NPROC /\ NPROC \in Nat BY MemoryAssumption DEF Slot
<1>2. \E g : Iterates(g, G, NPROC, Nat, 0)
  <2>1. 0 \in Nat OBVIOUS
  <2>2. IsStep(G, NPROC, Nat) BY <1>0 DEF IsStep
  <2> HIDE DEF G
  <2> QED BY <1>0, <2>1, <2>2, Recursion, Zenon
<1>3. PICK g \in [0 .. NPROC -> Nat] : g[0] = 0 /\ \A n \in 1 .. NPROC : g[n] = g[n - 1] + f[n]
  <2>1. PICK g \in [0 .. NPROC -> Nat] : g[0] = 0 /\ \A n \in 1 .. NPROC : g[n] = G[n][g[n - 1]]
    BY <1>2 DEF Iterates
  <2>2. ASSUME NEW n \in 1 .. NPROC PROVE g[n] = g[n - 1] + f[n]
    <3>1. g[n - 1] \in Nat BY <1>0, <2>2
    <3>2. G[n][g[n - 1]] = g[n - 1] + f[n] BY <3>1
    <3> QED BY <3>2, <2>1
  <2> QED BY <2>1, <2>2
<1>4. g = Def(g) 
  <2>1. \A n \in 0 .. NPROC : g[n] = IF n = 0 THEN 0 ELSE g[n - 1] + f[n] BY <1>3
  <2> QED BY <2>1
<1> HIDE DEF Def
<1>5. r = Def(r) BY <1>4
<1>6. Total(f) = r[NPROC] BY Zenon DEF Total, Def
<1>7. r[0] = 0 /\ \A n \in 1 .. NPROC : r[n] = r[n - 1] + f[n]
  <2> HIDE DEF r
  <2>1. \A n \in 0 .. NPROC : r[n] = IF n = 0 THEN 0 ELSE r[n - 1] + f[n] BY <1>5 DEF Def
  <2> QED BY <2>1, <1>0
<1>8. r \in [0 .. NPROC -> Nat]
  <2> DEFINE S == {n \in 0 .. NPROC : r[n] \in Nat}
  <2>1. 0 \in S BY <1>0, <1>7
  <2>2. ASSUME NEW n \in 0 .. NPROC - 1, n \in S PROVE n + 1 \in S
    <3>1. n + 1 \in 1 .. NPROC /\ (n + 1) - 1 = n BY <1>0, <2>2
    <3> HIDE DEF r
    <3>2. r[n + 1] = r[n] + f[n + 1] BY <3>1, <1>7
    <3> QED BY <3>1, <3>2, <2>2, <1>0
  <2> HIDE DEF S
  <2>3. 0 .. NPROC \subseteq S BY <2>1, <2>2, <1>0, Induction, Zenon
  <2>4. DOMAIN r = 0 .. NPROC /\ r = [n \in 0 .. NPROC |-> r[n]] BY <1>5 DEF Def
  <2> HIDE DEF r
  <2> QED BY <2>3, <2>4 DEF S
<1> HIDE DEF r
<1> QED BY <1>6, <1>7, <1>8 DEF Sums

\* A sum over the slots, when one of them, or two, change.
LEMMA TotalStep ==
    ASSUME NEW f \in [Slot -> Nat], NEW g \in [Slot -> Nat], NEW p \in Slot,
           \A q \in Slot \ {p} : g[q] = f[q]
    PROVE  Total(f) \in Nat /\ Total(g) \in Nat /\ Total(g) + f[p] = Total(f) + g[p]
<1>0. Slot = 1 .. NPROC /\ NPROC \in Nat BY MemoryAssumption DEF Slot
<1>1. PICK F : Sums(F, f) /\ Total(f) = F[NPROC] BY TotalDef, Zenon
<1>2. PICK G : Sums(G, g) /\ Total(g) = G[NPROC] BY TotalDef, Zenon
<1> USE DEF Sums
<1> DEFINE S == {n \in 0 .. NPROC : IF n < p THEN G[n] = F[n] ELSE G[n] + f[p] = F[n] + g[p]}
<1>3. 0 \in S BY <1>0, <1>1, <1>2
<1>4. ASSUME NEW n \in 0 .. NPROC - 1, n \in S PROVE n + 1 \in S
  <2>1. n + 1 \in 1 .. NPROC /\ (n + 1) - 1 = n BY <1>0
  <2>2. F[n + 1] = F[n] + f[n + 1] /\ G[n + 1] = G[n] + g[n + 1] BY <2>1, <1>1, <1>2
  <2>3. F[n] \in Nat /\ G[n] \in Nat /\ f[p] \in Nat /\ g[p] \in Nat BY <1>0, <1>1, <1>2
  <2>4. f[n + 1] \in Nat /\ g[n + 1] \in Nat BY <1>0, <2>1
  <2>5. CASE n + 1 < p
    <3>1. g[n + 1] = f[n + 1] /\ G[n] = F[n] BY <2>1, <2>5, <1>0, <1>4
    <3> QED BY <2>1, <2>2, <2>5, <3>1
  <2>6. CASE n + 1 = p
    <3>1. G[n] = F[n] /\ ~(n + 1 < p) BY <2>1, <2>6, <1>0, <1>4
    <3>2. G[n + 1] + f[p] = F[n + 1] + g[p] BY <2>2, <2>3, <2>6, <3>1
    <3> QED BY <2>1, <3>1, <3>2
  <2>7. CASE n + 1 > p
    <3>1. g[n + 1] = f[n + 1] /\ G[n] + f[p] = F[n] + g[p] /\ ~(n + 1 < p) BY <2>1, <2>7, <1>0, <1>4
    <3>2. G[n + 1] + f[p] = F[n + 1] + g[p] BY <2>2, <2>3, <2>4, <3>1
    <3> QED BY <2>1, <3>1, <3>2
  <2>8. n \in Int /\ p \in Int BY <1>0
  <2> HIDE DEF S
  <2> QED BY <2>5, <2>6, <2>7, <2>8
<1> HIDE DEF S
<1>5. 0 .. NPROC \subseteq S BY <1>0, <1>3, <1>4, Induction, Zenon
<1>6. NPROC \in S /\ ~(NPROC < p) BY <1>0, <1>5
<1>7. Total(f) \in Nat /\ Total(g) \in Nat BY <1>0, <1>1, <1>2
<1> QED BY <1>1, <1>2, <1>6, <1>7 DEF S

LEMMA TotalTwo ==
    ASSUME NEW f \in [Slot -> Nat], NEW g \in [Slot -> Nat], NEW p \in Slot, NEW r \in Slot, p # r,
           \A q \in Slot \ {p, r} : g[q] = f[q]
    PROVE  Total(f) \in Nat /\ Total(g) \in Nat /\ Total(g) + f[p] + f[r] = Total(f) + g[p] + g[r]
<1> DEFINE h == [f EXCEPT ![p] = g[p]]
<1>1. h \in [Slot -> Nat] /\ h[p] = g[p] /\ h[r] = f[r] OBVIOUS
<1>2. (\A q \in Slot \ {p} : h[q] = f[q]) /\ (\A q \in Slot \ {r} : g[q] = h[q]) OBVIOUS
<1> HIDE DEF h
<1>3. Total(f) \in Nat /\ Total(h) \in Nat /\ Total(h) + f[p] = Total(f) + h[p] BY <1>1, <1>2, TotalStep
<1>4. Total(g) \in Nat /\ Total(g) + h[r] = Total(h) + g[r] BY <1>1, <1>2, TotalStep
<1>5. f[p] \in Nat /\ f[r] \in Nat /\ g[p] \in Nat /\ g[r] \in Nat OBVIOUS
<1> QED BY <1>1, <1>3, <1>4, <1>5

LEMMA TotalZero ==
    ASSUME NEW f \in [Slot -> Nat], \A p \in Slot : f[p] = 0
    PROVE  Total(f) = 0
<1>0. Slot = 1 .. NPROC /\ NPROC \in Nat BY MemoryAssumption DEF Slot
<1>1. PICK F : Sums(F, f) /\ Total(f) = F[NPROC] BY TotalDef, Zenon
<1> USE DEF Sums
<1> DEFINE S == {n \in 0 .. NPROC : F[n] = 0}
<1>3. 0 \in S BY <1>0, <1>1
<1>4. ASSUME NEW n \in 0 .. NPROC - 1, n \in S PROVE n + 1 \in S
  <2>1. n + 1 \in 1 .. NPROC /\ (n + 1) - 1 = n BY <1>0
  <2>2. F[n + 1] = F[n] + f[n + 1] /\ f[n + 1] = 0 BY <2>1, <1>0, <1>1
  <2> QED BY <2>1, <2>2, <1>4
<1> HIDE DEF S
<1>5. 0 .. NPROC \subseteq S BY <1>0, <1>3, <1>4, Induction, Zenon
<1>6. NPROC \in S BY <1>0, <1>5
<1> QED BY <1>1, <1>6 DEF S
-----------------------------------------------------------------------------
\* Pages of an address space.
LEMMA FinitePages ==
    IsFiniteSet(UserPage) /\ \A S \in SUBSET UserPage : IsFiniteSet(S) /\ Cardinality(S) \in Nat
<1>1. KERNBASE \div PGSIZE \in Nat BY MemoryAssumption
<1>2. IsFiniteSet(UserPage) BY <1>1, FS_Interval DEF UserPage
<1> QED BY <1>2, FS_Subset, FS_CardinalityType

LEMMA HeldNat ==
    ASSUME NEW v \in Vm
    PROVE  /\ v.ktab \in Nat /\ v.dir \in BOOLEAN /\ v.tables \in SUBSET UserPage /\ v.pages \in SUBSET UserPage
           /\ Cardinality(v.tables) \in Nat /\ Cardinality(v.pages) \in Nat /\ Held(v) \in Nat
<1>1. v.ktab \in Nat /\ v.dir \in BOOLEAN /\ v.tables \in SUBSET UserPage /\ v.pages \in SUBSET UserPage BY DEF Vm
<1>2. Cardinality(v.tables) \in Nat /\ Cardinality(v.pages) \in Nat BY <1>1, FinitePages
<1> QED BY <1>1, <1>2 DEF Held

LEMMA HeldNone == NoVm \in Vm /\ Held(NoVm) = 0
<1>1. Cardinality({}) = 0 BY FS_EmptySet
<1> QED BY <1>1 DEF NoVm, Vm, Held

LEMMA HeldSetup ==
    ASSUME NEW v \in Vm
    PROVE  /\ v.dir => [v EXCEPT !.ktab = @ + 1] \in Vm /\ Held([v EXCEPT !.ktab = @ + 1]) = Held(v) + 1
           /\ ~v.dir => [v EXCEPT !.dir = TRUE] \in Vm /\ Held([v EXCEPT !.dir = TRUE]) = Held(v) + 1
<1>1. Cardinality(v.tables) \in Nat /\ Cardinality(v.pages) \in Nat /\ v.ktab \in Nat /\ v.dir \in BOOLEAN
  BY HeldNat
<1>2. CASE v.dir
  <2> DEFINE u == [v EXCEPT !.ktab = @ + 1]
  <2>1. u \in Vm /\ u.dir /\ u.ktab = v.ktab + 1 /\ u.tables = v.tables /\ u.pages = v.pages
    BY <1>1, <1>2 DEF Vm
  <2> HIDE DEF u
  <2>2. Held(u) = Held(v) + 1 BY <1>1, <1>2, <2>1 DEF Held
  <2> QED BY <1>2, <2>1, <2>2 DEF u
<1>3. CASE ~v.dir
  <2> DEFINE u == [v EXCEPT !.dir = TRUE]
  <2>1. u \in Vm /\ u.dir /\ u.ktab = v.ktab /\ u.tables = v.tables /\ u.pages = v.pages
    BY <1>1, <1>3 DEF Vm
  <2> HIDE DEF u
  <2>2. Held(u) = Held(v) + 1 BY <1>1, <1>3, <2>1 DEF Held
  <2> QED BY <1>3, <2>1, <2>2 DEF u
<1> QED BY <1>2, <1>3

LEMMA HeldMapped ==
    ASSUME NEW v \in Vm, NEW i \in UserPage, i \notin v.pages, i \div SPAN \in UserPage
    PROVE  /\ Mapped(v, i) \in Vm
           /\ Held(Mapped(v, i)) = Held(v) + 1 + (IF i \div SPAN \in v.tables THEN 0 ELSE 1)
<1> DEFINE t == i \div SPAN
<1>1. /\ v.ktab \in Nat /\ v.dir \in BOOLEAN /\ v.tables \in SUBSET UserPage /\ v.pages \in SUBSET UserPage
      /\ Cardinality(v.tables) \in Nat /\ Cardinality(v.pages) \in Nat
  BY HeldNat
<1>2. Cardinality(v.pages \cup {i}) = Cardinality(v.pages) + 1 BY <1>1, FinitePages, FS_AddElement
<1>3. Cardinality(v.tables \cup {t}) = Cardinality(v.tables) + IF t \in v.tables THEN 0 ELSE 1
  <2>1. CASE t \in v.tables
    <3>1. v.tables \cup {t} = v.tables BY <2>1
    <3>2. Cardinality(v.tables \cup {t}) = Cardinality(v.tables) BY <3>1
    <3> HIDE DEF t
    <3> QED BY <3>2, <2>1, <1>1
  <2>2. CASE t \notin v.tables BY <2>2, <1>1, FinitePages, FS_AddElement
  <2> QED BY <2>1, <2>2
<1>4. Mapped(v, i) \in Vm BY <1>1 DEF Mapped, Vm
<1>5. /\ Mapped(v, i).pages = v.pages \cup {i} /\ Mapped(v, i).tables = v.tables \cup {t}
      /\ Mapped(v, i).dir = v.dir /\ Mapped(v, i).ktab = v.ktab
  BY DEF Mapped, Vm
<1> HIDE DEF t
<1>6. Held(Mapped(v, i)) = Held(v) + 1 + IF t \in v.tables THEN 0 ELSE 1
  BY <1>1, <1>2, <1>3, <1>5 DEF Held
<1> QED BY <1>4, <1>6 DEF t

LEMMA HeldLess ==
    ASSUME NEW v \in Vm, NEW S
    PROVE  /\ [v EXCEPT !.pages = @ \ (v.pages \cap S)] \in Vm
           /\ Cardinality(v.pages \cap S) \in Nat
           /\ Held([v EXCEPT !.pages = @ \ (v.pages \cap S)]) + Cardinality(v.pages \cap S) = Held(v)
<1> DEFINE G == v.pages \cap S
           u == [v EXCEPT !.pages = @ \ G]
<1>1. /\ v.ktab \in Nat /\ v.dir \in BOOLEAN /\ v.tables \in SUBSET UserPage /\ v.pages \in SUBSET UserPage
      /\ Cardinality(v.tables) \in Nat /\ Cardinality(v.pages) \in Nat
  BY HeldNat
<1>2. /\ IsFiniteSet(v.pages) /\ IsFiniteSet(G) /\ IsFiniteSet(v.pages \ G)
      /\ Cardinality(G) \in Nat /\ Cardinality(v.pages \ G) \in Nat
  BY <1>1, FinitePages
<1>3. Cardinality(v.pages) = Cardinality(v.pages \ G) + Cardinality(G)
  <2>1. v.pages = (v.pages \ G) \cup G /\ (v.pages \ G) \cap G = {} OBVIOUS
  <2>2. Cardinality((v.pages \ G) \cup G) = Cardinality(v.pages \ G) + Cardinality(G) - Cardinality((v.pages \ G) \cap G)
    <3> HIDE DEF G
    <3> QED BY <1>2, FS_Union
  <2>3. Cardinality({}) = 0 BY FS_EmptySet
  <2>4. Cardinality((v.pages \ G) \cap G) = 0 BY <2>1, <2>3
  <2>5. Cardinality(v.pages) = Cardinality((v.pages \ G) \cup G) BY <2>1
  <2> HIDE DEF G
  <2> QED BY <1>2, <2>2, <2>4, <2>5
<1>4. u \in Vm /\ u.pages = v.pages \ G /\ u.tables = v.tables /\ u.dir = v.dir /\ u.ktab = v.ktab
  BY <1>1 DEF Vm
<1>5. Held(u) + Cardinality(G) = Held(v)
  <2> HIDE DEF u, G
  <2> QED BY <1>1, <1>2, <1>3, <1>4 DEF Held
<1> QED BY <1>2, <1>4, <1>5

LEMMA MinOfIn ==
    ASSUME NEW S \in SUBSET Nat, S # {}
    PROVE  MinOf(S) \in S
<1>1. PICK x \in S : \A y \in S : <<y, x>> \notin OpToRel(<, Nat) BY WFMin, NatLessThanWellFounded
<1>2. OpToRel(<, Nat) = {s \in Nat \X Nat : s[1] < s[2]} BY Zenon DEF OpToRel
<1>3. \A y \in S : <<y, x>> \notin {s \in Nat \X Nat : s[1] < s[2]} BY <1>1, <1>2, Zenon
<1>4. ASSUME NEW y \in S PROVE x <= y
  <2>1. x \in Nat /\ y \in Nat /\ <<y, x>>[1] = y /\ <<y, x>>[2] = x /\ <<y, x>> \in Nat \X Nat OBVIOUS
  <2>2. ~(y < x) BY <1>3, <2>1, Zenon
  <2> QED BY <2>1, <2>2
<1> QED BY <1>4 DEF MinOf

\* The user page of a byte below KERNBASE, and its page table.
LEMMA PageOf ==
    ASSUME NEW va \in Nat, va < KERNBASE
    PROVE  va \div PGSIZE \in UserPage /\ (va \div PGSIZE) \div SPAN \in UserPage
<1>1. PICK P \in Nat, K \in Nat, d \in Nat : P = PGSIZE /\ P > 0 /\ K = KERNBASE \div PGSIZE /\ d = va \div PGSIZE
  BY MemoryAssumption
<1>2. KERNBASE = P * K
  <2>1. KERNBASE \in Nat /\ KERNBASE % P = 0 BY <1>1, MemoryAssumption
  <2>2. KERNBASE = (P * (KERNBASE \div P)) + (KERNBASE % P) BY <1>1, <2>1
  <2>3. P * (KERNBASE \div P) \in Nat BY <1>1
  <2> QED BY <1>1, <2>1, <2>2, <2>3
<1>3. P * d <= va BY <1>1
<1>4. P * d < P * K BY <1>1, <1>2, <1>3
<1>5. d < K
  <2> SUFFICES ASSUME d >= K PROVE FALSE
    BY <1>1
  <2>1. PICK e \in Nat : d = K + e
    <3>1. d - K \in Nat /\ d = K + (d - K) BY <1>1
    <3> QED BY <3>1
  <2>2. P * d = P * K + P * e /\ P * e \in Nat BY <1>1, <2>1
  <2> QED BY <1>1, <1>4, <2>2
<1>6. d \in UserPage BY <1>1, <1>5 DEF UserPage
<1>7. PICK t \in Nat : t = d \div SPAN BY <1>1, MemoryAssumption
<1>8. t <= d
  <2>1. PICK s \in Nat : s = SPAN /\ s > 0 BY MemoryAssumption
  <2>2. s * t <= d BY <1>7, <2>1
  <2>3. t <= s * t
    <3>1. PICK c \in Nat : s = c + 1
      <4>1. s - 1 \in Nat /\ s = (s - 1) + 1 BY <2>1
      <4> QED BY <4>1
    <3>2. s * t = c * t + t /\ c * t \in Nat BY <3>1
    <3> QED BY <3>2
  <2>4. s * t \in Nat BY <2>1
  <2> QED BY <2>2, <2>3, <2>4
<1>9. t \in UserPage BY <1>1, <1>5, <1>8 DEF UserPage
<1> QED BY <1>1, <1>6, <1>7, <1>9

LEMMA WorkType ==
    ASSUME TypeOK, NEW p \in Slot
    PROVE  /\ work[p].op \in {"none", "fork", "exec", "stack", "sbrk", "shrink"}
           /\ work[p].kid \in Slot \cup {None} /\ work[p].new \in Vm /\ work[p].mem \in BOOLEAN
           /\ work[p].va \in Nat /\ work[p].goal \in Nat /\ work[p].junk \in Nat
           /\ vm[p] \in Vm /\ kstack[p] \in BOOLEAN /\ sz[p] \in Nat
           /\ Held(vm[p]) \in Nat /\ Held(work[p].new) \in Nat
<1>1. work[p] \in Work /\ vm[p] \in Vm /\ kstack[p] \in BOOLEAN /\ sz[p] \in Nat
  BY DEF TypeOK
<1>2. work[p].new \in Vm BY <1>1 DEF Work
<1> QED BY <1>1, <1>2, HeldNat DEF Work

LEMMA OwnNat ==
    ASSUME TypeOK
    PROVE  \A p \in Slot : Own(p) \in Nat
<1> SUFFICES ASSUME NEW p \in Slot PROVE Own(p) \in Nat
  OBVIOUS
<1>1. /\ work[p].junk \in Nat /\ work[p].mem \in BOOLEAN /\ kstack[p] \in BOOLEAN
      /\ Held(vm[p]) \in Nat /\ Held(work[p].new) \in Nat
  BY WorkType
<1> QED BY <1>1 DEF Own

LEMMA OwnNatNext == TypeOK' => (\A p \in Slot : Own(p) \in Nat)'
<1>1. TypeOK => \A p \in Slot : Own(p) \in Nat BY OwnNat
<1> QED BY <1>1, PTL

\* PagesConserved after a step that changes what one slot has, or two.
Owned == [p \in Slot |-> Own(p)]

LEMMA Bound ==
    ASSUME NEW f \in Nat, NEW t \in Nat, f + t = NPAGES
    PROVE  f \in 0 .. NPAGES
  BY MemoryAssumption

LEMMA OneChanged ==
    ASSUME TypeOK, TypeOK', PagesConserved, NEW p \in Slot,
           \A q \in Slot \ {p} : kstack'[q] = kstack[q] /\ vm'[q] = vm[q] /\ work'[q] = work[q],
           free' + Own(p)' = free + Own(p)
    PROVE  PagesConserved'
<1> DEFINE f == Owned
           g == [q \in Slot |-> Own(q)']
<1>1. \A q \in Slot : Own(q) \in Nat /\ Own(q)' \in Nat BY OwnNat, OwnNatNext
<1>2. f \in [Slot -> Nat] /\ g \in [Slot -> Nat] BY <1>1 DEF Owned
<1>3. \A q \in Slot \ {p} : g[q] = f[q]
  <2> SUFFICES ASSUME NEW q \in Slot \ {p} PROVE Own(q)' = Own(q)
    BY DEF Owned
  <2>1. kstack'[q] = kstack[q] /\ vm'[q] = vm[q] /\ work'[q] = work[q] OBVIOUS
  <2> QED BY <2>1 DEF Own, Held
<1>4. f[p] = Own(p) /\ g[p] = Own(p)' BY DEF Owned
<1>5. free + Total(f) = NPAGES BY DEF PagesConserved, Owned
<1> HIDE DEF f, g
<1>6. Total(f) \in Nat /\ Total(g) \in Nat /\ Total(g) + f[p] = Total(f) + g[p] BY <1>2, <1>3, TotalStep
<1>7. free \in Nat /\ free' \in Nat BY DEF TypeOK
<1>8. free' + Total(g) = NPAGES BY <1>1, <1>4, <1>5, <1>6, <1>7
<1>9. free' \in 0 .. NPAGES BY <1>6, <1>7, <1>8, Bound
<1>10. Total(g) = Total(Owned)' BY DEF g, Owned, Total
<1> QED BY <1>8, <1>9, <1>10 DEF PagesConserved, Owned

LEMMA TwoChanged ==
    ASSUME TypeOK, TypeOK', PagesConserved, NEW p \in Slot, NEW r \in Slot, p # r,
           \A q \in Slot \ {p, r} : kstack'[q] = kstack[q] /\ vm'[q] = vm[q] /\ work'[q] = work[q],
           free' + Own(p)' + Own(r)' = free + Own(p) + Own(r)
    PROVE  PagesConserved'
<1> DEFINE f == Owned
           g == [q \in Slot |-> Own(q)']
<1>1. \A q \in Slot : Own(q) \in Nat /\ Own(q)' \in Nat BY OwnNat, OwnNatNext
<1>2. f \in [Slot -> Nat] /\ g \in [Slot -> Nat] BY <1>1 DEF Owned
<1>3. \A q \in Slot \ {p, r} : g[q] = f[q]
  <2> SUFFICES ASSUME NEW q \in Slot \ {p, r} PROVE Own(q)' = Own(q)
    BY DEF Owned
  <2>1. kstack'[q] = kstack[q] /\ vm'[q] = vm[q] /\ work'[q] = work[q] OBVIOUS
  <2> QED BY <2>1 DEF Own, Held
<1>4. f[p] = Own(p) /\ g[p] = Own(p)' /\ f[r] = Own(r) /\ g[r] = Own(r)' BY DEF Owned
<1>5. free + Total(f) = NPAGES BY DEF PagesConserved, Owned
<1> HIDE DEF f, g
<1>6. Total(f) \in Nat /\ Total(g) \in Nat /\ Total(g) + f[p] + f[r] = Total(f) + g[p] + g[r]
  BY <1>2, <1>3, TotalTwo
<1>7. free \in Nat /\ free' \in Nat BY DEF TypeOK
<1>a. f[p] \in Nat /\ f[r] \in Nat /\ g[p] \in Nat /\ g[r] \in Nat BY <1>2
<1>b. PICK F \in Nat, G \in Nat : F = f[p] + f[r] /\ G = g[p] + g[r]
  <2>1. f[p] + f[r] \in Nat /\ g[p] + g[r] \in Nat BY <1>a
  <2> QED BY <2>1
<1>c. free' + G = free + F BY <1>4, <1>7, <1>a, <1>b
<1>d. Total(g) + F = Total(f) + G BY <1>6, <1>a, <1>b
<1>8. free' + Total(g) = NPAGES BY ONLY <1>5, <1>6, <1>7, <1>b, <1>c, <1>d
<1>9. free' \in 0 .. NPAGES BY <1>6, <1>7, <1>8, Bound
<1>10. Total(g) = Total(Owned)' BY DEF g, Owned, Total
<1> QED BY <1>8, <1>9, <1>10 DEF PagesConserved, Owned

\* A step inside one call that fills and empties no other slot.
LEMMA CallStep ==
    ASSUME PageInv, NEW p \in Slot, UNCHANGED <<state, kstack>>,
           \A q \in Slot \ {p} : vm'[q] = vm[q] /\ pc'[q] = pc[q] /\ work'[q] = work[q],
           pc[p] # "none", pc'[p] # "none", pc'[p] = "reap" <=> pc[p] = "reap",
           pc'[p] = "reap" => work'[p].kid = work[p].kid,
           work'[p].op = "fork" => /\ work[p].op = "fork" /\ work'[p].kid = work[p].kid
                                   /\ pc[p] # "kstack" /\ pc'[p] # "kstack",
           WorkOk(p)'
    PROVE  PageInv'
<1>1. state[p] = "LIVE" BY DEF PageInv, SlotOk
<1>2. ASSUME NEW r \in Slot PROVE WorkOk(r)'
  <2>1. CASE r = p BY <2>1
  <2>2. CASE r # p
    <3>1. WorkOk(r) /\ pc'[r] = pc[r] /\ work'[r] = work[r] BY <2>2 DEF PageInv
    <3> QED BY <3>1 DEF WorkOk
  <2> QED BY <2>1, <2>2
<1>3. ASSUME NEW r \in Slot PROVE SlotOk(r)'
  <2>1. SlotOk(r) BY DEF PageInv
  <2>2. state'[r] = state[r] /\ kstack'[r] = kstack[r] /\ (pc'[r] = "none" <=> pc[r] = "none")
    OBVIOUS
  <2>3. state[r] # "LIVE" => vm'[r] = vm[r] BY <1>1
  <2>4. \A s \in Slot : pc[s] = "reap" /\ work[s].kid = r => pc'[s] = "reap" /\ work'[s].kid = r OBVIOUS
  <2> QED BY <2>1, <2>2, <2>3, <2>4 DEF SlotOk
<1>4. ASSUME NEW r \in Slot PROVE KidOk(r)'
  <2> DEFINE q == work[r].kid
  <2>1. KidOk(r) BY DEF PageInv
  <2>2. work'[r].op = "fork" => work[r].op = "fork" /\ work'[r].kid = q /\ (pc'[r] = "kstack" <=> pc[r] = "kstack")
    OBVIOUS
  <2>3. pc'[r] = "reap" => pc[r] = "reap" /\ work'[r].kid = q OBVIOUS
  <2>4. \A s \in Slot : state[s] # "LIVE" => vm'[s] = vm[s] BY <1>1
  <2> QED BY <2>1, <2>2, <2>3, <2>4 DEF KidOk
<1>5. OneOwner'
  <2>1. ASSUME NEW r \in Slot
        PROVE  /\ work'[r].op = "fork" => work[r].op = "fork" /\ work'[r].kid = work[r].kid
               /\ pc'[r] = "reap" => pc[r] = "reap"
    OBVIOUS
  <2>2. OneOwner BY DEF PageInv
  <2> QED BY <2>1, <2>2 DEF OneOwner
<1> QED BY <1>2, <1>3, <1>4, <1>5 DEF PageInv
-----------------------------------------------------------------------------
LEMMA InitInv == Init => IndInv
<1> SUFFICES ASSUME Init PROVE IndInv
  OBVIOUS
<1> USE MemoryAssumption DEF Init, InitProc
<1>0. /\ NPROC \in Nat /\ NPROC > 0 /\ InitProc \in Slot /\ {0} \in SUBSET UserPage
      /\ KTABS \in Nat /\ PGSIZE \in Nat /\ NPAGES - (4 + KTABS) \in Nat
  <2>1. 0 \div PGSIZE \in UserPage
    <3>1. 0 \in Nat /\ 0 < KERNBASE OBVIOUS
    <3> QED BY <3>1, PageOf
  <2>2. 0 \div PGSIZE = 0 OBVIOUS
  <2> QED BY <2>1, <2>2 DEF Slot
<1> DEFINE v == [dir |-> TRUE, ktab |-> KTABS, tables |-> {0}, pages |-> {0}]
<1>1. v \in Vm BY <1>0 DEF Vm
<1>2. NoVm \in Vm /\ Held(NoVm) = 0 BY HeldNone
<1>3. NoWork \in Work BY <1>2 DEF NoWork, Work
<1>4. TypeOK
  <2>1. <<>> \in Seq(Nat) OBVIOUS
  <2>2. pc \in [Slot -> {"none", "user", "kstack", "setup", "page", "map", "free", "reap", "panic"}] OBVIOUS
  <2>3. vm \in [Slot -> Vm] BY <1>1, <1>2
  <2>4. pid \in [Slot -> Nat] /\ sz \in [Slot -> Nat] BY <1>0
  <2> HIDE DEF v
  <2> QED BY <1>0, <1>3, <2>1, <2>2, <2>3, <2>4 DEF TypeOK
<1>5. PageInv
  <2>1. \A p \in Slot : work[p] = NoWork /\ pc[p] \in {"none", "user"} OBVIOUS
  <2>2. NoWork.op = "none" BY DEF NoWork
  <2>3. NoWork.mem = FALSE /\ NoWork.junk = 0 /\ NoWork.new = NoVm BY DEF NoWork
  <2>4. ASSUME NEW p \in Slot PROVE WorkOk(p) /\ KidOk(p) BY <2>1, <2>2, <2>3 DEF WorkOk, KidOk
  <2>5. ASSUME NEW p \in Slot PROVE SlotOk(p) BY DEF SlotOk
  <2>6. OneOwner BY <2>1, <2>2 DEF OneOwner
  <2> QED BY <2>4, <2>5, <2>6 DEF PageInv
<1>6. PagesConserved
  <2> DEFINE z == [p \in Slot |-> 0]
  <2>1. Held(v) = KTABS + 3
    <3>1. Cardinality({0}) = 1 BY FS_Singleton
    <3>2. v.dir /\ v.ktab = KTABS /\ v.tables = {0} /\ v.pages = {0} OBVIOUS
    <3> HIDE DEF v
    <3> QED BY <1>0, <3>1, <3>2 DEF Held
  <2>2. \A p \in Slot : Own(p) = IF p = InitProc THEN KTABS + 4 ELSE 0
    <3> SUFFICES ASSUME NEW p \in Slot PROVE Own(p) = IF p = InitProc THEN KTABS + 4 ELSE 0
      OBVIOUS
    <3>1. work[p] = NoWork /\ NoWork.new = NoVm /\ NoWork.mem = FALSE /\ NoWork.junk = 0 BY DEF NoWork
    <3>2. CASE p = InitProc
      <4>1. kstack[p] /\ vm[p] = v BY <3>2
      <4> HIDE DEF v
      <4>2. Own(p) = 1 + Held(v) + Held(NoVm) + 0 + 0 BY <3>1, <4>1 DEF Own
      <4>3. Own(p) = 1 + (KTABS + 3) + 0 + 0 + 0 BY <4>2, <2>1, <1>2
      <4> QED BY <1>0, <3>2, <4>3
    <3>3. CASE p # InitProc
      <4>1. ~kstack[p] /\ vm[p] = NoVm BY <3>3
      <4> QED BY <1>0, <1>2, <3>1, <3>3, <4>1 DEF Own
    <3> QED BY <3>2, <3>3
  <2>3. Owned \in [Slot -> Nat] BY <1>0, <2>2 DEF Owned
  <2>4. z \in [Slot -> Nat] /\ (\A p \in Slot : z[p] = 0) OBVIOUS
  <2>5. Total(z) = 0 BY <2>4, TotalZero
  <2>6. \A q \in Slot \ {InitProc} : Owned[q] = z[q] BY <2>2 DEF Owned
  <2>7. Owned[InitProc] = KTABS + 4 /\ z[InitProc] = 0 BY <1>0, <2>2 DEF Owned
  <2> HIDE DEF z
  <2>8. Total(Owned) \in Nat /\ Total(Owned) + z[InitProc] = Total(z) + Owned[InitProc]
    BY ONLY <1>0, <2>3, <2>4, <2>6, TotalStep, Zenon
  <2>9. free = NPAGES - (4 + KTABS) OBVIOUS
  <2>10. free + Total(Owned) = NPAGES BY <1>0, <2>5, <2>7, <2>8, <2>9
  <2>11. free \in 0 .. NPAGES BY <1>0, <2>8, <2>9, <2>10, Bound
  <2> QED BY <2>10, <2>11 DEF PagesConserved, Owned
<1> QED BY <1>4, <1>5, <1>6 DEF IndInv
-----------------------------------------------------------------------------
\* What the caller has in hand when its call fails, and what it frees.
LEMMA UndoInv ==
    ASSUME IndInv, NEW p \in Slot, pc[p] \in {"setup", "page", "map"}, Undo(p)
    PROVE  IndInv'
<1> DEFINE w == work[p]
           G == PagesIn(sz[p], w.goal)
           grown == vm[p].pages \cap G
           u == IF w.op = "sbrk" THEN [vm[p] EXCEPT !.pages = @ \ grown] ELSE vm[p]
           junk == IF w.op = "sbrk" THEN Cardinality(grown) + InHand(w) ELSE Held(w.new) + InHand(w)
           new == IF w.op = "sbrk" THEN w.new ELSE NoVm
           x == [w EXCEPT !.junk = junk, !.mem = FALSE, !.new = new]
<1> USE DEF IndInv
<1>1. /\ pc' = [pc EXCEPT ![p] = "free"] /\ vm' = [vm EXCEPT ![p] = u]
      /\ UNCHANGED <<free, state, pid, parent, check, kstack, sz, histVars, hollow>>
  BY DEF Undo, Goto, TypeOK
<1>2. w \in Work /\ vm[p] \in Vm BY DEF TypeOK
<1>3. work' = [work EXCEPT ![p] = x]
  <2>1. CASE w.op = "sbrk"
    <3>1. work' = [work EXCEPT ![p].junk = junk, ![p].mem = FALSE] BY <2>1 DEF Undo
    <3>2. [w EXCEPT !.junk = junk, !.mem = FALSE] = x BY <1>2, <2>1 DEF Work
    <3> QED BY <3>1, <3>2
  <2>2. CASE w.op # "sbrk"
    <3>1. work' = [work EXCEPT ![p].junk = junk, ![p].mem = FALSE, ![p].new = new] BY <2>2 DEF Undo
    <3> QED BY <3>1
  <2> QED BY <2>1, <2>2
<1>4. WorkOk(p) /\ w.new \in Vm /\ Held(w.new) \in Nat /\ w.junk = 0 /\ w.mem \in BOOLEAN
  <2>1. WorkOk(p) BY DEF PageInv
  <2>2. w.new \in Vm /\ Held(w.new) \in Nat /\ w.junk \in Nat /\ w.mem \in BOOLEAN BY WorkType
  <2> QED BY <2>1, <2>2 DEF WorkOk
<1>5. u \in Vm /\ Cardinality(grown) \in Nat
      /\ (w.op = "sbrk" => Held(u) + Cardinality(grown) = Held(vm[p]))
  <2> HIDE DEF G
  <2>1. /\ [vm[p] EXCEPT !.pages = @ \ grown] \in Vm /\ Cardinality(grown) \in Nat
        /\ Held([vm[p] EXCEPT !.pages = @ \ grown]) + Cardinality(grown) = Held(vm[p])
    BY <1>2, HeldLess
  <2> HIDE DEF grown
  <2> QED BY <1>2, <2>1
<1>6. w.op = "sbrk" => new = NoVm BY <1>4 DEF WorkOk
<1>7. new = NoVm BY <1>6
<1>8. NoVm \in Vm /\ Held(NoVm) = 0 BY HeldNone
<1>9. junk \in Nat
  <2> HIDE DEF grown
  <2> QED BY <1>4, <1>5 DEF InHand
<1>10. x \in Work /\ x.junk = junk /\ x.mem = FALSE /\ x.new = NoVm /\ x.op = w.op /\ x.kid = w.kid
  <2> HIDE DEF junk, new
  <2> QED BY <1>2, <1>7, <1>8, <1>9 DEF Work
<1>11. Held(u) + junk = Held(vm[p]) + Held(w.new) + InHand(w)
  <2> HIDE DEF grown
  <2>1. InHand(w) \in Nat BY DEF InHand
  <2>2. CASE w.op = "sbrk"
    <3>1. Held(w.new) = 0 BY <1>6, <1>8, <2>2
    <3>2. Held(u) \in Nat BY <1>5, HeldNat
    <3> HIDE DEF u
    <3> QED BY <1>5, <2>1, <2>2, <3>1, <3>2
  <2>3. CASE w.op # "sbrk"
    <3>1. Held(vm[p]) \in Nat BY <1>2, HeldNat
    <3> QED BY <1>4, <2>1, <2>3, <3>1
  <2> QED BY <2>2, <2>3
<1> HIDE DEF u, junk, new, x, grown, G
<1>12. TypeOK' BY <1>1, <1>3, <1>5, <1>10 DEF TypeOK, histVars
<1>13. /\ work'[p] = x /\ vm'[p] = u /\ pc'[p] = "free" /\ kstack' = kstack /\ free' = free
       /\ \A q \in Slot \ {p} : work'[q] = work[q] /\ vm'[q] = vm[q] /\ pc'[q] = pc[q]
  BY <1>1, <1>3 DEF TypeOK
<1>14. PagesConserved'
  <2>1. Own(p)' = (IF kstack[p] THEN 1 ELSE 0) + Held(u) + Held(x.new) + (IF x.mem THEN 1 ELSE 0) + x.junk
    BY <1>13 DEF Own, Held
  <2>2. Own(p) = (IF kstack[p] THEN 1 ELSE 0) + Held(vm[p]) + Held(w.new) + InHand(w) + w.junk
    BY DEF Own, InHand
  <2>3. Held(u) \in Nat /\ Held(vm[p]) \in Nat BY <1>2, <1>5, HeldNat
  <2>4. Own(p)' = Own(p) BY <1>4, <1>8, <1>9, <1>10, <1>11, <2>1, <2>2, <2>3 DEF InHand
  <2>5. free' + Own(p)' = free + Own(p) BY <1>13, <2>4
  <2>6. \A q \in Slot \ {p} : kstack'[q] = kstack[q] /\ vm'[q] = vm[q] /\ work'[q] = work[q] BY <1>13
  <2> QED BY <1>12, <2>5, <2>6, OneChanged
<1>15. PageInv'
  <2>1. WorkOk(p)' BY <1>10, <1>13 DEF WorkOk
  <2>2. x.op = "fork" => w.op = "fork" /\ x.kid = w.kid BY <1>10
  <2> QED BY <1>1, <1>13, <2>1, <2>2, CallStep
<1> QED BY <1>12, <1>14, <1>15

\* The types that a step of the memory of a process leaves out.
RestOK ==
    /\ nextpid \in Nat /\ hist \in Seq(Nat) /\ ran \subseteq Nat /\ hollow \subseteq Slot
    /\ pid \in [Slot -> Nat] /\ parent \in [Slot -> Slot \cup {None}]
    /\ check \in [Slot -> BOOLEAN] /\ sz \in [Slot -> Nat]
Positions == {"none", "user", "kstack", "setup", "page", "map", "free", "reap", "panic"}
InUse(v, w) == Held(v) + Held(w.new) + (IF w.mem THEN 1 ELSE 0) + w.junk

\* A step inside the call of p that moves pages between the free list, its address space
\* and its hands.
LEMMA CallInv ==
    ASSUME IndInv, NEW p \in Slot, NEW x \in Work, NEW u \in Vm, NEW y \in Positions \ {"none"},
           NEW n \in Nat,
           work' = [work EXCEPT ![p] = x], vm' = [vm EXCEPT ![p] = u], pc' = [pc EXCEPT ![p] = y],
           free' = n, UNCHANGED <<state, kstack>>, RestOK',
           n + InUse(u, x) = free + InUse(vm[p], work[p]),
           pc[p] # "none", y = "reap" <=> pc[p] = "reap", y = "reap" => x.kid = work[p].kid,
           x.op = "fork" => work[p].op = "fork" /\ x.kid = work[p].kid /\ pc[p] # "kstack" /\ y # "kstack",
           WorkOk(p)'
    PROVE  IndInv'
<1> USE DEF IndInv
<1>1. TypeOK' BY DEF TypeOK, RestOK, Positions
<1>2. /\ work'[p] = x /\ vm'[p] = u /\ pc'[p] = y /\ kstack'[p] = kstack[p]
      /\ \A q \in Slot \ {p} : /\ work'[q] = work[q] /\ vm'[q] = vm[q] /\ pc'[q] = pc[q]
                               /\ kstack'[q] = kstack[q]
  BY DEF TypeOK
<1>3. PagesConserved'
  <2> DEFINE k == IF kstack[p] THEN 1 ELSE 0
  <2>1. Own(p)' = k + Held(u) + Held(x.new) + (IF x.mem THEN 1 ELSE 0) + x.junk
    BY <1>2 DEF Own, Held
  <2>2. Own(p) = k + Held(vm[p]) + Held(work[p].new) + (IF work[p].mem THEN 1 ELSE 0) + work[p].junk
    BY DEF Own
  <2>3. /\ Held(u) \in Nat /\ Held(vm[p]) \in Nat /\ Held(x.new) \in Nat /\ Held(work[p].new) \in Nat
        /\ x.junk \in Nat /\ work[p].junk \in Nat /\ free \in Nat /\ k \in Nat
    <3>1. x.new \in Vm /\ x.junk \in Nat BY DEF Work
    <3>2. Held(u) \in Nat /\ Held(x.new) \in Nat BY <3>1, HeldNat
    <3>3. Held(vm[p]) \in Nat /\ Held(work[p].new) \in Nat /\ work[p].junk \in Nat BY WorkType
    <3> QED BY <3>1, <3>2, <3>3 DEF TypeOK
  <2>4. Own(p)' = k + InUse(u, x) /\ InUse(u, x) \in Nat
    <3> HIDE DEF k
    <3> QED BY <2>1, <2>3 DEF InUse
  <2>5. Own(p) = k + InUse(vm[p], work[p]) /\ InUse(vm[p], work[p]) \in Nat
    <3> HIDE DEF k
    <3> QED BY <2>2, <2>3 DEF InUse
  <2>6. free' + Own(p)' = free + Own(p)
    <3> HIDE DEF k
    <3> QED BY <2>3, <2>4, <2>5
  <2> QED BY <1>1, <1>2, <2>6, OneChanged
<1>4. PageInv' BY <1>2, CallStep
<1> QED BY <1>1, <1>3, <1>4

LEMMA Same ==
    ASSUME TypeOK, NEW p \in Slot
    PROVE  /\ vm = [vm EXCEPT ![p] = vm[p]] /\ pc = [pc EXCEPT ![p] = pc[p]]
           /\ work = [work EXCEPT ![p] = work[p]] /\ RestOK
           /\ UNCHANGED <<nextpid, hist, ran, hollow, pid, parent, check, sz>> => RestOK'
  BY DEF TypeOK, RestOK

LEMMA UserWork ==
    ASSUME IndInv, NEW p \in Slot, pc[p] = "user"
    PROVE  /\ work[p] = NoWork /\ work[p] \in Work /\ vm[p] \in Vm /\ free \in Nat /\ state[p] = "LIVE"
           /\ work[p].op = "none" /\ work[p].kid = None /\ work[p].mem = FALSE /\ work[p].junk = 0
           /\ work[p].new = NoVm /\ work[p].va = 0
<1>1. work[p] = NoWork BY DEF IndInv, PageInv, WorkOk
<1>2. work[p] \in Work /\ vm[p] \in Vm /\ free \in Nat BY DEF IndInv, TypeOK
<1>3. state[p] = "LIVE" BY DEF IndInv, PageInv, SlotOk
<1> QED BY <1>1, <1>2, <1>3 DEF NoWork

LEMMA InUseSame ==
    ASSUME NEW v, NEW w, NEW x, x.new = w.new, x.mem = w.mem, x.junk = w.junk
    PROVE  InUse(v, x) = InUse(v, w)
  BY DEF InUse

\* A step inside a call that moves no page.
LEMMA QuietInv ==
    ASSUME IndInv, NEW p \in Slot, NEW x \in Work, NEW y \in Positions \ {"none", "reap"},
           x.new = work[p].new, x.mem = work[p].mem, x.junk = work[p].junk,
           work' = [work EXCEPT ![p] = x], pc' = [pc EXCEPT ![p] = y],
           UNCHANGED <<free, vm, state, kstack>>, RestOK',
           pc[p] \notin {"none", "reap"},
           x.op = "fork" => work[p].op = "fork" /\ x.kid = work[p].kid /\ pc[p] # "kstack" /\ y # "kstack",
           WorkOk(p)'
    PROVE  IndInv'
<1>1. vm[p] \in Vm /\ free \in Nat /\ vm' = [vm EXCEPT ![p] = vm[p]] /\ free' = free BY Same DEF IndInv, TypeOK
<1>2. InUse(vm[p], x) = InUse(vm[p], work[p]) BY ONLY x.new = work[p].new, x.mem = work[p].mem,
        x.junk = work[p].junk, InUseSame, Zenon
<1>3. free + InUse(vm[p], x) = free + InUse(vm[p], work[p]) BY <1>2
<1> QED BY <1>1, <1>3, CallInv

LEMMA ExecBeginInv ==
    ASSUME IndInv, NEW p \in Slot, NEW n \in Image, ExecBegin(p, n)
    PROVE  IndInv'
<1> USE DEF IndInv
<1> DEFINE x == [work[p] EXCEPT !.op = "exec", !.goal = n]
<1>1. pc[p] = "user" BY DEF ExecBegin, At
<1>2. n \in Nat BY MemoryAssumption
<1>3. /\ x \in Work /\ x.op = "exec" /\ x.mem = work[p].mem /\ x.junk = work[p].junk
      /\ x.new = work[p].new
  BY <1>1, <1>2, UserWork DEF Work
<1>a. work[p].mem = FALSE /\ work[p].junk = 0 /\ work[p].new = NoVm BY <1>1, UserWork
<1>4. /\ work' = [work EXCEPT ![p] = x] /\ pc' = [pc EXCEPT ![p] = "setup"]
      /\ UNCHANGED <<free, procVars, histVars, hollow>>
  BY DEF ExecBegin, Goto
<1> HIDE DEF x
<1>5. RestOK' /\ UNCHANGED <<free, vm, state, kstack>> BY <1>4, Same DEF procVars, histVars
<1>6. work'[p] = x /\ pc'[p] = "setup" BY <1>4 DEF TypeOK
<1>7. WorkOk(p)' BY <1>a, <1>3, <1>6 DEF WorkOk
<1>8. "setup" \in Positions \ {"none", "reap"} BY DEF Positions
<1> QED BY <1>1, <1>3, <1>4, <1>5, <1>7, <1>8, QuietInv

\* setupkvm()
LEMMA SetupInv ==
    ASSUME IndInv, NEW p \in Slot, Setup(p)
    PROVE  IndInv'
<1> USE DEF IndInv
<1>1. pc[p] = "setup" BY DEF Setup, At
<1>2. CASE free = 0
  <2>1. Undo(p) BY <1>2 DEF Setup
  <2> QED BY <1>1, <2>1, UndoInv
<1>3. CASE free # 0
  <2> DEFINE w == work[p].new
             v == IF w.dir THEN [w EXCEPT !.ktab = @ + 1] ELSE [w EXCEPT !.dir = TRUE]
             x == [work[p] EXCEPT !.new = v]
             y == IF v.ktab = KTABS THEN "page" ELSE "setup"
  <2>1. /\ free' = free - 1 /\ work' = [work EXCEPT ![p] = x] /\ pc' = [pc EXCEPT ![p] = y]
        /\ UNCHANGED <<procVars, histVars, hollow>>
    BY <1>3 DEF Setup, Goto
  <2>2. w \in Vm /\ work[p] \in Work /\ vm[p] \in Vm /\ free \in Nat /\ WorkOk(p)
    BY WorkType DEF TypeOK, PageInv
  <2>3. v \in Vm /\ Held(v) = Held(w) + 1
    <3>1. w.dir \in BOOLEAN BY <2>2, HeldNat
    <3> QED BY <2>2, <3>1, HeldSetup
  <2> HIDE DEF v
  <2>4. /\ x \in Work /\ x.new = v /\ x.op = work[p].op /\ x.kid = work[p].kid
        /\ x.mem = work[p].mem /\ x.junk = work[p].junk
    BY <2>2, <2>3 DEF Work
  <2>5. work[p].op \in {"fork", "exec"} /\ work[p].mem = FALSE /\ work[p].junk = 0
    <3>1. work[p].mem \in BOOLEAN /\ work[p].junk \in Nat BY WorkType
    <3> QED BY <1>1, <2>2, <3>1 DEF WorkOk
  <2> HIDE DEF x
  <2>6. free - 1 \in Nat /\ (free - 1) + InUse(vm[p], x) = free + InUse(vm[p], work[p])
    <3>1. Held(vm[p]) \in Nat /\ Held(w) \in Nat BY <2>2, HeldNat
    <3>2. InUse(vm[p], x) = Held(vm[p]) + (Held(w) + 1) + 0 + 0 BY <2>3, <2>4, <2>5 DEF InUse
    <3>3. InUse(vm[p], work[p]) = Held(vm[p]) + Held(w) + 0 + 0 BY <2>5 DEF InUse
    <3> HIDE DEF w
    <3> QED BY <1>3, <2>2, <3>1, <3>2, <3>3
  <2>7. y \in {"page", "setup"} /\ y \in Positions \ {"none"} BY DEF Positions
  <2> HIDE DEF y
  <2>8. RestOK' /\ vm' = [vm EXCEPT ![p] = vm[p]] /\ UNCHANGED <<state, kstack>>
    BY <2>1, Same DEF procVars, histVars
  <2>9. work'[p] = x /\ pc'[p] = y BY <2>1 DEF TypeOK
  <2>10. WorkOk(p)' BY <2>4, <2>5, <2>7, <2>9 DEF WorkOk
  <2> QED BY <1>1, <2>1, <2>2, <2>4, <2>6, <2>7, <2>8, <2>10, CallInv
<1> QED BY <1>2, <1>3

LEMMA PanicInv ==
    ASSUME IndInv, NEW p \in Slot, pc[p] \in {"page", "map"}, Panic(p)
    PROVE  IndInv'
<1> USE DEF IndInv
<1>1. pc' = [pc EXCEPT ![p] = "panic"] /\ UNCHANGED <<free, procVars, histVars, work, hollow>>
  BY DEF Panic, Goto
<1>2. RestOK' /\ vm' = [vm EXCEPT ![p] = vm[p]] /\ work' = [work EXCEPT ![p] = work[p]]
      /\ UNCHANGED <<state, kstack>>
  BY <1>1, Same DEF procVars, histVars
<1>3. work'[p] = work[p] /\ pc'[p] = "panic" BY <1>1 DEF TypeOK
<1>4. WorkOk(p) /\ work[p] \in Work /\ vm[p] \in Vm /\ free \in Nat BY DEF PageInv, TypeOK
<1>5. work[p].junk = 0
  <2>1. work[p].junk \in Nat BY WorkType
  <2> QED BY <1>4, <2>1 DEF WorkOk
<1>6. work[p].op \in {"fork", "exec", "stack", "sbrk"} BY <1>4 DEF WorkOk
<1>7. WorkOk(p)' BY <1>3, <1>4, <1>5, <1>6 DEF WorkOk
<1>8. "panic" \in Positions \ {"none"} BY DEF Positions
<1>9. free + InUse(vm[p], work[p]) = free + InUse(vm[p], work[p]) OBVIOUS
<1>10. pc[p] # "none" /\ pc[p] # "reap" /\ pc[p] # "kstack" OBVIOUS
<1> QED BY <1>1, <1>2, <1>4, <1>7, <1>8, <1>9, <1>10, CallInv

\* The loop of allocuvm() and copyuvm().
LEMMA AllocPageInv ==
    ASSUME IndInv, NEW p \in Slot, AllocPage(p)
    PROVE  IndInv'
<1> USE DEF IndInv
<1>1. pc[p] = "page" /\ work[p].va < work[p].goal /\ work[p].goal < KERNBASE BY DEF AllocPage, AtPage, At
<1>2. CASE Missing(p) BY <1>1, <1>2, PanicInv DEF AllocPage
<1>3. CASE ~Missing(p) /\ free = 0
  <2>1. Undo(p) BY <1>3 DEF AllocPage
  <2> QED BY <1>1, <2>1, UndoInv
<1>4. CASE ~Missing(p) /\ free # 0
  <2> DEFINE x == [work[p] EXCEPT !.mem = TRUE]
  <2>1. /\ free' = free - 1 /\ work' = [work EXCEPT ![p] = x] /\ pc' = [pc EXCEPT ![p] = "map"]
        /\ UNCHANGED <<procVars, histVars, hollow>>
    BY <1>4 DEF AllocPage, Goto
  <2>2. work[p] \in Work /\ vm[p] \in Vm /\ free \in Nat /\ WorkOk(p) BY DEF TypeOK, PageInv
  <2>3. work[p].op \in {"fork", "exec", "stack", "sbrk"} /\ work[p].mem = FALSE /\ work[p].junk = 0
    <3>1. work[p].mem \in BOOLEAN /\ work[p].junk \in Nat BY WorkType
    <3> QED BY <1>1, <2>2, <3>1 DEF WorkOk
  <2>4. /\ x \in Work /\ x.mem = TRUE /\ x.new = work[p].new /\ x.op = work[p].op /\ x.kid = work[p].kid
        /\ x.junk = 0 /\ x.va = work[p].va /\ x.goal = work[p].goal
    BY <2>2, <2>3 DEF Work
  <2> HIDE DEF x
  <2>5. free - 1 \in Nat /\ (free - 1) + InUse(vm[p], x) = free + InUse(vm[p], work[p])
    <3>1. Held(vm[p]) \in Nat /\ Held(work[p].new) \in Nat BY WorkType
    <3>2. InUse(vm[p], x) = Held(vm[p]) + Held(work[p].new) + 1 + 0 BY <2>4 DEF InUse
    <3>3. InUse(vm[p], work[p]) = Held(vm[p]) + Held(work[p].new) + 0 + 0 BY <2>3 DEF InUse
    <3> QED BY <1>4, <2>2, <3>1, <3>2, <3>3
  <2>6. RestOK' /\ vm' = [vm EXCEPT ![p] = vm[p]] /\ UNCHANGED <<state, kstack>>
    BY <2>1, Same DEF procVars, histVars
  <2>7. work'[p] = x /\ pc'[p] = "map" BY <2>1 DEF TypeOK
  <2>8. WorkOk(p)' BY <1>1, <2>2, <2>3, <2>4, <2>7 DEF WorkOk
  <2>9. "map" \in Positions \ {"none"} BY DEF Positions
  <2> QED BY <1>1, <2>1, <2>2, <2>4, <2>5, <2>6, <2>8, <2>9, CallInv
<1> QED BY <1>2, <1>3, <1>4

LEMMA MapPageInv ==
    ASSUME IndInv, NEW p \in Slot, MapPage(p)
    PROVE  IndInv'
<1> DEFINE w == work[p]
           target == IF w.op = "sbrk" THEN vm[p] ELSE w.new
           i == w.va \div PGSIZE
           table == IF i \div SPAN \in target.tables THEN 0 ELSE 1
           next == [w EXCEPT !.mem = FALSE, !.va = @ + PGSIZE]
           v == Mapped(target, i)
           x == IF w.op = "sbrk" THEN next ELSE [next EXCEPT !.new = v]
           u == IF w.op = "sbrk" THEN v ELSE vm[p]
<1> USE DEF IndInv
<1>1. pc[p] = "map" BY DEF MapPage, At
<1>2. CASE free < table
  <2>1. Undo(p) BY <1>2 DEF MapPage
  <2> QED BY <1>1, <2>1, UndoInv
<1>3. CASE ~(free < table) /\ i \in target.pages
  <2>1. Panic(p) BY <1>3 DEF MapPage
  <2> QED BY <1>1, <2>1, PanicInv
<1>4. CASE ~(free < table) /\ i \notin target.pages
  <2>1. /\ free' = free - table /\ pc' = [pc EXCEPT ![p] = "page"]
        /\ UNCHANGED <<state, pid, parent, check, kstack, sz, histVars, hollow>>
    BY <1>4 DEF MapPage, Goto
  <2>2. w \in Work /\ w.new \in Vm /\ vm[p] \in Vm /\ free \in Nat /\ WorkOk(p)
        /\ w.va \in Nat /\ w.goal \in Nat /\ w.junk \in Nat /\ w.mem \in BOOLEAN
    BY WorkType DEF TypeOK, PageInv
  <2>3. work' = [work EXCEPT ![p] = x] /\ vm' = [vm EXCEPT ![p] = u]
    <3>1. CASE w.op = "sbrk" BY <1>4, <3>1 DEF MapPage
    <3>2. CASE w.op # "sbrk"
      <4>1. vm' = vm /\ work' = [work EXCEPT ![p] = [next EXCEPT !.new = Mapped(@, i)]] BY <1>4, <3>2 DEF MapPage
      <4>2. next.new = w.new BY <2>2 DEF Work
      <4>3. [next EXCEPT !.new = Mapped(@, i)] = x BY <3>2, <4>2
      <4> QED BY <3>2, <4>1, <4>3, Same
    <3> QED BY <3>1, <3>2
  <2>4. w.op \in {"fork", "exec", "stack", "sbrk"} /\ w.mem = TRUE /\ w.junk = 0
        /\ w.va < w.goal /\ w.goal < KERNBASE
    BY <1>1, <2>2 DEF WorkOk
  <2>5. target \in Vm BY <2>2
  <2>6. i \in UserPage /\ i \div SPAN \in UserPage
    <3>1. w.va < KERNBASE BY <2>2, <2>4, MemoryAssumption
    <3> QED BY <2>2, <3>1, PageOf
  <2>7. v \in Vm /\ Held(v) = Held(target) + 1 + table
    <3> HIDE DEF target, i
    <3>1. Held(v) = Held(target) + 1 + (IF i \div SPAN \in target.tables THEN 0 ELSE 1) /\ v \in Vm
      BY <1>4, <2>5, <2>6, HeldMapped
    <3>2. Held(target) \in Nat BY <2>5, HeldNat
    <3> QED BY <3>1, <3>2
  <2>8. table \in {0, 1} OBVIOUS
  <2> HIDE DEF table, v
  <2>9. w.va + PGSIZE \in Nat BY <2>2, MemoryAssumption
  <2>10. /\ next \in Work /\ next.mem = FALSE /\ next.junk = 0 /\ next.op = w.op /\ next.kid = w.kid
         /\ next.new = w.new
    BY <2>2, <2>4, <2>9 DEF Work
  <2> HIDE DEF next
  <2>11. /\ x \in Work /\ x.mem = FALSE /\ x.junk = 0 /\ x.op = w.op /\ x.kid = w.kid
         /\ x.new = IF w.op = "sbrk" THEN w.new ELSE v
    BY <2>7, <2>10 DEF Work
  <2>12. u \in Vm BY <2>2, <2>7
  <2> HIDE DEF x
  <2>13. free - table \in Nat /\ (free - table) + InUse(u, x) = free + InUse(vm[p], w)
    <3>1. Held(vm[p]) \in Nat /\ Held(w.new) \in Nat /\ Held(v) \in Nat BY <2>2, <2>7, HeldNat
    <3>2. InUse(vm[p], w) = Held(vm[p]) + Held(w.new) + 1 + 0 BY <2>4 DEF InUse
    <3>3. CASE w.op = "sbrk"
      <4>1. InUse(u, x) = Held(v) + Held(w.new) + 0 + 0 BY <2>11, <3>3 DEF InUse
      <4>2. Held(v) = Held(vm[p]) + 1 + table BY <2>7, <3>3
      <4> HIDE DEF w
      <4> QED BY <1>4, <2>2, <2>8, <3>1, <3>2, <4>1, <4>2
    <3>4. CASE w.op # "sbrk"
      <4>1. InUse(u, x) = Held(vm[p]) + Held(v) + 0 + 0 BY <2>11, <3>4 DEF InUse
      <4>2. Held(v) = Held(w.new) + 1 + table BY <2>7, <3>4
      <4> HIDE DEF w
      <4> QED BY <1>4, <2>2, <2>8, <3>1, <3>2, <4>1, <4>2
    <3> QED BY <3>3, <3>4
  <2> HIDE DEF u
  <2>14. RestOK' /\ UNCHANGED <<state, kstack>> BY <2>1, Same DEF histVars
  <2>15. work'[p] = x /\ pc'[p] = "page" BY <2>1, <2>3 DEF TypeOK
  <2>16. WorkOk(p)'
    <3>1. w.new # NoVm => w.op \in {"fork", "exec", "stack"} BY <2>2 DEF WorkOk
    <3> QED BY <2>4, <2>11, <2>15, <3>1 DEF WorkOk
  <2>17. "page" \in Positions \ {"none"} BY DEF Positions
  <2> QED BY <1>1, <2>1, <2>3, <2>11, <2>12, <2>13, <2>14, <2>16, <2>17, CallInv
<1> QED BY <1>2, <1>3, <1>4

LEMMA TooBigInv ==
    ASSUME IndInv, NEW p \in Slot, TooBig(p) \/ ExecFails(p)
    PROVE  IndInv'
<1>1. Undo(p) /\ pc[p] = "page" BY DEF TooBig, ExecFails, AtPage, LoopDone, At
<1> QED BY <1>1, UndoInv

\* A process at the head of its loop has nothing in hand but the page table it builds.
LEMMA LoopWork ==
    ASSUME IndInv, NEW p \in Slot, pc[p] = "page"
    PROVE  /\ work[p] \in Work /\ vm[p] \in Vm /\ work[p].mem = FALSE /\ work[p].junk = 0
           /\ work[p].new \in Vm /\ work[p].goal \in Nat /\ work[p].va \in Nat
           /\ work[p].op = "sbrk" => work[p].new = NoVm
<1>1. WorkOk(p) /\ work[p] \in Work BY DEF IndInv, PageInv, TypeOK
<1>2. work[p].mem \in BOOLEAN /\ work[p].junk \in Nat /\ vm[p] \in Vm
      /\ work[p].new \in Vm /\ work[p].goal \in Nat /\ work[p].va \in Nat
  BY WorkType DEF IndInv
<1> QED BY <1>1, <1>2 DEF WorkOk

LEMMA RoundNat ==
    ASSUME NEW a \in Nat
    PROVE  PGROUNDUP(a) \in Nat
<1>1. PICK P \in Nat : P = PGSIZE /\ P > 0 BY MemoryAssumption
<1>2. PICK d \in Nat : d = (a + P - 1) \div P
  <2>1. a + P - 1 \in Nat BY <1>1
  <2>2. (a + P - 1) \div P \in Nat BY <1>1, <2>1
  <2> QED BY <2>2
<1>3. PGROUNDUP(a) = d * P BY <1>1, <1>2 DEF PGROUNDUP
<1> QED BY <1>1, <1>3

LEMMA ExecStackInv ==
    ASSUME IndInv, NEW p \in Slot, ExecStack(p)
    PROVE  IndInv'
<1> USE DEF IndInv
<1>1. pc[p] = "page" /\ work[p].op = "exec" BY DEF ExecStack, LoopDone, At
<1> PICK n : n = PGROUNDUP(work[p].goal) + 2 * PGSIZE OBVIOUS
<1> DEFINE x == [work[p] EXCEPT !.op = "stack", !.goal = n]
<1>2. n \in Nat
  <2>1. PGROUNDUP(work[p].goal) \in Nat BY <1>1, LoopWork, RoundNat
  <2>2. PGSIZE \in Nat BY MemoryAssumption
  <2> QED BY <2>1, <2>2
<1>3. /\ x \in Work /\ x.op = "stack" /\ x.mem = work[p].mem /\ x.junk = work[p].junk
      /\ x.new = work[p].new
  BY <1>1, <1>2, LoopWork DEF Work
<1>4. work[p].mem = FALSE /\ work[p].junk = 0 BY <1>1, LoopWork
<1>5. work' = [work EXCEPT ![p] = x] /\ UNCHANGED <<free, procVars, histVars, pc, hollow>>
  <2>1. work' = [work EXCEPT ![p].op = "stack", ![p].goal = PGROUNDUP(@) + 2 * PGSIZE]
        /\ UNCHANGED <<free, procVars, histVars, pc, hollow>>
    BY DEF ExecStack
  <2>2. work[p] \in Work BY <1>1, LoopWork
  <2>3. [work[p] EXCEPT !.op = "stack", !.goal = PGROUNDUP(@) + 2 * PGSIZE] = x BY <2>2 DEF Work
  <2>4. work' = [work EXCEPT ![p] = [work[p] EXCEPT !.op = "stack", !.goal = PGROUNDUP(@) + 2 * PGSIZE]]
    BY <2>1, <2>2 DEF TypeOK, Work
  <2> QED BY <2>1, <2>3, <2>4
<1> HIDE DEF x
<1>6. RestOK' /\ UNCHANGED <<free, vm, state, kstack>> BY <1>5, Same DEF procVars, histVars
<1>7. work'[p] = x /\ pc'[p] = "page" /\ pc' = [pc EXCEPT ![p] = "page"] BY <1>1, <1>5 DEF TypeOK
<1>8. WorkOk(p)' BY <1>3, <1>4, <1>7 DEF WorkOk
<1>9. "page" \in Positions \ {"none", "reap"} BY DEF Positions
<1> QED BY <1>1, <1>3, <1>5, <1>6, <1>7, <1>8, <1>9, QuietInv

LEMMA NoWorkOk ==
    /\ NoWork \in Work /\ NoWork.new = NoVm /\ NoWork.mem = FALSE /\ NoWork.junk = 0
    /\ NoWork.op = "none" /\ NoWork.kid = None
<1>1. NoVm \in Vm BY HeldNone
<1> QED BY <1>1 DEF NoWork, Work

LEMMA GrowInv ==
    ASSUME IndInv, NEW p \in Slot, NEW n \in Delta, Grow(p, n)
    PROVE  IndInv'
<1> USE DEF IndInv
<1>1. pc[p] = "user" BY DEF Grow, At
<1> PICK goal, va : goal = NewSize(p, n) /\ va = PGROUNDUP(sz[p]) OBVIOUS
<1> DEFINE x == [work[p] EXCEPT !.op = "sbrk", !.goal = goal, !.va = va]
<1>2. goal \in Nat /\ va \in Nat
  <2>1. sz[p] \in Nat /\ n \in Int /\ UINT \in Nat /\ UINT > 0 BY MemoryAssumption DEF TypeOK
  <2>2. (sz[p] + n) % UINT \in Nat BY <2>1
  <2> QED BY <2>1, <2>2, RoundNat DEF NewSize
<1>3. /\ x \in Work /\ x.op = "sbrk" /\ x.mem = work[p].mem /\ x.junk = work[p].junk
      /\ x.new = work[p].new
  BY <1>1, <1>2, UserWork DEF Work
<1>4. work[p].mem = FALSE /\ work[p].junk = 0 /\ work[p].new = NoVm BY <1>1, UserWork
<1>5. /\ work' = [work EXCEPT ![p] = x] /\ pc' = [pc EXCEPT ![p] = "page"]
      /\ UNCHANGED <<free, procVars, histVars, hollow>>
  BY DEF Grow, Goto
<1> HIDE DEF x
<1>6. RestOK' /\ UNCHANGED <<free, vm, state, kstack>> BY <1>5, Same DEF procVars, histVars
<1>7. work'[p] = x /\ pc'[p] = "page" BY <1>5 DEF TypeOK
<1>8. WorkOk(p)' BY <1>3, <1>4, <1>7 DEF WorkOk
<1>9. "page" \in Positions \ {"none", "reap"} BY DEF Positions
<1> QED BY <1>1, <1>3, <1>5, <1>6, <1>8, <1>9, QuietInv

LEMMA GrowDoneInv ==
    ASSUME IndInv, NEW p \in Slot, GrowDone(p)
    PROVE  IndInv'
<1> USE DEF IndInv
<1>1. pc[p] = "page" /\ work[p].op = "sbrk" BY DEF GrowDone, LoopDone, At
<1>2. /\ work' = [work EXCEPT ![p] = NoWork] /\ pc' = [pc EXCEPT ![p] = "user"]
      /\ sz' = [sz EXCEPT ![p] = work[p].goal]
      /\ UNCHANGED <<free, state, pid, parent, check, kstack, vm, histVars, hollow>>
  BY DEF GrowDone, Return, Goto
<1>3. work[p].new = NoVm /\ work[p].mem = FALSE /\ work[p].junk = 0 /\ work[p].goal \in Nat
  BY <1>1, LoopWork
<1>4. RestOK' /\ UNCHANGED <<free, vm, state, kstack>>
  BY <1>2, <1>3 DEF histVars, TypeOK, RestOK
<1>5. work'[p] = NoWork /\ pc'[p] = "user" BY <1>2 DEF TypeOK
<1>6. WorkOk(p)' BY <1>5, NoWorkOk DEF WorkOk
<1>7. "user" \in Positions \ {"none", "reap"} BY DEF Positions
<1>8. /\ NoWork.new = work[p].new /\ NoWork.mem = work[p].mem /\ NoWork.junk = work[p].junk
      /\ NoWork \in Work /\ NoWork.op # "fork"
  BY <1>3, NoWorkOk
<1> QED BY <1>1, <1>2, <1>4, <1>6, <1>7, <1>8, QuietInv

\* The sum that both sides of an exchange add up to.
LEMMA InUseOf ==
    ASSUME NEW v \in Vm, NEW w \in Work
    PROVE  /\ InUse(v, w) = Held(v) + Held(w.new) + (IF w.mem THEN 1 ELSE 0) + w.junk
           /\ Held(v) \in Nat /\ Held(w.new) \in Nat /\ w.junk \in Nat /\ w.mem \in BOOLEAN
           /\ w.mem = FALSE => InUse(v, w) = Held(v) + Held(w.new) + w.junk
<1>1. w.new \in Vm /\ w.junk \in Nat /\ w.mem \in BOOLEAN BY DEF Work
<1>2. Held(v) \in Nat /\ Held(w.new) \in Nat BY <1>1, HeldNat
<1> QED BY <1>1, <1>2 DEF InUse

LEMMA ExecDoneInv ==
    ASSUME IndInv, NEW p \in Slot, ExecDone(p)
    PROVE  IndInv'
<1> USE DEF IndInv
<1>1. pc[p] = "page" /\ work[p].op = "stack" BY DEF ExecDone, LoopDone, At
<1>2. /\ work[p] \in Work /\ vm[p] \in Vm /\ work[p].mem = FALSE /\ work[p].junk = 0
      /\ work[p].new \in Vm /\ work[p].goal \in Nat
  BY <1>1, LoopWork
<1> PICK n : n = Held(vm[p]) OBVIOUS
<1> DEFINE x == [work[p] EXCEPT !.junk = n, !.new = NoVm]
<1>3. n \in Nat /\ NoVm \in Vm /\ Held(NoVm) = 0 BY <1>2, HeldNat, HeldNone
<1>4. x \in Work /\ x.op = "stack" /\ x.mem = FALSE /\ x.junk = n /\ x.new = NoVm
  BY <1>1, <1>2, <1>3 DEF Work
<1>5. /\ work' = [work EXCEPT ![p] = x] /\ pc' = [pc EXCEPT ![p] = "free"]
      /\ vm' = [vm EXCEPT ![p] = work[p].new] /\ sz' = [sz EXCEPT ![p] = work[p].goal]
      /\ check' = [check EXCEPT ![p] = TRUE]
      /\ ran' = ran \cup {pid[p]} /\ hollow' = hollow \ {p}
      /\ UNCHANGED <<free, state, pid, parent, kstack, nextpid, hist>>
  BY DEF ExecDone, Goto
<1> HIDE DEF x
<1>6. RestOK' BY <1>2, <1>5 DEF TypeOK, RestOK
<1>7. work'[p] = x /\ pc'[p] = "free" BY <1>5 DEF TypeOK
<1>8. WorkOk(p)' BY <1>4, <1>7 DEF WorkOk
<1>9. free \in Nat /\ free + InUse(work[p].new, x) = free + InUse(vm[p], work[p])
  <2>1. InUse(work[p].new, x) = Held(work[p].new) + 0 + n BY <1>2, <1>3, <1>4, InUseOf
  <2>2. InUse(vm[p], work[p]) = n + Held(work[p].new) + 0 BY <1>2, InUseOf
  <2>3. Held(work[p].new) \in Nat /\ free \in Nat BY <1>2, HeldNat DEF TypeOK
  <2> QED BY <1>3, <2>1, <2>2, <2>3
<1>10. "free" \in Positions \ {"none"} BY DEF Positions
<1> QED BY <1>1, <1>2, <1>4, <1>5, <1>6, <1>8, <1>9, <1>10, CallInv

LEMMA ShrinkInv ==
    ASSUME IndInv, NEW p \in Slot, NEW n \in Delta, Shrink(p, n)
    PROVE  IndInv'
<1> USE DEF IndInv
<1>1. pc[p] = "user" BY DEF Shrink, At
<1> PICK s, gone : s = NewSize(p, n) /\ gone = vm[p].pages \cap PagesIn(s, sz[p]) OBVIOUS
<1> PICK j : j = Cardinality(gone) OBVIOUS
<1> DEFINE x == [work[p] EXCEPT !.op = "shrink", !.junk = j]
           u == [vm[p] EXCEPT !.pages = @ \ gone]
<1>2. work[p] \in Work /\ vm[p] \in Vm /\ free \in Nat /\ work[p].mem = FALSE /\ work[p].junk = 0
      /\ work[p].new = NoVm
  BY <1>1, UserWork
<1>3. u \in Vm /\ j \in Nat /\ Held(u) + j = Held(vm[p]) BY <1>2, HeldLess, Zenon
<1>4. s \in Nat
  <2>1. sz[p] \in Nat /\ n \in Int /\ UINT \in Nat /\ UINT > 0 BY MemoryAssumption DEF TypeOK
  <2>2. (sz[p] + n) % UINT \in Nat BY <2>1
  <2> QED BY <2>1, <2>2 DEF NewSize
<1>5. x \in Work /\ x.op = "shrink" /\ x.mem = FALSE /\ x.junk = j /\ x.new = NoVm
  BY <1>2, <1>3 DEF Work
<1>6. /\ work' = [work EXCEPT ![p] = x] /\ pc' = [pc EXCEPT ![p] = "free"]
      /\ vm' = [vm EXCEPT ![p] = u]
      /\ IF s = 0 THEN hollow' = hollow \cup {p} /\ UNCHANGED sz
                  ELSE sz' = [sz EXCEPT ![p] = s] /\ UNCHANGED hollow
      /\ UNCHANGED <<free, state, pid, parent, check, kstack, histVars>>
  BY DEF Shrink, Goto
<1> HIDE DEF x, u
<1>7. RestOK'
  <2>1. sz' \in [Slot -> Nat] /\ hollow' \subseteq Slot BY <1>4, <1>6 DEF TypeOK
  <2> QED BY <1>6, <2>1 DEF TypeOK, RestOK, histVars
<1>8. work'[p] = x /\ pc'[p] = "free" BY <1>6 DEF TypeOK
<1>9. WorkOk(p)' BY <1>5, <1>8 DEF WorkOk
<1>10. free + InUse(u, x) = free + InUse(vm[p], work[p])
  <2>1. InUse(u, x) = Held(u) + Held(NoVm) + j BY <1>3, <1>5, InUseOf
  <2>2. InUse(vm[p], work[p]) = Held(vm[p]) + Held(NoVm) + 0 BY <1>2, InUseOf
  <2>3. Held(NoVm) = 0 /\ Held(u) \in Nat /\ Held(vm[p]) \in Nat BY <1>2, <1>3, HeldNat, HeldNone
  <2> QED BY <1>2, <1>3, <2>1, <2>2, <2>3
<1>11. "free" \in Positions \ {"none"} BY DEF Positions
<1> QED BY <1>1, <1>2, <1>3, <1>5, <1>6, <1>7, <1>9, <1>10, <1>11, CallInv

LEMMA KfreeInv ==
    ASSUME IndInv, NEW p \in Slot, Kfree(p)
    PROVE  IndInv'
<1> USE DEF IndInv
<1>1. pc[p] \in {"free", "reap"} /\ work[p].junk > 0 BY DEF Kfree
<1> PICK j, y, n, u : j = work[p].junk - 1 /\ y = pc[p] /\ n = free + 1 /\ u = vm[p] OBVIOUS
<1> DEFINE x == [work[p] EXCEPT !.junk = j]
<1>2. work[p] \in Work /\ vm[p] \in Vm /\ free \in Nat /\ WorkOk(p) /\ work[p].junk \in Nat
      /\ work[p].mem \in BOOLEAN
  BY WorkType DEF TypeOK, PageInv
<1>3. j \in Nat /\ work[p].junk = j + 1 BY <1>1, <1>2
<1>4. /\ x \in Work /\ x.op = work[p].op /\ x.kid = work[p].kid /\ x.mem = work[p].mem /\ x.junk = j
      /\ x.new = work[p].new
  BY <1>2, <1>3 DEF Work
<1>5. work[p].mem = FALSE /\ work[p].new = NoVm BY <1>1, <1>2 DEF WorkOk
<1>6. /\ work' = [work EXCEPT ![p] = x] /\ free' = n
      /\ UNCHANGED <<procVars, histVars, pc, hollow>>
  BY <1>2 DEF Kfree, TypeOK, Work
<1> HIDE DEF x
<1>7. RestOK' /\ vm' = [vm EXCEPT ![p] = u] /\ u \in Vm /\ pc' = [pc EXCEPT ![p] = y]
      /\ UNCHANGED <<state, kstack>>
  BY <1>2, <1>6, Same DEF procVars, histVars
<1>8. work'[p] = x /\ pc'[p] = y BY <1>6 DEF TypeOK
<1>9. WorkOk(p)' BY <1>1, <1>2, <1>4, <1>5, <1>8 DEF WorkOk
<1>10. n \in Nat /\ n + InUse(u, x) = free + InUse(vm[p], work[p])
  <2>1. InUse(vm[p], x) = Held(vm[p]) + Held(work[p].new) + j BY <1>2, <1>4, <1>5, InUseOf
  <2>2. InUse(vm[p], work[p]) = Held(vm[p]) + Held(work[p].new) + (j + 1) BY <1>2, <1>3, <1>5, InUseOf
  <2>3. PICK a \in Nat, b \in Nat : a = Held(vm[p]) /\ b = Held(work[p].new)
    <3>1. Held(vm[p]) \in Nat /\ Held(work[p].new) \in Nat BY WorkType
    <3> QED BY <3>1
  <2>4. PICK c, d : c = InUse(u, x) /\ c = InUse(vm[p], x) /\ d = InUse(vm[p], work[p]) OBVIOUS
  <2>a. c = a + b + j BY <2>1, <2>3, <2>4, Zenon
  <2>b. d = a + b + (j + 1) BY <2>2, <2>3, <2>4, Zenon
  <2>5. c \in Nat /\ d = c + 1 BY ONLY <1>3, <2>a, <2>b
  <2>6. free \in Nat BY <1>2
  <2>7. n \in Nat /\ n + c = free + d BY <2>5, <2>6
  <2> QED BY <2>4, <2>7, Zenon
<1>11. y \in Positions \ {"none"} /\ y = pc[p] /\ pc[p] # "none" BY <1>1 DEF Positions
<1>12. /\ y = "reap" <=> pc[p] = "reap"
       /\ y = "reap" => x.kid = work[p].kid
       /\ x.op = "fork" => work[p].op = "fork" /\ x.kid = work[p].kid /\ pc[p] # "kstack" /\ y # "kstack"
  BY <1>1, <1>4
<1> QED BY <1>4, <1>6, <1>7, <1>9, <1>10, <1>11, <1>12, CallInv

\* A step that leaves the pages where they are.
LEMMA PagesSame ==
    ASSUME TypeOK, TypeOK', PagesConserved, UNCHANGED <<free, kstack, vm>>,
           \A q \in Slot : /\ work'[q].new = work[q].new /\ work'[q].mem = work[q].mem
                           /\ work'[q].junk = work[q].junk
    PROVE  PagesConserved'
<1>1. \A q \in Slot : Own(q)' = Own(q) BY DEF Own, Held
<1>2. Owned' = Owned BY <1>1 DEF Owned
<1>3. Total(Owned)' = Total(Owned) BY <1>2 DEF Total
<1> QED BY <1>3 DEF PagesConserved, Owned

\* The invariant survives a step that changes no slot's pages, calls or life.
LEMMA RestInv ==
    ASSUME IndInv, UNCHANGED <<free, state, kstack, vm, pc, work>>, RestOK'
    PROVE  IndInv'
<1>1. TypeOK' BY DEF IndInv, TypeOK, RestOK
<1>2. PageInv' BY DEF IndInv, PageInv, WorkOk, SlotOk, KidOk, OneOwner
<1>3. PagesConserved' BY <1>1, PagesSame DEF IndInv
<1> QED BY <1>1, <1>2, <1>3 DEF IndInv

\* The steps of fork(), exit() and wait() that change the life of a slot q.
LEMMA SlotStep ==
    ASSUME PageInv, NEW p \in Slot, NEW q \in Slot, state[p] = "LIVE",
           \A r \in Slot \ {p} : work'[r] = work[r],
           \A r \in Slot \ {p, q} : /\ pc'[r] = pc[r] /\ state'[r] = state[r]
                                    /\ kstack'[r] = kstack[r] /\ vm'[r] = vm[r],
           \A r \in Slot \ {p} : work[r].op = "fork" \/ pc[r] = "reap" => work[r].kid # q,
           pc[p] = "reap" => work[p].kid = q,
           work'[p].op = "fork" => work'[p].kid = q,
           pc'[p] = "reap" => \A r \in Slot \ {p} : pc[r] # "reap",
           q # p => pc[q] # "reap" /\ pc'[q] # "reap",
           WorkOk(p)', WorkOk(q)', SlotOk(p)', SlotOk(q)', KidOk(p)', KidOk(q)'
    PROVE  PageInv'
<1>1. ASSUME NEW r \in Slot PROVE WorkOk(r)'
  <2>1. CASE r \notin {p, q}
    <3>1. WorkOk(r) /\ pc'[r] = pc[r] /\ work'[r] = work[r] BY <2>1 DEF PageInv
    <3> QED BY <3>1 DEF WorkOk
  <2> QED BY <2>1
<1>2. ASSUME NEW r \in Slot PROVE SlotOk(r)'
  <2>1. CASE r \notin {p, q}
    <3>1. SlotOk(r) BY DEF PageInv
    <3>2. pc'[r] = pc[r] /\ state'[r] = state[r] /\ kstack'[r] = kstack[r] /\ vm'[r] = vm[r] BY <2>1
    <3>3. ASSUME NEW s \in Slot, pc[s] = "reap", work[s].kid = r
          PROVE  pc'[s] = "reap" /\ work'[s].kid = r
      <4>1. s # p /\ s # q BY <2>1, <3>3
      <4> QED BY <3>3, <4>1
    <3> QED BY <3>1, <3>2, <3>3 DEF SlotOk
  <2> QED BY <2>1
<1>3. ASSUME NEW r \in Slot PROVE KidOk(r)'
  <2>1. CASE r \notin {p, q}
    <3> DEFINE k == work[r].kid
    <3>1. KidOk(r) BY DEF PageInv
    <3>2. pc'[r] = pc[r] /\ work'[r] = work[r] BY <2>1
    <3>3. (work[r].op = "fork" \/ pc[r] = "reap") => k \in Slot /\ k # p /\ k # q BY <2>1, <3>1 DEF KidOk
    <3>4. (work[r].op = "fork" \/ pc[r] = "reap") => state'[k] = state[k] /\ kstack'[k] = kstack[k] /\ vm'[k] = vm[k]
      BY <3>3
    <3> QED BY <3>1, <3>2, <3>4 DEF KidOk
  <2> QED BY <2>1
<1>4. OneOwner'
  <2>1. OneOwner BY DEF PageInv
  <2>2. ASSUME NEW r \in Slot, NEW s \in Slot, work'[r].op = "fork", work'[s].op = "fork", work'[r].kid = work'[s].kid
        PROVE  r = s
    BY <2>1, <2>2 DEF OneOwner
  <2>3. ASSUME NEW r \in Slot, NEW s \in Slot, pc'[r] = "reap", pc'[s] = "reap"
        PROVE  r = s
    BY <2>1, <2>3 DEF OneOwner
  <2> QED BY <2>2, <2>3 DEF OneOwner
<1> QED BY <1>1, <1>2, <1>3, <1>4 DEF PageInv

\* The slot that fork() fills belongs to one call only.
LEMMA ForkKid ==
    ASSUME PageInv, NEW p \in Slot, work[p].op = "fork", NEW q, q = work[p].kid
    PROVE  /\ q \in Slot /\ q # p /\ state[q] = "EMBRYO" /\ vm[q] = NoVm /\ pc[q] = "none"
           /\ work[q] = NoWork /\ (kstack[q] <=> pc[p] # "kstack")
           /\ \A r \in Slot \ {p} : work[r].op = "fork" \/ pc[r] = "reap" => work[r].kid # q
<1>1. KidOk(p) /\ WorkOk(p) /\ SlotOk(p) BY DEF PageInv
<1>2. q \in Slot /\ state[q] = "EMBRYO" /\ (kstack[q] <=> pc[p] # "kstack") BY <1>1 DEF KidOk
<1>3. SlotOk(q) /\ WorkOk(q) BY <1>2 DEF PageInv
<1>4. vm[q] = NoVm /\ pc[q] = "none" BY <1>2, <1>3 DEF SlotOk
<1>5. work[q] = NoWork BY <1>3, <1>4 DEF WorkOk
<1>6. q # p BY <1>5, NoWorkOk
<1>7. ASSUME NEW r \in Slot \ {p} PROVE work[r].op = "fork" \/ pc[r] = "reap" => work[r].kid # q
  <2>1. KidOk(r) /\ OneOwner BY DEF PageInv
  <2> QED BY <1>2, <2>1 DEF KidOk, OneOwner
<1> QED BY <1>2, <1>4, <1>5, <1>6, <1>7

\* fork(): allocproc().
LEMMA AllocProcInv ==
    ASSUME IndInv, NEW p \in Slot, AllocProc(p)
    PROVE  IndInv'
<1> USE DEF IndInv
<1> DEFINE unused == {r \in Slot : state[r] = "UNUSED"}
<1>1. pc[p] = "user" /\ unused # {} /\ (\A r \in Slot : pc[r] # "reap") BY DEF AllocProc, At, PtableFree
<1>2. PICK q : q = MinOf(unused) OBVIOUS
<1>3. q \in Slot /\ state[q] = "UNUSED"
  <2>1. unused \in SUBSET Nat BY DEF Slot
  <2>2. MinOf(unused) \in unused
    <3> HIDE DEF unused
    <3> QED BY <1>1, <2>1, MinOfIn
  <2> QED BY <1>2, <2>2
<1> DEFINE x == [work[p] EXCEPT !.op = "fork", !.kid = q, !.goal = sz[p]]
<1>4. /\ state' = [state EXCEPT ![q] = "EMBRYO"] /\ pid' = [pid EXCEPT ![q] = nextpid]
      /\ nextpid' = nextpid + 1 /\ check' = [check EXCEPT ![q] = FALSE]
      /\ pc' = [pc EXCEPT ![p] = "kstack"] /\ work' = [work EXCEPT ![p] = x]
      /\ UNCHANGED <<free, parent, kstack, vm, sz, hist, ran, hollow>>
  BY <1>2 DEF AllocProc, Newborn, Goto
<1>5. /\ work[p].mem = FALSE /\ work[p].junk = 0 /\ work[p].new = NoVm /\ state[p] = "LIVE"
      /\ work[p] \in Work /\ sz[p] \in Nat
  BY <1>1, UserWork, WorkType
<1>6. x \in Work /\ x.op = "fork" /\ x.kid = q /\ x.mem = FALSE /\ x.junk = 0 /\ x.new = NoVm
  BY <1>3, <1>5 DEF Work
<1> HIDE DEF x
<1>7. TypeOK' BY <1>3, <1>4, <1>6 DEF TypeOK
<1>8. /\ work'[p] = x /\ pc'[p] = "kstack" /\ state'[q] = "EMBRYO"
      /\ \A r \in Slot \ {p} : work'[r] = work[r] /\ pc'[r] = pc[r]
      /\ \A r \in Slot \ {q} : state'[r] = state[r]
  BY <1>3, <1>4 DEF TypeOK
<1>9. PagesConserved'
  <2>1. \A r \in Slot : /\ work'[r].new = work[r].new /\ work'[r].mem = work[r].mem
                        /\ work'[r].junk = work[r].junk
    BY <1>5, <1>6, <1>8
  <2> QED BY <1>4, <1>7, <2>1, PagesSame
<1>10. PageInv'
  <2>1. q # p BY <1>3, <1>5
  <2>2. SlotOk(q) /\ WorkOk(q) /\ SlotOk(p) BY <1>3 DEF PageInv
  <2>3. pc[q] = "none" /\ ~kstack[q] /\ vm[q] = NoVm /\ work[q] = NoWork
    <3>1. pc[q] = "none" /\ ~kstack[q] /\ vm[q] = NoVm BY <1>3, <2>2 DEF SlotOk
    <3> QED BY <2>2, <3>1 DEF WorkOk
  <2>4. \A r \in Slot \ {p} : work[r].op = "fork" \/ pc[r] = "reap" => work[r].kid # q
    BY <1>1, <1>3 DEF PageInv, KidOk
  <2>5. WorkOk(p)' BY <1>6, <1>8 DEF WorkOk
  <2>6. WorkOk(q)' BY <1>3, <1>8, <2>1, <2>3, NoWorkOk DEF WorkOk
  <2>7. SlotOk(p)' /\ SlotOk(q)'
    <3>1. state'[p] = "LIVE" /\ kstack[p] /\ pc'[p] # "none" BY <1>5, <1>8, <2>1, <2>2 DEF SlotOk
    <3>2. SlotOk(p)' BY <1>4, <3>1 DEF SlotOk
    <3>3. SlotOk(q)' BY <1>4, <1>8, <2>1, <2>3 DEF SlotOk
    <3> QED BY <3>2, <3>3
  <2>8. KidOk(p)' BY <1>3, <1>4, <1>6, <1>8, <2>3 DEF KidOk
  <2>9. KidOk(q)' BY <1>3, <1>8, <2>1, <2>3, NoWorkOk DEF KidOk
  <2>10. /\ x.op = "fork" => x.kid = q
         /\ \A r \in Slot \ {p, q} : /\ pc'[r] = pc[r] /\ state'[r] = state[r]
                                     /\ kstack'[r] = kstack[r] /\ vm'[r] = vm[r]
    BY <1>4, <1>6, <1>8
  <2> QED BY <1>1, <1>3, <1>5, <1>8, <2>1, <2>3, <2>4, <2>5, <2>6, <2>7, <2>8, <2>9, <2>10, SlotStep
<1> QED BY <1>7, <1>9, <1>10

\* A slot goes back to the pool: of a failed fork(), with its kernel stack or without.
LEMMA KidGone ==
    ASSUME PageInv, TypeOK, NEW p \in Slot, work[p].op = "fork", pc[p] \in {"kstack", "free"},
           NEW q, q = work[p].kid, state' = [state EXCEPT ![q] = "UNUSED"], UNCHANGED vm,
           kstack' = [kstack EXCEPT ![q] = FALSE], work' = [work EXCEPT ![p] = NoWork],
           pc' = [pc EXCEPT ![p] = "user"]
    PROVE  PageInv'
<1>1. /\ q \in Slot /\ q # p /\ state[q] = "EMBRYO" /\ vm[q] = NoVm /\ pc[q] = "none"
      /\ work[q] = NoWork
      /\ \A r \in Slot \ {p} : work[r].op = "fork" \/ pc[r] = "reap" => work[r].kid # q
  BY ForkKid
<1>2. SlotOk(p) BY DEF PageInv
<1>3. state[p] = "LIVE" /\ kstack[p] BY <1>2 DEF SlotOk
<1>4. /\ work'[p] = NoWork /\ pc'[p] = "user" /\ state'[q] = "UNUSED" /\ ~kstack'[q] /\ vm' = vm
      /\ \A r \in Slot \ {p} : work'[r] = work[r] /\ pc'[r] = pc[r]
      /\ \A r \in Slot \ {q} : state'[r] = state[r] /\ kstack'[r] = kstack[r]
  BY <1>1 DEF TypeOK
<1>5. WorkOk(p)' /\ WorkOk(q)' /\ KidOk(p)' /\ KidOk(q)' BY <1>1, <1>4, NoWorkOk DEF WorkOk, KidOk
<1>6. SlotOk(p)' BY <1>1, <1>3, <1>4 DEF SlotOk
<1>7. SlotOk(q)' BY <1>1, <1>4 DEF SlotOk
<1>8. work'[p].op # "fork" /\ pc[p] # "reap" /\ pc'[p] # "reap" BY <1>4, NoWorkOk
<1>9. pc[q] # "reap" /\ pc'[q] # "reap" BY <1>1, <1>4
<1>10. \A r \in Slot \ {p, q} : /\ pc'[r] = pc[r] /\ state'[r] = state[r]
                                /\ kstack'[r] = kstack[r] /\ vm'[r] = vm[r]
  BY <1>4
<1>11. /\ pc[p] = "reap" => work[p].kid = q
       /\ work'[p].op = "fork" => work'[p].kid = q
       /\ pc'[p] = "reap" => \A r \in Slot \ {p} : pc[r] # "reap"
       /\ q # p => pc[q] # "reap" /\ pc'[q] # "reap"
       /\ \A r \in Slot \ {p} : work'[r] = work[r]
       /\ \A r \in Slot \ {p} : work[r].op = "fork" \/ pc[r] = "reap" => work[r].kid # q
  BY <1>1, <1>4, <1>8, <1>9
<1>12. q \in Slot BY <1>1
<1> QED BY ONLY PageInv, <1>3, <1>5, <1>6, <1>7, <1>10, <1>11, <1>12, SlotStep

LEMMA AllocStackInv ==
    ASSUME IndInv, NEW p \in Slot, AllocStack(p)
    PROVE  IndInv'
<1> USE DEF IndInv
<1> PICK q : q = work[p].kid OBVIOUS
<1>1. pc[p] = "kstack" /\ WorkOk(p) /\ WorkOk(p) BY DEF AllocStack, At, PageInv
<1>2. work[p].op = "fork" BY <1>1 DEF WorkOk
<1>3. /\ q \in Slot /\ q # p /\ state[q] = "EMBRYO" /\ vm[q] = NoVm /\ pc[q] = "none"
      /\ work[q] = NoWork /\ ~kstack[q]
      /\ \A r \in Slot \ {p} : work[r].op = "fork" \/ pc[r] = "reap" => work[r].kid # q
  BY <1>1, <1>2, ForkKid
<1>4. /\ work[p] \in Work /\ work[p].mem = FALSE /\ work[p].junk = 0 /\ work[p].new = NoVm
      /\ free \in Nat
  <2>1. work[p] \in Work /\ work[p].mem \in BOOLEAN /\ work[p].junk \in Nat /\ free \in Nat
    BY WorkType DEF TypeOK
  <2> QED BY <1>1, <2>1 DEF WorkOk
<1>5. CASE free = 0
  <2>1. /\ state' = [state EXCEPT ![q] = "UNUSED"] /\ pc' = [pc EXCEPT ![p] = "user"]
        /\ work' = [work EXCEPT ![p] = NoWork]
        /\ UNCHANGED <<free, kstack, pid, parent, check, vm, sz, histVars, hollow>>
    BY <1>5 DEF AllocStack, Return, Goto
  <2>2. kstack' = [kstack EXCEPT ![q] = FALSE] BY <1>3, <2>1 DEF TypeOK
  <2>3. TypeOK' BY <1>3, <2>1, NoWorkOk DEF TypeOK, histVars
  <2>4. PageInv' BY <1>1, <1>2, <2>1, <2>2, KidGone
  <2>5. \A r \in Slot : /\ work'[r].new = work[r].new /\ work'[r].mem = work[r].mem
                        /\ work'[r].junk = work[r].junk
    <3>1. \A r \in Slot : work'[r] = IF r = p THEN NoWork ELSE work[r] BY <2>1 DEF TypeOK
    <3> QED BY <1>4, <3>1, NoWorkOk
  <2>6. PagesConserved' BY <2>1, <2>3, <2>5, PagesSame
  <2> QED BY <2>3, <2>4, <2>6
<1>6. CASE free # 0
  <2>1. /\ kstack' = [kstack EXCEPT ![q] = TRUE] /\ pc' = [pc EXCEPT ![p] = "setup"] /\ free' = free - 1
        /\ UNCHANGED <<state, work, pid, parent, check, vm, sz, histVars, hollow>>
    BY <1>6 DEF AllocStack, Goto
  <2>2. TypeOK'
    <3>1. free' \in Nat BY <1>4, <1>6, <2>1
    <3> QED BY <1>3, <2>1, <3>1 DEF TypeOK, histVars
  <2>3. /\ kstack'[q] = TRUE /\ pc'[p] = "setup" /\ work' = work /\ vm' = vm /\ state' = state
        /\ \A r \in Slot \ {p} : pc'[r] = pc[r]
        /\ \A r \in Slot \ {q} : kstack'[r] = kstack[r]
    BY <1>3, <2>1 DEF TypeOK
  <2>4. PagesConserved'
    <3>1. Own(q) = 0 + Held(NoVm) + Held(NoVm) + 0 + 0 BY <1>3, NoWorkOk DEF Own
    <3>2. Own(q)' = 1 + Held(NoVm) + Held(NoVm) + 0 + 0
      <4>1. vm'[q] = NoVm /\ work'[q] = NoWork BY <1>3, <2>3
      <4>2. Own(q)' = (IF kstack'[q] THEN 1 ELSE 0) + Held(vm'[q]) + Held(work'[q].new)
                        + (IF work'[q].mem THEN 1 ELSE 0) + work'[q].junk
        BY DEF Own, Held
      <4> QED BY <2>3, <4>1, <4>2, NoWorkOk
    <3>3. free' + Own(q)' = free + Own(q) BY <1>4, <2>1, <3>1, <3>2, HeldNone
    <3>4. \A r \in Slot \ {q} : kstack'[r] = kstack[r] /\ vm'[r] = vm[r] /\ work'[r] = work[r] BY <2>3
    <3> QED BY <1>3, <2>2, <3>3, <3>4, OneChanged
  <2>5. PageInv'
    <3>1. SlotOk(p) /\ SlotOk(q) /\ KidOk(p) BY <1>3 DEF PageInv
    <3>2. state[p] = "LIVE" BY <1>1, <3>1 DEF SlotOk
    <3>3. WorkOk(p)' BY <1>2, <1>4, <2>3 DEF WorkOk
    <3>4. WorkOk(q)' /\ KidOk(q)' BY <1>3, <2>3, NoWorkOk DEF WorkOk, KidOk
    <3>5. SlotOk(p)' BY <1>3, <3>1, <3>2, <2>3 DEF SlotOk
    <3>6. SlotOk(q)' BY <1>3, <2>3 DEF SlotOk
    <3>7. KidOk(p)' BY <1>2, <1>3, <2>3 DEF KidOk
    <3>8. /\ work'[p].op = "fork" => work'[p].kid = q
          /\ pc[p] # "reap" /\ pc'[p] # "reap" /\ pc[q] # "reap" /\ pc'[q] # "reap"
          /\ \A r \in Slot \ {p} : work'[r] = work[r]
          /\ \A r \in Slot \ {p, q} : /\ pc'[r] = pc[r] /\ state'[r] = state[r]
                                      /\ kstack'[r] = kstack[r] /\ vm'[r] = vm[r]
      BY <1>1, <1>3, <2>3
    <3> QED BY <1>3, <3>2, <3>3, <3>4, <3>5, <3>6, <3>7, <3>8, SlotStep
  <2> QED BY <2>2, <2>4, <2>5
<1> QED BY <1>4, <1>5, <1>6

LEMMA FreeDoneInv ==
    ASSUME IndInv, NEW p \in Slot, FreeDone(p)
    PROVE  IndInv'
<1> USE DEF IndInv
<1> PICK q : q = work[p].kid OBVIOUS
<1>1. pc[p] = "free" /\ work[p].junk = 0 /\ WorkOk(p) BY DEF FreeDone, At, PageInv
<1>2. /\ pc' = [pc EXCEPT ![p] = "user"] /\ work' = [work EXCEPT ![p] = NoWork]
      /\ UNCHANGED <<pid, parent, check, vm, sz, histVars, hollow>>
  BY DEF FreeDone, Return, Goto
<1>3. /\ work[p] \in Work /\ work[p].mem = FALSE /\ work[p].new = NoVm /\ free \in Nat
  <2>1. work[p] \in Work /\ work[p].mem \in BOOLEAN /\ free \in Nat BY WorkType DEF TypeOK
  <2> QED BY <1>1, <2>1 DEF WorkOk
<1>4. work'[p] = NoWork /\ pc'[p] = "user" /\ \A r \in Slot \ {p} : work'[r] = work[r] BY <1>2 DEF TypeOK
<1>5. CASE work[p].op # "fork"
  <2>1. UNCHANGED <<free, kstack, state>> BY <1>5 DEF FreeDone
  <2>2. RestOK' BY <1>2, Same DEF histVars
  <2>3. WorkOk(p)' BY <1>4, NoWorkOk DEF WorkOk
  <2>4. "user" \in Positions \ {"none", "reap"} BY DEF Positions
  <2>5. /\ NoWork.new = work[p].new /\ NoWork.mem = work[p].mem /\ NoWork.junk = work[p].junk
        /\ NoWork \in Work /\ NoWork.op # "fork"
    BY <1>1, <1>3, NoWorkOk
  <2> QED BY <1>1, <1>2, <2>1, <2>2, <2>3, <2>4, <2>5, QuietInv
<1>6. CASE work[p].op = "fork"
  <2>1. /\ free' = free + 1 /\ kstack' = [kstack EXCEPT ![q] = FALSE]
        /\ state' = [state EXCEPT ![q] = "UNUSED"]
    BY <1>6 DEF FreeDone
  <2>2. /\ q \in Slot /\ q # p /\ state[q] = "EMBRYO" /\ vm[q] = NoVm /\ work[q] = NoWork
        /\ kstack[q]
    BY <1>1, <1>6, ForkKid
  <2>3. TypeOK'
    <3>1. free' \in Nat BY <1>3, <2>1
    <3> QED BY <1>2, <2>1, <2>2, <3>1, NoWorkOk DEF TypeOK, histVars
  <2>4. PageInv' BY <1>1, <1>2, <1>6, <2>1, KidGone
  <2>5. /\ kstack'[q] = FALSE /\ vm' = vm /\ work'[q] = NoWork
        /\ \A r \in Slot \ {q} : kstack'[r] = kstack[r]
    BY <1>2, <1>4, <2>1, <2>2 DEF TypeOK
  <2>6. PagesConserved'
    <3>1. Own(q) = 1 + Held(NoVm) + Held(NoVm) + 0 + 0 BY <2>2, NoWorkOk DEF Own
    <3>2. Own(q)' = 0 + Held(NoVm) + Held(NoVm) + 0 + 0
      <4>1. vm'[q] = NoVm BY <2>2, <2>5
      <4>2. Own(q)' = (IF kstack'[q] THEN 1 ELSE 0) + Held(vm'[q]) + Held(work'[q].new)
                        + (IF work'[q].mem THEN 1 ELSE 0) + work'[q].junk
        BY DEF Own, Held
      <4> QED BY <2>5, <4>1, <4>2, NoWorkOk
    <3>3. Own(p)' = Own(p)
      <4>1. Own(p)' = (IF kstack'[p] THEN 1 ELSE 0) + Held(vm'[p]) + Held(work'[p].new)
                        + (IF work'[p].mem THEN 1 ELSE 0) + work'[p].junk
        BY DEF Own, Held
      <4>2. kstack'[p] = kstack[p] /\ vm'[p] = vm[p] BY <2>2, <2>5
      <4>3. Own(p) = (IF kstack[p] THEN 1 ELSE 0) + Held(vm[p]) + Held(work[p].new)
                        + (IF work[p].mem THEN 1 ELSE 0) + work[p].junk
        BY DEF Own
      <4> QED BY <1>1, <1>3, <1>4, <4>1, <4>2, <4>3, NoWorkOk
    <3>4. Own(p) \in Nat BY OwnNat
    <3>5. free' + Own(p)' + Own(q)' = free + Own(p) + Own(q) BY <1>3, <2>1, <3>1, <3>2, <3>3, <3>4, HeldNone
    <3>6. \A r \in Slot \ {p, q} : kstack'[r] = kstack[r] /\ vm'[r] = vm[r] /\ work'[r] = work[r]
      BY <1>4, <2>5
    <3> QED BY <2>2, <2>3, <3>5, <3>6, TwoChanged
  <2> QED BY <2>3, <2>4, <2>6
<1> QED BY <1>5, <1>6

LEMMA ForkDoneInv ==
    ASSUME IndInv, NEW p \in Slot, ForkDone(p)
    PROVE  IndInv'
<1> USE DEF IndInv
<1> PICK q : q = work[p].kid OBVIOUS
<1>1. pc[p] = "page" /\ work[p].op = "fork" /\ (\A r \in Slot : pc[r] # "reap")
  BY DEF ForkDone, LoopDone, At, PtableFree
<1>2. /\ vm' = [vm EXCEPT ![q] = work[p].new] /\ sz' = [sz EXCEPT ![q] = sz[p]]
      /\ parent' = [parent EXCEPT ![q] = p]
      /\ state' = [state EXCEPT ![q] = "LIVE"]
      /\ pc' = [pc EXCEPT ![p] = "user", ![q] = "user"]
      /\ work' = [work EXCEPT ![p] = NoWork]
      /\ UNCHANGED <<free, pid, check, kstack, histVars, hollow>>
  BY DEF ForkDone
<1>3. /\ q \in Slot /\ q # p /\ state[q] = "EMBRYO" /\ vm[q] = NoVm /\ pc[q] = "none"
      /\ work[q] = NoWork /\ kstack[q]
      /\ \A r \in Slot \ {p} : work[r].op = "fork" \/ pc[r] = "reap" => work[r].kid # q
  BY <1>1, ForkKid
<1>4. /\ work[p].mem = FALSE /\ work[p].junk = 0 /\ work[p].new \in Vm /\ sz[p] \in Nat /\ free \in Nat
  BY <1>1, LoopWork, WorkType DEF TypeOK
<1>5. TypeOK'
  <2>1. vm' \in [Slot -> Vm] /\ sz' \in [Slot -> Nat] /\ work' \in [Slot -> Work]
    BY <1>2, <1>4, NoWorkOk DEF TypeOK
  <2> QED BY <1>2, <2>1 DEF TypeOK, histVars
<1>6. /\ work'[p] = NoWork /\ pc'[p] = "user" /\ pc'[q] = "user" /\ state'[q] = "LIVE"
      /\ vm'[q] = work[p].new /\ kstack' = kstack
      /\ \A r \in Slot \ {p} : work'[r] = work[r]
      /\ \A r \in Slot \ {p, q} : pc'[r] = pc[r]
      /\ \A r \in Slot \ {q} : state'[r] = state[r] /\ vm'[r] = vm[r]
  BY <1>2, <1>3 DEF TypeOK
<1>7. PagesConserved'
  <2>1. \A r : Own(r)' = (IF kstack'[r] THEN 1 ELSE 0) + Held(vm'[r]) + Held(work'[r].new)
                          + (IF work'[r].mem THEN 1 ELSE 0) + work'[r].junk
    BY DEF Own, Held
  <2>2. PICK k \in Nat, a \in Nat, b \in Nat :
           k = (IF kstack[p] THEN 1 ELSE 0) /\ a = Held(vm[p]) /\ b = Held(work[p].new)
    <3>1. Held(vm[p]) \in Nat /\ Held(work[p].new) \in Nat BY WorkType
    <3> QED BY <3>1
  <2>3. Own(p) = k + a + b + 0 + 0 BY <1>4, <2>2 DEF Own
  <2>4. Own(q) = 1 + Held(NoVm) + Held(NoVm) + 0 + 0 BY <1>3, NoWorkOk DEF Own
  <2>5. Own(p)' = k + a + Held(NoVm) + 0 + 0
    <3>1. vm'[p] = vm[p] BY <1>3, <1>6
    <3> QED BY <1>6, <2>1, <2>2, <3>1, NoWorkOk
  <2>6. Own(q)' = 1 + b + Held(NoVm) + 0 + 0
    <3>1. work'[q] = NoWork BY <1>3, <1>6
    <3> QED BY <1>3, <1>6, <2>1, <2>2, <3>1, NoWorkOk
  <2>7. free' + Own(p)' + Own(q)' = free + Own(p) + Own(q)
    BY <1>2, <1>4, <2>3, <2>4, <2>5, <2>6, HeldNone
  <2>8. \A r \in Slot \ {p, q} : kstack'[r] = kstack[r] /\ vm'[r] = vm[r] /\ work'[r] = work[r] BY <1>6
  <2> QED BY <1>3, <1>5, <2>7, <2>8, TwoChanged
<1>8. PageInv'
  <2>1. SlotOk(p) BY DEF PageInv
  <2>2. state[p] = "LIVE" /\ kstack[p] BY <1>1, <2>1 DEF SlotOk
  <2>3. work'[q] = NoWork BY <1>3, <1>6
  <2>4. WorkOk(p)' /\ WorkOk(q)' /\ KidOk(p)' /\ KidOk(q)' BY <1>6, <2>3, NoWorkOk DEF WorkOk, KidOk
  <2>5. SlotOk(p)' BY <1>3, <1>6, <2>2 DEF SlotOk
  <2>6. SlotOk(q)' BY <1>3, <1>6 DEF SlotOk
  <2>7. work'[p].op # "fork" /\ pc[p] # "reap" /\ pc'[p] # "reap" BY <1>1, <1>6, NoWorkOk
  <2>8. pc[q] # "reap" /\ pc'[q] # "reap" BY <1>3, <1>6
  <2>9. \A r \in Slot \ {p, q} : /\ pc'[r] = pc[r] /\ state'[r] = state[r]
                                 /\ kstack'[r] = kstack[r] /\ vm'[r] = vm[r]
    BY <1>6
  <2> QED BY <1>3, <1>6, <2>2, <2>4, <2>5, <2>6, <2>7, <2>8, <2>9, SlotStep
<1> QED BY <1>5, <1>7, <1>8

LEMMA ExitInv ==
    ASSUME IndInv, NEW p \in Slot, Exit(p)
    PROVE  IndInv'
<1> USE DEF IndInv
<1>1. pc[p] = "user" BY DEF Exit, At
<1>2. /\ state' = [state EXCEPT ![p] = "ZOMBIE"] /\ pc' = [pc EXCEPT ![p] = "none"]
      /\ parent' = [q \in Slot |-> IF parent[q] = p THEN InitProc ELSE parent[q]]
      /\ hist' = IF check[p] /\ Len(hist) < MAX_LIMIT THEN Append(hist, pid[p]) ELSE hist
      /\ hollow' = hollow \ {p}
      /\ UNCHANGED <<free, pid, check, kstack, vm, sz, nextpid, ran, work>>
  BY DEF Exit, Goto
<1>3. InitProc \in Slot BY MemoryAssumption DEF InitProc, Slot
<1>4. TypeOK'
  <2>1. hist' \in Seq(Nat) BY <1>2 DEF TypeOK
  <2>2. parent' \in [Slot -> Slot \cup {None}] BY <1>2, <1>3 DEF TypeOK
  <2> QED BY <1>2, <2>1, <2>2 DEF TypeOK
<1>5. PagesConserved' BY <1>2, <1>4, PagesSame
<1>6. PageInv'
  <2>1. SlotOk(p) /\ state[p] = "LIVE" /\ kstack[p] /\ work[p] = NoWork
    <3>1. SlotOk(p) BY DEF PageInv
    <3>2. state[p] = "LIVE" /\ work[p] = NoWork BY <1>1, UserWork
    <3> QED BY <3>1, <3>2 DEF SlotOk
  <2>2. /\ work' = work /\ pc'[p] = "none" /\ state'[p] = "ZOMBIE" /\ kstack' = kstack /\ vm' = vm
        /\ \A r \in Slot \ {p} : pc'[r] = pc[r] /\ state'[r] = state[r]
    BY <1>2 DEF TypeOK
  <2>3. WorkOk(p)' /\ KidOk(p)' BY <2>1, <2>2, NoWorkOk DEF WorkOk, KidOk
  <2>4. SlotOk(p)' BY <2>1, <2>2 DEF SlotOk
  <2>5. \A r \in Slot \ {p} : work[r].op = "fork" \/ pc[r] = "reap" => work[r].kid # p
    BY <2>1 DEF PageInv, KidOk
  <2>6. work'[p].op # "fork" /\ pc[p] # "reap" /\ pc'[p] # "reap" BY <1>1, <2>1, <2>2, NoWorkOk
  <2>7. \A r \in Slot \ {p, p} : /\ pc'[r] = pc[r] /\ state'[r] = state[r]
                                 /\ kstack'[r] = kstack[r] /\ vm'[r] = vm[r]
    BY <2>2
  <2> QED BY <2>1, <2>2, <2>3, <2>4, <2>5, <2>6, <2>7, SlotStep
<1> QED BY <1>4, <1>5, <1>6

\* wait()
LEMMA ReapInv ==
    ASSUME IndInv, NEW p \in Slot, Reap(p)
    PROVE  IndInv'
<1> USE DEF IndInv
<1> DEFINE zombies == {q \in Slot : parent[q] = p /\ state[q] = "ZOMBIE"}
<1>1. pc[p] = "user" /\ zombies # {} /\ (\A r \in Slot : pc[r] # "reap") BY DEF Reap, At, PtableFree
<1>2. PICK q : q = MinOf(zombies) OBVIOUS
<1>3. q \in Slot /\ state[q] = "ZOMBIE"
  <2>1. zombies \in SUBSET Nat BY DEF Slot
  <2>2. MinOf(zombies) \in zombies
    <3> HIDE DEF zombies
    <3> QED BY <1>1, <2>1, MinOfIn
  <2> QED BY <1>2, <2>2
<1> PICK n : n = Held(vm[q]) + 1 OBVIOUS
<1> DEFINE x == [work[p] EXCEPT !.kid = q, !.junk = n]
<1>4. /\ work' = [work EXCEPT ![p] = x] /\ kstack' = [kstack EXCEPT ![q] = FALSE]
      /\ vm' = [vm EXCEPT ![q] = NoVm] /\ pc' = [pc EXCEPT ![p] = "reap"]
      /\ UNCHANGED <<free, state, pid, parent, check, sz, histVars, hollow>>
  BY <1>2 DEF Reap, Goto
<1>5. /\ work[p].mem = FALSE /\ work[p].junk = 0 /\ work[p].new = NoVm /\ state[p] = "LIVE"
      /\ work[p] \in Work /\ work[p].op = "none"
  BY <1>1, UserWork
<1>6. SlotOk(q) /\ WorkOk(q) /\ SlotOk(p) BY <1>3 DEF PageInv
<1>7. q # p /\ kstack[q] /\ pc[q] = "none" /\ work[q] = NoWork /\ vm[q] \in Vm
  <2>1. q # p /\ kstack[q] /\ pc[q] = "none" BY <1>1, <1>3, <1>5, <1>6 DEF SlotOk
  <2> QED BY <1>3, <1>6, <2>1 DEF WorkOk, TypeOK
<1>8. NoVm \in Vm /\ Held(NoVm) = 0 /\ Held(vm[q]) \in Nat /\ n \in Nat BY <1>7, HeldNat, HeldNone
<1>9. x \in Work /\ x.op = "none" /\ x.kid = q /\ x.mem = FALSE /\ x.junk = n /\ x.new = NoVm
  BY <1>3, <1>5, <1>8 DEF Work
<1> HIDE DEF x
<1>10. TypeOK' BY <1>3, <1>4, <1>8, <1>9 DEF TypeOK, histVars
<1>11. /\ work'[p] = x /\ pc'[p] = "reap" /\ kstack'[q] = FALSE /\ vm'[q] = NoVm /\ state' = state
       /\ \A r \in Slot \ {p} : work'[r] = work[r] /\ pc'[r] = pc[r]
       /\ \A r \in Slot \ {q} : kstack'[r] = kstack[r] /\ vm'[r] = vm[r]
  BY <1>3, <1>4 DEF TypeOK
<1>12. PagesConserved'
  <2>1. \A r : Own(r)' = (IF kstack'[r] THEN 1 ELSE 0) + Held(vm'[r]) + Held(work'[r].new)
                          + (IF work'[r].mem THEN 1 ELSE 0) + work'[r].junk
    BY DEF Own, Held
  <2>2. PICK k \in Nat, a \in Nat, b \in Nat :
           k = (IF kstack[p] THEN 1 ELSE 0) /\ a = Held(vm[p]) /\ b = Held(vm[q])
    <3>1. Held(vm[p]) \in Nat BY WorkType
    <3> QED BY <1>8, <3>1
  <2>3. Own(p) = k + a + 0 + 0 + 0 BY <1>5, <1>8, <2>2 DEF Own
  <2>4. Own(q) = 1 + b + 0 + 0 + 0 BY <1>7, <1>8, <2>2, NoWorkOk DEF Own
  <2>5. Own(p)' = k + a + 0 + 0 + (b + 1)
    <3>1. vm'[p] = vm[p] /\ kstack'[p] = kstack[p] BY <1>7, <1>11
    <3> QED BY <1>8, <1>9, <1>11, <2>1, <2>2, <3>1
  <2>6. Own(q)' = 0 + 0 + 0 + 0 + 0
    <3>1. work'[q] = NoWork BY <1>3, <1>7, <1>11
    <3> QED BY <1>8, <1>11, <2>1, <3>1, NoWorkOk
  <2>7. free' = free /\ free \in Nat BY <1>4 DEF TypeOK
  <2>8. free' + Own(p)' + Own(q)' = free + Own(p) + Own(q)
    BY <2>2, <2>3, <2>4, <2>5, <2>6, <2>7
  <2>9. \A r \in Slot \ {p, q} : kstack'[r] = kstack[r] /\ vm'[r] = vm[r] /\ work'[r] = work[r] BY <1>11
  <2> QED BY <1>3, <1>7, <1>10, <2>8, <2>9, TwoChanged
<1>13. PageInv'
  <2>1. \A r \in Slot \ {p} : work[r].op = "fork" \/ pc[r] = "reap" => work[r].kid # q
    BY <1>1, <1>3 DEF PageInv, KidOk
  <2>2. WorkOk(p)' BY <1>9, <1>11 DEF WorkOk
  <2>3. WorkOk(q)' /\ KidOk(q)' BY <1>3, <1>7, <1>11, NoWorkOk DEF WorkOk, KidOk
  <2>4. KidOk(p)' BY <1>3, <1>9, <1>11 DEF KidOk
  <2>5. SlotOk(p)' BY <1>5, <1>6, <1>7, <1>11 DEF SlotOk
  <2>6. SlotOk(q)' BY <1>3, <1>7, <1>9, <1>11 DEF SlotOk
  <2>7. work'[p].op # "fork" /\ pc[p] # "reap" BY <1>1, <1>9, <1>11
  <2>8. pc[q] # "reap" /\ pc'[q] # "reap" BY <1>3, <1>7, <1>11
  <2>9. \A r \in Slot \ {p, q} : /\ pc'[r] = pc[r] /\ state'[r] = state[r]
                                 /\ kstack'[r] = kstack[r] /\ vm'[r] = vm[r]
    BY <1>11
  <2> QED BY <1>1, <1>3, <1>5, <1>11, <2>1, <2>2, <2>3, <2>4, <2>5, <2>6, <2>7, <2>8, <2>9, SlotStep
<1> QED BY <1>10, <1>12, <1>13

LEMMA ReapDoneInv ==
    ASSUME IndInv, NEW p \in Slot, ReapDone(p)
    PROVE  IndInv'
<1> USE DEF IndInv
<1> PICK q : q = work[p].kid OBVIOUS
<1>1. pc[p] = "reap" /\ work[p].junk = 0 BY DEF ReapDone, At
<1>2. /\ pid' = [pid EXCEPT ![q] = 0] /\ parent' = [parent EXCEPT ![q] = None]
      /\ state' = [state EXCEPT ![q] = "UNUSED"]
      /\ pc' = [pc EXCEPT ![p] = "user"] /\ work' = [work EXCEPT ![p] = NoWork]
      /\ UNCHANGED <<free, check, kstack, vm, sz, histVars, hollow>>
  BY DEF ReapDone, Return, Goto
<1>3. WorkOk(p) /\ SlotOk(p) /\ KidOk(p) /\ OneOwner BY DEF PageInv
<1>4. q \in Slot /\ state[q] = "ZOMBIE" /\ ~kstack[q] /\ vm[q] = NoVm BY <1>1, <1>3 DEF KidOk
<1>5. SlotOk(q) /\ WorkOk(q) BY <1>4 DEF PageInv
<1>6. q # p /\ pc[q] = "none" /\ work[q] = NoWork /\ state[p] = "LIVE" /\ kstack[p]
  <2>1. state[p] = "LIVE" /\ kstack[p] /\ pc[q] = "none" BY <1>1, <1>3, <1>4, <1>5 DEF SlotOk
  <2> QED BY <1>1, <1>4, <1>5, <2>1 DEF WorkOk
<1>7. /\ work[p].mem = FALSE /\ work[p].new = NoVm
  <2>1. work[p].mem \in BOOLEAN BY WorkType
  <2> QED BY <1>1, <1>3, <2>1 DEF WorkOk
<1>8. TypeOK' BY <1>2, <1>4, NoWorkOk DEF TypeOK, histVars
<1>9. /\ work'[p] = NoWork /\ pc'[p] = "user" /\ state'[q] = "UNUSED" /\ kstack' = kstack /\ vm' = vm
      /\ \A r \in Slot \ {p} : work'[r] = work[r] /\ pc'[r] = pc[r]
      /\ \A r \in Slot \ {q} : state'[r] = state[r]
  BY <1>2, <1>4 DEF TypeOK
<1>10. PagesConserved'
  <2>1. \A r \in Slot : /\ work'[r].new = work[r].new /\ work'[r].mem = work[r].mem
                        /\ work'[r].junk = work[r].junk
    BY <1>1, <1>7, <1>9, NoWorkOk
  <2> QED BY <1>2, <1>8, <2>1, PagesSame
<1>11. PageInv'
  <2>1. \A r \in Slot \ {p} : work[r].op = "fork" \/ pc[r] = "reap" => work[r].kid # q
    BY <1>1, <1>3, <1>4 DEF PageInv, KidOk, OneOwner
  <2>2. work'[q] = NoWork /\ pc'[q] = "none" BY <1>4, <1>6, <1>9
  <2>3. WorkOk(p)' /\ KidOk(p)' BY <1>9, NoWorkOk DEF WorkOk, KidOk
  <2>4. WorkOk(q)' /\ KidOk(q)' BY <2>2, NoWorkOk DEF WorkOk, KidOk
  <2>5. SlotOk(p)' BY <1>6, <1>9 DEF SlotOk
  <2>6. SlotOk(q)' BY <1>4, <1>9, <2>2 DEF SlotOk
  <2>7. work'[p].op # "fork" /\ pc'[p] # "reap" /\ pc[q] # "reap" /\ pc'[q] # "reap"
    BY <1>6, <1>9, <2>2, NoWorkOk
  <2>8. \A r \in Slot \ {p, q} : /\ pc'[r] = pc[r] /\ state'[r] = state[r]
                                 /\ kstack'[r] = kstack[r] /\ vm'[r] = vm[r]
    BY <1>9
  <2> QED BY <1>4, <1>6, <1>9, <2>1, <2>3, <2>4, <2>5, <2>6, <2>7, <2>8, SlotStep
<1> QED BY <1>8, <1>10, <1>11

\* What gethistory() makes of hist_arr has the same members, each as often.
Perm(h) == {t \in [1 .. Len(h) -> Nat] :
               /\ \A v \in Nat : (\E i \in 1 .. Len(h) : t[i] = v) <=> (\E i \in 1 .. Len(h) : h[i] = v)
               /\ (\A i, k \in 1 .. Len(h) : h[i] = h[k] => i = k)
                     => \A i, k \in 1 .. Len(h) : t[i] = t[k] => i = k}

LEMMA PermSelf ==
    ASSUME NEW h \in Seq(Nat)
    PROVE  h \in Perm(h)
  BY DEF Perm

LEMMA ExchangePerm ==
    ASSUME NEW h \in Seq(Nat), NEW t \in Perm(h), NEW j \in 1 .. Len(h) - 1
    PROVE  Exchange(t, j) \in Perm(h)
<1> PICK N \in Nat : N = Len(h) OBVIOUS
<1> PICK u : u = Exchange(t, j) OBVIOUS
<1>1. t \in [1 .. N -> Nat] /\ j \in 1 .. N /\ j + 1 \in 1 .. N /\ j # j + 1 BY DEF Perm
<1>2. CASE ~(t[j] > t[j + 1])
  BY <1>2 DEF Exchange
<1>3. CASE t[j] > t[j + 1]
  <2>1. u = [t EXCEPT ![j] = t[j + 1], ![j + 1] = t[j]] BY <1>3 DEF Exchange
  <2>2. u \in [1 .. N -> Nat] BY <1>1, <2>1
  <2>3. /\ u[j] = t[j + 1] /\ u[j + 1] = t[j] /\ \A i \in 1 .. N \ {j, j + 1} : u[i] = t[i]
    BY <1>1, <2>1
  <2>4. ASSUME NEW v \in Nat
        PROVE  (\E i \in 1 .. N : u[i] = v) <=> (\E i \in 1 .. N : t[i] = v)
    BY <1>1, <2>3
  <2>5. ASSUME \A i, k \in 1 .. N : t[i] = t[k] => i = k, NEW i \in 1 .. N, NEW k \in 1 .. N, u[i] = u[k]
        PROVE  i = k
    BY <1>1, <2>3, <2>5
  <2> QED BY <2>2, <2>4, <2>5 DEF Perm
<1> QED BY <1>2, <1>3

LEMMA SortPassPerm ==
    ASSUME NEW h \in Seq(Nat), NEW t \in Perm(h), NEW m \in 1 .. Len(h)
    PROVE  SortPass(t, m) \in Perm(h)
<1> DEFINE Def(g) == [j \in 0 .. m - 1 |-> IF j = 0 THEN t ELSE Exchange(g[j - 1], j)]
           G == [j \in 1 .. m - 1 |-> [v \in Perm(h) |-> Exchange(v, j)]]
           r == CHOOSE g : g = Def(g)
<1>0. m - 1 \in Nat /\ Len(h) \in Nat OBVIOUS
<1>1. \A j \in 1 .. m - 1 : \A v \in Perm(h) : Exchange(v, j) \in Perm(h)
  <2> SUFFICES ASSUME NEW j \in 1 .. m - 1, NEW v \in Perm(h) PROVE Exchange(v, j) \in Perm(h)
    OBVIOUS
  <2>1. j \in 1 .. Len(h) - 1 BY <1>0
  <2> QED BY <2>1, ExchangePerm
<1>2. IsStep(G, m - 1, Perm(h)) BY <1>1 DEF IsStep
<1>3. PICK g \in [0 .. m - 1 -> Perm(h)] : g[0] = t /\ \A j \in 1 .. m - 1 : g[j] = Exchange(g[j - 1], j)
  <2>1. \E g : Iterates(g, G, m - 1, Perm(h), t)
    <3> HIDE DEF G
    <3> QED BY ONLY <1>0, <1>2, t \in Perm(h), Recursion, Zenon
  <2>2. PICK g \in [0 .. m - 1 -> Perm(h)] : g[0] = t /\ \A j \in 1 .. m - 1 : g[j] = G[j][g[j - 1]]
    BY <2>1, Zenon DEF Iterates
  <2>3. ASSUME NEW j \in 1 .. m - 1 PROVE g[j] = Exchange(g[j - 1], j)
    <3>1. j - 1 \in 0 .. m - 1 BY <1>0
    <3>2. g[j - 1] \in Perm(h) BY <3>1
    <3>3. G[j][g[j - 1]] = Exchange(g[j - 1], j) BY <3>2
    <3> QED BY <3>3, <2>2
  <2> QED BY <2>2, <2>3
<1>4. g = Def(g)
  <2>1. \A j \in 0 .. m - 1 : g[j] = IF j = 0 THEN t ELSE Exchange(g[j - 1], j) BY <1>0, <1>3
  <2> QED BY <2>1
<1> HIDE DEF Def
<1>5. r = Def(r) BY <1>4
<1>6. SortPass(t, m) = r[m - 1] BY Zenon DEF SortPass, Def
<1>7. r[0] = t /\ \A j \in 1 .. m - 1 : r[j] = Exchange(r[j - 1], j)
  <2> HIDE DEF r
  <2>1. \A j \in 0 .. m - 1 : r[j] = IF j = 0 THEN t ELSE Exchange(r[j - 1], j) BY <1>5 DEF Def
  <2> QED BY <2>1, <1>0
<1> DEFINE S == {j \in 0 .. m - 1 : r[j] \in Perm(h)}
<1>8. 0 \in S BY <1>0, <1>7
<1>9. ASSUME NEW j \in 0 .. (m - 1) - 1, j \in S PROVE j + 1 \in S
  <2>1. j + 1 \in 1 .. m - 1 /\ (j + 1) - 1 = j /\ j + 1 \in 0 .. m - 1 BY <1>0, <1>9
  <2> HIDE DEF r
  <2>2. r[j] \in Perm(h) BY <1>9
  <2>3. r[j + 1] = Exchange(r[j], j + 1) BY <2>1, <1>7
  <2> QED BY <1>1, <2>1, <2>2, <2>3
<1> HIDE DEF S
<1>10. 0 .. m - 1 \subseteq S BY <1>0, <1>8, <1>9, Induction, Zenon
<1>11. m - 1 \in 0 .. m - 1 BY <1>0
<1>12. m - 1 \in S BY <1>10, <1>11
<1> HIDE DEF r
<1> QED BY <1>6, <1>12 DEF S

LEMMA HistSortedPerm ==
    ASSUME hist \in Seq(Nat)
    PROVE  HistSorted \in Perm(hist)
<1> PICK n \in Nat : n = Len(hist) OBVIOUS
<1> PICK h : h = hist OBVIOUS
<1> DEFINE Def(g) == [i \in 0 .. n |-> IF i = 0 THEN h ELSE SortPass(g[i - 1], n - i + 1)]
           G == [i \in 1 .. n |-> [v \in Perm(h) |-> SortPass(v, n - i + 1)]]
           r == CHOOSE g : g = Def(g)
<1>1. \A i \in 1 .. n : \A v \in Perm(h) : SortPass(v, n - i + 1) \in Perm(h)
  <2> SUFFICES ASSUME NEW i \in 1 .. n, NEW v \in Perm(h) PROVE SortPass(v, n - i + 1) \in Perm(h)
    OBVIOUS
  <2>1. n - i + 1 \in 1 .. Len(h) OBVIOUS
  <2> QED BY <2>1, SortPassPerm
<1>2. IsStep(G, n, Perm(h)) BY <1>1 DEF IsStep
<1>0. h \in Perm(h) BY PermSelf
<1>3. PICK g \in [0 .. n -> Perm(h)] : g[0] = h /\ \A i \in 1 .. n : g[i] = SortPass(g[i - 1], n - i + 1)
  <2>1. \E g : Iterates(g, G, n, Perm(h), h)
    <3> HIDE DEF G
    <3> QED BY ONLY <1>0, <1>2, n \in Nat, Recursion, Zenon
  <2>2. PICK g \in [0 .. n -> Perm(h)] : g[0] = h /\ \A i \in 1 .. n : g[i] = G[i][g[i - 1]]
    BY <2>1, Zenon DEF Iterates
  <2>3. ASSUME NEW i \in 1 .. n PROVE g[i] = SortPass(g[i - 1], n - i + 1)
    <3>1. i - 1 \in 0 .. n OBVIOUS
    <3>2. g[i - 1] \in Perm(h) BY <3>1
    <3>3. G[i][g[i - 1]] = SortPass(g[i - 1], n - i + 1) BY <3>2
    <3> QED BY <3>3, <2>2
  <2> QED BY <2>2, <2>3
<1>4. g = Def(g)
  <2>1. \A i \in 0 .. n : g[i] = IF i = 0 THEN h ELSE SortPass(g[i - 1], n - i + 1) BY <1>3
  <2> QED BY <2>1
<1> HIDE DEF Def
<1>5. r = Def(r) BY <1>4
<1>6. HistSorted = r[n]
  <2>1. n = Len(hist) /\ h = hist OBVIOUS
  <2> QED BY <2>1, Zenon DEF HistSorted, Def
<1>7. r[0] = h /\ \A i \in 1 .. n : r[i] = SortPass(r[i - 1], n - i + 1)
  <2> HIDE DEF r
  <2>1. \A i \in 0 .. n : r[i] = IF i = 0 THEN h ELSE SortPass(r[i - 1], n - i + 1) BY <1>5 DEF Def
  <2> QED BY <2>1
<1> DEFINE S == {i \in 0 .. n : r[i] \in Perm(h)}
<1>8. 0 \in S BY <1>0, <1>7
<1>9. ASSUME NEW i \in 0 .. n - 1, i \in S PROVE i + 1 \in S
  <2>1. i + 1 \in 1 .. n /\ (i + 1) - 1 = i /\ i + 1 \in 0 .. n BY <1>9
  <2> HIDE DEF r
  <2>2. r[i] \in Perm(h) BY <1>9
  <2>3. r[i + 1] = SortPass(r[i], n - (i + 1) + 1) BY <2>1, <1>7
  <2> QED BY <1>1, <2>1, <2>2, <2>3
<1> HIDE DEF S
<1>10. 0 .. n \subseteq S BY <1>8, <1>9, Induction, Zenon
<1>11. n \in S BY <1>10
<1> HIDE DEF r
<1> QED BY <1>6, <1>11 DEF S

LEMMA GetHistoryInv ==
    ASSUME IndInv, NEW p \in Slot, GetHistory(p)
    PROVE  IndInv'
<1>1. hist \in Seq(Nat) BY DEF IndInv, TypeOK
<1>2. HistSorted \in Perm(hist) BY <1>1, HistSortedPerm
<1>3. HistSorted \in Seq(Nat) BY SMTT(30), <1>1, <1>2 DEF Perm
<1>4. hist' = HistSorted /\ UNCHANGED <<free, procVars, nextpid, ran, pc, work, hollow>> BY DEF GetHistory
<1>5. RestOK' BY <1>3, <1>4 DEF IndInv, TypeOK, RestOK, procVars
<1> QED BY <1>4, <1>5, RestInv DEF procVars

LEMMA StepInv == IndInv /\ [Next]_vars => IndInv'
<1> SUFFICES ASSUME IndInv, [Next]_vars PROVE IndInv'
  OBVIOUS
<1>1. ASSUME NEW p \in Slot, AllocProc(p) PROVE IndInv' BY <1>1, AllocProcInv
<1>2. ASSUME NEW p \in Slot, AllocStack(p) PROVE IndInv' BY <1>2, AllocStackInv
<1>3. ASSUME NEW p \in Slot, Setup(p) PROVE IndInv' BY <1>3, SetupInv
<1>4. ASSUME NEW p \in Slot, AllocPage(p) PROVE IndInv' BY <1>4, AllocPageInv
<1>5. ASSUME NEW p \in Slot, TooBig(p) PROVE IndInv' BY <1>5, TooBigInv
<1>6. ASSUME NEW p \in Slot, MapPage(p) PROVE IndInv' BY <1>6, MapPageInv
<1>7. ASSUME NEW p \in Slot, ForkDone(p) PROVE IndInv' BY <1>7, ForkDoneInv
<1>8. ASSUME NEW p \in Slot, ExecStack(p) PROVE IndInv' BY <1>8, ExecStackInv
<1>9. ASSUME NEW p \in Slot, ExecDone(p) PROVE IndInv' BY <1>9, ExecDoneInv
<1>10. ASSUME NEW p \in Slot, ExecFails(p) PROVE IndInv' BY <1>10, TooBigInv
<1>11. ASSUME NEW p \in Slot, GrowDone(p) PROVE IndInv' BY <1>11, GrowDoneInv
<1>12. ASSUME NEW p \in Slot, Kfree(p) PROVE IndInv' BY <1>12, KfreeInv
<1>13. ASSUME NEW p \in Slot, FreeDone(p) PROVE IndInv' BY <1>13, FreeDoneInv
<1>14. ASSUME NEW p \in Slot, Exit(p) PROVE IndInv' BY <1>14, ExitInv
<1>15. ASSUME NEW p \in Slot, Reap(p) PROVE IndInv' BY <1>15, ReapInv
<1>16. ASSUME NEW p \in Slot, ReapDone(p) PROVE IndInv' BY <1>16, ReapDoneInv
<1>17. ASSUME NEW p \in Slot, GetHistory(p) PROVE IndInv' BY <1>17, GetHistoryInv
<1>18. ASSUME NEW p \in Slot, NEW n \in Image, ExecBegin(p, n) PROVE IndInv' BY <1>18, ExecBeginInv
<1>19. ASSUME NEW p \in Slot, NEW n \in Delta, Grow(p, n) PROVE IndInv' BY <1>19, GrowInv
<1>20. ASSUME NEW p \in Slot, NEW n \in Delta, Shrink(p, n) PROVE IndInv' BY <1>20, ShrinkInv
<1>21. CASE UNCHANGED vars
  <2>1. UNCHANGED <<free, state, kstack, vm, pc, work>> /\ UNCHANGED <<nextpid, hist, ran, hollow, pid, parent, check, sz>>
    BY <1>21 DEF vars, procVars, histVars
  <2>2. RestOK' BY <2>1 DEF IndInv, TypeOK, RestOK
  <2> QED BY <2>1, <2>2, RestInv
<1> QED BY <1>1, <1>2, <1>3, <1>4, <1>5, <1>6, <1>7, <1>8, <1>9, <1>10, <1>11, <1>12, <1>13, <1>14, <1>15,
           <1>16, <1>17, <1>18, <1>19, <1>20, <1>21, Zenon DEF Next

\* The inductive invariant of every schedule of fork(), exec(), sbrk(), exit() and wait():
\* what each call has in hand, and which slot it works on (proc.c, exec.c, vm.c).
THEOREM InductiveInvariant == Spec => []IndInv
<1>1. Init => IndInv BY InitInv
<1>2. IndInv /\ [Next]_vars => IndInv' BY StepInv
<1> QED BY <1>1, <1>2, PTL DEF Spec

\* The counters, slots and address spaces of the kernel stay what proc.h and vm.c take
\* them to be, and the bubble sort of gethistory() (exec.c) stays inside hist_arr.
THEOREM TypeCorrect == Spec => []TypeOK
<1>1. IndInv => TypeOK BY DEF IndInv
<1> QED BY <1>1, InductiveInvariant, PTL

\* No page is lost and none is freed twice, whichever kalloc() fails and wherever the
\* calls of other processes stand (kalloc.c, vm.c).
THEOREM PagesConservedHolds == Spec => []PagesConserved
<1>1. IndInv => PagesConserved BY DEF IndInv
<1> QED BY <1>1, InductiveInvariant, PTL
-----------------------------------------------------------------------------
\* Process identifiers: those in use differ from each other and from those to come.
PidInv ==
    /\ nextpid \in Nat \ {0} /\ ran \subseteq 1 .. nextpid - 1
    /\ \A q \in Slot : state[q] # "UNUSED" =>
          /\ pid[q] \in 1 .. nextpid - 1
          /\ \A r \in Slot : state[r] # "UNUSED" /\ pid[r] = pid[q] => r = q

\* check says of a live process whether it has run a program, and of a new one that
\* it has not.
RanInv ==
    \A q \in Slot : /\ state[q] = "LIVE" => (check[q] <=> pid[q] \in ran)
                    /\ state[q] = "EMBRYO" => ~check[q] /\ pid[q] \notin ran

HistInv == IndInv /\ PidInv /\ RanInv /\ HistoryComplete

LivePids == {pid[q] : q \in {r \in Slot : state[r] = "LIVE"}}
Gone == ran \ LivePids
HistOf(gone, h) ==
    /\ IsInjective(h) /\ ToSet(h) \subseteq gone
    /\ Len(h) = IF Cardinality(gone) < MAX_LIMIT THEN Cardinality(gone) ELSE MAX_LIMIT

LEMMA HistoryOf == HistoryComplete <=> HistOf(Gone, hist)
BY Zenon DEF HistoryComplete, HistOf, Gone, LivePids

LEMMA HistoryOfNext == (HistoryComplete <=> HistOf(Gone, hist))'
BY HistoryOf, PTL

LEMMA HistoryKept ==
    ASSUME HistoryComplete, hist' = hist, Gone' = Gone
    PROVE  HistoryComplete'
<1>1. HistOf(Gone, hist) BY HistoryOf
<1>2. HistOf(Gone, hist)' BY <1>1 DEF HistOf
<1> QED BY <1>2, HistoryOfNext

\* The steps that start, fill or drop no slot and run no program.
LEMMA HistSame ==
    ASSUME HistInv, IndInv', UNCHANGED <<state, pid, check, nextpid, ran, hist>>
    PROVE  HistInv'
<1>1. PidInv' /\ RanInv' BY DEF HistInv, PidInv, RanInv
<1>2. Gone' = Gone BY DEF Gone, LivePids
<1>3. HistoryComplete' BY <1>2, HistoryKept DEF HistInv
<1> QED BY <1>1, <1>3 DEF HistInv

LEMMA HistInit == Init => HistInv
<1> SUFFICES ASSUME Init PROVE HistInv
  OBVIOUS
<1>1. IndInv BY InitInv
<1> USE MemoryAssumption DEF Init, InitProc
<1>2. PidInv BY DEF PidInv
<1>3. RanInv BY DEF RanInv
<1>4. Gone = {} /\ hist = <<>> BY DEF Gone
<1>5. Cardinality({}) = 0 BY FS_EmptySet
<1>6. IsInjective(<<>>) /\ ToSet(<<>>) = {} BY DEF IsInjective, ToSet
<1>7. HistOf(Gone, hist)
  <2>1. HistOf({}, <<>>) BY <1>5, <1>6 DEF HistOf
  <2> QED BY <1>4, <2>1
<1>8. HistoryComplete BY <1>7, HistoryOf
<1> QED BY <1>1, <1>2, <1>3, <1>8 DEF HistInv

\* A slot that was filled or reaped, and no program ran in it.
LEMMA HistFreed ==
    ASSUME HistInv, IndInv', NEW q \in Slot, state[q] # "LIVE", state' = [state EXCEPT ![q] = "UNUSED"],
           pid' = pid \/ pid' = [pid EXCEPT ![q] = 0], UNCHANGED <<check, nextpid, ran, hist>>
    PROVE  HistInv'
<1>1. /\ state'[q] = "UNUSED"
      /\ \A r \in Slot \ {q} : state'[r] = state[r] /\ pid'[r] = pid[r]
  BY DEF HistInv, IndInv, TypeOK
<1>2. PidInv' BY <1>1 DEF HistInv, PidInv
<1>3. RanInv' BY <1>1 DEF HistInv, RanInv
<1>4. Gone' = Gone
  <2>1. LivePids' = LivePids BY <1>1 DEF LivePids
  <2> QED BY <2>1 DEF Gone
<1>5. HistoryComplete' BY <1>4, HistoryKept DEF HistInv
<1> QED BY <1>2, <1>3, <1>5 DEF HistInv

LEMMA HistAllocProc ==
    ASSUME HistInv, IndInv', NEW p \in Slot, AllocProc(p)
    PROVE  HistInv'
<1> DEFINE unused == {r \in Slot : state[r] = "UNUSED"}
<1>1. PICK q : q = MinOf(unused) OBVIOUS
<1>2. q \in Slot /\ state[q] = "UNUSED"
  <2>1. unused # {} BY DEF AllocProc
  <2>3. unused \in SUBSET Nat BY DEF Slot
  <2>2. MinOf(unused) \in unused
    <3> HIDE DEF unused
    <3> QED BY <2>1, <2>3, MinOfIn
  <2> QED BY <1>1, <2>2
<1>3. /\ state' = [state EXCEPT ![q] = "EMBRYO"] /\ pid' = [pid EXCEPT ![q] = nextpid]
      /\ nextpid' = nextpid + 1 /\ check' = [check EXCEPT ![q] = FALSE]
      /\ UNCHANGED <<hist, ran>>
  BY <1>1 DEF AllocProc, Newborn
<1>4. /\ state'[q] = "EMBRYO" /\ pid'[q] = nextpid /\ ~check'[q]
      /\ \A r \in Slot \ {q} : state'[r] = state[r] /\ pid'[r] = pid[r] /\ check'[r] = check[r]
  BY <1>2, <1>3 DEF HistInv, IndInv, TypeOK
<1>5. nextpid \in Nat \ {0} /\ nextpid \notin ran BY DEF HistInv, PidInv
<1>6. PidInv'
  <2>1. nextpid' \in Nat \ {0} /\ ran' \subseteq 1 .. nextpid' - 1 BY <1>3, <1>5 DEF HistInv, PidInv
  <2>2. ASSUME NEW r \in Slot, state'[r] # "UNUSED"
        PROVE  /\ pid'[r] \in 1 .. nextpid' - 1
               /\ r # q => state[r] # "UNUSED" /\ pid'[r] # nextpid
    BY <1>3, <1>4, <1>5, <2>2 DEF HistInv, PidInv
  <2>3. ASSUME NEW r \in Slot, NEW s \in Slot, state'[r] # "UNUSED", state'[s] # "UNUSED", pid'[s] = pid'[r]
        PROVE  s = r
    BY <1>4, <2>2, <2>3 DEF HistInv, PidInv
  <2> QED BY <2>1, <2>2, <2>3 DEF PidInv
<1>7. RanInv' BY <1>2, <1>3, <1>4, <1>5 DEF HistInv, RanInv
<1>8. Gone' = Gone
  <2>1. LivePids' = LivePids BY <1>2, <1>4 DEF LivePids
  <2> QED BY <1>3, <2>1 DEF Gone
<1>9. HistoryComplete' BY <1>3, <1>8, HistoryKept DEF HistInv
<1> QED BY <1>6, <1>7, <1>9 DEF HistInv

\* The child of fork() appears, with a new process identifier.
LEMMA HistForkDone ==
    ASSUME HistInv, IndInv', NEW p \in Slot, ForkDone(p)
    PROVE  HistInv'
<1> PICK q : q = work[p].kid OBVIOUS
<1>1. q \in Slot /\ state[q] = "EMBRYO"
  <2>1. work[p].op = "fork" /\ PageInv BY DEF ForkDone, LoopDone, HistInv, IndInv
  <2> QED BY <2>1, ForkKid
<1>2. state' = [state EXCEPT ![q] = "LIVE"] /\ UNCHANGED <<pid, check, nextpid, ran, hist>>
  BY DEF ForkDone, histVars
<1>3. state'[q] = "LIVE" /\ \A r \in Slot \ {q} : state'[r] = state[r]
  BY <1>1, <1>2 DEF HistInv, IndInv, TypeOK
<1>4. PidInv' BY <1>1, <1>2, <1>3 DEF HistInv, PidInv
<1>5. ~check[q] /\ pid[q] \notin ran BY <1>1 DEF HistInv, RanInv
<1>6. RanInv' BY <1>2, <1>3, <1>5 DEF HistInv, RanInv
<1>7. Gone' = Gone
  <2>1. LivePids' = LivePids \cup {pid[q]} BY <1>1, <1>2, <1>3 DEF LivePids
  <2> QED BY <1>2, <1>5, <2>1 DEF Gone
<1>8. HistoryComplete' BY <1>2, <1>7, HistoryKept DEF HistInv
<1> QED BY <1>4, <1>6, <1>8 DEF HistInv

\* A program runs in a process that is still alive.
LEMMA HistExecDone ==
    ASSUME HistInv, IndInv', NEW p \in Slot, ExecDone(p)
    PROVE  HistInv'
<1>1. state[p] = "LIVE"
  <2>1. SlotOk(p) BY DEF HistInv, IndInv, PageInv
  <2> QED BY <2>1 DEF SlotOk, ExecDone, LoopDone, At
<1>2. /\ check' = [check EXCEPT ![p] = TRUE] /\ ran' = ran \cup {pid[p]}
      /\ UNCHANGED <<state, pid, nextpid, hist>>
  BY DEF ExecDone
<1>3. check'[p] = TRUE /\ \A r \in Slot \ {p} : check'[r] = check[r]
  BY <1>2 DEF HistInv, IndInv, TypeOK
<1>4. PidInv' BY <1>1, <1>2 DEF HistInv, PidInv
<1>5. \A r \in Slot \ {p} : state[r] # "UNUSED" => pid[r] # pid[p] BY <1>1 DEF HistInv, PidInv
<1>6. RanInv' BY <1>1, <1>2, <1>3, <1>5 DEF HistInv, RanInv
<1>7. Gone' = Gone
  <2>1. LivePids' = LivePids /\ pid[p] \in LivePids BY <1>1, <1>2 DEF LivePids
  <2> QED BY <1>2, <2>1 DEF Gone
<1>8. HistoryComplete' BY <1>2, <1>7, HistoryKept DEF HistInv
<1> QED BY <1>4, <1>6, <1>8 DEF HistInv

LEMMA HistOfAppend ==
    ASSUME NEW gone, NEW h \in Seq(Nat), NEW x \in Nat, HistOf(gone, h), IsFiniteSet(gone), x \notin gone
    PROVE  HistOf(gone \cup {x}, IF Len(h) < MAX_LIMIT THEN Append(h, x) ELSE h)
<1>1. Cardinality(gone) \in Nat /\ Cardinality(gone \cup {x}) = Cardinality(gone) + 1
  BY FS_AddElement, FS_CardinalityType
<1>2. MAX_LIMIT \in Nat BY MemoryAssumption
<1> PICK n \in Nat : n = Cardinality(gone) BY <1>1
<1>3. Len(h) = IF n < MAX_LIMIT THEN n ELSE MAX_LIMIT BY DEF HistOf
<1>4. CASE Len(h) < MAX_LIMIT
  <2> PICK t : t = Append(h, x) OBVIOUS
  <2>1. Len(t) = Len(h) + 1 /\ DOMAIN t = 1 .. Len(h) + 1 /\ DOMAIN h = 1 .. Len(h)
        /\ t[Len(h) + 1] = x /\ \A i \in 1 .. Len(h) : t[i] = h[i]
    OBVIOUS
  <2>2. \A i \in 1 .. Len(h) : h[i] \in gone BY <2>1 DEF HistOf, ToSet
  <2>3. IsInjective(t) BY <2>1, <2>2 DEF HistOf, IsInjective
  <2>4. ToSet(t) \subseteq gone \cup {x} BY <2>1, <2>2 DEF ToSet
  <2>5. n < MAX_LIMIT /\ Len(t) = n + 1 BY <1>2, <1>3, <1>4, <2>1
  <2>6. Len(t) = IF n + 1 < MAX_LIMIT THEN n + 1 ELSE MAX_LIMIT BY <1>2, <2>5
  <2>7. HistOf(gone \cup {x}, t) BY <1>1, <2>3, <2>4, <2>6 DEF HistOf
  <2> QED BY <1>4, <2>7
<1>5. CASE ~(Len(h) < MAX_LIMIT)
  <2>1. ~(n < MAX_LIMIT) /\ Len(h) = MAX_LIMIT BY <1>2, <1>3, <1>5
  <2>2. Len(h) = IF n + 1 < MAX_LIMIT THEN n + 1 ELSE MAX_LIMIT BY <1>2, <2>1
  <2>3. HistOf(gone \cup {x}, h) BY <1>1, <2>2 DEF HistOf
  <2> QED BY <1>5, <2>3
<1> QED BY <1>4, <1>5

LEMMA HistExit ==
    ASSUME HistInv, IndInv', NEW p \in Slot, Exit(p)
    PROVE  HistInv'
<1>1. state[p] = "LIVE"
  <2>1. SlotOk(p) BY DEF HistInv, IndInv, PageInv
  <2> QED BY <2>1 DEF SlotOk, Exit, At
<1>2. /\ state' = [state EXCEPT ![p] = "ZOMBIE"] /\ UNCHANGED <<pid, check, nextpid, ran>>
      /\ hist' = IF check[p] /\ Len(hist) < MAX_LIMIT THEN Append(hist, pid[p]) ELSE hist
  BY DEF Exit
<1>3. state'[p] = "ZOMBIE" /\ \A r \in Slot \ {p} : state'[r] = state[r]
  BY <1>2 DEF HistInv, IndInv, TypeOK
<1>4. PidInv' BY <1>1, <1>2, <1>3 DEF HistInv, PidInv
<1>5. RanInv' BY <1>1, <1>2, <1>3 DEF HistInv, RanInv
<1>6. (check[p] <=> pid[p] \in ran) /\ pid[p] \in LivePids /\ pid[p] \in Nat
  BY <1>1 DEF HistInv, RanInv, PidInv, LivePids
<1>7. \A r \in Slot \ {p} : state[r] = "LIVE" => pid[r] # pid[p] BY <1>1 DEF HistInv, PidInv
<1>8. LivePids' = LivePids \ {pid[p]} BY <1>2, <1>3, <1>7 DEF LivePids
<1>9. HistOf(Gone, hist) BY HistoryOf DEF HistInv
<1>10. CASE check[p]
  <2>1. Gone' = Gone \cup {pid[p]} /\ pid[p] \notin Gone BY <1>2, <1>6, <1>8, <1>10 DEF Gone
  <2>2. IsFiniteSet(Gone)
    <3>1. nextpid - 1 \in Nat /\ 1 \in Int /\ nextpid - 1 \in Int BY DEF HistInv, PidInv
    <3>2. IsFiniteSet(1 .. nextpid - 1) BY <3>1, FS_Interval
    <3>3. Gone \subseteq 1 .. nextpid - 1 BY DEF Gone, HistInv, PidInv
    <3> QED BY <3>2, <3>3, FS_Subset
  <2>3. hist \in Seq(Nat) BY DEF HistInv, IndInv, TypeOK
  <2>4. HistOf(Gone \cup {pid[p]}, IF Len(hist) < MAX_LIMIT THEN Append(hist, pid[p]) ELSE hist)
    BY <1>6, <1>9, <2>1, <2>2, <2>3, HistOfAppend
  <2>5. hist' = IF Len(hist) < MAX_LIMIT THEN Append(hist, pid[p]) ELSE hist BY <1>2, <1>10
  <2>6. HistOf(Gone', hist') BY <2>1, <2>4, <2>5
  <2>7. HistOf(Gone, hist)' BY <2>6 DEF HistOf
  <2>8. HistoryComplete' BY <2>7, HistoryOfNext
  <2> QED BY <1>4, <1>5, <2>8 DEF HistInv
<1>11. CASE ~check[p]
  <2>1. Gone' = Gone /\ hist' = hist BY <1>2, <1>6, <1>8, <1>11 DEF Gone
  <2>2. HistoryComplete' BY <2>1, HistoryKept DEF HistInv
  <2> QED BY <1>4, <1>5, <2>2 DEF HistInv
<1> QED BY <1>10, <1>11

LEMMA HistAllocStack ==
    ASSUME HistInv, IndInv', NEW p \in Slot, AllocStack(p)
    PROVE  HistInv'
<1>1. CASE free = 0
  <2> PICK q : q = work[p].kid OBVIOUS
  <2>1. q \in Slot /\ state[q] # "LIVE"
    <3>1. work[p].op = "fork" /\ PageInv BY DEF AllocStack, At, HistInv, IndInv, PageInv, WorkOk
    <3>2. state[q] = "EMBRYO" /\ q \in Slot BY <3>1, ForkKid
    <3> QED BY <3>2
  <2>2. state' = [state EXCEPT ![q] = "UNUSED"] /\ UNCHANGED <<pid, check, nextpid, ran, hist>>
    BY <1>1 DEF AllocStack, histVars
  <2> QED BY <2>1, <2>2, HistFreed
<1>2. CASE free # 0
  <2>1. UNCHANGED <<state, pid, check, nextpid, ran, hist>> BY <1>2 DEF AllocStack, histVars
  <2> QED BY <2>1, HistSame
<1> QED BY <1>1, <1>2

LEMMA HistFreeDone ==
    ASSUME HistInv, IndInv', NEW p \in Slot, FreeDone(p)
    PROVE  HistInv'
<1>1. CASE work[p].op = "fork"
  <2> PICK q : q = work[p].kid OBVIOUS
  <2>1. q \in Slot /\ state[q] # "LIVE"
    <3>1. PageInv BY DEF HistInv, IndInv
    <3>2. state[q] = "EMBRYO" /\ q \in Slot BY <1>1, <3>1, ForkKid
    <3> QED BY <3>2
  <2>2. state' = [state EXCEPT ![q] = "UNUSED"] /\ UNCHANGED <<pid, check, nextpid, ran, hist>>
    BY <1>1 DEF FreeDone, histVars
  <2> QED BY <2>1, <2>2, HistFreed
<1>2. CASE work[p].op # "fork"
  <2>1. UNCHANGED <<state, pid, check, nextpid, ran, hist>> BY <1>2 DEF FreeDone, histVars
  <2> QED BY <2>1, HistSame
<1> QED BY <1>1, <1>2

LEMMA HistReapDone ==
    ASSUME HistInv, IndInv', NEW p \in Slot, ReapDone(p)
    PROVE  HistInv'
<1> PICK q : q = work[p].kid OBVIOUS
<1>1. q \in Slot /\ state[q] # "LIVE"
  <2>1. KidOk(p) /\ pc[p] = "reap" BY DEF ReapDone, At, HistInv, IndInv, PageInv
  <2>2. q \in Slot /\ state[q] = "ZOMBIE" BY <2>1 DEF KidOk
  <2> QED BY <2>2
<1>2. /\ state' = [state EXCEPT ![q] = "UNUSED"] /\ pid' = [pid EXCEPT ![q] = 0]
      /\ UNCHANGED <<check, nextpid, ran, hist>>
  BY DEF ReapDone, histVars
<1> QED BY <1>1, <1>2, HistFreed

\* Sorting loses no entry and repeats none.
LEMMA HistGetHistory ==
    ASSUME HistInv, IndInv', NEW p \in Slot, GetHistory(p)
    PROVE  HistInv'
<1> PICK h : h = hist OBVIOUS
<1> PICK t : t = HistSorted OBVIOUS
<1>1. hist' = t /\ UNCHANGED <<state, pid, check, nextpid, ran>> BY DEF GetHistory, procVars
<1>2. PidInv' /\ RanInv' BY <1>1 DEF HistInv, PidInv, RanInv
<1>3. Gone' = Gone BY <1>1 DEF Gone, LivePids
<1>4. h \in Seq(Nat) BY DEF HistInv, IndInv, TypeOK
<1>5. t \in Perm(h) BY <1>4, HistSortedPerm
<1>6. Len(h) \in Nat /\ DOMAIN h = 1 .. Len(h) /\ \A i \in 1 .. Len(h) : h[i] \in Nat BY <1>4
<1>7. t \in [1 .. Len(h) -> Nat] BY <1>5 DEF Perm
<1>8. t \in Seq(Nat) /\ Len(t) = Len(h) /\ DOMAIN t = 1 .. Len(h) BY <1>6, <1>7
<1>9. HistOf(Gone, h) BY HistoryOf DEF HistInv
<1>10. IsInjective(t)
  <2>1. \A i, k \in 1 .. Len(h) : h[i] = h[k] => i = k BY <1>6, <1>9 DEF HistOf, IsInjective
  <2>2. \A i, k \in 1 .. Len(h) : t[i] = t[k] => i = k BY <1>5, <2>1 DEF Perm
  <2> QED BY <1>8, <2>2 DEF IsInjective
<1>11. ToSet(t) \subseteq Gone
  <2>1. \A i \in 1 .. Len(h) : h[i] \in Gone BY <1>6, <1>9 DEF HistOf, ToSet
  <2>2. ASSUME NEW i \in 1 .. Len(h) PROVE t[i] \in Gone
    <3>1. t[i] \in Nat BY <1>7
    <3>2. \E k \in 1 .. Len(h) : h[k] = t[i] BY <1>5, <3>1 DEF Perm
    <3> QED BY <2>1, <3>2
  <2> QED BY <1>8, <2>2 DEF ToSet
<1>12. HistOf(Gone, t) BY <1>8, <1>9, <1>10, <1>11 DEF HistOf
<1>13. HistOf(Gone, hist)' BY <1>1, <1>3, <1>12 DEF HistOf
<1>14. HistoryComplete' BY <1>13, HistoryOfNext
<1> QED BY <1>2, <1>14 DEF HistInv

LEMMA HistStep == HistInv /\ [Next]_vars => HistInv'
<1> SUFFICES ASSUME HistInv, [Next]_vars PROVE HistInv'
  OBVIOUS
<1>0. IndInv' BY StepInv DEF HistInv
<1> DEFINE Kept == UNCHANGED <<state, pid, check, nextpid, ran, hist>>
<1>1. ASSUME NEW p \in Slot, AllocProc(p) PROVE HistInv' BY <1>0, <1>1, HistAllocProc
<1>2. ASSUME NEW p \in Slot, AllocStack(p) PROVE HistInv' BY <1>0, <1>2, HistAllocStack
<1>3. ASSUME NEW p \in Slot, Undo(p) \/ Panic(p) PROVE Kept BY <1>3 DEF Undo, Panic, procVars, histVars
<1>4. ASSUME NEW p \in Slot, Setup(p) PROVE Kept BY <1>3, <1>4 DEF Setup, procVars, histVars
<1>5. ASSUME NEW p \in Slot, AllocPage(p) PROVE Kept BY <1>3, <1>5 DEF AllocPage, procVars, histVars
<1>6. ASSUME NEW p \in Slot, TooBig(p) PROVE Kept BY <1>3, <1>6 DEF TooBig
<1>7. ASSUME NEW p \in Slot, MapPage(p) PROVE Kept BY <1>3, <1>7 DEF MapPage, histVars
<1>8. ASSUME NEW p \in Slot, ForkDone(p) PROVE HistInv' BY <1>0, <1>8, HistForkDone
<1>9. ASSUME NEW p \in Slot, ExecStack(p) PROVE Kept BY <1>9 DEF ExecStack, procVars, histVars
<1>10. ASSUME NEW p \in Slot, ExecDone(p) PROVE HistInv' BY <1>0, <1>10, HistExecDone
<1>11. ASSUME NEW p \in Slot, ExecFails(p) PROVE Kept BY <1>3, <1>11 DEF ExecFails
<1>12. ASSUME NEW p \in Slot, GrowDone(p) PROVE Kept BY <1>12 DEF GrowDone, histVars
<1>13. ASSUME NEW p \in Slot, Kfree(p) PROVE Kept BY <1>13 DEF Kfree, procVars, histVars
<1>14. ASSUME NEW p \in Slot, FreeDone(p) PROVE HistInv' BY <1>0, <1>14, HistFreeDone
<1>15. ASSUME NEW p \in Slot, Exit(p) PROVE HistInv' BY <1>0, <1>15, HistExit
<1>16. ASSUME NEW p \in Slot, Reap(p) PROVE Kept BY <1>16 DEF Reap, histVars
<1>17. ASSUME NEW p \in Slot, ReapDone(p) PROVE HistInv' BY <1>0, <1>17, HistReapDone
<1>18. ASSUME NEW p \in Slot, GetHistory(p) PROVE HistInv' BY <1>0, <1>18, HistGetHistory
<1>19. ASSUME NEW p \in Slot, NEW n \in Image, ExecBegin(p, n) PROVE Kept
  BY <1>19 DEF ExecBegin, procVars, histVars
<1>20. ASSUME NEW p \in Slot, NEW n \in Delta, Grow(p, n) \/ Shrink(p, n) PROVE Kept
  BY <1>20 DEF Grow, Shrink, procVars, histVars
<1>21. ASSUME UNCHANGED vars PROVE Kept BY <1>21 DEF vars, procVars, histVars
<1>22. Kept => HistInv' BY <1>0, HistSame
<1> HIDE DEF Kept
<1> QED BY <1>1, <1>2, <1>4, <1>5, <1>6, <1>7, <1>8, <1>9, <1>10, <1>11, <1>12, <1>13, <1>14, <1>15,
           <1>16, <1>17, <1>18, <1>19, <1>20, <1>21, <1>22, Zenon DEF Next

\* The history of programs (exec.c, proc.c) is complete whichever slots and process
\* identifiers were used before, and gethistory() sorts it without loss.
THEOREM HistoryCompleteHolds == Spec => []HistoryComplete
<1>1. Init => HistInv BY HistInit
<1>2. HistInv /\ [Next]_vars => HistInv' BY HistStep
<1>3. HistInv => HistoryComplete BY DEF HistInv
<1> QED BY <1>1, <1>2, <1>3, PTL DEF Spec
-----------------------------------------------------------------------------
\* The first k pages, the pages below a size, and an address space with a page table
\* over each page.
First(k) == {i \in UserPage : i < k}
Below(a) == {i \in UserPage : i * PGSIZE < a}
Tabled(v) == {i \div SPAN : i \in v.pages} \subseteq v.tables

\* The loop has k pages behind it and passes the end by less than a page.
Reached(w, k) == w.va = k * PGSIZE /\ w.va < w.goal + PGSIZE

\* fork() and exec() fill a new address space, sbrk() its own.
Building(at, w) == at \in {"kstack", "setup", "page", "map"} /\ w.op \in {"fork", "exec", "stack"}
Growing(at, w) == at \in {"page", "map"} /\ w.op = "sbrk"

BuildOk(at, w, s) ==
    Building(at, w) =>
        /\ Tabled(w.new) /\ \E k \in Nat : Reached(w, k) /\ w.new.pages = First(k)
        /\ w.op = "fork" => w.goal = s
        /\ w.op = "stack" /\ w.va >= w.goal => w.goal < KERNBASE
GrowOk(at, w, v, s, h) ==
    Growing(at, w) =>
        /\ w.goal < KERNBASE /\ s <= w.va
        /\ ~h => \E k \in Nat : Reached(w, k) /\ v.pages = First(k)
ImageOk(at, w, v, s, h) ==
    at # "none" =>
        /\ s < KERNBASE /\ Tabled(v)
        /\ ~h => at # "panic" /\ (Growing(at, w) \/ v.pages = Below(s))

\* Of a process at a position of its call, with its locals, its address space and
\* size, and whether it gave everything back.
Whole(at, w, v, s, h) == BuildOk(at, w, s) /\ GrowOk(at, w, v, s, h) /\ ImageOk(at, w, v, s, h)

ImageInv == IndInv /\ \A p \in Slot : Whole(pc[p], work[p], vm[p], sz[p], p \in hollow)

\* Multiples of the page size.
LEMMA Multiples ==
    ASSUME NEW P \in Nat \ {0}, NEW a \in Nat, NEW b \in Nat
    PROVE  /\ a * P \in Nat /\ b * P \in Nat
           /\ a < b => a * P + P <= b * P
           /\ a >= b => a * P >= b * P
<1>1. a * P \in Nat /\ b * P \in Nat OBVIOUS
<1>2. ASSUME a < b PROVE a * P + P <= b * P
  <2>1. PICK e \in Nat : b = a + 1 + e
    <3>1. b - a - 1 \in Nat /\ b = a + 1 + (b - a - 1) BY <1>2
    <3> QED BY <3>1
  <2>2. b * P = a * P + P + e * P /\ e * P \in Nat BY <2>1
  <2> QED BY <1>1, <2>2
<1>3. ASSUME a >= b PROVE a * P >= b * P
  <2>1. PICK e \in Nat : a = b + e
    <3>1. a - b \in Nat /\ a = b + (a - b) BY <1>3
    <3> QED BY <3>1
  <2>2. a * P = b * P + e * P /\ e * P \in Nat BY <2>1
  <2> QED BY <1>1, <2>2
<1> QED BY <1>1, <1>2, <1>3

LEMMA Exact == \A k \in Nat : k * PGSIZE \in Nat /\ (k * PGSIZE) \div PGSIZE = k
<1> SUFFICES ASSUME NEW k \in Nat PROVE k * PGSIZE \in Nat /\ (k * PGSIZE) \div PGSIZE = k
  OBVIOUS
<1>1. PICK P \in Nat \ {0} : P = PGSIZE BY MemoryAssumption
<1>2. PICK a \in Nat : a = k * P BY <1>1
<1>3. PICK d \in Nat : d = a \div P BY <1>1, <1>2
<1>4. P * d <= a /\ a < P * d + P BY <1>1, <1>2, <1>3
<1>5. d * P <= k * P /\ k * P < d * P + P BY <1>1, <1>2, <1>4
<1>6. ~(d < k) /\ ~(k < d) BY <1>1, <1>5, Multiples
<1>7. d = k BY <1>6
<1> QED BY <1>1, <1>2, <1>3, <1>7

LEMMA RoundUp ==
    \A a \in Nat : \E k \in Nat : PGROUNDUP(a) = k * PGSIZE /\ a <= k * PGSIZE /\ k * PGSIZE < a + PGSIZE
<1> SUFFICES ASSUME NEW a \in Nat
             PROVE  \E k \in Nat : PGROUNDUP(a) = k * PGSIZE /\ a <= k * PGSIZE /\ k * PGSIZE < a + PGSIZE
  OBVIOUS
<1>1. PICK P \in Nat \ {0} : P = PGSIZE BY MemoryAssumption
<1>2. PICK b \in Nat : b = a + P - 1 BY <1>1
<1>3. PICK d \in Nat : d = b \div P BY <1>1, <1>2
<1>4. P * d <= b /\ b < P * d + P BY <1>1, <1>2, <1>3
<1>5. d * P \in Nat /\ d * P = P * d BY <1>1
<1>6. a <= d * P /\ d * P < a + P BY <1>1, <1>2, <1>4, <1>5
<1>7. PGROUNDUP(a) = d * P BY <1>1, <1>2, <1>3 DEF PGROUNDUP
<1> QED BY <1>1, <1>6, <1>7

LEMMA PageNat == UserPage \subseteq Nat
  BY DEF UserPage

LEMMA BelowFirst ==
    \A k, a \in Nat : a <= k * PGSIZE /\ k * PGSIZE < a + PGSIZE => Below(a) = First(k)
<1> SUFFICES ASSUME NEW k \in Nat, NEW a \in Nat, a <= k * PGSIZE, k * PGSIZE < a + PGSIZE
             PROVE  Below(a) = First(k)
  OBVIOUS
<1>1. PICK P \in Nat \ {0} : P = PGSIZE BY MemoryAssumption
<1>2. ASSUME NEW i \in UserPage PROVE i * P < a <=> i < k
  <2>1. i \in Nat BY PageNat
  <2>2. /\ i * P \in Nat /\ k * P \in Nat
        /\ i < k => i * P + P <= k * P
        /\ i >= k => i * P >= k * P
    BY <1>1, <2>1, Multiples
  <2>3. a <= k * P /\ k * P < a + P BY <1>1
  <2> QED BY <2>1, <2>2, <2>3
<1> QED BY <1>1, <1>2 DEF Below, First

LEMMA FirstNext ==
    ASSUME NEW k \in UserPage
    PROVE  k \notin First(k) /\ First(k + 1) = First(k) \cup {k} /\ k \in Nat
<1>1. k \in Nat BY PageNat
<1>2. ASSUME NEW i \in UserPage PROVE i < k + 1 <=> i < k \/ i = k
  <2>1. i \in Nat BY PageNat
  <2> QED BY <1>1, <2>1
<1>3. ~(k < k) BY <1>1
<1> QED BY <1>1, <1>2, <1>3 DEF First

LEMMA FirstNone == First(0) = {}
<1>1. ASSUME NEW i \in UserPage PROVE ~(i < 0)
  <2>1. i \in Nat BY PageNat
  <2> QED BY <2>1
<1> QED BY <1>1 DEF First

\* What deallocuvm() leaves.
LEMMA Freed ==
    ASSUME NEW lo \in Nat, NEW hi \in Nat, NEW S, Below(lo) \subseteq S, S \subseteq Below(hi)
    PROVE  S \ PagesIn(lo, hi) = Below(lo)
<1>1. PICK P \in Nat \ {0} : P = PGSIZE BY MemoryAssumption
<1>2. PICK k \in Nat : PGROUNDUP(lo) = k * P /\ lo <= k * P /\ k * P < lo + P BY <1>1, RoundUp
<1>3. ASSUME NEW i \in UserPage PROVE i * P < lo <=> ~(k * P <= i * P)
  <2>1. i \in Nat BY PageNat
  <2>2. /\ i * P \in Nat /\ k * P \in Nat
        /\ i < k => i * P + P <= k * P
        /\ i >= k => i * P >= k * P
    BY <2>1, Multiples
  <2> QED BY <1>2, <2>1, <2>2
<1>4. \A i \in UserPage : i \in PagesIn(lo, hi) <=> k * P <= i * P /\ i * P < hi BY <1>1, <1>2 DEF PagesIn
<1>5. \A i : i \in Below(lo) <=> i \in UserPage /\ i * P < lo BY <1>1 DEF Below
<1>6. \A i : i \in Below(hi) <=> i \in UserPage /\ i * P < hi BY <1>1 DEF Below
<1> QED BY <1>3, <1>4, <1>5, <1>6

\* A loop that passed s and stays near hi has pages between.
LEMMA FirstBetween ==
    ASSUME NEW lo \in Nat, NEW hi \in Nat, NEW k \in Nat, lo <= k * PGSIZE, k * PGSIZE < hi + PGSIZE
    PROVE  Below(lo) \subseteq First(k) /\ First(k) \subseteq Below(hi)
<1>1. PICK P \in Nat \ {0} : P = PGSIZE BY MemoryAssumption
<1>2. ASSUME NEW i \in UserPage PROVE (i * P < lo => i < k) /\ (i < k => i * P < hi)
  <2>1. i \in Nat BY PageNat
  <2>2. /\ i * P \in Nat /\ k * P \in Nat
        /\ i < k => i * P + P <= k * P
        /\ i >= k => i * P >= k * P
    BY <2>1, Multiples
  <2>3. lo <= k * P /\ k * P < hi + P BY <1>1
  <2> QED BY <2>1, <2>2, <2>3
<1> QED BY <1>1, <1>2 DEF Below, First

\* Other processes are not touched by a call, save for the one it fills or empties.
LEMMA WholeStep ==
    ASSUME ImageInv, IndInv', NEW p \in Slot, NEW q \in Slot,
           \A r \in Slot \ {p, q} : /\ pc'[r] = pc[r] /\ work'[r] = work[r] /\ vm'[r] = vm[r]
                                    /\ sz'[r] = sz[r] /\ (r \in hollow' <=> r \in hollow),
           Whole(pc'[p], work'[p], vm'[p], sz'[p], p \in hollow'),
           Whole(pc'[q], work'[q], vm'[q], sz'[q], q \in hollow')
    PROVE  ImageInv'
<1>1. ASSUME NEW r \in Slot PROVE Whole(pc'[r], work'[r], vm'[r], sz'[r], r \in hollow')
  <2>1. CASE r \in {p, q} BY <2>1
  <2>2. CASE r \notin {p, q}
    <3>1. Whole(pc[r], work[r], vm[r], sz[r], r \in hollow) BY DEF ImageInv
    <3>2. /\ pc'[r] = pc[r] /\ work'[r] = work[r] /\ vm'[r] = vm[r]
          /\ sz'[r] = sz[r] /\ (r \in hollow') = (r \in hollow)
      BY <2>2
    <3> QED BY <3>1, <3>2
  <2> QED BY <2>1, <2>2
<1>2. ImageInv' <=> IndInv' /\ \A r \in Slot : Whole(pc'[r], work'[r], vm'[r], sz'[r], r \in hollow')
  BY DEF ImageInv, Whole, BuildOk, GrowOk, ImageOk, Building, Growing, Reached, Tabled, First, Below, UserPage
<1> QED BY <1>1, <1>2

\* The call of one process.
LEMMA WholeCall ==
    ASSUME ImageInv, IndInv', NEW p \in Slot, NEW y, NEW x, NEW u, NEW s,
           pc' = [pc EXCEPT ![p] = y], work' = [work EXCEPT ![p] = x], vm' = [vm EXCEPT ![p] = u],
           sz' = [sz EXCEPT ![p] = s], \A r \in Slot \ {p} : r \in hollow' <=> r \in hollow,
           Whole(y, x, u, s, p \in hollow')
    PROVE  ImageInv'
<1>1. /\ \A r \in Slot \ {p} : /\ pc'[r] = pc[r] /\ work'[r] = work[r] /\ vm'[r] = vm[r]
                               /\ sz'[r] = sz[r] /\ (r \in hollow' <=> r \in hollow)
      /\ pc'[p] = y /\ work'[p] = x /\ vm'[p] = u /\ sz'[p] = s
  BY DEF ImageInv, IndInv, TypeOK
<1>2. Whole(pc'[p], work'[p], vm'[p], sz'[p], p \in hollow') BY <1>1
<1> QED BY <1>1, <1>2, WholeStep

\* The types of what the call of p works on, with what is left alone written as an update.
LEMMA Here ==
    ASSUME ImageInv, NEW p \in Slot
    PROVE  /\ work[p] \in Work /\ vm[p] \in Vm /\ sz[p] \in Nat /\ WorkOk(p) /\ TypeOK /\ PageInv
           /\ work[p].new \in Vm /\ work[p].va \in Nat /\ work[p].goal \in Nat
           /\ Whole(pc[p], work[p], vm[p], sz[p], p \in hollow)
           /\ pc = [pc EXCEPT ![p] = pc[p]] /\ work = [work EXCEPT ![p] = work[p]]
           /\ vm = [vm EXCEPT ![p] = vm[p]] /\ sz = [sz EXCEPT ![p] = sz[p]]
<1>1. TypeOK /\ PageInv BY DEF ImageInv, IndInv
<1>2. work[p] \in Work /\ vm[p] \in Vm /\ sz[p] \in Nat /\ WorkOk(p) BY <1>1 DEF TypeOK, PageInv
<1>3. work[p].new \in Vm /\ work[p].va \in Nat /\ work[p].goal \in Nat BY <1>2 DEF Work
<1>4. /\ pc = [pc EXCEPT ![p] = pc[p]] /\ work = [work EXCEPT ![p] = work[p]]
      /\ vm = [vm EXCEPT ![p] = vm[p]] /\ sz = [sz EXCEPT ![p] = sz[p]]
  BY <1>1 DEF TypeOK
<1>6. Whole(pc[p], work[p], vm[p], sz[p], p \in hollow) BY DEF ImageInv
<1> QED BY <1>1, <1>2, <1>3, <1>4, <1>6

\* A step of a call that leaves its own address space and size alone.
LEMMA WholeQuiet ==
    ASSUME ImageInv, IndInv', NEW p \in Slot, NEW y, NEW x,
           pc' = [pc EXCEPT ![p] = y], work' = [work EXCEPT ![p] = x], UNCHANGED <<vm, sz, hollow>>,
           Whole(y, x, vm[p], sz[p], p \in hollow)
    PROVE  ImageInv'
<1>1. /\ \A r \in Slot \ {p} : /\ pc'[r] = pc[r] /\ work'[r] = work[r] /\ vm'[r] = vm[r]
                               /\ sz'[r] = sz[r] /\ (r \in hollow' <=> r \in hollow)
      /\ pc'[p] = y /\ work'[p] = x /\ vm'[p] = vm[p] /\ sz'[p] = sz[p] /\ hollow' = hollow
  BY DEF ImageInv, IndInv, TypeOK
<1>2. Whole(pc'[p], work'[p], vm'[p], sz'[p], p \in hollow') BY <1>1
<1> QED BY <1>1, <1>2, WholeStep

\* Nothing is being built: the address space is what it was.
LEMMA WholeIdle ==
    ASSUME NEW at, NEW w, NEW v, NEW s, NEW h, Whole(at, w, v, s, h), ~Growing(at, w), at # "none",
           NEW y \in {"user", "free", "reap"}, NEW x
    PROVE  Whole(y, x, v, s, h)
  BY DEF Whole, BuildOk, GrowOk, ImageOk, Building, Growing

\* A step that keeps the position of the loop.
LEMMA WholeBuild ==
    ASSUME NEW at, NEW w, NEW v, NEW s, NEW h, Whole(at, w, v, s, h), Building(at, w),
           NEW y \in {"kstack", "setup", "page", "map"}, NEW x,
           x.op = w.op, x.va = w.va, x.goal = w.goal, x.new.pages = w.new.pages, x.new.tables = w.new.tables
    PROVE  Whole(y, x, v, s, h)
<1>1. Building(y, x) /\ ~Growing(y, x) /\ ~Growing(at, w) BY DEF Building, Growing
<1>2. \A k \in Nat : Reached(w, k) => Reached(x, k) BY DEF Reached
<1>3. Tabled(w.new) => Tabled(x.new) BY DEF Tabled
<1>4. BuildOk(y, x, s) BY <1>1, <1>2, <1>3 DEF Whole, BuildOk
<1>5. at # "none" BY DEF Building
<1>6. ImageOk(y, x, v, s, h) BY <1>1, <1>5 DEF Whole, ImageOk
<1> QED BY <1>1, <1>4, <1>6 DEF Whole, GrowOk

\* A loop that starts: nothing is mapped yet.
LEMMA WholeStart ==
    ASSUME NEW v, NEW s \in Nat, NEW h, Whole("user", NoWork, v, s, h), NEW y \in {"kstack", "setup"},
           NEW x, x.new = NoVm, x.va = 0, x.goal \in Nat, x.op \in {"fork", "exec"}, x.op = "fork" => x.goal = s
    PROVE  Whole(y, x, v, s, h)
<1>1. Building(y, x) /\ ~Growing(y, x) BY DEF Building, Growing
<1>2. x.new.pages = {} /\ x.new.tables = {} BY DEF NoVm
<1>3. Tabled(x.new) BY <1>2 DEF Tabled
<1>4. Reached(x, 0)
  <2>1. PGSIZE \in Nat \ {0} BY MemoryAssumption
  <2>2. 0 * PGSIZE = 0 /\ 0 < x.goal + PGSIZE BY <2>1
  <2> QED BY <2>2 DEF Reached
<1>5. BuildOk(y, x, s) BY <1>1, <1>2, <1>3, <1>4, FirstNone DEF BuildOk
<1>6. ~Growing("user", NoWork) BY DEF Growing
<1>7. ImageOk(y, x, v, s, h) BY <1>1, <1>6 DEF Whole, ImageOk
<1> QED BY <1>1, <1>5, <1>7 DEF Whole, GrowOk

\* The steps, action by action.
LEMMA WholeAllocProc ==
    ASSUME ImageInv, IndInv', NEW p \in Slot, AllocProc(p)
    PROVE  ImageInv'
<1> PICK q : q = MinOf({r \in Slot : state[r] = "UNUSED"}) OBVIOUS
<1> DEFINE x == [work[p] EXCEPT !.op = "fork", !.kid = q, !.goal = sz[p]]
<1>1. pc[p] = "user" BY DEF AllocProc, At
<1>2. pc' = [pc EXCEPT ![p] = "kstack"] /\ work' = [work EXCEPT ![p] = x] /\ UNCHANGED <<vm, sz, hollow>>
  BY DEF AllocProc, Goto
<1>3. work[p] = NoWork /\ sz[p] \in Nat /\ Whole("user", NoWork, vm[p], sz[p], p \in hollow)
  BY <1>1, Here, UserWork DEF ImageInv
<1>4. x.new = NoVm /\ x.va = 0 /\ x.goal = sz[p] /\ x.op = "fork" BY <1>3 DEF NoWork
<1> HIDE DEF x
<1>5. Whole("kstack", x, vm[p], sz[p], p \in hollow) BY <1>3, <1>4, WholeStart
<1> QED BY <1>2, <1>5, WholeQuiet

LEMMA WholeExecBegin ==
    ASSUME ImageInv, IndInv', NEW p \in Slot, NEW n \in Image, ExecBegin(p, n)
    PROVE  ImageInv'
<1> DEFINE x == [work[p] EXCEPT !.op = "exec", !.goal = n]
<1>1. pc[p] = "user" BY DEF ExecBegin, At
<1>2. pc' = [pc EXCEPT ![p] = "setup"] /\ work' = [work EXCEPT ![p] = x] /\ UNCHANGED <<vm, sz, hollow>>
  BY DEF ExecBegin, Goto, procVars
<1>3. work[p] = NoWork /\ sz[p] \in Nat /\ Whole("user", NoWork, vm[p], sz[p], p \in hollow)
  BY <1>1, Here, UserWork DEF ImageInv
<1>4. x.new = NoVm /\ x.va = 0 /\ x.goal \in Nat /\ x.op = "exec" BY <1>3, MemoryAssumption DEF NoWork
<1> HIDE DEF x
<1>5. Whole("setup", x, vm[p], sz[p], p \in hollow) BY <1>3, <1>4, WholeStart
<1> QED BY <1>2, <1>5, WholeQuiet

LEMMA WholeAllocStack ==
    ASSUME ImageInv, IndInv', NEW p \in Slot, AllocStack(p)
    PROVE  ImageInv'
<1>1. pc[p] = "kstack" /\ work[p].op = "fork" BY Here DEF AllocStack, At, WorkOk
<1>2. Building(pc[p], work[p]) /\ ~Growing(pc[p], work[p]) /\ pc[p] # "none" BY <1>1 DEF Building, Growing
<1>3. Whole(pc[p], work[p], vm[p], sz[p], p \in hollow) BY Here
<1>4. CASE free = 0
  <2>1. pc' = [pc EXCEPT ![p] = "user"] /\ work' = [work EXCEPT ![p] = NoWork] /\ UNCHANGED <<vm, sz, hollow>>
    BY <1>4 DEF AllocStack, Return, Goto
  <2>2. Whole("user", NoWork, vm[p], sz[p], p \in hollow) BY <1>2, <1>3, WholeIdle
  <2> QED BY <2>1, <2>2, WholeQuiet
<1>5. CASE free # 0
  <2>1. pc' = [pc EXCEPT ![p] = "setup"] /\ work' = work /\ UNCHANGED <<vm, sz, hollow>>
    BY <1>5 DEF AllocStack, Goto
  <2>2. work' = [work EXCEPT ![p] = work[p]] BY <2>1, Here
  <2>3. Whole("setup", work[p], vm[p], sz[p], p \in hollow) BY <1>2, <1>3, WholeBuild
  <2> QED BY <2>1, <2>2, <2>3, WholeQuiet
<1> QED BY <1>4, <1>5

LEMMA WholeUndo ==
    ASSUME ImageInv, IndInv', NEW p \in Slot, pc[p] \in {"setup", "page", "map"}, Undo(p)
    PROVE  ImageInv'
<1> PICK w, v, s : w = work[p] /\ v = vm[p] /\ s = sz[p] OBVIOUS
<1>1. /\ w \in Work /\ v \in Vm /\ s \in Nat /\ WorkOk(p) /\ w.goal \in Nat
      /\ Whole(pc[p], w, v, s, p \in hollow)
  BY Here
<1>2. pc' = [pc EXCEPT ![p] = "free"] /\ UNCHANGED <<sz, hollow>> BY DEF Undo, Goto
<1>3. CASE w.op # "sbrk"
  <2> PICK x : x = [w EXCEPT !.junk = Held(w.new) + InHand(w), !.mem = FALSE, !.new = NoVm] OBVIOUS
  <2>1. work' = [work EXCEPT ![p] = x] /\ UNCHANGED vm BY <1>3 DEF Undo
  <2>2. ~Growing(pc[p], w) BY <1>3 DEF Growing
  <2>3. Whole("free", x, v, s, p \in hollow) BY <1>1, <2>2, WholeIdle
  <2> QED BY <1>2, <2>1, <2>3, WholeQuiet
<1>4. CASE w.op = "sbrk"
  <2> PICK grown : grown = v.pages \cap PagesIn(s, w.goal) OBVIOUS
  <2> PICK x : x = [w EXCEPT !.junk = Cardinality(grown) + InHand(w), !.mem = FALSE] OBVIOUS
  <2> PICK u : u = [v EXCEPT !.pages = @ \ grown] OBVIOUS
  <2>1. work' = [work EXCEPT ![p] = x] /\ vm' = [vm EXCEPT ![p] = u] BY <1>4 DEF Undo
  <2>2. u.pages = v.pages \ PagesIn(s, w.goal) /\ u.tables = v.tables BY <1>1 DEF Vm
  <2>3. Growing(pc[p], w) BY <1>1, <1>4 DEF WorkOk, Growing
  <2>4. s < KERNBASE /\ Tabled(v) /\ s <= w.va BY <1>1, <2>3 DEF Whole, GrowOk, ImageOk
  <2>5. Tabled(u) BY <2>2, <2>4 DEF Tabled
  <2>6. ASSUME p \notin hollow PROVE u.pages = Below(s)
    <3>1. PICK k \in Nat : Reached(w, k) /\ v.pages = First(k)
      BY <1>1, <2>3, <2>6 DEF Whole, GrowOk
    <3>2. s <= k * PGSIZE /\ k * PGSIZE < w.goal + PGSIZE BY <2>4, <3>1 DEF Reached
    <3>3. Below(s) \subseteq First(k) /\ First(k) \subseteq Below(w.goal) BY <1>1, <3>2, FirstBetween
    <3> QED BY <1>1, <2>2, <3>1, <3>3, Freed
  <2>7. Whole("free", x, u, s, p \in hollow) BY <2>4, <2>5, <2>6 DEF Whole, BuildOk, GrowOk, ImageOk, Building, Growing
  <2>8. sz' = [sz EXCEPT ![p] = s] BY <1>2, Here
  <2>9. Whole("free", x, u, s, p \in hollow') BY <1>2, <2>7
  <2> QED BY <1>2, <2>1, <2>8, <2>9, WholeCall
<1> QED BY <1>3, <1>4

LEMMA WholeSetup ==
    ASSUME ImageInv, IndInv', NEW p \in Slot, Setup(p)
    PROVE  ImageInv'
<1>1. pc[p] = "setup" BY DEF Setup, At
<1>2. CASE free = 0
  <2>1. Undo(p) BY <1>2 DEF Setup
  <2> QED BY <1>1, <2>1, WholeUndo
<1>3. CASE free # 0
  <2> DEFINE w == work[p].new
             v == IF w.dir THEN [w EXCEPT !.ktab = @ + 1] ELSE [w EXCEPT !.dir = TRUE]
             x == [work[p] EXCEPT !.new = v]
             y == IF v.ktab = KTABS THEN "page" ELSE "setup"
  <2>1. work' = [work EXCEPT ![p] = x] /\ pc' = [pc EXCEPT ![p] = y] /\ UNCHANGED <<vm, sz, hollow>>
    BY <1>3 DEF Setup, Goto, procVars
  <2>2. w \in Vm /\ work[p] \in Work /\ WorkOk(p) /\ Whole(pc[p], work[p], vm[p], sz[p], p \in hollow) BY Here
  <2>3. v.pages = w.pages /\ v.tables = w.tables BY <2>2 DEF Vm
  <2> HIDE DEF v
  <2>4. /\ x.new = v /\ x.op = work[p].op /\ x.va = work[p].va /\ x.goal = work[p].goal
    BY <2>2 DEF Work
  <2>5. x.new.pages = work[p].new.pages /\ x.new.tables = work[p].new.tables BY <2>3, <2>4
  <2>6. Building(pc[p], work[p]) BY <1>1, <2>2 DEF WorkOk, Building
  <2>7. y \in {"page", "setup"} OBVIOUS
  <2> HIDE DEF x, y, w
  <2>8. Whole(y, x, vm[p], sz[p], p \in hollow) BY <2>2, <2>4, <2>5, <2>6, <2>7, WholeBuild
  <2> QED BY <2>1, <2>8, WholeQuiet
<1> QED BY <1>2, <1>3

\* copyuvm() finds every page of its parent.
LEMMA WholeAllocPage ==
    ASSUME ImageInv, IndInv', NEW p \in Slot, AllocPage(p)
    PROVE  ImageInv'
<1> PICK w, v, s : w = work[p] /\ v = vm[p] /\ s = sz[p] OBVIOUS
<1>1. /\ w \in Work /\ v \in Vm /\ s \in Nat /\ WorkOk(p) /\ w.goal \in Nat /\ w.va \in Nat
      /\ Whole(pc[p], w, v, s, p \in hollow)
  BY Here
<1>2. pc[p] = "page" /\ w.va < w.goal /\ w.goal < KERNBASE BY DEF AllocPage, AtPage, At
<1>3. w.op \in {"fork", "exec", "stack", "sbrk"} BY <1>1, <1>2 DEF WorkOk
<1>4. CASE Missing(p)
  <2>1. w.op = "fork" /\ w.va \div PGSIZE \notin v.pages BY <1>4 DEF Missing
  <2>2. pc' = [pc EXCEPT ![p] = "panic"] /\ UNCHANGED <<work, vm, sz, hollow>>
    BY <1>4 DEF AllocPage, Panic, Goto, procVars
  <2>3. Building(pc[p], w) /\ ~Growing(pc[p], w) BY <1>2, <2>1 DEF Building, Growing
  <2>4. w.goal = s /\ \E k \in Nat : Reached(w, k) BY <1>1, <2>1, <2>3 DEF Whole, BuildOk
  <2>5. PICK k \in Nat : w.va = k * PGSIZE BY <2>4 DEF Reached
  <2>6. w.va \div PGSIZE = k BY <2>5, Exact
  <2>7. w.va < KERNBASE BY <1>1, <1>2, MemoryAssumption
  <2>8. k \in UserPage BY <1>1, <2>6, <2>7, PageOf
  <2>9. k \in Below(s) BY <1>2, <2>4, <2>5, <2>8 DEF Below
  <2>10. s < KERNBASE /\ Tabled(v) /\ (p \notin hollow => v.pages = Below(s))
    BY <1>1, <1>2, <2>3 DEF Whole, ImageOk
  <2>11. p \in hollow BY <2>1, <2>6, <2>9, <2>10
  <2>12. Whole("panic", w, v, s, p \in hollow)
    BY <2>10, <2>11 DEF Whole, BuildOk, GrowOk, ImageOk, Building, Growing
  <2>13. work' = [work EXCEPT ![p] = w] BY <2>2, Here
  <2> QED BY <2>2, <2>12, <2>13, WholeQuiet
<1>5. CASE ~Missing(p) /\ free = 0
  <2>1. Undo(p) BY <1>5 DEF AllocPage
  <2> QED BY <1>2, <2>1, WholeUndo
<1>6. CASE ~Missing(p) /\ free # 0
  <2> PICK x : x = [w EXCEPT !.mem = TRUE] OBVIOUS
  <2>1. pc' = [pc EXCEPT ![p] = "map"] /\ work' = [work EXCEPT ![p] = x] /\ UNCHANGED <<vm, sz, hollow>>
    BY <1>6 DEF AllocPage, Goto, procVars
  <2>2. x.op = w.op /\ x.va = w.va /\ x.goal = w.goal /\ x.new = w.new BY <1>1 DEF Work
  <2>3. Whole("map", x, v, s, p \in hollow)
    <3>1. CASE w.op = "sbrk"
      <4>1. Growing(pc[p], w) /\ Growing("map", x) /\ ~Building("map", x)
        BY <1>2, <2>2, <3>1 DEF Growing, Building
      <4>2. \A k \in Nat : Reached(w, k) => Reached(x, k) BY <2>2 DEF Reached
      <4>3. GrowOk("map", x, v, s, p \in hollow) BY <1>1, <2>2, <4>1, <4>2 DEF Whole, GrowOk
      <4>4. ImageOk("map", x, v, s, p \in hollow) BY <1>1, <1>2, <4>1 DEF Whole, ImageOk
      <4> QED BY <4>1, <4>3, <4>4 DEF Whole, BuildOk
    <3>2. CASE w.op # "sbrk"
      <4>1. Building(pc[p], w) BY <1>2, <1>3, <3>2 DEF Building
      <4> QED BY <1>1, <2>2, <4>1, WholeBuild
    <3> QED BY <3>1, <3>2
  <2> QED BY <2>1, <2>3, WholeQuiet
<1> QED BY <1>4, <1>5, <1>6

\* The page behind the loop.
LEMMA ReachedPage ==
    ASSUME NEW w, w.va \in Nat, w.goal \in Nat, NEW k \in Nat, Reached(w, k), w.va < w.goal, w.goal < KERNBASE
    PROVE  /\ w.va \div PGSIZE = k /\ k \in UserPage /\ w.va + PGSIZE = (k + 1) * PGSIZE
           /\ w.va + PGSIZE < w.goal + PGSIZE /\ w.va <= w.va + PGSIZE
<1>1. PICK P \in Nat \ {0}, a \in Nat, g \in Nat : P = PGSIZE /\ a = w.va /\ g = w.goal BY MemoryAssumption
<1>2. a = k * P BY <1>1 DEF Reached
<1>3. a \div P = k BY <1>1, <1>2, Exact
<1>4. a < KERNBASE BY <1>1, MemoryAssumption
<1>5. k \in UserPage BY <1>1, <1>3, <1>4, PageOf
<1>6. a + P = (k + 1) * P BY <1>1, <1>2
<1>7. a + P < g + P /\ a <= a + P BY <1>1
<1> QED BY <1>1, <1>3, <1>5, <1>6, <1>7

LEMMA TabledMapped ==
    ASSUME NEW v \in Vm, NEW k \in UserPage, v.pages = First(k), Tabled(v)
    PROVE  Tabled(Mapped(v, k)) /\ Mapped(v, k).pages = First(k + 1) /\ k \notin v.pages
<1>1. Mapped(v, k).pages = v.pages \cup {k} /\ Mapped(v, k).tables = v.tables \cup {k \div SPAN}
  BY DEF Mapped, Vm
<1>2. Tabled(Mapped(v, k)) BY <1>1 DEF Tabled
<1> QED BY <1>1, <1>2, FirstNext

LEMMA WholeMapPage ==
    ASSUME ImageInv, IndInv', NEW p \in Slot, MapPage(p)
    PROVE  ImageInv'
<1> PICK w, v, s : w = work[p] /\ v = vm[p] /\ s = sz[p] OBVIOUS
<1> DEFINE target == IF w.op = "sbrk" THEN v ELSE w.new
           i == w.va \div PGSIZE
           table == IF i \div SPAN \in target.tables THEN 0 ELSE 1
           next == [w EXCEPT !.mem = FALSE, !.va = @ + PGSIZE]
<1>1. /\ w \in Work /\ v \in Vm /\ s \in Nat /\ WorkOk(p) /\ w.goal \in Nat /\ w.va \in Nat /\ w.new \in Vm
      /\ Whole(pc[p], w, v, s, p \in hollow)
  BY Here
<1>2. pc[p] = "map" BY DEF MapPage, At
<1>3. w.op \in {"fork", "exec", "stack", "sbrk"} /\ w.va < w.goal /\ w.goal < KERNBASE
  BY <1>1, <1>2 DEF WorkOk
<1>4. s < KERNBASE /\ Tabled(v) BY <1>1, <1>2 DEF Whole, ImageOk
<1>5. /\ next.op = w.op /\ next.va = w.va + PGSIZE /\ next.goal = w.goal /\ next.new = w.new
      /\ \A u : /\ [next EXCEPT !.new = u].op = w.op /\ [next EXCEPT !.new = u].va = w.va + PGSIZE
                /\ [next EXCEPT !.new = u].goal = w.goal /\ [next EXCEPT !.new = u].new = u
  BY <1>1 DEF Work
<1>6. i \in UserPage
  <2>1. w.va < KERNBASE BY <1>1, <1>3, MemoryAssumption
  <2> QED BY <1>1, <2>1, PageOf
<1>7. CASE free < table
  <2>1. Undo(p) BY <1>7 DEF MapPage
  <2> QED BY <1>2, <2>1, WholeUndo
<1>8. CASE ~(free < table) /\ w.op # "sbrk"
  <2>1. Building(pc[p], w) /\ ~Growing(pc[p], w) BY <1>2, <1>3, <1>8 DEF Building, Growing
  <2>2. PICK k \in Nat : Reached(w, k) /\ w.new.pages = First(k) BY <1>1, <2>1 DEF Whole, BuildOk
  <2>3. Tabled(w.new) /\ (w.op = "fork" => w.goal = s) BY <1>1, <2>1 DEF Whole, BuildOk
  <2>4. i = k /\ k \in UserPage /\ w.va + PGSIZE = (k + 1) * PGSIZE /\ w.va + PGSIZE < w.goal + PGSIZE
    BY <1>1, <1>3, <2>2, ReachedPage
  <2>5. Tabled(Mapped(w.new, k)) /\ Mapped(w.new, k).pages = First(k + 1) /\ k \notin w.new.pages
    BY <1>1, <2>2, <2>3, <2>4, TabledMapped
  <2> PICK x : x = [next EXCEPT !.new = Mapped(w.new, k)] OBVIOUS
  <2>6. pc' = [pc EXCEPT ![p] = "page"] /\ work' = [work EXCEPT ![p] = x] /\ UNCHANGED <<vm, sz, hollow>>
    <3>1. /\ pc' = [pc EXCEPT ![p] = "page"] /\ UNCHANGED <<vm, sz, hollow>>
          /\ work' = [work EXCEPT ![p] = [next EXCEPT !.new = Mapped(@, i)]]
      BY <1>8, <2>4, <2>5 DEF MapPage, Goto
    <3>2. [next EXCEPT !.new = Mapped(@, i)] = x BY <1>5, <2>4
    <3> QED BY <3>1, <3>2
  <2>7. x.op = w.op /\ x.va = w.va + PGSIZE /\ x.goal = w.goal /\ x.new = Mapped(w.new, k) BY <1>5
  <2>8. Reached(x, k + 1) /\ k + 1 \in Nat BY <2>4, <2>7 DEF Reached
  <2>9. Building("page", x) /\ ~Growing("page", x) BY <1>3, <1>8, <2>7 DEF Building, Growing
  <2>10. BuildOk("page", x, s) BY <1>3, <2>3, <2>5, <2>7, <2>8 DEF BuildOk
  <2>11. ImageOk("page", x, v, s, p \in hollow) BY <1>1, <1>2, <2>1 DEF Whole, ImageOk
  <2>12. Whole("page", x, v, s, p \in hollow) BY <2>9, <2>10, <2>11 DEF Whole, GrowOk
  <2> QED BY <2>6, <2>12, WholeQuiet
<1>9. CASE ~(free < table) /\ w.op = "sbrk"
  <2>1. Growing(pc[p], w) /\ ~Building(pc[p], w) BY <1>2, <1>9 DEF Building, Growing
  <2>2. s <= w.va BY <1>1, <2>1 DEF Whole, GrowOk
  <2>3. ASSUME p \notin hollow
        PROVE  \E k \in Nat : /\ i = k /\ k \in UserPage /\ v.pages = First(k)
                              /\ w.va + PGSIZE = (k + 1) * PGSIZE
    <3>1. PICK k \in Nat : Reached(w, k) /\ v.pages = First(k) BY <1>1, <2>1, <2>3 DEF Whole, GrowOk
    <3> QED BY <1>1, <1>3, <3>1, ReachedPage
  <2>4. CASE i \in v.pages
    <3>1. p \in hollow BY <2>3, <2>4, FirstNext
    <3>2. pc' = [pc EXCEPT ![p] = "panic"] /\ UNCHANGED <<work, vm, sz, hollow>>
      BY <1>9, <2>4 DEF MapPage, Panic, Goto, procVars
    <3>3. Whole("panic", w, v, s, p \in hollow)
      BY <1>4, <3>1 DEF Whole, BuildOk, GrowOk, ImageOk, Building, Growing
    <3>4. work' = [work EXCEPT ![p] = w] BY <3>2, Here
    <3> QED BY <3>2, <3>3, <3>4, WholeQuiet
  <2>5. CASE i \notin v.pages
    <3> PICK x, u : x = next /\ u = Mapped(v, i) OBVIOUS
    <3>1. pc' = [pc EXCEPT ![p] = "page"] /\ work' = [work EXCEPT ![p] = x] /\ vm' = [vm EXCEPT ![p] = u]
          /\ UNCHANGED <<sz, hollow>>
      BY <1>9, <2>5 DEF MapPage, Goto
    <3>2. x.op = "sbrk" /\ x.va = w.va + PGSIZE /\ x.goal = w.goal BY <1>5, <1>9
    <3>3. Growing("page", x) /\ ~Building("page", x) BY <3>2 DEF Growing, Building
    <3>4. u.pages = v.pages \cup {i} /\ u.tables = v.tables \cup {i \div SPAN} BY <1>1 DEF Mapped, Vm
    <3>5. Tabled(u) BY <1>4, <3>4 DEF Tabled
    <3>6. s <= x.va /\ x.va < x.goal + PGSIZE
      <4>1. PGSIZE \in Nat BY MemoryAssumption
      <4>2. s <= w.va + PGSIZE /\ w.va + PGSIZE < w.goal + PGSIZE BY <1>1, <1>3, <2>2, <4>1
      <4> QED BY <3>2, <4>2
    <3>7. ASSUME p \notin hollow PROVE \E k \in Nat : Reached(x, k) /\ u.pages = First(k)
      <4>1. PICK k \in Nat : /\ i = k /\ k \in UserPage /\ v.pages = First(k)
                             /\ w.va + PGSIZE = (k + 1) * PGSIZE
        BY <2>3, <3>7
      <4>2. u.pages = First(k + 1) BY <3>4, <4>1, FirstNext
      <4>3. Reached(x, k + 1) /\ k + 1 \in Nat BY <3>2, <3>6, <4>1 DEF Reached
      <4> QED BY <4>2, <4>3
    <3>8. GrowOk("page", x, u, s, p \in hollow) BY <1>3, <3>2, <3>6, <3>7 DEF GrowOk
    <3>9. ImageOk("page", x, u, s, p \in hollow) BY <1>4, <3>3, <3>5 DEF ImageOk
    <3>10. Whole("page", x, u, s, p \in hollow') BY <3>1, <3>3, <3>8, <3>9 DEF Whole, BuildOk
    <3>11. sz' = [sz EXCEPT ![p] = s] BY <3>1, Here
    <3>12. \A r \in Slot \ {p} : r \in hollow' <=> r \in hollow BY <3>1
    <3> HIDE DEF next, i, table, target
    <3> QED BY <3>1, <3>10, <3>11, <3>12, WholeCall
  <2> QED BY <2>4, <2>5
<1>10. table \in {0, 1} OBVIOUS
<1> QED BY <1>7, <1>8, <1>9

\* The loop is over: the pages are those below the goal.
LEMMA ReachedGoal ==
    ASSUME NEW w, w.va \in Nat, w.goal \in Nat, NEW k \in Nat, Reached(w, k), w.va >= w.goal
    PROVE  First(k) = Below(w.goal)
<1>1. w.goal <= k * PGSIZE /\ k * PGSIZE < w.goal + PGSIZE BY DEF Reached
<1> QED BY <1>1, BelowFirst

LEMMA WholeForkDone ==
    ASSUME ImageInv, IndInv', NEW p \in Slot, ForkDone(p)
    PROVE  ImageInv'
<1> PICK q : q = work[p].kid OBVIOUS
<1> PICK w, v, s : w = work[p] /\ v = vm[p] /\ s = sz[p] OBVIOUS
<1>1. /\ w.goal \in Nat /\ w.va \in Nat /\ TypeOK /\ PageInv /\ Whole(pc[p], w, v, s, p \in hollow)
  BY Here
<1>2. pc[p] = "page" /\ w.op = "fork" /\ w.va >= w.goal BY DEF ForkDone, LoopDone, At
<1>3. q \in Slot /\ q # p /\ work[q] = NoWork BY <1>1, <1>2, ForkKid
<1>4. /\ vm' = [vm EXCEPT ![q] = w.new] /\ sz' = [sz EXCEPT ![q] = s]
      /\ pc' = [pc EXCEPT ![p] = "user", ![q] = "user"]
      /\ work' = [work EXCEPT ![p] = NoWork] /\ UNCHANGED hollow
  BY DEF ForkDone
<1>5. /\ \A r \in Slot \ {p, q} : /\ pc'[r] = pc[r] /\ work'[r] = work[r] /\ vm'[r] = vm[r]
                                  /\ sz'[r] = sz[r] /\ (r \in hollow' <=> r \in hollow)
      /\ pc'[p] = "user" /\ work'[p] = NoWork /\ vm'[p] = v /\ sz'[p] = s /\ hollow' = hollow
      /\ pc'[q] = "user" /\ work'[q] = NoWork /\ vm'[q] = w.new /\ sz'[q] = s
  BY <1>1, <1>3, <1>4 DEF TypeOK
<1>6. Building(pc[p], w) /\ ~Growing(pc[p], w) BY <1>2 DEF Building, Growing
<1>7. Whole("user", NoWork, v, s, p \in hollow) BY <1>1, <1>2, <1>6, WholeIdle
<1>8. Whole("user", NoWork, w.new, s, q \in hollow)
  <2>1. PICK k \in Nat : Reached(w, k) /\ w.new.pages = First(k) BY <1>1, <1>6 DEF Whole, BuildOk
  <2>2. Tabled(w.new) /\ w.goal = s BY <1>1, <1>2, <1>6 DEF Whole, BuildOk
  <2>3. w.new.pages = Below(s) BY <1>1, <1>2, <2>1, <2>2, ReachedGoal
  <2>4. s < KERNBASE BY <1>1, <1>2 DEF Whole, ImageOk
  <2> QED BY <2>2, <2>3, <2>4 DEF Whole, BuildOk, GrowOk, ImageOk, Building, Growing
<1>9. Whole(pc'[p], work'[p], vm'[p], sz'[p], p \in hollow') BY <1>5, <1>7
<1>10. Whole(pc'[q], work'[q], vm'[q], sz'[q], q \in hollow') BY <1>5, <1>8
<1> QED BY <1>3, <1>5, <1>9, <1>10, WholeStep

\* exec() goes on to the stack, which is at least two pages long.
LEMMA WholeExecStack ==
    ASSUME ImageInv, IndInv', NEW p \in Slot, ExecStack(p)
    PROVE  ImageInv'
<1> PICK w, v, s : w = work[p] /\ v = vm[p] /\ s = sz[p] OBVIOUS
<1> PICK n : n = PGROUNDUP(w.goal) + 2 * PGSIZE OBVIOUS
<1> PICK x : x = [w EXCEPT !.op = "stack", !.goal = n] OBVIOUS
<1>1. /\ w \in Work /\ w.goal \in Nat /\ w.va \in Nat /\ TypeOK /\ Whole(pc[p], w, v, s, p \in hollow)
  BY Here
<1>2. pc[p] = "page" /\ w.op = "exec" BY DEF ExecStack, LoopDone, At
<1>3. work' = [work EXCEPT ![p] = x] /\ pc' = [pc EXCEPT ![p] = "page"] /\ UNCHANGED <<vm, sz, hollow>>
  <2>1. /\ work' = [work EXCEPT ![p].op = "stack", ![p].goal = PGROUNDUP(@) + 2 * PGSIZE]
        /\ UNCHANGED <<pc, vm, sz, hollow>>
    BY DEF ExecStack, procVars
  <2>2. [w EXCEPT !.op = "stack", !.goal = PGROUNDUP(@) + 2 * PGSIZE] = x BY <1>1 DEF Work
  <2>3. work' = [work EXCEPT ![p] = [w EXCEPT !.op = "stack", !.goal = PGROUNDUP(@) + 2 * PGSIZE]]
    BY <1>1, <2>1 DEF TypeOK, Work
  <2> QED BY <1>2, <2>1, <2>2, <2>3, Here
<1>4. x.op = "stack" /\ x.va = w.va /\ x.goal = n /\ x.new = w.new BY <1>1 DEF Work
<1>5. Building(pc[p], w) /\ ~Growing(pc[p], w) /\ Building("page", x) /\ ~Growing("page", x)
  BY <1>2, <1>4 DEF Building, Growing
<1>6. PICK k \in Nat : Reached(w, k) /\ w.new.pages = First(k) BY <1>1, <1>5 DEF Whole, BuildOk
<1>7. w.va < n /\ w.va < n + PGSIZE
  <2>1. PICK P \in Nat \ {0} : P = PGSIZE BY MemoryAssumption
  <2>2. PICK a \in Nat : a = PGROUNDUP(w.goal) /\ a >= w.goal
    <3>1. PICK j \in Nat : PGROUNDUP(w.goal) = j * PGSIZE /\ w.goal <= j * PGSIZE BY <1>1, RoundUp
    <3>2. j * PGSIZE \in Nat BY Exact
    <3> QED BY <3>1, <3>2
  <2>3. w.va < w.goal + P BY <1>6, <2>1 DEF Reached
  <2>4. n = a + 2 * P BY <2>1, <2>2
  <2> QED BY <1>1, <2>1, <2>2, <2>3, <2>4
<1>8. Reached(x, k) BY <1>4, <1>6, <1>7 DEF Reached
<1>9. Tabled(x.new) BY <1>1, <1>4, <1>5 DEF Whole, BuildOk
<1>10. ~(x.va >= x.goal)
  <2>1. n \in Nat
    <3>1. PGROUNDUP(w.goal) \in Nat /\ PGSIZE \in Nat BY <1>1, RoundNat, MemoryAssumption
    <3> QED BY <3>1
  <2> QED BY <1>1, <1>4, <1>7, <2>1
<1>11. BuildOk("page", x, s) BY <1>4, <1>6, <1>8, <1>9, <1>10 DEF BuildOk
<1>12. ImageOk("page", x, v, s, p \in hollow) BY <1>1, <1>2, <1>5 DEF Whole, ImageOk
<1>13. Whole("page", x, v, s, p \in hollow) BY <1>5, <1>11, <1>12 DEF Whole, GrowOk
<1> QED BY <1>3, <1>13, WholeQuiet

\* exec() has a whole new image.
LEMMA WholeExecDone ==
    ASSUME ImageInv, IndInv', NEW p \in Slot, ExecDone(p)
    PROVE  ImageInv'
<1> PICK w : w = work[p] OBVIOUS
<1> PICK x : x = [w EXCEPT !.junk = Held(vm[p]), !.new = NoVm] OBVIOUS
<1> PICK u, s : u = w.new /\ s = w.goal OBVIOUS
<1>1. w.goal \in Nat /\ w.va \in Nat /\ Whole(pc[p], w, vm[p], sz[p], p \in hollow) BY Here
<1>2. pc[p] = "page" /\ w.op = "stack" /\ w.va >= w.goal BY DEF ExecDone, LoopDone, At
<1>3. /\ vm' = [vm EXCEPT ![p] = u] /\ sz' = [sz EXCEPT ![p] = s] /\ hollow' = hollow \ {p}
      /\ work' = [work EXCEPT ![p] = x] /\ pc' = [pc EXCEPT ![p] = "free"]
  BY DEF ExecDone, Goto
<1>4. Building(pc[p], w) BY <1>2 DEF Building
<1>5. PICK k \in Nat : Reached(w, k) /\ u.pages = First(k) BY <1>1, <1>4 DEF Whole, BuildOk
<1>6. Tabled(u) /\ s < KERNBASE BY <1>1, <1>2, <1>4 DEF Whole, BuildOk
<1>7. u.pages = Below(s) BY <1>1, <1>2, <1>5, ReachedGoal
<1>8. Whole("free", x, u, s, p \in hollow')
  BY <1>6, <1>7 DEF Whole, BuildOk, GrowOk, ImageOk, Building, Growing
<1>9. \A r \in Slot \ {p} : r \in hollow' <=> r \in hollow BY <1>3
<1> QED BY <1>3, <1>8, <1>9, WholeCall

\* sbrk() of a size that does not wrap.
LEMMA WholeGrow ==
    ASSUME ImageInv, IndInv', NEW p \in Slot, NEW n \in Delta, Grow(p, n)
    PROVE  ImageInv'
<1> PICK v, s, g, a : v = vm[p] /\ s = sz[p] /\ g = NewSize(p, n) /\ a = PGROUNDUP(s) OBVIOUS
<1> PICK x : x = [work[p] EXCEPT !.op = "sbrk", !.goal = g, !.va = a] OBVIOUS
<1>1. pc[p] = "user" /\ n > 0 /\ g < KERNBASE BY DEF Grow, At
<1>2. work[p] = NoWork BY <1>1, UserWork DEF ImageInv
<1>3. s \in Nat /\ Whole("user", NoWork, v, s, p \in hollow) BY <1>1, <1>2, Here
<1>4. work' = [work EXCEPT ![p] = x] /\ pc' = [pc EXCEPT ![p] = "page"] /\ UNCHANGED <<vm, sz, hollow>>
  BY DEF Grow, Goto, procVars
<1>5. x.op = "sbrk" /\ x.va = a /\ x.goal = g BY <1>2 DEF NoWork
<1>6. s < KERNBASE /\ Tabled(v) /\ (p \notin hollow => v.pages = Below(s))
  BY <1>3 DEF Whole, ImageOk, Growing
<1>7. PICK k \in Nat : a = k * PGSIZE /\ s <= k * PGSIZE /\ k * PGSIZE < s + PGSIZE BY <1>3, RoundUp
<1>8. s <= g /\ g \in Nat
  <2>1. KERNBASE \in Nat /\ UINT \in Nat /\ UINT >= 2 * KERNBASE /\ n \in Int /\ n <= KERNBASE
    BY MemoryAssumption
  <2>2. s + n \in 0 .. UINT - 1 BY <1>1, <1>3, <1>6, <2>1
  <2>3. (s + n) % UINT = s + n BY <2>1, <2>2
  <2>4. g = s + n BY <2>3 DEF NewSize
  <2> QED BY <1>1, <1>3, <2>1, <2>4
<1>9. s <= a /\ a < g + PGSIZE
  <2>1. k * PGSIZE \in Nat /\ PGSIZE \in Nat BY Exact, MemoryAssumption
  <2> QED BY <1>3, <1>7, <1>8, <2>1
<1>10. Growing("page", x) /\ ~Building("page", x) BY <1>5 DEF Growing, Building
<1>11. Reached(x, k) BY <1>5, <1>7, <1>9 DEF Reached
<1>12. p \notin hollow => v.pages = First(k) BY <1>3, <1>6, <1>7, BelowFirst
<1>13. GrowOk("page", x, v, s, p \in hollow) BY <1>1, <1>5, <1>9, <1>11, <1>12 DEF GrowOk
<1>14. ImageOk("page", x, v, s, p \in hollow) BY <1>6, <1>10 DEF ImageOk
<1>15. Whole("page", x, v, s, p \in hollow) BY <1>10, <1>13, <1>14 DEF Whole, BuildOk
<1> QED BY <1>4, <1>15, WholeQuiet

LEMMA WholeGrowDone ==
    ASSUME ImageInv, IndInv', NEW p \in Slot, GrowDone(p)
    PROVE  ImageInv'
<1> PICK w, v, s : w = work[p] /\ v = vm[p] /\ s = w.goal OBVIOUS
<1>1. w.goal \in Nat /\ w.va \in Nat /\ Whole(pc[p], w, v, sz[p], p \in hollow) BY Here
<1>2. pc[p] = "page" /\ w.op = "sbrk" /\ w.va >= w.goal BY DEF GrowDone, LoopDone, At
<1>3. /\ sz' = [sz EXCEPT ![p] = s] /\ UNCHANGED <<vm, hollow>>
      /\ work' = [work EXCEPT ![p] = NoWork] /\ pc' = [pc EXCEPT ![p] = "user"]
  BY DEF GrowDone, Return, Goto
<1>4. Growing(pc[p], w) BY <1>2 DEF Growing
<1>5. s < KERNBASE /\ Tabled(v) BY <1>1, <1>2, <1>4 DEF Whole, GrowOk, ImageOk
<1>6. ASSUME p \notin hollow PROVE v.pages = Below(s)
  <2>1. PICK k \in Nat : Reached(w, k) /\ v.pages = First(k) BY <1>1, <1>4, <1>6 DEF Whole, GrowOk
  <2> QED BY <1>1, <1>2, <2>1, ReachedGoal
<1>7. Whole("user", NoWork, v, s, p \in hollow')
  BY <1>3, <1>5, <1>6 DEF Whole, BuildOk, GrowOk, ImageOk, Building, Growing
<1>8. \A r \in Slot \ {p} : r \in hollow' <=> r \in hollow BY <1>3
<1>9. vm' = [vm EXCEPT ![p] = v] BY <1>3, Here
<1> QED BY <1>3, <1>7, <1>8, <1>9, WholeCall

LEMMA WholeShrink ==
    ASSUME ImageInv, IndInv', NEW p \in Slot, NEW n \in Delta, Shrink(p, n)
    PROVE  ImageInv'
<1> PICK v, s, lo : v = vm[p] /\ s = sz[p] /\ lo = NewSize(p, n) OBVIOUS
<1> PICK gone : gone = v.pages \cap PagesIn(lo, s) OBVIOUS
<1> PICK u : u = [v EXCEPT !.pages = @ \ gone] OBVIOUS
<1> PICK x : x = [work[p] EXCEPT !.op = "shrink", !.junk = Cardinality(gone)] OBVIOUS
<1> PICK t : t = IF lo = 0 THEN s ELSE lo OBVIOUS
<1>1. pc[p] = "user" /\ lo < s BY DEF Shrink, At
<1>2. v \in Vm /\ s \in Nat /\ Whole("user", work[p], v, s, p \in hollow) BY <1>1, Here
<1>3. /\ work' = [work EXCEPT ![p] = x] /\ pc' = [pc EXCEPT ![p] = "free"] /\ vm' = [vm EXCEPT ![p] = u]
      /\ IF lo = 0 THEN hollow' = hollow \cup {p} /\ UNCHANGED sz
                   ELSE sz' = [sz EXCEPT ![p] = lo] /\ UNCHANGED hollow
  BY DEF Shrink, Goto
<1>4. sz' = [sz EXCEPT ![p] = t] BY <1>3, Here
<1>5. lo \in Nat
  <2>1. s \in Nat /\ n \in Int /\ UINT \in Nat /\ UINT > 0 BY <1>2, MemoryAssumption
  <2>2. (s + n) % UINT \in Nat BY <2>1
  <2> QED BY <2>1, <2>2 DEF NewSize
<1>6. s < KERNBASE /\ Tabled(v) /\ (p \notin hollow => v.pages = Below(s))
  BY <1>2 DEF Whole, ImageOk, Growing
<1>7. u.pages = v.pages \ PagesIn(lo, s) /\ u.tables = v.tables BY <1>2 DEF Vm
<1>8. Tabled(u) BY <1>6, <1>7 DEF Tabled
<1>9. t < KERNBASE
  <2>1. KERNBASE \in Nat BY MemoryAssumption
  <2> QED BY <1>1, <1>2, <1>5, <1>6, <2>1
<1>10. ASSUME p \notin hollow' PROVE u.pages = Below(t)
  <2>1. lo # 0 /\ t = lo /\ p \notin hollow BY <1>3, <1>10
  <2>2. Below(lo) \subseteq Below(s)
    <3>1. PGSIZE \in Nat BY MemoryAssumption
    <3>2. ASSUME NEW i \in UserPage, i * PGSIZE < lo PROVE i * PGSIZE < s
      <4>1. i * PGSIZE \in Nat BY PageNat, Exact
      <4> QED BY <1>1, <1>2, <1>5, <3>2, <4>1
    <3> QED BY <3>2 DEF Below
  <2>3. v.pages = Below(s) BY <1>6, <2>1
  <2> QED BY <1>2, <1>5, <1>7, <2>1, <2>2, <2>3, Freed
<1>11. Whole("free", x, u, t, p \in hollow')
  BY <1>8, <1>9, <1>10 DEF Whole, BuildOk, GrowOk, ImageOk, Building, Growing
<1>12. \A r \in Slot \ {p} : r \in hollow' <=> r \in hollow BY <1>3
<1>13. work' = [work EXCEPT ![p] = x] /\ pc' = [pc EXCEPT ![p] = "free"] /\ vm' = [vm EXCEPT ![p] = u] BY <1>3
<1> QED BY <1>4, <1>11, <1>12, <1>13, WholeCall

\* The steps after the loop, and those of wait() and exit().
LEMMA WholeRest ==
    ASSUME ImageInv, IndInv', NEW p \in Slot, pc[p] \in {"user", "free", "reap"}, NEW y \in {"user", "free", "reap"},
           NEW x, pc' = [pc EXCEPT ![p] = y], work' = [work EXCEPT ![p] = x], UNCHANGED <<vm, sz, hollow>>
    PROVE  ImageInv'
<1>1. Whole(pc[p], work[p], vm[p], sz[p], p \in hollow) BY Here
<1>2. ~Growing(pc[p], work[p]) /\ pc[p] # "none" BY DEF Growing
<1>3. Whole(y, x, vm[p], sz[p], p \in hollow) BY <1>1, <1>2, WholeIdle
<1> QED BY <1>3, WholeQuiet

LEMMA WholeKfree ==
    ASSUME ImageInv, IndInv', NEW p \in Slot, Kfree(p)
    PROVE  ImageInv'
<1> PICK x : x = [work[p] EXCEPT !.junk = @ - 1] OBVIOUS
<1>1. pc[p] \in {"user", "free", "reap"} BY DEF Kfree
<1>2. work' = [work EXCEPT ![p] = x] /\ UNCHANGED <<pc, vm, sz, hollow>> BY DEF Kfree, procVars
<1>3. pc' = [pc EXCEPT ![p] = pc[p]] BY <1>2, Here
<1> QED BY <1>1, <1>2, <1>3, WholeRest

LEMMA WholeReturn ==
    ASSUME ImageInv, IndInv', NEW p \in Slot, FreeDone(p) \/ ReapDone(p)
    PROVE  ImageInv'
<1>1. pc[p] \in {"user", "free", "reap"} BY DEF FreeDone, ReapDone, At
<1>2. pc' = [pc EXCEPT ![p] = "user"] /\ work' = [work EXCEPT ![p] = NoWork] /\ UNCHANGED <<vm, sz, hollow>>
  BY DEF FreeDone, ReapDone, Return, Goto
<1> QED BY <1>1, <1>2, WholeRest

LEMMA WholeExit ==
    ASSUME ImageInv, IndInv', NEW p \in Slot, Exit(p)
    PROVE  ImageInv'
<1>1. pc' = [pc EXCEPT ![p] = "none"] /\ hollow' = hollow \ {p} /\ UNCHANGED <<vm, sz, work>> BY DEF Exit, Goto
<1>2. Whole("none", work[p], vm[p], sz[p], p \in hollow')
  BY DEF Whole, BuildOk, GrowOk, ImageOk, Building, Growing
<1>3. /\ \A r \in Slot \ {p} : /\ pc'[r] = pc[r] /\ work'[r] = work[r] /\ vm'[r] = vm[r]
                               /\ sz'[r] = sz[r] /\ (r \in hollow' <=> r \in hollow)
      /\ pc'[p] = "none" /\ work'[p] = work[p] /\ vm'[p] = vm[p] /\ sz'[p] = sz[p]
  BY <1>1 DEF ImageInv, IndInv, TypeOK
<1>4. Whole(pc'[p], work'[p], vm'[p], sz'[p], p \in hollow') BY <1>2, <1>3
<1> QED BY <1>3, <1>4, WholeStep

LEMMA WholeReap ==
    ASSUME ImageInv, IndInv', NEW p \in Slot, Reap(p)
    PROVE  ImageInv'
<1> DEFINE zombies == {r \in Slot : parent[r] = p /\ state[r] = "ZOMBIE"}
<1> PICK q : q = MinOf(zombies) OBVIOUS
<1> PICK x : x = [work[p] EXCEPT !.kid = q, !.junk = Held(vm[q]) + 1] OBVIOUS
<1>1. pc[p] = "user" BY DEF Reap, At
<1>2. q \in Slot /\ state[q] = "ZOMBIE"
  <2>1. zombies # {} BY DEF Reap
  <2>2. zombies \in SUBSET Nat BY DEF Slot
  <2>3. MinOf(zombies) \in zombies
    <3> HIDE DEF zombies
    <3> QED BY <2>1, <2>2, MinOfIn
  <2> QED BY <2>3
<1>3. pc[q] = "none" /\ q # p
  <2>1. SlotOk(q) BY <1>2, Here DEF PageInv
  <2>2. pc[q] = "none" BY <1>2, <2>1 DEF SlotOk
  <2> QED BY <1>1, <2>2
<1>4. /\ work' = [work EXCEPT ![p] = x] /\ pc' = [pc EXCEPT ![p] = "reap"]
      /\ vm' = [vm EXCEPT ![q] = NoVm] /\ UNCHANGED <<sz, hollow>>
  BY DEF Reap, Goto
<1>5. /\ \A r \in Slot \ {p, q} : /\ pc'[r] = pc[r] /\ work'[r] = work[r] /\ vm'[r] = vm[r]
                                  /\ sz'[r] = sz[r] /\ (r \in hollow' <=> r \in hollow)
      /\ pc'[p] = "reap" /\ work'[p] = x /\ vm'[p] = vm[p] /\ sz'[p] = sz[p] /\ hollow' = hollow
      /\ pc'[q] = "none"
  BY <1>2, <1>3, <1>4 DEF ImageInv, IndInv, TypeOK
<1>6. Whole(pc[p], work[p], vm[p], sz[p], p \in hollow) /\ ~Growing(pc[p], work[p])
  BY <1>1, Here DEF Growing
<1>7. Whole("reap", x, vm[p], sz[p], p \in hollow) BY <1>1, <1>6, WholeIdle
<1>8. Whole(pc'[p], work'[p], vm'[p], sz'[p], p \in hollow') BY <1>5, <1>7
<1>9. Whole(pc'[q], work'[q], vm'[q], sz'[q], q \in hollow')
  BY <1>5 DEF Whole, BuildOk, GrowOk, ImageOk, Building, Growing
<1> QED BY <1>2, <1>5, <1>8, <1>9, WholeStep

LEMMA WholeSame ==
    ASSUME ImageInv, IndInv', UNCHANGED <<pc, work, vm, sz, hollow>>
    PROVE  ImageInv'
<1>1. Slot # {} BY MemoryAssumption DEF Slot
<1>2. PICK p \in Slot : TRUE BY <1>1
<1>3. pc' = [pc EXCEPT ![p] = pc[p]] /\ work' = [work EXCEPT ![p] = work[p]] BY Here
<1>4. Whole(pc[p], work[p], vm[p], sz[p], p \in hollow) BY Here
<1> QED BY <1>3, <1>4, WholeQuiet

LEMMA WholeInit == Init => ImageInv
<1> SUFFICES ASSUME Init PROVE ImageInv
  OBVIOUS
<1>1. IndInv BY InitInv
<1>2. PICK P \in Nat \ {0} : P = PGSIZE BY MemoryAssumption
<1>3. P < KERNBASE /\ 0 < KERNBASE /\ KERNBASE \in Nat BY <1>2, MemoryAssumption
<1>4. 0 \in UserPage /\ 0 \div SPAN = 0 /\ 0 * P = 0 /\ 0 + 1 = 1
  <2>1. 0 * P = 0 BY <1>2
  <2>2. 0 \div P = 0 BY <1>2, <2>1, Exact
  <2>3. 0 \div P \in UserPage BY <1>2, <1>3, PageOf
  <2>4. SPAN \in Nat \ {0} BY MemoryAssumption
  <2>5. 0 \div SPAN = 0 BY <2>4
  <2> QED BY <2>1, <2>2, <2>3, <2>5
<1>5. Below(P) = {0}
  <2>1. P <= 1 * P /\ 1 * P < P + P BY <1>2
  <2>2. Below(P) = First(1) BY <1>2, <2>1, BelowFirst
  <2>3. First(1) = {0} BY <1>4, FirstNext, FirstNone
  <2> QED BY <2>2, <2>3
<1>6. ASSUME NEW p \in Slot PROVE Whole(pc[p], work[p], vm[p], sz[p], p \in hollow)
  <2>1. CASE p # InitProc
    <3>1. pc[p] = "none" BY <2>1 DEF Init
    <3> QED BY <3>1 DEF Whole, BuildOk, GrowOk, ImageOk, Building, Growing
  <2>2. CASE p = InitProc
    <3>1. pc[p] = "user" /\ sz[p] = P /\ vm[p].pages = {0} /\ vm[p].tables = {0} BY <1>2, <2>2 DEF Init
    <3>2. Tabled(vm[p]) BY <1>4, <3>1 DEF Tabled
    <3> QED BY <1>3, <1>5, <3>1, <3>2 DEF Whole, BuildOk, GrowOk, ImageOk, Building, Growing
  <2> QED BY <2>1, <2>2
<1> QED BY <1>1, <1>6 DEF ImageInv

LEMMA WholeNext == ImageInv /\ [Next]_vars => ImageInv'
<1> SUFFICES ASSUME ImageInv, [Next]_vars PROVE ImageInv'
  OBVIOUS
<1>0. IndInv' BY StepInv DEF ImageInv
<1>1. ASSUME NEW p \in Slot, AllocProc(p) PROVE ImageInv' BY <1>0, <1>1, WholeAllocProc
<1>2. ASSUME NEW p \in Slot, AllocStack(p) PROVE ImageInv' BY <1>0, <1>2, WholeAllocStack
<1>3. ASSUME NEW p \in Slot, Setup(p) PROVE ImageInv' BY <1>0, <1>3, WholeSetup
<1>4. ASSUME NEW p \in Slot, AllocPage(p) PROVE ImageInv' BY <1>0, <1>4, WholeAllocPage
<1>5. ASSUME NEW p \in Slot, TooBig(p) \/ ExecFails(p) PROVE ImageInv'
  <2>1. Undo(p) /\ pc[p] = "page" BY <1>5 DEF TooBig, ExecFails, AtPage, LoopDone, At
  <2> QED BY <1>0, <2>1, WholeUndo
<1>6. ASSUME NEW p \in Slot, MapPage(p) PROVE ImageInv' BY <1>0, <1>6, WholeMapPage
<1>7. ASSUME NEW p \in Slot, ForkDone(p) PROVE ImageInv' BY <1>0, <1>7, WholeForkDone
<1>8. ASSUME NEW p \in Slot, ExecStack(p) PROVE ImageInv' BY <1>0, <1>8, WholeExecStack
<1>9. ASSUME NEW p \in Slot, ExecDone(p) PROVE ImageInv' BY <1>0, <1>9, WholeExecDone
<1>10. ASSUME NEW p \in Slot, GrowDone(p) PROVE ImageInv' BY <1>0, <1>10, WholeGrowDone
<1>11. ASSUME NEW p \in Slot, Kfree(p) PROVE ImageInv' BY <1>0, <1>11, WholeKfree
<1>12. ASSUME NEW p \in Slot, FreeDone(p) \/ ReapDone(p) PROVE ImageInv' BY <1>0, <1>12, WholeReturn
<1>13. ASSUME NEW p \in Slot, Exit(p) PROVE ImageInv' BY <1>0, <1>13, WholeExit
<1>14. ASSUME NEW p \in Slot, Reap(p) PROVE ImageInv' BY <1>0, <1>14, WholeReap
<1>15. ASSUME NEW p \in Slot, GetHistory(p) PROVE ImageInv'
  <2>1. UNCHANGED <<pc, work, vm, sz, hollow>> BY <1>15 DEF GetHistory, procVars
  <2> QED BY <1>0, <2>1, WholeSame
<1>16. ASSUME NEW p \in Slot, NEW n \in Image, ExecBegin(p, n) PROVE ImageInv' BY <1>0, <1>16, WholeExecBegin
<1>17. ASSUME NEW p \in Slot, NEW n \in Delta, Grow(p, n) PROVE ImageInv' BY <1>0, <1>17, WholeGrow
<1>18. ASSUME NEW p \in Slot, NEW n \in Delta, Shrink(p, n) PROVE ImageInv' BY <1>0, <1>18, WholeShrink
<1>19. CASE UNCHANGED vars
  <2>1. UNCHANGED <<pc, work, vm, sz, hollow>> BY <1>19 DEF vars, procVars
  <2> QED BY <1>0, <2>1, WholeSame
<1> QED BY <1>1, <1>2, <1>3, <1>4, <1>5, <1>6, <1>7, <1>8, <1>9, <1>10, <1>11, <1>12, <1>13, <1>14, <1>15,
           <1>16, <1>17, <1>18, <1>19, Zenon DEF Next

\* ImageInv between calls.
LEMMA WholeImage == ImageInv => ImageWhole
<1> SUFFICES ASSUME ImageInv, NEW p \in Slot \ hollow
             PROVE  /\ At(p, "user") => /\ vm[p].pages = {i \in UserPage : i * PGSIZE < sz[p]}
                                        /\ {i \div SPAN : i \in vm[p].pages} \subseteq vm[p].tables
                    /\ ~At(p, "panic")
  BY DEF ImageWhole
<1>1. ImageOk(pc[p], work[p], vm[p], sz[p], p \in hollow) BY DEF ImageInv, Whole
<1>2. pc[p] # "panic" BY <1>1 DEF ImageOk
<1>3. ASSUME pc[p] = "user"
      PROVE  /\ vm[p].pages = {i \in UserPage : i * PGSIZE < sz[p]}
             /\ {i \div SPAN : i \in vm[p].pages} \subseteq vm[p].tables
  <2>1. vm[p].pages = Below(sz[p]) /\ Tabled(vm[p]) BY <1>1, <1>3 DEF ImageOk, Growing
  <2> QED BY <2>1 DEF Below, Tabled
<1> QED BY <1>2, <1>3 DEF At

\* Whatever fork(), exec() and sbrk() of several processes do and wherever they fail, an
\* address space is whole between calls, and the panics of copyuvm() and mappages()
\* (vm.c) are out of reach of a process that has memory.
THEOREM ImageWholeHolds == Spec => []ImageWhole
<1>1. Init => ImageInv BY WholeInit
<1>2. ImageInv /\ [Next]_vars => ImageInv' BY WholeNext
<1>3. ImageInv => ImageWhole BY WholeImage
<1> QED BY <1>1, <1>2, <1>3, PTL DEF Spec
=============================================================================
