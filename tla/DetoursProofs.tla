---------------------------- MODULE DetoursProofs ----------------------------
(***************************************************************************)
(* The safety properties of the Detours library (detours.cpp), for any     *)
(* number of threads, hooks, regions and trampolines in a region.          *)
(*                                                                         *)
(* The inductive invariant says what each trampoline is for: a trampoline  *)
(* is filled in exactly as long as the pointer of its hook leads to it or  *)
(* an operation of the pending transaction names it, and a blank one is on *)
(* the free list of its region.  What an operation means for the pointer   *)
(* of its hook depends on how far the transaction is.                      *)
(***************************************************************************)
EXTENDS Detours, FiniteSetTheorems, NaturalsInduction, WellFoundedInduction, TLAPS

\* The trampolines that the allocator gives out.
Usable == Regions \X (2..(PerRegion - 1))

\* x is filled in for h, over the target's own first bytes.
Serves(x, h) ==
  /\ x \in Usable /\ x[1] \in ToSet(regions)
  /\ tramp[x] = [hook |-> h, restore |-> NULL]

\* An operation that a commit has carried out.
Applied(k) == phase = "finish" \/ (phase = "apply" /\ k < cursor)

\* Where a transaction can be.
Phases ==
  /\ owner = NULL <=> phase = "idle"
  /\ owner = NULL => ops = <<>> /\ rw = {}
  /\ failed => phase \in {"idle", "open", "abort"}
  /\ phase \in {"idle", "open", "abort"} => cursor = 1
  /\ phase = "apply" => cursor <= Len(ops) + 1

\* A hook is named once.
OpsOnce == \A j, k \in 1..Len(ops) : ops[j].hook = ops[k].hook => j = k

\* The pointers and the operations name trampolines that serve their hook,
\* and nothing else is filled in.
TrampolinesServe ==
  /\ \A h \in Hooks : ptr[h] # NULL => Serves(ptr[h], h)
  /\ \A k \in 1..Len(ops) : Serves(ops[k].at, ops[k].hook)
  /\ \A x \in Trampolines : tramp[x] # Blank =>
       \E h \in Hooks :
         /\ Serves(x, h)
         /\ \/ ptr[h] = x
            \/ \E k \in 1..Len(ops) : ops[k].hook = h /\ ops[k].at = x

\* The pointer of a hook that is being attached or detached.
OpsApplied ==
  \A k \in 1..Len(ops) :
    ptr[ops[k].hook] = IF ops[k].remove <=> Applied(k) THEN NULL ELSE ops[k].at

\* The list l holds the blank ones of the trampolines T of r, once.
IsFreeList(l, T, r) ==
  /\ \A i \in 1..Len(l) : l[i] \in 2..(PerRegion - 1) /\ T[<<r, l[i]>>] = Blank
  /\ \A i, j \in 1..Len(l) : l[i] = l[j] => i = j
  /\ \A s \in 2..(PerRegion - 1) :
       T[<<r, s>>] = Blank => \E i \in 1..Len(l) : l[i] = s

\* s_pRegion and the free lists.
Allocator ==
  /\ default \in ToSet(regions) \cup {NULL}
  /\ \A r \in ToSet(regions) : IsFreeList(free[r], tramp, r)

\* The pages of the regions are writable while there is something to undo.
RegionsWritable ==
  ops # <<>> \/ (owner # NULL /\ ~failed) => ToSet(regions) \subseteq rw

\* An operation of s on page p that is older than the k newest ones.
OlderOn(s, p, k) == \E j \in 1..Len(s) : j > k /\ PageOf[s[j].hook] = p

\* The protections the operations found are a stack.
PermsStacked ==
  /\ \A p \in Pages : perm[p] = IF OlderOn(ops, p, 0) THEN "RWX" ELSE "RX"
  /\ \A k \in 1..Len(ops) :
       ops[k].perm = IF OlderOn(ops, PageOf[ops[k].hook], k) THEN "RWX" ELSE "RX"

DetoursInv ==
  /\ TypeOK /\ Phases /\ OpsOnce /\ TrampolinesServe /\ OpsApplied
  /\ code = ptr /\ Allocator /\ RegionsWritable /\ PermsStacked
-----------------------------------------------------------------------------
(* Sequences and the operators of the model.                               *)

(* What an element in front of a sequence does to its positions.           *)
LEMMA Prepended ==
  ASSUME NEW S, NEW s \in Seq(S), NEW e \in S, NEW t, t = <<e>> \o s
  PROVE  /\ t \in Seq(S) /\ Len(t) = Len(s) + 1 /\ t[1] = e
         /\ \A i \in 1..Len(s) : i + 1 \in 1..Len(t) /\ t[i + 1] = s[i]
         /\ \A i \in 1..Len(t) :
              i = 1 \/ (i - 1 \in 1..Len(s) /\ i = (i - 1) + 1 /\ t[i] = s[i - 1])
PROOF
<1>1. /\ t \in Seq(S) /\ Len(t) = Len(s) + 1 /\ t[1] = e
      /\ \A i \in 1..Len(t) : i > 1 => t[i] = s[i - 1]
  OBVIOUS
<1> DEFINE n == Len(s)
<1>2. n \in Nat
  OBVIOUS
<1>3. \A i \in 1..n : i + 1 \in 1..Len(t) /\ i + 1 > 1 /\ (i + 1) - 1 = i
  <2> HIDE DEF n
  <2> QED BY <1>1, <1>2 DEF n
<1>4. \A i \in 1..n : t[i + 1] = s[i]
  BY <1>1, <1>3
<1>5. \A i \in 1..Len(t) : i = 1 \/ (i > 1 /\ i - 1 \in 1..n /\ i = (i - 1) + 1)
  <2> HIDE DEF n
  <2> QED BY <1>1, <1>2 DEF n
<1>6. \A i \in 1..Len(t) : i = 1 \/ t[i] = s[i - 1]
  BY <1>1, <1>5
<1> QED BY <1>1, <1>3, <1>4, <1>5, <1>6

(* And to its elements.                                                    *)
LEMMA SetPrepended ==
  ASSUME NEW S, NEW s \in Seq(S), NEW t \in Seq(S), Len(t) = Len(s) + 1,
         \A i \in 1..Len(s) : t[i + 1] = s[i]
  PROVE  ToSet(t) = ToSet(s) \cup {t[1]}
PROOF
<1> DEFINE n == Len(s)
           m == Len(t)
<1>1. DOMAIN t = 1..m /\ DOMAIN s = 1..n /\ n \in Nat
  OBVIOUS
<1>2. /\ 1 \in 1..m
      /\ \A i \in 1..n : i + 1 \in 1..m
      /\ \A i \in 1..m : i = 1 \/ (i - 1 \in 1..n /\ i = (i - 1) + 1)
  <2>1. m = n + 1 /\ n \in Nat
    OBVIOUS
  <2> HIDE DEF n, m
  <2> QED BY <2>1
<1>3. \A x \in ToSet(t) : x \in ToSet(s) \cup {t[1]}
  <2>1. \A i \in 1..m : i = 1 \/ t[i] = s[i - 1]
    BY <1>2
  <2>2. \A i \in 1..n : s[i] \in ToSet(s)
    BY <1>1 DEF ToSet
  <2>3. \A i \in 1..m : t[i] \in ToSet(s) \cup {t[1]}
    BY <1>2, <2>1, <2>2
  <2> HIDE DEF m
  <2> QED BY <1>1, <2>3 DEF ToSet
<1>4. \A x \in ToSet(s) : x \in ToSet(t)
  BY <1>1, <1>2 DEF ToSet
<1>5. t[1] \in ToSet(t)
  BY <1>1, <1>2 DEF ToSet
<1> QED BY <1>3, <1>4, <1>5

(* What taking the first element away does to them.                        *)
LEMMA TailIs ==
  ASSUME NEW S, NEW s \in Seq(S), s # <<>>, NEW t, t = Tail(s)
  PROVE  /\ t \in Seq(S) /\ Len(t) = Len(s) - 1 /\ Len(s) \in Nat \ {0}
         /\ Head(s) = s[1] /\ s[1] \in S /\ 1 \in 1..Len(s)
         /\ \A i \in 1..Len(t) : i + 1 \in 1..Len(s) /\ i + 1 # 1 /\ t[i] = s[i + 1]
         /\ \A i \in 1..Len(s) :
              i = 1 \/ (i - 1 \in 1..Len(t) /\ i = (i - 1) + 1 /\ t[i - 1] = s[i])
PROOF
<1>1. /\ t \in Seq(S) /\ Len(t) = Len(s) - 1 /\ Len(s) \in Nat \ {0}
      /\ Head(s) = s[1] /\ s[1] \in S
      /\ \A i \in 1..Len(t) : t[i] = s[i + 1]
  OBVIOUS
<1> DEFINE n == Len(s)
           m == Len(t)
<1>2. /\ 1 \in 1..n
      /\ \A i \in 1..m : i + 1 \in 1..n /\ i + 1 # 1
      /\ \A i \in 1..n : i = 1 \/ (i - 1 \in 1..m /\ i = (i - 1) + 1)
  <2> HIDE DEF n, m
  <2> QED BY <1>1 DEF n, m
<1>3. \A i \in 1..n : i = 1 \/ t[i - 1] = s[i]
  BY <1>1, <1>2
<1> QED BY <1>1, <1>2, <1>3

(* A non-empty set of positions has a first one.                           *)
LEMMA FirstIs ==
  ASSUME NEW K \in SUBSET Nat, K # {}
  PROVE  \E k \in K : \A j \in K : k <= j
PROOF
<1>1. PICK k \in K : \A j \in K : <<j, k>> \notin OpToRel(<, Nat)
  BY NatLessThanWellFounded, WFMin
<1>2. \A j \in K : ~(j < k)
  BY <1>1 DEF OpToRel
<1> QED BY <1>2

(* detour_alloc_trampoline finds a mapped region with a free block, or none *)
(* (detours.cpp).                                                          *)
LEMMA FoundIs ==
  ASSUME TypeOK, default \in ToSet(regions) \cup {NULL}, NEW h, FoundRegion(h) # NULL
  PROVE  FoundRegion(h) \in ToSet(regions) /\ FoundRegion(h) \in Regions
         /\ free[FoundRegion(h)] # <<>>
PROOF
<1> DEFINE d == IF default = NULL /\ regions # <<>> THEN Head(regions) ELSE default
           usable == {k \in DOMAIN regions : HasFree(h, regions[k])}
           first == CHOOSE k \in usable : \A j \in usable : k <= j
<1>1. regions \in Seq(Regions) /\ DOMAIN regions = 1..Len(regions)
  BY DEF TypeOK
<1>2. FoundRegion(h) = IF d # NULL /\ HasFree(h, d) THEN d
                       ELSE IF usable = {} THEN NULL ELSE regions[first]
  BY DEF FoundRegion
<1>3. d # NULL => d \in ToSet(regions) /\ d \in Regions
  BY <1>1 DEF ToSet
<1>4. usable # {} => first \in usable
  <2> SUFFICES ASSUME usable # {} PROVE first \in usable
    OBVIOUS
  <2>1. usable \in SUBSET Nat
    BY <1>1
  <2>2. \E k \in usable : \A j \in usable : k <= j
    BY <2>1, FirstIs
  <2> HIDE DEF usable
  <2> QED BY <2>2
<1>5. usable # {} => /\ regions[first] \in ToSet(regions) /\ regions[first] \in Regions
                     /\ HasFree(h, regions[first])
  <2> HIDE DEF first
  <2> QED BY <1>1, <1>4 DEF ToSet
<1> HIDE DEF d, usable, first
<1> QED BY <1>2, <1>3, <1>5 DEF HasFree

(* The free list of a new region holds every index but 0 and 1.            *)
LEMMA NewFreeIs ==
  /\ NewFree \in Seq(Slots) /\ Len(NewFree) = PerRegion - 2 /\ NewFree # <<>>
  /\ \A i \in 1..Len(NewFree) : NewFree[i] = i + 1 /\ NewFree[i] \in 2..(PerRegion - 1)
  /\ \A s \in 2..(PerRegion - 1) : s - 1 \in 1..Len(NewFree) /\ NewFree[s - 1] = s
PROOF
<1> USE DetoursAssumption DEF DetoursAssumption
<1>1. PerRegion - 2 \in Nat \ {0} /\ PerRegion \in Nat
  OBVIOUS
<1>2. NewFree \in Seq(Slots) /\ Len(NewFree) = PerRegion - 2
  <2>1. \A k \in 1..(PerRegion - 2) : k + 1 \in Slots
    BY DEF Slots
  <2>2. NewFree \in [1..(PerRegion - 2) -> Slots]
    BY <2>1 DEF NewFree
  <2> QED BY <1>1, <2>2
<1>3. \A i \in 1..(PerRegion - 2) : NewFree[i] = i + 1
  BY DEF NewFree
<1>4. \A i \in 1..(PerRegion - 2) : i + 1 \in 2..(PerRegion - 1)
  BY <1>1
<1>5. \A s \in 2..(PerRegion - 1) : s - 1 \in 1..(PerRegion - 2) /\ (s - 1) + 1 = s
  BY <1>1
<1> QED BY <1>1, <1>2, <1>3, <1>4, <1>5

(* A walk through positions in order reaches every one of them.            *)
LEMMA InOrderIs ==
  ASSUME NEW K, IsFiniteSet(K), K \subseteq Int, NEW s \in InOrder(K)
  PROVE  /\ s \in [1..Cardinality(K) -> K] /\ Cardinality(K) \in Nat
         /\ \A k \in K : \E i \in 1..Cardinality(K) : s[i] = k
PROOF
<1> DEFINE n == Cardinality(K)
<1>1. s \in [1..n -> K] /\ \A i, j \in 1..n : i < j => s[i] < s[j]
  BY DEF InOrder
<1>2. n \in Nat
  BY FS_CardinalityType
<1>3. IsFiniteSet(1..n) /\ Cardinality(1..n) = n
  <2>1. 1 \in Int /\ n \in Int
    BY <1>2
  <2>2. IsFiniteSet(1..n) /\ Cardinality(1..n) = IF 1 > n THEN 0 ELSE n - 1 + 1
    BY <2>1, FS_Interval
  <2> HIDE DEF n
  <2> QED BY <1>2, <2>2
<1> HIDE DEF n
<1>4. \A i, j \in 1..n : s[i] = s[j] => i = j
  <2> SUFFICES ASSUME NEW i \in 1..n, NEW j \in 1..n, s[i] = s[j]
               PROVE  i = j
    OBVIOUS
  <2>1. s[i] \in Int /\ s[j] \in Int
    BY <1>1
  <2>2. ~(i < j) /\ ~(j < i)
    BY <1>1, <2>1
  <2> QED BY <1>2, <2>2
<1>5. s \in Injection(1..n, K)
  BY <1>1, <1>4 DEF Injection, IsInjective
<1>6. s \in Surjection(1..n, K)
  BY <1>3, <1>5, FS_Injection DEF n
<1> QED BY <1>1, <1>2, <1>6 DEF Surjection, n
-----------------------------------------------------------------------------
(* The steps that only move the transaction on.                            *)

(* The constants of the model.                                             *)
LEMMA ConstantsAre ==
  /\ Cardinality(Hooks) \in Nat /\ PerRegion \in Nat /\ PerRegion > 2
  /\ NULL \notin Regions /\ NULL \notin Hooks /\ NULL \notin Threads
  /\ NULL \notin Trampolines
  /\ Usable \subseteq Trampolines
  /\ \A x \in Trampolines : x[1] \in Regions /\ x[2] \in Slots /\ x = <<x[1], x[2]>>
  /\ \A x \in Usable : x[1] \in Regions /\ x[2] \in 2..(PerRegion - 1)
  /\ \A r \in Regions : \A s \in 2..(PerRegion - 1) : <<r, s>> \in Usable
PROOF
<1> USE DetoursAssumption DEF DetoursAssumption
<1>1. Cardinality(Hooks) \in Nat
  BY FS_CardinalityType
<1>2. 2..(PerRegion - 1) \subseteq Slots
  BY DEF Slots
<1>3. Usable \subseteq Trampolines
  BY <1>2 DEF Usable, Trampolines
<1>4. \A x \in Trampolines : x[1] \in Regions /\ x[2] \in Slots /\ x = <<x[1], x[2]>>
  BY DEF Trampolines
<1>5. \A x \in Usable : x[1] \in Regions /\ x[2] \in 2..(PerRegion - 1)
  BY DEF Usable
<1>6. \A r \in Regions : \A s \in 2..(PerRegion - 1) : <<r, s>> \in Usable
  BY DEF Usable
<1> QED BY <1>1, <1>3, <1>4, <1>5, <1>6

(* A hook is named once, so there are no more operations than hooks.       *)
LEMMA OpsBounded ==
  ASSUME TypeOK, OpsOnce
  PROVE  Len(ops) \in Nat /\ Len(ops) <= Cardinality(Hooks)
PROOF
<1> DEFINE n == Len(ops)
           f == [k \in 1..n |-> ops[k].hook]
<1>1. n \in Nat /\ \A k \in 1..n : ops[k].hook \in Hooks
  <2>1. n \in Nat /\ \A k \in 1..n : ops[k] \in Operation
    BY DEF TypeOK
  <2> QED BY <2>1 DEF Operation
<1>2. f \in Injection(1..n, Hooks)
  BY <1>1 DEF OpsOnce, Injection, IsInjective
<1>3. IsFiniteSet(Hooks)
  BY DetoursAssumption DEF DetoursAssumption
<1>4. Cardinality(1..n) <= Cardinality(Hooks)
  <2> HIDE DEF f, n
  <2> QED BY <1>2, <1>3, FS_Injection
<1>5. Cardinality(1..n) = n
  <2>1. 1 \in Int /\ n \in Int
    BY <1>1
  <2>2. Cardinality(1..n) = IF 1 > n THEN 0 ELSE n - 1 + 1
    BY <2>1, FS_Interval
  <2> HIDE DEF n
  <2> QED BY <1>1, <2>2
<1> QED BY <1>1, <1>4, <1>5

(* What serves a hook still does when no region is released.               *)
LEMMA ServeKept ==
  ASSUME TrampolinesServe, UNCHANGED <<ops, tramp, ptr>>,
         ToSet(regions) \subseteq ToSet(regions)'
  PROVE  TrampolinesServe'
PROOF
<1>1. \A x, h : Serves(x, h) => Serves(x, h)'
  BY DEF Serves
<1>2. \A h \in Hooks : ptr'[h] # NULL => Serves(ptr[h], h)'
  <2>1. \A h \in Hooks : ptr[h] # NULL => Serves(ptr[h], h)
    BY DEF TrampolinesServe
  <2> QED BY <1>1, <2>1
<1>3. \A k \in 1..Len(ops') : Serves(ops[k].at, ops[k].hook)'
  <2>1. \A k \in 1..Len(ops) : Serves(ops[k].at, ops[k].hook)
    BY DEF TrampolinesServe
  <2> QED BY <1>1, <2>1
<1>4. ASSUME NEW x \in Trampolines, tramp'[x] # Blank
      PROVE  \E h \in Hooks :
               /\ Serves(x, h)'
               /\ \/ ptr'[h] = x
                  \/ \E k \in 1..Len(ops') : ops'[k].hook = h /\ ops'[k].at = x
  <2>1. PICK h \in Hooks :
          /\ Serves(x, h)
          /\ \/ ptr[h] = x
             \/ \E k \in 1..Len(ops) : ops[k].hook = h /\ ops[k].at = x
    BY <1>4 DEF TrampolinesServe
  <2> QED BY <1>1, <2>1
<1> QED BY <1>2, <1>3, <1>4 DEF TrampolinesServe

(* A step that leaves the operations, the trampolines and the code alone.  *)
LEMMA KeepStep ==
  ASSUME DetoursInv, UNCHANGED <<ops, regions, free, tramp, codeVars>>,
         TypeOK', Phases', RegionsWritable',
         default' \in ToSet(regions) \cup {NULL},
         \A k \in 1..Len(ops) : Applied(k)' <=> Applied(k)
  PROVE  DetoursInv'
PROOF
<1> USE DEF DetoursInv, codeVars
<1>1. OpsOnce' /\ code' = ptr' /\ PermsStacked'
  BY DEF OpsOnce, PermsStacked, OlderOn
<1>2. TrampolinesServe'
  <2>1. UNCHANGED <<ops, tramp, ptr>> /\ ToSet(regions)' = ToSet(regions)
    OBVIOUS
  <2> HIDE DEF DetoursInv
  <2> QED BY <2>1, ServeKept DEF DetoursInv
<1>3. OpsApplied'
  BY DEF OpsApplied
<1>4. Allocator'
  BY DEF Allocator, IsFreeList
<1> QED BY <1>1, <1>2, <1>3, <1>4

(* One thread gets the transaction.                                        *)
LEMMA BeginStep ==
  ASSUME DetoursInv, NEW t \in Threads, DetourTransactionBegin(t)
  PROVE  DetoursInv'
PROOF
<1> USE DEF DetourTransactionBegin, DetoursInv, codeVars
<1>1. /\ ops = <<>> /\ ops' = <<>> /\ rw = {} /\ cursor = 1 /\ t # NULL
      /\ Len(ops) = 0
  BY ConstantsAre DEF Phases
<1>2. rw' \subseteq ToSet(regions)
  <2>1. regions \in Seq(Regions) /\ DOMAIN regions = 1..Len(regions) /\ Len(regions) \in Nat
    BY DEF TypeOK
  <2>2. \A n \in 0..(Len(regions) - 1) : \A k \in 1..n : regions[k] \in ToSet(regions)
    BY <2>1 DEF ToSet
  <2> QED BY <1>1, <2>2
<1>3. TypeOK'
  <2>1. ToSet(regions) \subseteq Regions
    BY DEF TypeOK, ToSet
  <2> QED BY <1>1, <1>2, <2>1 DEF TypeOK
<1>4. Phases'
  BY <1>1, ConstantsAre DEF Phases
<1>5. RegionsWritable'
  BY <1>1 DEF RegionsWritable
<1>6. default' \in ToSet(regions) \cup {NULL}
  BY DEF Allocator
<1> QED BY <1>1, <1>3, <1>4, <1>5, <1>6, KeepStep

(* An operation that failed leaves its mark.                               *)
LEMMA FailStep ==
  ASSUME DetoursInv, phase = "open", OperationFails, UNCHANGED <<regions, rw, free, tramp>>,
         default' \in ToSet(regions) \cup {NULL}
  PROVE  DetoursInv'
PROOF
<1> USE DEF OperationFails, DetoursInv
<1>1. TypeOK'
  <2>1. ToSet(regions) \subseteq Regions
    BY DEF TypeOK, ToSet
  <2> QED BY <2>1 DEF TypeOK, codeVars
<1>2. Phases' /\ RegionsWritable'
  BY DEF Phases, RegionsWritable
<1>3. \A k \in 1..Len(ops) : Applied(k)' <=> Applied(k)
  BY DEF Applied
<1> QED BY <1>1, <1>2, <1>3, KeepStep DEF codeVars

(* The owner decides how the transaction ends.                             *)
LEMMA DecideStep ==
  ASSUME DetoursInv, NEW t \in Threads,
         DetourTransactionCommit(t) \/ DetourTransactionAbort(t)
  PROVE  DetoursInv'
PROOF
<1> USE DEF DetourTransactionCommit, DetourTransactionAbort, DetoursInv
<1>1. /\ phase = "open" /\ phase' \in {"apply", "abort"} /\ cursor' = 1
      /\ owner = t /\ t # NULL /\ (failed => phase' = "abort")
      /\ UNCHANGED <<owner, failed, ops, freed, memVars, codeVars>>
  BY ConstantsAre DEF Phases
<1> HIDE DEF DetourTransactionCommit, DetourTransactionAbort
<1>2. Len(ops) \in Nat /\ Cardinality(Hooks) \in Nat
  BY OpsBounded, ConstantsAre
<1>3. TypeOK'
  BY <1>1, <1>2 DEF TypeOK, memVars, codeVars
<1>4. Phases'
  <2>1. 1 <= Len(ops) + 1
    BY <1>2
  <2> QED BY <1>1, <2>1 DEF Phases, memVars
<1>5. RegionsWritable'
  BY <1>1 DEF RegionsWritable, memVars
<1>6. \A k \in 1..Len(ops) : Applied(k)' <=> Applied(k)
  BY <1>1, <1>2 DEF Applied
<1>7. default' \in ToSet(regions) \cup {NULL}
  BY <1>1 DEF Allocator, memVars
<1> QED BY <1>1, <1>3, <1>4, <1>5, <1>6, <1>7, KeepStep DEF memVars

(* The loop that inserts or removes each detour.                           *)
LEMMA ApplyStep ==
  ASSUME DetoursInv, ApplyOperation
  PROVE  DetoursInv'
PROOF
<1> USE DEF DetoursInv
<1>1. /\ phase = "apply" /\ ~failed /\ owner # NULL
      /\ Len(ops) \in Nat /\ Len(ops) <= Cardinality(Hooks) /\ Cardinality(Hooks) \in Nat
      /\ DOMAIN ops = 1..Len(ops)
      /\ cursor \in Nat \ {0} /\ cursor <= Len(ops) + 1
      /\ UNCHANGED <<owner, failed, ops, freed, memVars>>
  <2>1. phase = "apply" /\ UNCHANGED <<owner, failed, ops, freed, memVars>>
    BY DEF ApplyOperation
  <2>2. Len(ops) \in Nat /\ DOMAIN ops = 1..Len(ops) /\ cursor \in Nat \ {0}
    BY DEF TypeOK
  <2>3. ~failed /\ owner # NULL /\ cursor <= Len(ops) + 1
    BY <2>1 DEF Phases
  <2>4. Len(ops) <= Cardinality(Hooks) /\ Cardinality(Hooks) \in Nat
    BY OpsBounded, ConstantsAre
  <2> QED BY <2>1, <2>2, <2>3, <2>4
<1>2. CASE cursor \notin DOMAIN ops
  <2>1. phase' = "finish" /\ UNCHANGED <<cursor, codeVars>>
    BY <1>2 DEF ApplyOperation
  <2>2. TypeOK'
    BY <1>1, <2>1 DEF TypeOK, memVars, codeVars
  <2>3. Phases' /\ RegionsWritable'
    BY <1>1, <2>1 DEF Phases, RegionsWritable, memVars
  <2>4. \A k \in 1..Len(ops) : Applied(k)' <=> Applied(k)
    <3> DEFINE n == Len(ops)
    <3>1. \A k \in 1..n : k < cursor
      <4>1. n \in Nat /\ cursor \notin 1..n /\ cursor \in Nat \ {0}
        BY <1>1, <1>2
      <4> HIDE DEF n
      <4> QED BY <4>1
    <3> QED BY <1>1, <2>1, <3>1 DEF Applied
  <2>5. default' \in ToSet(regions) \cup {NULL}
    BY <1>1 DEF Allocator, memVars
  <2> QED BY <1>1, <2>1, <2>2, <2>3, <2>4, <2>5, KeepStep DEF memVars
<1>3. CASE cursor \in DOMAIN ops
  <2> DEFINE o == ops[cursor]
  <2>1. /\ code' = [code EXCEPT ![o.hook] = IF o.remove THEN tramp[o.at].restore ELSE o.at]
        /\ ptr' = [ptr EXCEPT ![o.hook] = IF o.remove THEN NULL ELSE o.at]
        /\ cursor' = cursor + 1
        /\ UNCHANGED <<phase, perm>>
    BY <1>3 DEF ApplyOperation
  <2>2. /\ o \in Operation /\ o.hook \in Hooks /\ o.remove \in BOOLEAN
        /\ o.at \in Trampolines /\ Serves(o.at, o.hook)
        /\ \A k \in 1..Len(ops) : ops[k] \in Operation /\ ops[k].hook \in Hooks
    <3>1. o \in Operation /\ \A k \in 1..Len(ops) : ops[k] \in Operation
      BY <1>1, <1>3 DEF TypeOK
    <3> QED BY <1>1, <1>3, <3>1 DEF Operation, TrampolinesServe
  <2>3. tramp[o.at].restore = NULL
    BY <2>2 DEF Serves
  <2>4. code' = ptr' /\ ptr' \in [Hooks -> Trampolines \cup {NULL}]
    BY <2>1, <2>2, <2>3 DEF TypeOK
  <2>5. \A h \in Hooks :
          ptr'[h] = IF h = o.hook THEN (IF o.remove THEN NULL ELSE o.at) ELSE ptr[h]
    BY <2>1 DEF TypeOK
  <2>6. TypeOK'
    <3>1. cursor' \in 1..(Cardinality(Hooks) + 1)
      <4> DEFINE n == Len(ops)
      <4>1. n \in Nat /\ n <= Cardinality(Hooks) /\ cursor \in 1..n
        BY <1>1, <1>3
      <4> HIDE DEF n
      <4> QED BY <1>1, <2>1, <4>1
    <3> QED BY <1>1, <2>1, <2>4, <3>1 DEF TypeOK, memVars
  <2>7. Phases'
    <3> DEFINE n == Len(ops)
    <3>1. n \in Nat /\ cursor \in 1..n
      BY <1>1, <1>3
    <3>2. cursor + 1 <= n + 1
      <4> HIDE DEF n
      <4> QED BY <3>1
    <3> QED BY <1>1, <2>1, <3>2 DEF Phases
  <2>8. OpsOnce' /\ Allocator' /\ RegionsWritable' /\ PermsStacked'
    BY <1>1, <2>1
    DEF OpsOnce, Allocator, IsFreeList, RegionsWritable, PermsStacked, OlderOn, memVars
  <2>9. ~Applied(cursor) /\ ptr[o.hook] = IF o.remove THEN o.at ELSE NULL
    <3>1. ~Applied(cursor)
      BY <1>1 DEF Applied
    <3> QED BY <1>1, <1>3, <2>2, <3>1 DEF OpsApplied
  <2>10. TrampolinesServe'
    <3>1. \A h \in Hooks : ptr'[h] # NULL => Serves(ptr'[h], h)
      BY <2>2, <2>5 DEF TrampolinesServe
    <3>2. ASSUME NEW x \in Trampolines, tramp[x] # Blank
          PROVE  \E h \in Hooks :
                   /\ Serves(x, h)
                   /\ \/ ptr'[h] = x
                      \/ \E k \in 1..Len(ops) : ops[k].hook = h /\ ops[k].at = x
      <4>1. PICK h \in Hooks :
              /\ Serves(x, h)
              /\ \/ ptr[h] = x
                 \/ \E k \in 1..Len(ops) : ops[k].hook = h /\ ops[k].at = x
        BY <3>2 DEF TrampolinesServe
      <4>2. CASE ptr[h] = x /\ h = o.hook
        <5>1. x # NULL
          BY ConstantsAre
        <5>2. o.at = x
          BY <2>9, <4>2, <5>1
        <5> QED BY <1>1, <1>3, <4>1, <4>2, <5>2
      <4> QED BY <2>5, <4>1, <4>2
    <3> QED BY <1>1, <3>1, <3>2 DEF TrampolinesServe, Serves, memVars
  <2>11. OpsApplied'
    <3> SUFFICES ASSUME NEW k \in 1..Len(ops)
                 PROVE  ptr'[ops[k].hook] = IF ops[k].remove <=> Applied(k)'
                                            THEN NULL ELSE ops[k].at
      BY <1>1 DEF OpsApplied
    <3>1. CASE k = cursor
      <4>1. Applied(k)'
        BY <1>1, <2>1, <3>1 DEF Applied
      <4> QED BY <2>2, <2>5, <3>1, <4>1
    <3>2. CASE k # cursor
      <4>1. ops[k].hook # o.hook
        BY <1>1, <1>3, <3>2 DEF OpsOnce
      <4>2. Applied(k)' <=> Applied(k)
        <5>1. k \in Nat
          BY <1>1
        <5> QED BY <1>1, <2>1, <3>2, <5>1 DEF Applied
      <4> QED BY <2>2, <2>5, <4>1, <4>2 DEF OpsApplied
    <3> QED BY <3>1, <3>2
  <2> QED BY <2>4, <2>6, <2>7, <2>8, <2>10, <2>11
<1> QED BY <1>2, <1>3
-----------------------------------------------------------------------------
(* The operations of a transaction.                                        *)

(* An operation in front of the others is newer than all of them.          *)
LEMMA OlderShift ==
  ASSUME NEW s \in Seq(Operation), NEW e \in Operation, NEW t, t = <<e>> \o s,
         NEW k \in Nat, NEW p
  PROVE  OlderOn(t, p, k + 1) <=> OlderOn(s, p, k)
PROOF
<1>1. /\ \A i \in 1..Len(s) : i + 1 \in 1..Len(t) /\ t[i + 1] = s[i]
      /\ \A i \in 1..Len(t) :
           i = 1 \/ (i - 1 \in 1..Len(s) /\ i = (i - 1) + 1 /\ t[i] = s[i - 1])
  BY Prepended
<1>2. OlderOn(t, p, k + 1) => OlderOn(s, p, k)
  <2> SUFFICES ASSUME NEW j \in 1..Len(t), j > k + 1, PageOf[t[j].hook] = p
               PROVE  OlderOn(s, p, k)
    BY DEF OlderOn
  <2>1. j - 1 \in 1..Len(s) /\ t[j] = s[j - 1]
    BY <1>1
  <2>2. j - 1 > k
    OBVIOUS
  <2> QED BY <2>1, <2>2 DEF OlderOn
<1>3. OlderOn(s, p, k) => OlderOn(t, p, k + 1)
  <2> SUFFICES ASSUME NEW j \in 1..Len(s), j > k, PageOf[s[j].hook] = p
               PROVE  OlderOn(t, p, k + 1)
    BY DEF OlderOn
  <2>1. j + 1 \in 1..Len(t) /\ t[j + 1] = s[j]
    BY <1>1
  <2>2. j + 1 > k + 1
    OBVIOUS
  <2> QED BY <2>1, <2>2 DEF OlderOn
<1> QED BY <1>2, <1>3

(* A new operation finds the protection that the older ones on its page    *)
(* left, and the pointer as it is before a commit.                         *)
LEMMA PushStep ==
  ASSUME DetoursInv, NEW t \in Threads, NEW h \in Hooks, Collecting(t, h),
         NEW remove \in BOOLEAN, NEW x \in Trampolines, Push(remove, h, x),
         ptr[h] = IF remove THEN x ELSE NULL
  PROVE  /\ ops' \in Seq(Operation) /\ perm' \in [Pages -> {"RX", "RWX"}]
         /\ Phases' /\ OpsOnce' /\ OpsApplied' /\ PermsStacked'
         /\ Len(ops) \in Nat /\ Len(ops') = Len(ops) + 1
         /\ 1 \in 1..Len(ops') /\ ops'[1].hook = h /\ ops'[1].at = x
         /\ \A i \in 1..Len(ops) : i + 1 \in 1..Len(ops') /\ ops'[i + 1] = ops[i]
         /\ \A i \in 1..Len(ops') : i = 1 \/ (i - 1 \in 1..Len(ops) /\ ops'[i] = ops[i - 1])
PROOF
<1> USE DEF DetoursInv
<1> DEFINE e == [remove |-> remove, hook |-> h, at |-> x, perm |-> perm[PageOf[h]]]
           n == Len(ops)
<1>1. /\ owner = t /\ t # NULL /\ phase = "open" /\ ~failed
      /\ ops' = <<e>> \o ops /\ perm' = [perm EXCEPT ![PageOf[h]] = "RWX"]
      /\ UNCHANGED <<owner, phase, failed, cursor, freed, code, ptr>>
  BY ConstantsAre DEF Collecting, Push
<1>2. PageOf[h] \in Pages /\ e \in Operation /\ ops \in Seq(Operation) /\ n \in Nat
  BY DEF TypeOK, Pages, Operation
<1>3. /\ ops' \in Seq(Operation) /\ Len(ops') = n + 1 /\ ops'[1] = e
      /\ \A i \in 1..n : i + 1 \in 1..Len(ops') /\ ops'[i + 1] = ops[i]
      /\ \A i \in 1..Len(ops') :
           i = 1 \/ (i - 1 \in 1..n /\ i = (i - 1) + 1 /\ ops'[i] = ops[i - 1])
  <2> HIDE DEF e
  <2> QED BY <1>1, <1>2, Prepended
<1>4. 1 \in 1..Len(ops')
  <2> HIDE DEF n
  <2> QED BY <1>2, <1>3
<1>5. \A k \in 1..n : ops[k].hook # h /\ ops[k] \in Operation /\ ops[k].hook \in Hooks
  <2>1. \A k \in 1..n : ops[k].hook # h /\ ops[k] \in Operation
    BY <1>2 DEF Collecting
  <2> QED BY <2>1 DEF Operation
<1>6. perm' \in [Pages -> {"RX", "RWX"}]
  BY <1>1 DEF TypeOK
<1>7. Phases'
  BY <1>1 DEF Phases
<1>8. OpsOnce'
  <2> SUFFICES ASSUME NEW j \in 1..Len(ops'), NEW k \in 1..Len(ops'),
                      ops'[j].hook = ops'[k].hook
               PROVE  j = k
    BY DEF OpsOnce
  <2>1. ops'[1].hook = h
    BY <1>3
  <2>2. \A i \in 1..Len(ops') : i # 1 =>
          i - 1 \in 1..n /\ i = (i - 1) + 1 /\ ops'[i].hook = ops[i - 1].hook
    BY <1>3
  <2>3. \A i \in 1..Len(ops') : i # 1 => ops'[i].hook # h
    BY <1>5, <2>2
  <2>4. CASE j = 1 \/ k = 1
    BY <2>1, <2>3, <2>4
  <2>5. CASE j # 1 /\ k # 1
    <3>1. ops[j - 1].hook = ops[k - 1].hook
      BY <2>2, <2>5
    <3>2. j - 1 = k - 1
      BY <2>2, <2>5, <3>1 DEF OpsOnce
    <3> QED BY <2>2, <2>5, <3>2
  <2> QED BY <2>4, <2>5
<1>9. OpsApplied'
  <2>1. \A k : ~Applied(k) /\ ~Applied(k)'
    BY <1>1 DEF Applied
  <2> SUFFICES ASSUME NEW k \in 1..Len(ops')
               PROVE  ptr[ops'[k].hook] = IF ops'[k].remove <=> FALSE
                                          THEN NULL ELSE ops'[k].at
    BY <1>1, <2>1 DEF OpsApplied
  <2>2. CASE k = 1
    BY <1>3, <2>2
  <2>3. CASE k # 1
    <3>1. PICK j \in 1..n : j = k - 1 /\ ops'[k] = ops[j]
      BY <1>3, <2>3
    <3>2. ptr[ops[j].hook] = IF ops[j].remove <=> FALSE THEN NULL ELSE ops[j].at
      BY <2>1 DEF OpsApplied
    <3> QED BY <3>1, <3>2
  <2> QED BY <2>2, <2>3
<1>10. \A p : OlderOn(ops', p, 0) <=> p = PageOf[h] \/ OlderOn(ops, p, 0)
  <2> SUFFICES ASSUME NEW p
               PROVE  OlderOn(ops', p, 0) <=> p = PageOf[h] \/ OlderOn(ops, p, 0)
    OBVIOUS
  <2>1. OlderOn(ops', p, 0) => p = PageOf[h] \/ OlderOn(ops, p, 0)
    <3> SUFFICES ASSUME NEW j \in 1..Len(ops'), PageOf[ops'[j].hook] = p
                 PROVE  p = PageOf[h] \/ OlderOn(ops, p, 0)
      BY DEF OlderOn
    <3>1. CASE j = 1
      BY <1>3, <3>1
    <3>2. CASE j # 1
      <4>1. j - 1 \in 1..n /\ PageOf[ops[j - 1].hook] = p
        BY <1>3, <3>2
      <4>2. j - 1 > 0
        BY <4>1
      <4> QED BY <4>1, <4>2 DEF OlderOn
    <3> QED BY <3>1, <3>2
  <2>2. p = PageOf[h] => OlderOn(ops', p, 0)
    BY <1>3, <1>4 DEF OlderOn
  <2>3. OlderOn(ops, p, 0) => OlderOn(ops', p, 0)
    <3> SUFFICES ASSUME NEW j \in 1..n, PageOf[ops[j].hook] = p
                 PROVE  OlderOn(ops', p, 0)
      BY DEF OlderOn
    <3>1. j + 1 \in 1..Len(ops') /\ ops'[j + 1] = ops[j] /\ j + 1 > 0
      BY <1>3
    <3> QED BY <3>1 DEF OlderOn
  <2> QED BY <2>1, <2>2, <2>3
<1>11. PermsStacked'
  <2>1. \A p \in Pages : perm'[p] = IF OlderOn(ops', p, 0) THEN "RWX" ELSE "RX"
    BY <1>1, <1>10 DEF PermsStacked, TypeOK
  <2>2. ASSUME NEW k \in 1..Len(ops')
        PROVE  ops'[k].perm = IF OlderOn(ops', PageOf[ops'[k].hook], k) THEN "RWX" ELSE "RX"
    <3>1. \A p : \A i \in Nat : OlderOn(ops', p, i + 1) <=> OlderOn(ops, p, i)
      <4> HIDE DEF e
      <4> QED BY <1>1, <1>2, OlderShift
    <3>2. CASE k = 1
      <4>1. OlderOn(ops', PageOf[h], 0 + 1) <=> OlderOn(ops, PageOf[h], 0)
        BY <3>1
      <4>2. ops'[1].perm = IF OlderOn(ops, PageOf[h], 0) THEN "RWX" ELSE "RX"
        BY <1>2, <1>3 DEF PermsStacked
      <4> QED BY <1>3, <3>2, <4>1, <4>2
    <3>3. CASE k # 1
      <4>1. k - 1 \in 1..n /\ k - 1 \in Nat /\ k = (k - 1) + 1 /\ ops'[k] = ops[k - 1]
        BY <1>3, <3>3
      <4>2. ops[k - 1].perm = IF OlderOn(ops, PageOf[ops[k - 1].hook], k - 1)
                              THEN "RWX" ELSE "RX"
        BY <4>1 DEF PermsStacked
      <4>3. OlderOn(ops', PageOf[ops[k - 1].hook], k)
              <=> OlderOn(ops, PageOf[ops[k - 1].hook], k - 1)
        BY <3>1, <4>1
      <4> QED BY <4>1, <4>2, <4>3
    <3> QED BY <3>2, <3>3
  <2> QED BY <2>1, <2>2 DEF PermsStacked
<1> QED BY <1>2, <1>3, <1>4, <1>6, <1>7, <1>8, <1>9, <1>11
-----------------------------------------------------------------------------
(* Trampoline memory.                                                      *)

\* What a trampoline can hold.
TrampolineValue == [hook : Hooks \cup {NULL}, restore : Trampolines \cup {NULL}]

(* Taking the head off the free list and filling that trampoline in.       *)
LEMMA ListTaken ==
  ASSUME NEW r \in Regions, NEW l \in Seq(Slots), l # <<>>,
         NEW T \in [Trampolines -> TrampolineValue], IsFreeList(l, T, r),
         NEW v, v # Blank, NEW U,
         \A x \in Trampolines : U[x] = IF x = <<r, Head(l)>> THEN v ELSE T[x]
  PROVE  /\ Head(l) \in 2..(PerRegion - 1) /\ T[<<r, Head(l)>>] = Blank
         /\ IsFreeList(Tail(l), U, r)
PROOF
<1> DEFINE t == Tail(l)
           s == Head(l)
<1>1. /\ Len(t) = Len(l) - 1 /\ s = l[1] /\ 1 \in 1..Len(l)
      /\ \A i \in 1..Len(t) : i + 1 \in 1..Len(l) /\ i + 1 # 1 /\ t[i] = l[i + 1]
      /\ \A i \in 1..Len(l) :
           i = 1 \/ (i - 1 \in 1..Len(t) /\ i = (i - 1) + 1 /\ t[i - 1] = l[i])
  BY TailIs
<1>2. s \in 2..(PerRegion - 1) /\ T[<<r, s>>] = Blank
  BY <1>1 DEF IsFreeList
<1>3. \A x \in Trampolines : U[x] = IF x = <<r, s>> THEN v ELSE T[x]
  OBVIOUS
<1>4. \A i \in 2..(PerRegion - 1) : <<r, i>> \in Trampolines
  BY ConstantsAre
<1> HIDE DEF s, t
<1>5. \A i \in 1..Len(t) : t[i] \in 2..(PerRegion - 1) /\ U[<<r, t[i]>>] = Blank
  <2> SUFFICES ASSUME NEW i \in 1..Len(t)
               PROVE  t[i] \in 2..(PerRegion - 1) /\ U[<<r, t[i]>>] = Blank
    OBVIOUS
  <2>1. t[i] \in 2..(PerRegion - 1) /\ T[<<r, t[i]>>] = Blank
    BY <1>1 DEF IsFreeList
  <2>2. t[i] # s
    BY <1>1 DEF IsFreeList
  <2>3. <<r, t[i]>> # <<r, s>>
    BY <2>2
  <2> QED BY <1>3, <1>4, <2>1, <2>3
<1>6. \A i, j \in 1..Len(t) : t[i] = t[j] => i = j
  <2> SUFFICES ASSUME NEW i \in 1..Len(t), NEW j \in 1..Len(t), t[i] = t[j]
               PROVE  i = j
    OBVIOUS
  <2>1. i + 1 = j + 1
    BY <1>1 DEF IsFreeList
  <2> QED BY <2>1
<1>7. \A i \in 2..(PerRegion - 1) :
        U[<<r, i>>] = Blank => \E j \in 1..Len(t) : t[j] = i
  <2> SUFFICES ASSUME NEW i \in 2..(PerRegion - 1), U[<<r, i>>] = Blank
               PROVE  \E j \in 1..Len(t) : t[j] = i
    OBVIOUS
  <2>1. i # s /\ T[<<r, i>>] = Blank
    BY <1>3, <1>4
  <2>2. PICK j \in 1..Len(l) : l[j] = i
    BY <2>1 DEF IsFreeList
  <2> QED BY <1>1, <2>1, <2>2
<1> QED BY <1>2, <1>5, <1>6, <1>7 DEF IsFreeList, s, t

(* Clearing a trampoline and putting it in front of the free list.         *)
LEMMA ListGiven ==
  ASSUME NEW r \in Regions, NEW l \in Seq(Slots), NEW s \in 2..(PerRegion - 1),
         NEW T \in [Trampolines -> TrampolineValue], IsFreeList(l, T, r),
         T[<<r, s>>] # Blank, NEW U,
         \A x \in Trampolines : U[x] = IF x = <<r, s>> THEN Blank ELSE T[x]
  PROVE  IsFreeList(<<s>> \o l, U, r)
PROOF
<1> DEFINE t == <<s>> \o l
<1>1. s \in Slots
  BY DetoursAssumption DEF Slots, DetoursAssumption
<1>2. /\ Len(t) = Len(l) + 1 /\ t[1] = s /\ 1 \in 1..Len(t)
      /\ \A i \in 1..Len(l) : i + 1 \in 1..Len(t) /\ t[i + 1] = l[i]
      /\ \A i \in 1..Len(t) :
           i = 1 \/ (i - 1 \in 1..Len(l) /\ i = (i - 1) + 1 /\ t[i] = l[i - 1])
  <2>1. Len(t) = Len(l) + 1 /\ Len(l) \in Nat
    BY <1>1
  <2>2. 1 \in 1..Len(t)
    BY <2>1
  <2> HIDE DEF t
  <2> QED BY <1>1, <2>1, <2>2, Prepended DEF t
<1>3. \A x \in Trampolines : U[x] = IF x = <<r, s>> THEN Blank ELSE T[x]
  OBVIOUS
<1>4. \A i \in 2..(PerRegion - 1) : <<r, i>> \in Trampolines
  BY ConstantsAre
<1> HIDE DEF t
<1>5. \A i \in 1..Len(l) : l[i] # s
  BY DEF IsFreeList
<1>6. \A i \in 1..Len(t) : t[i] \in 2..(PerRegion - 1) /\ U[<<r, t[i]>>] = Blank
  <2>1. U[<<r, s>>] = Blank
    BY <1>3, <1>4
  <2>2. \A i \in 1..Len(l) : l[i] \in 2..(PerRegion - 1) /\ U[<<r, l[i]>>] = Blank
    BY <1>3, <1>4 DEF IsFreeList
  <2>3. ASSUME NEW i \in 1..Len(t), i # 1
        PROVE  t[i] \in 2..(PerRegion - 1) /\ U[<<r, t[i]>>] = Blank
    <3>1. PICK a \in 1..Len(l) : t[i] = l[a]
      BY <1>2, <2>3
    <3> QED BY <2>2, <3>1
  <2> QED BY <1>2, <2>1, <2>3
<1>7. \A i, j \in 1..Len(t) : t[i] = t[j] => i = j
  <2> SUFFICES ASSUME NEW i \in 1..Len(t), NEW j \in 1..Len(t), t[i] = t[j]
               PROVE  i = j
    OBVIOUS
  <2>1. \A k \in 1..Len(t) : k # 1 => t[k] # s
    BY <1>2, <1>5
  <2>2. CASE i = 1 \/ j = 1
    BY <1>2, <2>1, <2>2
  <2>3. CASE i # 1 /\ j # 1
    <3>1. PICK a \in 1..Len(l) : i = a + 1 /\ t[i] = l[a]
      BY <1>2, <2>3
    <3>2. PICK b \in 1..Len(l) : j = b + 1 /\ t[j] = l[b]
      BY <1>2, <2>3
    <3>3. a = b
      BY <3>1, <3>2 DEF IsFreeList
    <3> QED BY <3>1, <3>2, <3>3
  <2> QED BY <2>2, <2>3
<1>8. \A i \in 2..(PerRegion - 1) :
        U[<<r, i>>] = Blank => \E j \in 1..Len(t) : t[j] = i
  <2> SUFFICES ASSUME NEW i \in 2..(PerRegion - 1), U[<<r, i>>] = Blank
               PROVE  \E j \in 1..Len(t) : t[j] = i
    OBVIOUS
  <2>1. CASE i = s
    BY <1>2, <2>1
  <2>2. CASE i # s
    <3>1. T[<<r, i>>] = Blank
      BY <1>3, <1>4, <2>2
    <3>2. PICK j \in 1..Len(l) : l[j] = i
      BY <3>1 DEF IsFreeList
    <3> QED BY <1>2, <3>2
  <2> QED BY <2>1, <2>2
<1> QED BY <1>6, <1>7, <1>8 DEF IsFreeList, t

(* The list of a region does not depend on the trampolines of the others.  *)
LEMMA ListOther ==
  ASSUME NEW r, NEW l, NEW T, NEW U, IsFreeList(l, T, r),
         \A s \in 2..(PerRegion - 1) : U[<<r, s>>] = T[<<r, s>>]
  PROVE  IsFreeList(l, U, r)
PROOF
  BY DEF IsFreeList

(* The list of a new region.                                               *)
LEMMA ListNew ==
  ASSUME NEW r, NEW T, \A s \in 2..(PerRegion - 1) : T[<<r, s>>] = Blank
  PROVE  IsFreeList(NewFree, T, r)
PROOF
<1>1. \A i, j \in 1..Len(NewFree) : NewFree[i] = NewFree[j] => i = j
  BY NewFreeIs, ConstantsAre
<1> QED BY <1>1, NewFreeIs DEF IsFreeList

(* A region that is not mapped holds no trampoline that is filled in.      *)
LEMMA UnmappedBlank ==
  ASSUME DetoursInv, NEW x \in Trampolines, x[1] \notin ToSet(regions)
  PROVE  tramp[x] = Blank
PROOF
  BY DEF DetoursInv, TrampolinesServe, Serves

(* VirtualAlloc of a new region, whose free list is l.                     *)
LEMMA NewRegionIs ==
  ASSUME DetoursInv, NEW h, NEW r, NewRegion(h, r)
  PROVE  /\ r \in Regions /\ r \notin ToSet(regions)
         /\ regions' \in Seq(Regions) /\ ToSet(regions)' = ToSet(regions) \cup {r}
         /\ rw' = rw \cup {r} /\ default' = r
         /\ \A s \in 2..(PerRegion - 1) : tramp[<<r, s>>] = Blank
PROOF
<1>1. r \in Regions /\ r \notin ToSet(regions) /\ regions' = <<r>> \o regions
  BY DEF NewRegion
<1>2. regions \in Seq(Regions)
  BY DEF DetoursInv, TypeOK
<1>3. regions' \in Seq(Regions) /\ ToSet(regions') = ToSet(regions) \cup {r}
  <2>1. PICK t : t = <<r>> \o regions
    OBVIOUS
  <2>2. r \in Regions
    BY <1>1
  <2>3. t \in Seq(Regions) /\ ToSet(t) = ToSet(regions) \cup {r}
    <3>1. /\ t \in Seq(Regions) /\ Len(t) = Len(regions) + 1 /\ t[1] = r
          /\ \A i \in 1..Len(regions) : t[i + 1] = regions[i]
      BY <1>2, <2>1, <2>2
    <3> QED BY <1>2, <3>1, SetPrepended
  <2> QED BY <1>1, <2>1, <2>3
<1>4. \A s \in 2..(PerRegion - 1) : tramp[<<r, s>>] = Blank
  <2> SUFFICES ASSUME NEW s \in 2..(PerRegion - 1)
               PROVE  tramp[<<r, s>>] = Blank
    OBVIOUS
  <2>1. <<r, s>> \in Trampolines /\ <<r, s>>[1] = r
    BY <1>1, ConstantsAre
  <2> QED BY <1>1, <2>1, UnmappedBlank
<1> QED BY <1>1, <1>3, <1>4 DEF NewRegion

(* The trampoline that an attach gets is a blank one of a mapped region,   *)
(* and the free list of that region goes on without it.                    *)
LEMMA AllocIs ==
  ASSUME DetoursInv, NEW h \in Hooks, ptr[h] = NULL, NEW x \in Trampolines,
         AllocTrampoline(h, x), ToSet(regions) \subseteq rw
  PROVE  /\ x \in Usable /\ tramp[x] = Blank
         /\ tramp' = [tramp EXCEPT ![x] = [hook |-> h, restore |-> NULL]]
         /\ x[1] \in ToSet(regions)' /\ ToSet(regions) \subseteq ToSet(regions)'
         /\ ToSet(regions)' \subseteq rw' /\ Allocator'
         /\ regions' \in Seq(Regions) /\ rw' \subseteq Regions
         /\ default' \in Regions \cup {NULL}
         /\ free' \in [Regions -> Seq(Slots)] /\ tramp' \in [Trampolines -> TrampolineValue]
PROOF
<1> USE DEF DetoursInv
<1> DEFINE r == x[1]
           v == [hook |-> h, restore |-> NULL]
<1>1. tramp' = [tramp EXCEPT ![x] = v]
  BY DEF AllocTrampoline
<1>2. /\ r \in Regions /\ x[2] \in Slots /\ x = <<r, x[2]>>
      /\ v # Blank /\ v \in TrampolineValue
  BY ConstantsAre DEF Blank, TrampolineValue
<1>3. /\ regions \in Seq(Regions) /\ rw \subseteq Regions
      /\ free \in [Regions -> Seq(Slots)] /\ tramp \in [Trampolines -> TrampolineValue]
      /\ ToSet(regions) \subseteq Regions
  BY DEF TypeOK, TrampolineValue, ToSet
<1>4. tramp' \in [Trampolines -> TrampolineValue]
  BY <1>1, <1>2, <1>3
<1>5. \A q \in Regions \ {r} : \A s \in 2..(PerRegion - 1) : tramp'[<<q, s>>] = tramp[<<q, s>>]
  <2> SUFFICES ASSUME NEW q \in Regions \ {r}, NEW s \in 2..(PerRegion - 1)
               PROVE  tramp'[<<q, s>>] = tramp[<<q, s>>]
    OBVIOUS
  <2>1. <<q, s>> \in Trampolines /\ <<q, s>> # x
    BY <1>2, ConstantsAre
  <2> HIDE DEF v
  <2> QED BY <1>1, <1>3, <2>1
<1> HIDE DEF v
<1>6. CASE FoundRegion(h) # NULL
  <2>1. /\ r = FoundRegion(h) /\ default' = r /\ UNCHANGED <<regions, rw>>
        /\ x[2] = Head(free[r]) /\ free' = [free EXCEPT ![r] = Tail(free[r])]
    BY <1>6 DEF AllocTrampoline, UseRegion
  <2>2. r \in ToSet(regions) /\ free[r] # <<>>
    BY <1>6, <2>1, FoundIs DEF Allocator
  <2>3. free[r] \in Seq(Slots) /\ IsFreeList(free[r], tramp, r)
    BY <1>2, <1>3, <2>2 DEF Allocator
  <2>4. /\ x[2] \in 2..(PerRegion - 1) /\ tramp[x] = Blank
        /\ IsFreeList(Tail(free[r]), tramp', r)
    <3>1. \A y \in Trampolines :
            tramp'[y] = IF y = <<r, Head(free[r])>> THEN v ELSE tramp[y]
      BY <1>1, <1>2, <1>3, <2>1
    <3>2. /\ Head(free[r]) \in 2..(PerRegion - 1) /\ tramp[<<r, Head(free[r])>>] = Blank
          /\ IsFreeList(Tail(free[r]), tramp', r)
      <4>1. PICK l : l = free[r]
        OBVIOUS
      <4>2. /\ l \in Seq(Slots) /\ l # <<>> /\ IsFreeList(l, tramp, r) /\ r \in Regions
            /\ v # Blank /\ tramp \in [Trampolines -> TrampolineValue]
            /\ \A y \in Trampolines : tramp'[y] = IF y = <<r, Head(l)>> THEN v ELSE tramp[y]
        BY <1>2, <1>3, <2>2, <2>3, <3>1, <4>1
      <4>3. /\ Head(l) \in 2..(PerRegion - 1) /\ tramp[<<r, Head(l)>>] = Blank
            /\ IsFreeList(Tail(l), tramp', r)
        <5> HIDE DEF r
        <5> QED BY <4>2, ListTaken, ZenonT(40)
      <4> QED BY <4>1, <4>3
    <3> QED BY <1>2, <2>1, <3>2
  <2>5. free' \in [Regions -> Seq(Slots)]
    <3>1. Tail(free[r]) \in Seq(Slots)
      BY <2>2, <2>3
    <3> QED BY <1>3, <2>1, <3>1
  <2>6. Allocator'
    <3>1. \A q \in ToSet(regions) : IsFreeList(free'[q], tramp', q)
      <4> SUFFICES ASSUME NEW q \in ToSet(regions)
                   PROVE  IsFreeList(free'[q], tramp', q)
        OBVIOUS
      <4>1. CASE q = r
        BY <1>2, <1>3, <2>1, <2>4, <4>1
      <4>2. CASE q # r
        <5>1. IsFreeList(free[q], tramp, q)
          BY DEF Allocator
        <5>2. free'[q] = free[q]
          BY <1>3, <2>1, <4>2
        <5>3. \A s \in 2..(PerRegion - 1) : tramp'[<<q, s>>] = tramp[<<q, s>>]
          BY <1>3, <1>5, <4>2
        <5> QED BY <5>1, <5>2, <5>3, ListOther
      <4> QED BY <4>1, <4>2
    <3> QED BY <2>1, <2>2, <3>1 DEF Allocator
  <2>7. x \in Usable
    BY <1>2, <2>4 DEF Usable
  <2> QED BY <1>1, <1>2, <1>3, <1>4, <2>1, <2>2, <2>4, <2>5, <2>6, <2>7 DEF v
<1>7. CASE FoundRegion(h) = NULL
  <2>1. /\ NewRegion(h, r) /\ x[2] = Head(NewFree)
        /\ free' = [free EXCEPT ![r] = Tail(NewFree)]
    BY <1>7 DEF AllocTrampoline
  <2>2. /\ r \notin ToSet(regions)
        /\ regions' \in Seq(Regions) /\ ToSet(regions)' = ToSet(regions) \cup {r}
        /\ rw' = rw \cup {r} /\ default' = r
        /\ \A s \in 2..(PerRegion - 1) : tramp[<<r, s>>] = Blank
    BY <2>1, NewRegionIs
  <2>3. IsFreeList(NewFree, tramp, r)
    BY <2>2, ListNew
  <2>4. /\ x[2] \in 2..(PerRegion - 1) /\ tramp[x] = Blank
        /\ IsFreeList(Tail(NewFree), tramp', r)
    <3>1. \A y \in Trampolines :
            tramp'[y] = IF y = <<r, Head(NewFree)>> THEN v ELSE tramp[y]
      BY <1>1, <1>2, <1>3, <2>1
    <3>2. NewFree \in Seq(Slots) /\ NewFree # <<>>
      BY NewFreeIs
    <3>3. /\ Head(NewFree) \in 2..(PerRegion - 1) /\ tramp[<<r, Head(NewFree)>>] = Blank
          /\ IsFreeList(Tail(NewFree), tramp', r)
      <4> HIDE DEF r
      <4> QED BY <1>2, <1>3, <2>3, <3>1, <3>2, ListTaken, ZenonT(40)
    <3> QED BY <1>2, <2>1, <3>3
  <2>5. free' \in [Regions -> Seq(Slots)]
    <3>1. Tail(NewFree) \in Seq(Slots)
      BY NewFreeIs
    <3> QED BY <1>3, <2>1, <3>1
  <2>6. Allocator'
    <3>1. \A q \in ToSet(regions) \cup {r} : IsFreeList(free'[q], tramp', q)
      <4> SUFFICES ASSUME NEW q \in ToSet(regions) \cup {r}
                   PROVE  IsFreeList(free'[q], tramp', q)
        OBVIOUS
      <4>1. CASE q = r
        BY <1>2, <1>3, <2>1, <2>4, <4>1
      <4>2. CASE q # r
        <5>1. IsFreeList(free[q], tramp, q)
          BY <4>2 DEF Allocator
        <5>2. free'[q] = free[q]
          BY <1>3, <2>1, <4>2
        <5>3. \A s \in 2..(PerRegion - 1) : tramp'[<<q, s>>] = tramp[<<q, s>>]
          BY <1>3, <1>5, <4>2
        <5> QED BY <5>1, <5>2, <5>3, ListOther
      <4> QED BY <4>1, <4>2
    <3> QED BY <2>2, <3>1 DEF Allocator
  <2>7. x \in Usable
    BY <1>2, <2>4 DEF Usable
  <2> QED BY <1>1, <1>2, <1>3, <1>4, <2>2, <2>4, <2>5, <2>6, <2>7 DEF v
<1> QED BY <1>6, <1>7
-----------------------------------------------------------------------------
(* Attaching and detaching.                                                *)

(* The owner that names an operation can write the trampolines.            *)
LEMMA CollectingIs ==
  ASSUME DetoursInv, NEW t \in Threads, NEW h, Collecting(t, h)
  PROVE  /\ owner = t /\ t # NULL /\ phase = "open" /\ ~failed
         /\ ToSet(regions) \subseteq rw
         /\ \A k : ~Applied(k)
PROOF
  BY ConstantsAre DEF DetoursInv, Collecting, RegionsWritable, Applied

(* A trampoline is filled in for the hook that is attached.                *)
LEMMA AttachStep ==
  ASSUME DetoursInv, NEW t \in Threads, NEW h \in Hooks, Collecting(t, h), ptr[h] = NULL,
         NEW x \in Trampolines, AllocTrampoline(h, x), Push(FALSE, h, x)
  PROVE  DetoursInv'
PROOF
<1> USE DEF DetoursInv
<1> DEFINE v == [hook |-> h, restore |-> NULL]
<1>1. /\ owner = t /\ phase = "open" /\ ~failed /\ ToSet(regions) \subseteq rw
      /\ \A k : ~Applied(k)
  BY CollectingIs
<1>2. /\ x \in Usable /\ tramp[x] = Blank
      /\ tramp' = [tramp EXCEPT ![x] = v]
      /\ x[1] \in ToSet(regions)' /\ ToSet(regions) \subseteq ToSet(regions)'
      /\ ToSet(regions)' \subseteq rw' /\ Allocator'
      /\ regions' \in Seq(Regions) /\ rw' \subseteq Regions
      /\ default' \in Regions \cup {NULL}
      /\ free' \in [Regions -> Seq(Slots)] /\ tramp' \in [Trampolines -> TrampolineValue]
  BY <1>1, AllocIs
<1>3. /\ ops' \in Seq(Operation) /\ perm' \in [Pages -> {"RX", "RWX"}]
      /\ Phases' /\ OpsOnce' /\ OpsApplied' /\ PermsStacked'
      /\ Len(ops) \in Nat /\ Len(ops') = Len(ops) + 1
      /\ 1 \in 1..Len(ops') /\ ops'[1].hook = h /\ ops'[1].at = x
      /\ \A i \in 1..Len(ops) : i + 1 \in 1..Len(ops') /\ ops'[i + 1] = ops[i]
      /\ \A i \in 1..Len(ops') : i = 1 \/ (i - 1 \in 1..Len(ops) /\ ops'[i] = ops[i - 1])
  BY PushStep
<1>4. UNCHANGED <<owner, phase, failed, cursor, freed, code, ptr>>
  BY DEF Push
<1>5. TypeOK'
  BY <1>2, <1>3, <1>4 DEF TypeOK, TrampolineValue
<1>6. RegionsWritable'
  BY <1>2 DEF RegionsWritable
<1>7. \A y \in Trampolines : tramp'[y] = IF y = x THEN v ELSE tramp[y]
  BY <1>2 DEF TypeOK
<1>8. \A y : \A g \in Hooks : Serves(y, g) => Serves(y, g)'
  <2> SUFFICES ASSUME NEW y, NEW g \in Hooks, Serves(y, g)
               PROVE  Serves(y, g)'
    OBVIOUS
  <2>1. y # x /\ y \in Trampolines
    BY <1>2, ConstantsAre DEF Serves, Blank
  <2> QED BY <1>2, <1>7, <2>1 DEF Serves
<1>9. Serves(x, h)'
  BY <1>2, <1>7 DEF Serves
<1>10. TrampolinesServe'
  <2>1. ASSUME NEW g \in Hooks, ptr[g] # NULL
        PROVE  Serves(ptr[g], g)'
    <3>1. PICK y : y = ptr[g]
      OBVIOUS
    <3>2. Serves(y, g)'
      BY <1>8, <2>1, <3>1 DEF TrampolinesServe
    <3> QED BY <1>4, <3>1, <3>2
  <2>2. ASSUME NEW k \in 1..Len(ops')
        PROVE  Serves(ops[k].at, ops[k].hook)'
    <3>1. PICK y, g : y = ops'[k].at /\ g = ops'[k].hook
      OBVIOUS
    <3>2. Serves(y, g)'
      <4>1. CASE k = 1
        BY <1>3, <1>9, <3>1, <4>1
      <4>2. CASE k # 1
        <5>1. Serves(y, g)
          BY <1>3, <3>1, <4>2 DEF TrampolinesServe
        <5>2. ops'[k] \in Operation
          BY <1>3
        <5>3. g \in Hooks
          BY <3>1, <5>2 DEF Operation
        <5> QED BY <1>8, <5>1, <5>3
      <4> QED BY <4>1, <4>2
    <3> QED BY <3>1, <3>2
  <2>3. ASSUME NEW y \in Trampolines, tramp'[y] # Blank
        PROVE  \E g \in Hooks :
                 /\ Serves(y, g)'
                 /\ \/ ptr'[g] = y
                    \/ \E k \in 1..Len(ops') : ops'[k].hook = g /\ ops'[k].at = y
    <3>1. CASE y = x
      BY <1>3, <1>9, <3>1
    <3>2. CASE y # x
      <4>1. tramp[y] # Blank
        BY <1>7, <2>3, <3>2
      <4>2. PICK g \in Hooks :
              /\ Serves(y, g)
              /\ \/ ptr[g] = y
                 \/ \E k \in 1..Len(ops) : ops[k].hook = g /\ ops[k].at = y
        BY <4>1 DEF TrampolinesServe
      <4> QED BY <1>3, <1>4, <1>8, <4>2, SMTT(30)
    <3> QED BY <3>1, <3>2
  <2>4. \A g \in Hooks : ptr'[g] # NULL => Serves(ptr[g], g)'
    BY <1>4, <2>1
  <2> QED BY <2>2, <2>3, <2>4 DEF TrampolinesServe
<1> QED BY <1>2, <1>3, <1>4, <1>5, <1>6, <1>10

(* A new region that an attach could not use in the end stays.             *)
LEMMA InVainStep ==
  ASSUME DetoursInv, NEW t \in Threads, NEW h \in Hooks, Collecting(t, h),
         AllocInVain(h), OperationFails
  PROVE  DetoursInv'
PROOF
<1> USE DEF DetoursInv
<1>1. /\ owner = t /\ t # NULL /\ phase = "open" /\ ~failed /\ ToSet(regions) \subseteq rw
  BY CollectingIs
<1>2. CASE UNCHANGED <<regions, rw, free>> /\ default' \in ToSet(regions) \cup {NULL}
  BY <1>1, <1>2, FailStep DEF AllocInVain
<1>3. CASE FoundRegion(h) # NULL
  <2>1. UNCHANGED <<regions, rw, free>> /\ default' = FoundRegion(h)
    BY <1>3 DEF AllocInVain, UseRegion
  <2>2. FoundRegion(h) \in ToSet(regions)
    BY <1>3, FoundIs DEF Allocator
  <2> QED BY <1>2, <2>1, <2>2
<1>4. ASSUME NEW r \in Regions, NewRegion(h, r), free' = [free EXCEPT ![r] = NewFree]
      PROVE  DetoursInv'
  <2>1. /\ r \notin ToSet(regions)
        /\ regions' \in Seq(Regions) /\ ToSet(regions)' = ToSet(regions) \cup {r}
        /\ rw' = rw \cup {r} /\ default' = r
        /\ \A s \in 2..(PerRegion - 1) : tramp[<<r, s>>] = Blank
    BY <1>4, NewRegionIs
  <2>2. /\ UNCHANGED <<tramp, owner, phase, ops, cursor, freed, codeVars>> /\ failed' = TRUE
    BY DEF AllocInVain, OperationFails
  <2>3. free' \in [Regions -> Seq(Slots)]
    BY <1>4, NewFreeIs DEF TypeOK
  <2>4. TypeOK'
    BY <2>1, <2>2, <2>3 DEF TypeOK, codeVars
  <2>5. Phases' /\ RegionsWritable'
    BY <1>1, <2>1, <2>2 DEF Phases, RegionsWritable
  <2>6. OpsOnce' /\ OpsApplied' /\ code' = ptr' /\ PermsStacked'
    BY <2>2 DEF OpsOnce, OpsApplied, Applied, PermsStacked, OlderOn, codeVars
  <2>7. TrampolinesServe'
    <3>1. UNCHANGED <<ops, tramp, ptr>> /\ ToSet(regions) \subseteq ToSet(regions)'
      BY <2>1, <2>2 DEF codeVars
    <3> QED BY <3>1, ServeKept
  <2>8. Allocator'
    <3>1. IsFreeList(NewFree, tramp, r)
      BY <2>1, ListNew
    <3>2. \A q \in ToSet(regions) \cup {r} : IsFreeList(free'[q], tramp, q)
      <4>1. \A q \in ToSet(regions) : q \in Regions /\ q # r
        BY <2>1 DEF ToSet, TypeOK
      <4> QED BY <1>4, <3>1, <4>1 DEF Allocator, TypeOK
    <3> QED BY <2>1, <2>2, <3>2 DEF Allocator
  <2> QED BY <2>4, <2>5, <2>6, <2>7, <2>8
<1>5. CASE FoundRegion(h) = NULL
  <2>1. \/ default' = NULL /\ UNCHANGED <<regions, rw, free>>
        \/ \E r \in Regions : NewRegion(h, r) /\ free' = [free EXCEPT ![r] = NewFree]
    BY <1>5 DEF AllocInVain
  <2> QED BY <1>2, <1>4, <2>1
<1> QED BY <1>3, <1>5

(* An operation to detach a hook names the trampoline its pointer leads to. *)
LEMMA DetachStep ==
  ASSUME DetoursInv, NEW t \in Threads, NEW h \in Hooks, Collecting(t, h), ptr[h] # NULL,
         Push(TRUE, h, ptr[h]), UNCHANGED memVars
  PROVE  DetoursInv'
PROOF
<1> USE DEF DetoursInv
<1>1. /\ owner = t /\ phase = "open" /\ ~failed /\ ToSet(regions) \subseteq rw
  BY CollectingIs
<1>2. PICK x : x = ptr[h]
  OBVIOUS
<1>3. x \in Trampolines /\ Push(TRUE, h, x) /\ Serves(x, h)
  BY <1>2 DEF TypeOK, TrampolinesServe
<1>4. /\ ops' \in Seq(Operation) /\ perm' \in [Pages -> {"RX", "RWX"}]
      /\ Phases' /\ OpsOnce' /\ OpsApplied' /\ PermsStacked'
      /\ Len(ops) \in Nat /\ Len(ops') = Len(ops) + 1
      /\ 1 \in 1..Len(ops') /\ ops'[1].hook = h /\ ops'[1].at = x
      /\ \A i \in 1..Len(ops) : i + 1 \in 1..Len(ops') /\ ops'[i + 1] = ops[i]
      /\ \A i \in 1..Len(ops') : i = 1 \/ (i - 1 \in 1..Len(ops) /\ ops'[i] = ops[i - 1])
  BY <1>2, <1>3, PushStep
<1>5. UNCHANGED <<owner, phase, failed, cursor, freed, code, ptr>>
  BY <1>3 DEF Push
<1>6. TypeOK'
  BY <1>4, <1>5 DEF TypeOK, memVars
<1>7. RegionsWritable' /\ Allocator'
  BY <1>1 DEF RegionsWritable, Allocator, memVars
<1>8. TrampolinesServe'
  <2>1. \A k \in 1..Len(ops') : Serves(ops'[k].at, ops'[k].hook)
    BY <1>3, <1>4, SMTT(30) DEF TrampolinesServe
  <2>2. ASSUME NEW y \in Trampolines, tramp[y] # Blank
        PROVE  \E g \in Hooks :
                 /\ Serves(y, g)
                 /\ \/ ptr[g] = y
                    \/ \E k \in 1..Len(ops') : ops'[k].hook = g /\ ops'[k].at = y
    <3>1. PICK g \in Hooks :
            /\ Serves(y, g)
            /\ \/ ptr[g] = y
               \/ \E k \in 1..Len(ops) : ops[k].hook = g /\ ops[k].at = y
      BY <2>2 DEF TrampolinesServe
    <3> QED BY <1>4, <3>1
  <2>3. \A g \in Hooks : ptr[g] # NULL => Serves(ptr[g], g)
    BY DEF TrampolinesServe
  <2> QED BY <1>5, <2>1, <2>2, <2>3 DEF TrampolinesServe, Serves, memVars
<1> QED BY <1>4, <1>5, <1>6, <1>7, <1>8
-----------------------------------------------------------------------------
(* The end of a transaction.                                               *)

(* The newest operation is undone: its page gets back what it found, and   *)
(* its trampoline is freed if no pointer leads to it.                      *)
LEMMA PopStep ==
  ASSUME DetoursInv, NEW done \in BOOLEAN, phase = IF done THEN "finish" ELSE "abort",
         PopOperation(done)
  PROVE  DetoursInv'
PROOF
<1> USE DEF DetoursInv
<1> DEFINE o == Head(ops)
           n == Len(ops)
           x == o.at
<1>1. /\ ops # <<>> /\ ops' = Tail(ops) /\ perm' = [perm EXCEPT ![PageOf[o.hook]] = o.perm]
      /\ UNCHANGED <<owner, phase, failed, cursor, regions, default, rw, code, ptr>>
      /\ freed' = (freed \/ (done /\ o.remove))
  BY DEF PopOperation
<1>2. IF o.remove = done THEN FreeTrampoline(x) ELSE UNCHANGED <<tramp, free>>
  BY DEF PopOperation
<1>3. /\ ops \in Seq(Operation) /\ ops' \in Seq(Operation)
      /\ Len(ops') = n - 1 /\ n \in Nat \ {0}
      /\ o = ops[1] /\ o \in Operation /\ 1 \in 1..n
      /\ \A i \in 1..Len(ops') : i + 1 \in 1..n /\ i + 1 # 1 /\ ops'[i] = ops[i + 1]
      /\ \A i \in 1..n :
           i = 1 \/ (i - 1 \in 1..Len(ops') /\ i = (i - 1) + 1 /\ ops'[i - 1] = ops[i])
  <2>1. ops \in Seq(Operation) /\ n \in Nat
    BY DEF TypeOK
  <2> QED BY <1>1, <2>1, TailIs
<1>4. o.hook \in Hooks /\ o.remove \in BOOLEAN /\ o.perm \in {"RX", "RWX"} /\ x \in Trampolines
  <2> HIDE DEF o
  <2> QED BY <1>3 DEF Operation
<1>5. Serves(x, o.hook) /\ x \in Usable
  BY <1>3 DEF TrampolinesServe, Serves
<1>6. /\ \A k : Applied(k) <=> done
      /\ \A k : Applied(k)' <=> done
  BY <1>1 DEF Applied
<1>7. ptr[o.hook] = IF o.remove <=> done THEN NULL ELSE x
  BY <1>3, <1>6 DEF OpsApplied
<1>8. freed' \in BOOLEAN /\ perm' \in [Pages -> {"RX", "RWX"}]
  BY <1>1, <1>4 DEF TypeOK
<1> HIDE DEF o, x
<1>9. OpsOnce'
  <2> SUFFICES ASSUME NEW j \in 1..Len(ops'), NEW k \in 1..Len(ops'),
                      ops'[j].hook = ops'[k].hook
               PROVE  j = k
    BY DEF OpsOnce
  <2>1. ops[j + 1].hook = ops[k + 1].hook
    BY <1>3
  <2>2. j + 1 = k + 1
    BY <1>3, <2>1 DEF OpsOnce
  <2> QED BY <2>2
<1>10. \A k \in 1..Len(ops') : ops'[k].hook # o.hook /\ ops'[k].at # x
  <2> SUFFICES ASSUME NEW k \in 1..Len(ops')
               PROVE  ops'[k].hook # o.hook /\ ops'[k].at # x
    OBVIOUS
  <2>1. ops[k + 1].hook # o.hook
    BY <1>3 DEF OpsOnce
  <2>2. Serves(ops[k + 1].at, ops[k + 1].hook)
    BY <1>3 DEF TrampolinesServe
  <2>3. ops[k + 1].at # x
    BY <1>5, <2>1, <2>2 DEF Serves
  <2> QED BY <1>3, <2>1, <2>3
<1>11. OpsApplied'
  <2> SUFFICES ASSUME NEW k \in 1..Len(ops')
               PROVE  ptr[ops'[k].hook] = IF ops'[k].remove <=> done
                                          THEN NULL ELSE ops'[k].at
    BY <1>1, <1>6 DEF OpsApplied
  <2> QED BY <1>3, <1>6 DEF OpsApplied
<1>12. Phases' /\ RegionsWritable'
  BY <1>1 DEF Phases, RegionsWritable
<1>13. PermsStacked'
  <2>1. \A p : \A k \in Nat : OlderOn(ops, p, k + 1) <=> OlderOn(ops', p, k)
    <3>1. ops = <<o>> \o ops'
      BY <1>1, <1>3 DEF o
    <3> QED BY <1>3, <3>1, OlderShift
  <2>2. \A p \in Pages : perm'[p] = IF OlderOn(ops', p, 0) THEN "RWX" ELSE "RX"
    <3> SUFFICES ASSUME NEW p \in Pages
                 PROVE  perm'[p] = IF OlderOn(ops', p, 0) THEN "RWX" ELSE "RX"
      OBVIOUS
    <3>1. OlderOn(ops, p, 1) <=> OlderOn(ops', p, 0)
      <4>1. OlderOn(ops, p, 0 + 1) <=> OlderOn(ops', p, 0)
        BY <2>1
      <4> QED BY <4>1
    <3>2. CASE p = PageOf[o.hook]
      <4>1. o.perm = IF OlderOn(ops, PageOf[o.hook], 1) THEN "RWX" ELSE "RX"
        BY <1>3 DEF PermsStacked
      <4>2. perm'[p] = o.perm
        BY <1>1, <3>2 DEF TypeOK
      <4> QED BY <3>1, <3>2, <4>1, <4>2
    <3>3. CASE p # PageOf[o.hook]
      <4>1. perm'[p] = perm[p]
        BY <1>1, <3>3 DEF TypeOK
      <4>2. OlderOn(ops, p, 0) <=> OlderOn(ops, p, 1)
        <5>1. \A j \in 1..n : j > 0 /\ (j > 1 \/ j = 1)
          BY <1>3
        <5>2. \A j \in 1..n : PageOf[ops[j].hook] = p => j > 1
          BY <1>3, <3>3, <5>1
        <5> QED BY <5>1, <5>2 DEF OlderOn
      <4> QED BY <3>1, <4>1, <4>2 DEF PermsStacked
    <3> QED BY <3>2, <3>3
  <2>3. ASSUME NEW k \in 1..Len(ops')
        PROVE  ops'[k].perm = IF OlderOn(ops', PageOf[ops'[k].hook], k) THEN "RWX" ELSE "RX"
    <3>1. ops[k + 1].perm = IF OlderOn(ops, PageOf[ops[k + 1].hook], k + 1)
                            THEN "RWX" ELSE "RX"
      BY <1>3 DEF PermsStacked
    <3>2. k \in Nat
      OBVIOUS
    <3> QED BY <1>3, <2>1, <3>1, <3>2
  <2> QED BY <2>2, <2>3 DEF PermsStacked
<1>14. CASE o.remove # done
  <2>1. UNCHANGED <<tramp, free>> /\ ptr[o.hook] = x
    BY <1>2, <1>4, <1>7, <1>14
  <2>2. TypeOK'
    BY <1>1, <1>3, <1>8, <2>1 DEF TypeOK
  <2>3. Allocator'
    BY <1>1, <2>1 DEF Allocator
  <2>4. TrampolinesServe'
    <3>1. \A k \in 1..Len(ops') : Serves(ops'[k].at, ops'[k].hook)
      BY <1>3 DEF TrampolinesServe
    <3>2. ASSUME NEW y \in Trampolines, tramp[y] # Blank
          PROVE  \E g \in Hooks :
                   /\ Serves(y, g)
                   /\ \/ ptr[g] = y
                      \/ \E k \in 1..Len(ops') : ops'[k].hook = g /\ ops'[k].at = y
      <4>1. PICK g \in Hooks :
              /\ Serves(y, g)
              /\ \/ ptr[g] = y
                 \/ \E k \in 1..n : ops[k].hook = g /\ ops[k].at = y
        BY <3>2 DEF TrampolinesServe
      <4>2. ASSUME NEW k \in 1..n, ops[k].hook = g, ops[k].at = y
            PROVE  ptr[g] = y
                     \/ \E j \in 1..Len(ops') : ops'[j].hook = g /\ ops'[j].at = y
        <5>1. CASE k = 1
          BY <1>3, <2>1, <4>2, <5>1 DEF x
        <5>2. CASE k # 1
          BY <1>3, <4>2, <5>2
        <5> QED BY <5>1, <5>2
      <4> QED BY <4>1, <4>2
    <3>3. \A g \in Hooks : ptr[g] # NULL => Serves(ptr[g], g)
      BY DEF TrampolinesServe
    <3> QED BY <1>1, <2>1, <3>1, <3>2, <3>3 DEF TrampolinesServe, Serves
  <2> QED BY <1>1, <1>9, <1>11, <1>12, <1>13, <2>2, <2>3, <2>4
<1>15. CASE o.remove = done
  <2>1. /\ tramp' = [tramp EXCEPT ![x] = Blank] /\ ptr[o.hook] = NULL
        /\ free' = [free EXCEPT ![x[1]] = <<x[2]>> \o free[x[1]]]
    BY <1>2, <1>4, <1>7, <1>15 DEF FreeTrampoline
  <2>2. /\ x[1] \in Regions /\ x[2] \in 2..(PerRegion - 1) /\ x[2] \in Slots
        /\ x = <<x[1], x[2]>> /\ x[1] \in ToSet(regions)
    BY <1>4, <1>5, ConstantsAre DEF Serves
  <2>3. /\ tramp \in [Trampolines -> TrampolineValue] /\ free \in [Regions -> Seq(Slots)]
    BY DEF TypeOK, TrampolineValue
  <2>4. \A y \in Trampolines : tramp'[y] = IF y = x THEN Blank ELSE tramp[y]
    BY <2>1, <2>3
  <2>5. free' \in [Regions -> Seq(Slots)]
    <3>1. <<x[2]>> \o free[x[1]] \in Seq(Slots)
      BY <2>2, <2>3
    <3> QED BY <2>1, <2>3, <3>1
  <2>6. TypeOK'
    <3>1. Blank \in TrampolineValue
      BY DEF Blank, TrampolineValue
    <3>2. tramp' \in [Trampolines -> TrampolineValue]
      BY <2>1, <2>3, <3>1
    <3> QED BY <1>1, <1>3, <1>8, <2>5, <3>2 DEF TypeOK, TrampolineValue
  <2>7. \A y, g : Serves(y, g) /\ y # x => Serves(y, g)'
    <3> SUFFICES ASSUME NEW y, NEW g, Serves(y, g), y # x
                 PROVE  Serves(y, g)'
      OBVIOUS
    <3>1. y \in Trampolines
      BY ConstantsAre DEF Serves
    <3> QED BY <1>1, <2>4, <3>1 DEF Serves
  <2>8. TrampolinesServe'
    <3>1. ASSUME NEW g \in Hooks, ptr[g] # NULL
          PROVE  Serves(ptr[g], g)'
      <4>1. PICK y : y = ptr[g]
        OBVIOUS
      <4>2. Serves(y, g)
        BY <3>1, <4>1 DEF TrampolinesServe
      <4>3. y # x
        BY <1>5, <2>1, <3>1, <4>1, <4>2 DEF Serves
      <4> QED BY <1>1, <2>7, <4>1, <4>2, <4>3
    <3>2. ASSUME NEW k \in 1..Len(ops')
          PROVE  Serves(ops[k].at, ops[k].hook)'
      <4>1. PICK y, g : y = ops'[k].at /\ g = ops'[k].hook
        OBVIOUS
      <4>2. Serves(y, g) /\ y # x
        BY <1>3, <1>10, <4>1 DEF TrampolinesServe
      <4> QED BY <2>7, <4>1, <4>2
    <3>3. ASSUME NEW y \in Trampolines, tramp'[y] # Blank
          PROVE  \E g \in Hooks :
                   /\ Serves(y, g)'
                   /\ \/ ptr'[g] = y
                      \/ \E k \in 1..Len(ops') : ops'[k].hook = g /\ ops'[k].at = y
      <4>1. y # x /\ tramp[y] # Blank
        BY <2>4, <3>3
      <4>2. PICK g \in Hooks :
              /\ Serves(y, g)
              /\ \/ ptr[g] = y
                 \/ \E k \in 1..n : ops[k].hook = g /\ ops[k].at = y
        BY <4>1 DEF TrampolinesServe
      <4>3. ASSUME NEW k \in 1..n, ops[k].hook = g, ops[k].at = y
            PROVE  \E j \in 1..Len(ops') : ops'[j].hook = g /\ ops'[j].at = y
        <5>1. k # 1
          BY <1>3, <4>1, <4>3 DEF x
        <5> QED BY <1>3, <4>3, <5>1
      <4> QED BY <1>1, <2>7, <4>1, <4>2, <4>3
    <3>4. \A g \in Hooks : ptr'[g] # NULL => Serves(ptr[g], g)'
      BY <1>1, <3>1
    <3> QED BY <3>2, <3>3, <3>4 DEF TrampolinesServe
  <2>9. Allocator'
    <3>1. IsFreeList(<<x[2]>> \o free[x[1]], tramp', x[1])
      <4>1. PICK l, r, s : l = free[x[1]] /\ r = x[1] /\ s = x[2]
        OBVIOUS
      <4>2. /\ l \in Seq(Slots) /\ IsFreeList(l, tramp, r)
            /\ \A y \in Trampolines : tramp'[y] = IF y = <<r, s>> THEN Blank ELSE tramp[y]
        BY <2>2, <2>3, <2>4, <4>1 DEF Allocator
      <4>3. tramp[<<r, s>>] # Blank
        BY <1>4, <1>5, <2>2, <4>1, ConstantsAre DEF Serves, Blank
      <4>4. IsFreeList(<<s>> \o l, tramp', r)
        BY <2>2, <2>3, <4>1, <4>2, <4>3, ListGiven
      <4> QED BY <4>1, <4>4
    <3>2. \A q \in ToSet(regions) : IsFreeList(free'[q], tramp', q)
      <4> SUFFICES ASSUME NEW q \in ToSet(regions)
                   PROVE  IsFreeList(free'[q], tramp', q)
        OBVIOUS
      <4>1. CASE q = x[1]
        BY <2>1, <2>2, <2>3, <3>1, <4>1
      <4>2. CASE q # x[1]
        <5>1. q \in Regions
          BY DEF ToSet, TypeOK
        <5>2. free'[q] = free[q] /\ IsFreeList(free[q], tramp, q)
          BY <2>1, <2>3, <4>2, <5>1 DEF Allocator
        <5>3. \A s \in 2..(PerRegion - 1) : tramp'[<<q, s>>] = tramp[<<q, s>>]
          <6> SUFFICES ASSUME NEW s \in 2..(PerRegion - 1)
                       PROVE  tramp'[<<q, s>>] = tramp[<<q, s>>]
            OBVIOUS
          <6>1. <<q, s>> \in Trampolines /\ <<q, s>> # x
            BY <2>2, <4>2, <5>1, ConstantsAre
          <6> QED BY <2>4, <6>1
        <5> QED BY <5>2, <5>3, ListOther
      <4> QED BY <4>1, <4>2
    <3> QED BY <1>1, <3>2 DEF Allocator
  <2> QED BY <1>1, <1>9, <1>11, <1>12, <1>13, <2>6, <2>8, <2>9
<1> QED BY <1>14, <1>15

(* The regions that stay are those in which a trampoline is filled in, and *)
(* s_pRegion is forgotten when one goes.                                   *)
LEMMA FreeUnusedIs ==
  ASSUME DetoursInv, FreeUnusedRegions
  PROVE  /\ regions' \in Seq(Regions)
         /\ ToSet(regions)' = {r \in ToSet(regions) : ~RegionEmpty(r)}
         /\ default' \in ToSet(regions)' \cup {NULL}
         /\ free' \in [Regions -> Seq(Slots)]
         /\ \A r \in ToSet(regions)' : free'[r] = free[r]
PROOF
<1> USE DEF DetoursInv
<1> DEFINE K == {k \in DOMAIN regions : ~RegionEmpty(regions[k])}
<1>1. PICK kept \in InOrder(K) : regions' = [i \in DOMAIN kept |-> regions[kept[i]]]
  BY DEF FreeUnusedRegions
<1>2. regions \in Seq(Regions) /\ DOMAIN regions = 1..Len(regions) /\ Len(regions) \in Nat
  BY DEF TypeOK
<1>3. IsFiniteSet(K) /\ K \subseteq Int
  <2>1. IsFiniteSet(1..Len(regions))
    BY <1>2, FS_Interval
  <2>2. K \in SUBSET (1..Len(regions))
    BY <1>2
  <2> QED BY <2>1, <2>2, FS_Subset
<1> DEFINE n == Cardinality(K)
<1>4. /\ kept \in [1..n -> K] /\ n \in Nat
      /\ \A k \in K : \E i \in 1..n : kept[i] = k
  BY <1>3, InOrderIs
<1>5. \A k \in K : k \in 1..Len(regions) /\ ~RegionEmpty(regions[k])
  BY <1>2
<1>6. regions' = [i \in 1..n |-> regions[kept[i]]]
  BY <1>1, <1>4
<1> HIDE DEF n, K
<1>7. \A i \in 1..n : regions[kept[i]] \in Regions
  BY <1>2, <1>4, <1>5
<1>8. regions' \in Seq(Regions)
  BY <1>4, <1>6, <1>7
<1>9. ToSet(regions)' = {r \in ToSet(regions) : ~RegionEmpty(r)}
  <2>1. DOMAIN regions' = 1..n /\ \A i \in 1..n : regions'[i] = regions[kept[i]]
    BY <1>6
  <2>2. \A r \in ToSet(regions)' : r \in ToSet(regions) /\ ~RegionEmpty(r)
    BY <1>2, <1>4, <1>5, <2>1 DEF ToSet
  <2>3. ASSUME NEW r \in ToSet(regions), ~RegionEmpty(r)
        PROVE  r \in ToSet(regions)'
    <3>1. PICK k \in DOMAIN regions : regions[k] = r
      BY DEF ToSet
    <3>2. k \in K
      BY <2>3, <3>1 DEF K
    <3>3. PICK i \in 1..n : kept[i] = k
      BY <1>4, <3>2
    <3>4. regions'[i] = r
      BY <2>1, <3>1, <3>3
    <3> QED BY <2>1, <3>4 DEF ToSet
  <2> QED BY <2>2, <2>3
<1>10. default' \in ToSet(regions)' \cup {NULL}
  <2>1. default' = IF regions' = regions THEN default ELSE NULL
    BY DEF FreeUnusedRegions
  <2> QED BY <2>1 DEF Allocator
<1>11. free' = [r \in Regions |-> IF r \in ToSet(regions') THEN free[r] ELSE <<>>]
  BY DEF FreeUnusedRegions
<1>12. free' \in [Regions -> Seq(Slots)]
  BY <1>11 DEF TypeOK
<1>13. \A r \in ToSet(regions)' : free'[r] = free[r]
  <2>1. \A r \in ToSet(regions) : r \in Regions
    BY <1>2 DEF ToSet
  <2> QED BY <1>9, <1>11, <2>1
<1> QED BY <1>8, <1>9, <1>10, <1>12, <1>13

(* The regions that have no trampolines go, the pages become executable,   *)
(* the thread is released.                                                 *)
LEMMA EndTransactionStep ==
  ASSUME DetoursInv, NEW done \in BOOLEAN, phase = IF done THEN "finish" ELSE "abort",
         EndTransaction(done)
  PROVE  DetoursInv'
PROOF
<1> USE DEF DetoursInv
<1>1. /\ ops = <<>> /\ ops' = <<>> /\ Len(ops) = 0
      /\ rw' = {} /\ owner' = NULL /\ phase' = "idle" /\ cursor' = 1
      /\ UNCHANGED <<failed, ops, freed, tramp, codeVars>>
      /\ (UNCHANGED <<regions, default, free>> \/ FreeUnusedRegions)
  BY DEF EndTransaction
<1>2. Phases' /\ RegionsWritable'
  BY <1>1 DEF Phases, RegionsWritable
<1>3. CASE UNCHANGED <<regions, default, free>>
  <2>1. TypeOK'
    BY <1>1, <1>3, ConstantsAre DEF TypeOK, codeVars
  <2>2. default' \in ToSet(regions) \cup {NULL}
    BY <1>3 DEF Allocator
  <2> QED BY <1>1, <1>2, <1>3, <2>1, <2>2, KeepStep
<1>4. CASE FreeUnusedRegions
  <2>1. /\ regions' \in Seq(Regions)
        /\ ToSet(regions)' = {r \in ToSet(regions) : ~RegionEmpty(r)}
        /\ default' \in ToSet(regions)' \cup {NULL}
        /\ free' \in [Regions -> Seq(Slots)]
        /\ \A r \in ToSet(regions)' : free'[r] = free[r]
    BY <1>4, FreeUnusedIs
  <2>2. TypeOK'
    <3>1. ToSet(regions)' \subseteq Regions
      BY <2>1 DEF ToSet, TypeOK
    <3> QED BY <1>1, <2>1, <3>1, ConstantsAre, SMTT(30) DEF TypeOK, codeVars
  <2>3. OpsOnce' /\ OpsApplied' /\ code' = ptr' /\ PermsStacked'
    BY <1>1 DEF OpsOnce, OpsApplied, PermsStacked, OlderOn, codeVars
  <2>4. Allocator'
    BY <1>1, <2>1 DEF Allocator
  <2>5. \A y : \A g \in Hooks : Serves(y, g) => Serves(y, g)'
    <3> SUFFICES ASSUME NEW y, NEW g \in Hooks, Serves(y, g)
                 PROVE  Serves(y, g)'
      OBVIOUS
    <3>1. /\ y \in Trampolines /\ y = <<y[1], y[2]>> /\ y[2] \in Slots
          /\ tramp[y] # Blank
      BY ConstantsAre DEF Serves, Blank
    <3>2. ~RegionEmpty(y[1])
      BY <3>1 DEF RegionEmpty
    <3> QED BY <1>1, <2>1, <3>2 DEF Serves
  <2>6. TrampolinesServe'
    <3>1. ASSUME NEW g \in Hooks, ptr[g] # NULL
          PROVE  Serves(ptr[g], g)'
      <4>1. PICK y : y = ptr[g]
        OBVIOUS
      <4>2. Serves(y, g)'
        BY <2>5, <3>1, <4>1 DEF TrampolinesServe
      <4> QED BY <1>1, <4>1, <4>2 DEF codeVars
    <3>2. \A g \in Hooks : ptr'[g] # NULL => Serves(ptr[g], g)'
      BY <1>1, <3>1 DEF codeVars
    <3>3. ASSUME NEW y \in Trampolines, tramp'[y] # Blank
          PROVE  \E g \in Hooks : Serves(y, g)' /\ ptr'[g] = y
      <4>1. PICK g \in Hooks : Serves(y, g) /\ ptr[g] = y
        BY <1>1, <3>3 DEF TrampolinesServe
      <4> QED BY <1>1, <2>5, <4>1 DEF codeVars
    <3> QED BY <1>1, <3>2, <3>3 DEF TrampolinesServe
  <2> QED BY <1>2, <2>2, <2>3, <2>4, <2>6
<1> QED BY <1>1, <1>3, <1>4
-----------------------------------------------------------------------------
(* The invariant.                                                          *)

(* Nothing is detoured before the first transaction.                       *)
LEMMA DetoursInitially == Init => DetoursInv
PROOF
<1> SUFFICES ASSUME Init PROVE DetoursInv
  OBVIOUS
<1> USE DEF Init
<1>1. Len(ops) = 0 /\ DOMAIN regions = {} /\ ToSet(regions) = {}
  BY DEF ToSet
<1>2. TypeOK
  <2>1. Cardinality(Hooks) \in Nat
    BY FS_CardinalityType, DetoursAssumption
  <2>2. cursor \in 1..(Cardinality(Hooks) + 1)
    BY <2>1
  <2>3. ops \in Seq(Operation) /\ regions \in Seq(Regions)
    OBVIOUS
  <2>4. free \in [Regions -> Seq(Slots)]
    OBVIOUS
  <2>5. tramp \in [Trampolines -> [hook : Hooks \cup {NULL},
                                  restore : Trampolines \cup {NULL}]]
    BY DEF Blank
  <2>6. /\ code \in [Hooks -> Trampolines \cup {NULL}]
        /\ ptr \in [Hooks -> Trampolines \cup {NULL}]
        /\ perm \in [Pages -> {"RX", "RWX"}]
    OBVIOUS
  <2>7. /\ owner \in Threads \cup {NULL} /\ default \in Regions \cup {NULL}
        /\ phase \in {"idle", "open", "apply", "finish", "abort"}
        /\ failed \in BOOLEAN /\ freed \in BOOLEAN /\ rw \subseteq Regions
    OBVIOUS
  <2> HIDE DEF Init
  <2> QED BY <2>2, <2>3, <2>4, <2>5, <2>6, <2>7 DEF TypeOK
<1>3. Phases /\ OpsOnce /\ OpsApplied /\ PermsStacked
  BY <1>1 DEF Phases, OpsOnce, OpsApplied, PermsStacked, OlderOn
<1>4. TrampolinesServe /\ Allocator /\ RegionsWritable
  BY <1>1 DEF TrampolinesServe, Allocator, RegionsWritable
<1>5. code = ptr
  OBVIOUS
<1> QED BY <1>2, <1>3, <1>4, <1>5 DEF DetoursInv

(* A call of the library preserves the invariant.                          *)
LEMMA CallPreserves ==
  ASSUME DetoursInv, NEW t \in Threads,
         \/ DetourTransactionBegin(t)
         \/ \E h \in Hooks : DetourAttach(t, h) \/ DetourDetach(t, h)
         \/ DetourTransactionCommit(t)
         \/ DetourTransactionAbort(t)
  PROVE  DetoursInv'
PROOF
<1>1. ASSUME NEW h \in Hooks, DetourAttach(t, h)
      PROVE  DetoursInv'
  <2>1. Collecting(t, h) /\ ptr[h] = NULL
    BY <1>1 DEF DetourAttach
  <2>2. CASE \E x \in Trampolines : AllocTrampoline(h, x) /\ Push(FALSE, h, x)
    BY <2>1, <2>2, AttachStep
  <2>3. CASE AllocInVain(h) /\ OperationFails
    BY <2>1, <2>3, InVainStep
  <2>4. CASE UNCHANGED memVars /\ OperationFails
    BY <2>1, <2>4, CollectingIs, FailStep DEF memVars, DetoursInv, Allocator
  <2> QED BY <1>1, <2>2, <2>3, <2>4 DEF DetourAttach
<1>2. ASSUME NEW h \in Hooks, DetourDetach(t, h)
      PROVE  DetoursInv'
  <2>1. Collecting(t, h) /\ ptr[h] # NULL /\ UNCHANGED memVars
    BY <1>2 DEF DetourDetach
  <2>2. CASE Push(TRUE, h, ptr[h])
    BY <2>1, <2>2, DetachStep
  <2>3. CASE OperationFails
    BY <2>1, <2>3, CollectingIs, FailStep DEF memVars, DetoursInv, Allocator
  <2> QED BY <1>2, <2>2, <2>3 DEF DetourDetach
<1> QED BY <1>1, <1>2, BeginStep, DecideStep

(* And so does every step of a commit or an abort.                         *)
LEMMA EndPreserves ==
  ASSUME DetoursInv, EndStep
  PROVE  DetoursInv'
PROOF
<1>1. CASE phase = "finish" /\ (PopOperation(TRUE) \/ EndTransaction(TRUE))
  <2>1. phase = IF TRUE THEN "finish" ELSE "abort"
    BY <1>1
  <2> QED BY <1>1, <2>1, PopStep, EndTransactionStep
<1>2. CASE phase = "abort" /\ (PopOperation(FALSE) \/ EndTransaction(FALSE))
  <2>1. phase = IF FALSE THEN "finish" ELSE "abort"
    BY <1>2
  <2> QED BY <1>2, <2>1, PopStep, EndTransactionStep
<1> QED BY <1>1, <1>2, ApplyStep DEF EndStep

(* A step that changes nothing of the library.                             *)
LEMMA StutterPreserves ==
  ASSUME DetoursInv, UNCHANGED vars
  PROVE  DetoursInv'
PROOF
<1> USE DEF DetoursInv, vars, txVars, memVars, codeVars
<1>1. TypeOK'
  BY DEF TypeOK
<1>2. Phases' /\ RegionsWritable'
  BY DEF Phases, RegionsWritable
<1>3. \A k \in 1..Len(ops) : Applied(k)' <=> Applied(k)
  BY DEF Applied
<1>4. default' \in ToSet(regions) \cup {NULL}
  BY DEF Allocator
<1> QED BY <1>1, <1>2, <1>3, <1>4, KeepStep

(* The invariant of the library.                                           *)
THEOREM DetoursInvariance == Spec => []DetoursInv
PROOF
<1>1. DetoursInv /\ [Next]_vars => DetoursInv'
  BY CallPreserves, EndPreserves, StutterPreserves DEF Next
<1> QED BY <1>1, DetoursInitially, PTL DEF Spec
-----------------------------------------------------------------------------
(* What the invariant says of the library.                                 *)

(* Every variable keeps its type, for any number of hooks and regions.     *)
THEOREM DetoursTypeCorrect == Spec => []TypeOK
PROOF
<1>1. DetoursInv => TypeOK
  BY DEF DetoursInv
<1> QED BY <1>1, DetoursInvariance, PTL

(* The operations of a transaction.                                        *)
LEMMA OpsTyped ==
  ASSUME DetoursInv
  PROVE  /\ Len(ops) \in Nat /\ DOMAIN ops = 1..Len(ops)
         /\ \A k \in 1..Len(ops) : /\ ops[k].hook \in Hooks
                                   /\ ops[k].at \in Trampolines
                                   /\ ops[k].remove \in BOOLEAN
PROOF
<1>1. ops \in Seq(Operation)
  BY DEF DetoursInv, TypeOK
<1>2. /\ Len(ops) \in Nat /\ DOMAIN ops = 1..Len(ops)
      /\ \A k \in 1..Len(ops) : ops[k] \in Operation
  BY <1>1
<1> QED BY <1>2 DEF Operation

(* The users of a trampoline that is on a free list, and of one that is    *)
(* not.                                                                    *)
LEMMA UsersServed ==
  ASSUME DetoursInv, NEW x \in Trampolines
  PROVE  \A h \in Users(x) : h \in Hooks /\ Serves(x, h) /\ tramp[x] # Blank
PROOF
<1>1. \A h \in Users(x) : h \in Hooks /\ Serves(x, h)
  <2>1. \A h \in Hooks : ptr[h] = x => Serves(x, h)
    BY ConstantsAre DEF DetoursInv, TrampolinesServe
  <2>2. DOMAIN ops = 1..Len(ops) /\ \A k \in 1..Len(ops) : ops[k].hook \in Hooks
    BY OpsTyped
  <2>3. \A k \in DOMAIN ops : ops[k].at = x => Serves(x, ops[k].hook)
    BY <2>2 DEF DetoursInv, TrampolinesServe
  <2> QED BY <2>1, <2>2, <2>3 DEF Users
<1>2. \A h \in Hooks : Serves(x, h) => tramp[x] # Blank
  BY ConstantsAre DEF Serves, Blank
<1> QED BY <1>1, <1>2

(* No trampoline is lost, freed twice or given out twice, whatever mix of  *)
(* attaching, detaching, failing, committing and aborting came before.     *)
THEOREM TrampolinesKept == Spec => []TrampolinesAccounted
PROOF
<1>1. ASSUME DetoursInv, NEW r \in ToSet(regions), NEW s \in 2..(PerRegion - 1)
      PROVE  \/ /\ Cardinality(Occurrences(<<r, s>>)) = 1
                /\ tramp[<<r, s>>] = Blank /\ Users(<<r, s>>) = {}
             \/ /\ Occurrences(<<r, s>>) = {}
                /\ \/ Users(<<r, s>>) = {tramp[<<r, s>>].hook}
                   \/ Users(<<r, s>>) = {} /\ BeingFreed(<<r, s>>)
  <2> DEFINE x == <<r, s>>
  <2>1. r \in Regions /\ DOMAIN free[r] = 1..Len(free[r])
    BY <1>1 DEF DetoursInv, TypeOK, ToSet
  <2>2. x \in Trampolines /\ x[1] = r /\ x[2] = s
    BY <2>1, ConstantsAre
  <2>3. IsFreeList(free[r], tramp, r)
    BY <1>1 DEF DetoursInv, Allocator
  <2>4. \A k : k \in Occurrences(x) <=> k \in 1..Len(free[r]) /\ free[r][k] = s
    BY <2>1, <2>2 DEF Occurrences
  <2>5. CASE tramp[x] = Blank
    <3>1. PICK i \in 1..Len(free[r]) : free[r][i] = s
      BY <2>3, <2>5 DEF IsFreeList
    <3>2. \A k \in Occurrences(x) : k = i
      BY <2>3, <2>4, <3>1 DEF IsFreeList
    <3>3. Occurrences(x) = {i}
      BY <2>4, <3>1, <3>2
    <3>4. Cardinality(Occurrences(x)) = 1
      BY <3>3, FS_Singleton
    <3>5. Users(x) = {}
      BY <1>1, <2>2, <2>5, UsersServed
    <3> QED BY <2>5, <3>4, <3>5
  <2>6. CASE tramp[x] # Blank
    <3>1. Occurrences(x) = {}
      BY <2>3, <2>4, <2>6 DEF IsFreeList
    <3>2. \A h \in Users(x) : h = tramp[x].hook
      <4>1. \A h \in Users(x) : Serves(x, h)
        BY <1>1, <2>2, UsersServed
      <4>2. ASSUME NEW h, Serves(x, h) PROVE h = tramp[x].hook
        <5>1. tramp[x] = [hook |-> h, restore |-> NULL]
          BY <4>2 DEF Serves
        <5> QED BY <5>1
      <4> QED BY <4>1, <4>2
    <3>3. PICK h \in Hooks :
            \/ ptr[h] = x
            \/ \E k \in 1..Len(ops) : ops[k].hook = h /\ ops[k].at = x
      BY <1>1, <2>2, <2>6 DEF DetoursInv, TrampolinesServe
    <3>4. DOMAIN ops = 1..Len(ops) /\ \A k \in 1..Len(ops) : ops[k].remove \in BOOLEAN
      BY <1>1, OpsTyped
    <3>5. h \in Users(x) \/ BeingFreed(x)
      BY <3>3, <3>4 DEF Users, BeingFreed
    <3>6. CASE Users(x) = {}
      BY <3>1, <3>5, <3>6
    <3>7. CASE Users(x) # {}
      <4>1. Users(x) = {tramp[x].hook}
        BY <3>2, <3>7
      <4> QED BY <3>1, <4>1
    <3> QED BY <3>6, <3>7
  <2> QED BY <2>5, <2>6
<1>2. DetoursInv => TrampolinesAccounted
  BY <1>1 DEF TrampolinesAccounted
<1> QED BY <1>2, DetoursInvariance, PTL

(* No jump and no pointer leads into a region that was unmapped or to a    *)
(* trampoline that was given to another hook.                              *)
THEOREM NeverDangling == Spec => []NoDanglingJump
PROOF
<1>1. DetoursInv => NoDanglingJump
  BY DEF DetoursInv, Allocator, TrampolinesServe, Serves, NoDanglingJump
<1> QED BY <1>1, DetoursInvariance, PTL

(* After a transaction the pages of code and of trampolines are protected  *)
(* as before it, whatever pages its targets shared.                        *)
THEOREM PagesAreRestored == Spec => []PagesRestored
PROOF
<1>1. ASSUME DetoursInv, owner = NULL
      PROVE  rw = {} /\ \A p \in Pages : perm[p] = "RX"
  <2>1. ops = <<>> /\ rw = {}
    BY <1>1 DEF DetoursInv, Phases
  <2>2. \A p \in Pages : ~OlderOn(ops, p, 0)
    BY <2>1 DEF OlderOn
  <2> QED BY <1>1, <2>1, <2>2 DEF DetoursInv, PermsStacked
<1>2. DetoursInv => PagesRestored
  BY <1>1 DEF PagesRestored
<1> QED BY <1>2, DetoursInvariance, PTL

(* Neither loop of a commit writes to a page that cannot be written.       *)
THEOREM PagesStayWritable == Spec => []PagesWritable
PROOF
<1>1. ASSUME DetoursInv, NEW k \in DOMAIN ops
      PROVE  perm[PageOf[ops[k].hook]] = "RWX" /\ ops[k].at[1] \in rw
  <2>1. k \in 1..Len(ops) /\ k > 0 /\ ops # <<>>
    <3>1. k \in 1..Len(ops) /\ Len(ops) \in Nat
      BY <1>1 DEF DetoursInv, TypeOK
    <3> QED BY <3>1
  <2>2. ops[k].hook \in Hooks
    BY <1>1, <2>1, OpsTyped
  <2>3. perm[PageOf[ops[k].hook]] = "RWX"
    BY <1>1, <2>1, <2>2 DEF DetoursInv, PermsStacked, OlderOn, Pages
  <2>4. ops[k].at[1] \in ToSet(regions)
    BY <1>1, <2>1 DEF DetoursInv, TrampolinesServe, Serves
  <2> QED BY <1>1, <2>1, <2>3, <2>4 DEF DetoursInv, RegionsWritable
<1>2. DetoursInv => PagesWritable
  BY <1>1 DEF PagesWritable
<1> QED BY <1>2, DetoursInvariance, PTL

(* A target is detoured exactly when its pointer leads to the trampoline.  *)
THEOREM PointersAreCode == Spec => []PointersMatchCode
PROOF
<1>1. DetoursInv => PointersMatchCode
  BY DEF DetoursInv, PointersMatchCode
<1> QED BY <1>1, DetoursInvariance, PTL

(* A transaction in which an operation failed patches nothing: a failed    *)
(* one is never in the loop that applies the operations.                   *)
THEOREM FailureIsHarmless == Spec => FailedChangesNothing
PROOF
<1>1. ASSUME DetoursInv, Next, failed
      PROVE  UNCHANGED <<code, ptr>>
  <2>1. phase # "apply"
    BY <1>1 DEF DetoursInv, Phases
  <2>2. ASSUME NEW t \in Threads,
               \/ DetourTransactionBegin(t)
               \/ \E h \in Hooks : DetourAttach(t, h) \/ DetourDetach(t, h)
               \/ DetourTransactionCommit(t)
               \/ DetourTransactionAbort(t)
        PROVE  UNCHANGED <<code, ptr>>
    BY <2>2 DEF DetourTransactionBegin, DetourAttach, DetourDetach, Push,
         OperationFails, DetourTransactionCommit, DetourTransactionAbort, codeVars
  <2>3. CASE EndStep
    BY <2>1, <2>3 DEF EndStep, ApplyOperation, PopOperation, EndTransaction, codeVars
  <2> QED BY <1>1, <2>2, <2>3 DEF Next
<1>2. DetoursInv /\ [Next]_vars => [failed => UNCHANGED <<code, ptr>>]_vars
  BY <1>1
<1> QED BY <1>2, DetoursInvariance, PTL DEF Spec, FailedChangesNothing
=============================================================================
