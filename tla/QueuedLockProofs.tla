-------------------------- MODULE QueuedLockProofs --------------------------
(***************************************************************************)
(* The queued lock of phlib, for any number of threads: it is a            *)
(* reader-writer lock, no wake-up is lost, and no pointer to a block that  *)
(* is gone is followed (queuedlock.c).                                     *)
(*                                                                         *)
(* Every push draws a ticket, and c says which thread drew it.  The chain  *)
(* is the tickets lo..hi, oldest first; a thread t that wakes others has   *)
(* the tickets a[t]..b[t] still to wake.  L is all of these tickets: those *)
(* of the blocks in use.                                                   *)
(***************************************************************************)
EXTENDS QueuedLock, FiniteSetTheorems, WellFoundedInduction, TLAPS

Words ==
  [owned : BOOLEAN, waiters : BOOLEAN, trav : BOOLEAN, multi : BOOLEAN,
   shared : Nat, block : Threads \cup {NULL}]
Blocks ==
  [Next : Threads \cup {NULL}, Previous : Threads \cup {NULL},
   Last : Threads \cup {NULL}, SharedOwners : Int,
   Exclusive : BOOLEAN, Spinning : BOOLEAN]

Outside == {"idle", "exclusive", "shared", "wakeForRelease",
            "releaseExclusive", "releaseShared", "lastShared"}
Traversal == {"optimize", "optimized", "wake", "takeAll", "unlinked"}
Waking == {"unlinked", "unblock", "release"}
Points == Outside \cup Traversal \cup Waking \cup {"read", "try", "block", "keyed"}

Modes == {NULL, "exclusive", "shared"}

\* What the parts of a value say together.
Sound(v) ==
  /\ v \in Words
  /\ ~v.waiters => v.block = NULL /\ ~v.trav /\ ~v.multi
  /\ v.waiters => v.block \in Threads /\ v.shared = 0
  /\ v.multi \/ v.shared > 0 => v.owned

Types ==
  /\ Sound(Value)
  /\ blk \in [Threads -> Blocks]
  /\ pc \in [Threads -> Points]
  /\ want \in [Threads -> Modes]
  /\ DOMAIN val = Threads /\ \A t \in Threads : Sound(val[t])
  /\ cur \in [Threads -> Threads \cup {NULL}]
  /\ \A t \in Threads :
       /\ pc[t] \in Outside => want[t] = NULL
       /\ pc[t] \in {"read", "try", "block", "keyed"} => want[t] # NULL

\* The owners.  The last shared one no longer counts as an owner of the
\* reader-writer lock.
Ex == {t \in Threads : pc[t] \in {"exclusive", "releaseExclusive"}}
Sh == {t \in Threads : pc[t] \in {"shared", "releaseShared"}}
Ls == {t \in Threads : pc[t] = "lastShared"}
SharedBy == Sh \cup Ls

Owners ==
  /\ \A t, u \in Ex : t = u
  /\ \A t, u \in Ls : t = u
  /\ Ex # {} => SharedBy = {} /\ ~Value.multi /\ Value.shared = 0
  /\ Ls # {} => Sh = {} /\ Value.waiters
  /\ Value.owned <=> Ex \cup SharedBy # {}
  /\ ~Value.waiters => Value.shared = Cardinality(Sh)
  /\ Value.waiters /\ ~Value.multi => \A t, u \in Sh : t = u

\* The count of several shared owners is in the oldest block.
Counted(last) ==
  Value.waiters /\ Value.multi /\ Sh # {} => blk[last].SharedOwners = Cardinality(Sh)

\* The chain: ticket k is the newest of those with a Last pointer.
Chain(c, lo, hi, k) ==
  /\ lo <= hi + 1 /\ (Value.waiters <=> lo <= hi)
  /\ Value.waiters =>
       /\ lo <= k /\ k <= hi /\ Value.block = c[hi]
       /\ blk[c[hi]].Previous = NULL /\ blk[c[k]].Last = c[lo]
  /\ \A i \in lo..hi :
       /\ i > k => blk[c[i]].Last = NULL /\ blk[c[i]].Next = c[i - 1]
       /\ i < k => blk[c[i]].Previous = c[i + 1]
       /\ i < hi => blk[c[i]].Previous \in {NULL, c[i + 1]}

\* While shared owners are left nobody was woken, and a walk from any block
\* finds the oldest one.
Intact(c, lo, hi) ==
  SharedBy # {} =>
    \A i \in lo..hi :
      /\ blk[c[i]].Last \in {NULL, c[lo]}
      /\ i = lo => blk[c[i]].Last = c[lo]
      /\ i > lo => blk[c[i]].Next = c[i - 1]

\* The tickets in use: those of the chain, and those a thread has to wake.
Tickets(L, lo, hi, a, b) ==
  /\ \A i \in lo..hi : i \in L
  /\ \A t \in Threads : b[t] < lo /\ \A i \in a[t]..b[t] : i \in L
  /\ \A i \in L : i \in lo..hi \/ \E t \in Threads : i \in a[t]..b[t]
  /\ \A t, u \in Threads : \A i \in a[t]..b[t] : i \in a[u]..b[u] => t = u

\* Whose they are: threads that sleep exactly when their block does not spin.
Members(c, L) ==
  /\ \A i, j \in L : c[i] = c[j] => i = j
  /\ \A i \in L : Queued(c[i]) /\ (blk[c[i]].Spinning <=> pc[c[i]] # "keyed")
  /\ \A t \in Threads : (\A i \in L : c[i] # t) => pc[t] # "keyed" /\ ~blk[t].Spinning

\* Those that a thread has to wake are linked, oldest first.
Wakers(c, a, b) ==
  \A t \in Threads :
    /\ pc[t] \in Waking <=> a[t] <= b[t]
    /\ a[t] <= b[t] => cur[t] = c[a[t]]
    /\ \A i \in a[t]..b[t] :
         blk[c[i]].Previous = IF i < b[t] THEN c[i + 1] ELSE NULL

\* What the thread that traverses the chain goes by: it starts at ticket f.
Starts(t, c, lo, hi, k, f) ==
  /\ f \in k..hi /\ val[t].block = c[f] /\ blk[c[f]].Previous = NULL
  /\ pc[t] = "takeAll" => \A i \in lo..f : i < f => blk[c[i]].Previous = c[i + 1]

Traverser(t, c, lo, hi, k) ==
  /\ pc[t] \in {"wake", "takeAll", "unlinked"} => SharedBy = {}
  /\ pc[t] \in Traversal \ {"unlinked"} =>
       /\ val[t].waiters /\ val[t].trav
       /\ ~val[t].owned => SharedBy = {}
       /\ \E f \in Int : Starts(t, c, lo, hi, k, f)
  /\ pc[t] = "optimized" => val[t].owned
  /\ pc[t] \in {"wake", "takeAll"} => ~val[t].multi
  /\ pc[t] = "takeAll" => ~val[t].owned /\ cur[t] = c[lo]

\* There is at most one, and the flag tells of it.
OneTraverser ==
  /\ \A t, u \in Threads : pc[t] \in Traversal /\ pc[u] \in Traversal => t = u
  /\ Value.trav <=> \E t \in Threads : pc[t] \in Traversal

Traversers(c, lo, hi, k) == OneTraverser /\ \A t \in Threads : Traverser(t, c, lo, hi, k)

\* What a thread that releases the lock goes by.
Releaser(t, c, lo, hi) ==
  /\ pc[t] = "releaseExclusive" => val[t].owned /\ val[t].shared = 0
  /\ pc[t] = "releaseShared" =>
       /\ ~val[t].waiters => val[t].owned /\ val[t].shared > 0
       /\ val[t].waiters => /\ Value.waiters /\ (val[t].multi <=> Value.multi)
                            /\ \E f \in lo..hi : val[t].block = c[f]
  /\ pc[t] = "wakeForRelease" => val[t].waiters /\ ~val[t].trav /\ ~val[t].owned

Releasers(c, lo, hi) == \A t \in Threads : Releaser(t, c, lo, hi)

\* A thread that will see to the waiters of a lock that is free.
Awake(t, c, L) ==
  \/ pc[t] \in {"unblock", "release"}
  \/ pc[t] = "wakeForRelease" /\ val[t] = Value
  \/ want[t] # NULL /\ \A i \in L : c[i] # t

SeenTo(c, L) ==
  Value.waiters /\ ~Value.owned /\ ~Value.trav => \E t \in Threads : Awake(t, c, L)

Shape(c, L, lo, hi, k, a, b) ==
  /\ Types /\ Owners /\ Counted(c[lo]) /\ Chain(c, lo, hi, k) /\ Intact(c, lo, hi)
  /\ Tickets(L, lo, hi, a, b) /\ Members(c, L) /\ Wakers(c, a, b)
  /\ Traversers(c, lo, hi, k) /\ Releasers(c, lo, hi) /\ SeenTo(c, L)

QueuedLockInv ==
  \E c \in [Int -> Threads], L \in SUBSET Int, lo, hi, k \in Int,
     a, b \in [Threads -> Int] : Shape(c, L, lo, hi, k, a, b)
-----------------------------------------------------------------------------
(* Walks along the chain.                                                  *)

(* A non-empty set of positions has a first one.                           *)
LEMMA FirstIs ==
  ASSUME NEW K \in SUBSET Nat, K # {}
  PROVE  \E k \in K : \A j \in K : k <= j
PROOF
<1>1. PICK k \in K : \A j \in K : <<j, k>> \notin OpToRel(<, Nat)
  BY NatLessThanWellFounded, WFMin
<1>2. \A j \in K : ~(j < k)
  BY <1>1 DEF OpToRel
<1> QED BY <1>2

(* Two walks from one block agree: they take the same steps, and stop at   *)
(* the same block.                                                         *)
LEMMA WalksAgree ==
  ASSUME NEW x, NEW v \in Seq(Threads), NEW w \in Seq(Threads), IsWalk(v, x), IsWalk(w, x)
  PROVE  v = w
PROOF
<1> DEFINE n == Len(v)
           m == Len(w)
           D == {i \in Nat : i > 0 /\ ~(i <= n /\ i <= m /\ v[i] = w[i])}
           K == {i \in D : i <= n \/ i <= m}
<1>1. /\ n \in Nat /\ m \in Nat /\ n > 0 /\ m > 0 /\ v[1] = w[1]
      /\ \A i \in 1 .. n - 1 : ~Ends(v[i]) /\ v[i + 1] = blk[v[i]].Next
      /\ \A i \in 1 .. m - 1 : ~Ends(w[i]) /\ w[i + 1] = blk[w[i]].Next
      /\ Ends(v[n]) /\ Ends(w[m])
  BY DEF IsWalk
<1>2. K = {}
  <2> HIDE DEF n, m
  <2>1. SUFFICES ASSUME K # {} PROVE FALSE
    OBVIOUS
  <2>2. PICK k \in K : \A j \in K : k <= j
    BY <2>1, FirstIs
  <2>3. k \in Nat /\ k > 1
    BY <1>1, <2>2
  <2>4. PICK j \in Nat : j = k - 1
    BY <2>3
  <2>5. j > 0 /\ j + 1 = k /\ j \notin K
    BY <2>2, <2>3, <2>4
  <2>6. j <= n /\ j <= m /\ v[j] = w[j]
    BY <1>1, <2>2, <2>5
  <2>7. CASE j < n /\ j < m
    <3>1. j \in 1 .. n - 1 /\ j \in 1 .. m - 1
      BY <1>1, <2>5, <2>7
    <3>2. v[k] = w[k]
      BY <1>1, <2>5, <2>6, <3>1
    <3>3. k <= n /\ k <= m
      BY <1>1, <2>5, <2>7
    <3> QED BY <2>2, <3>2, <3>3
  <2>8. CASE j = n
    <3>1. j < m
      BY <1>1, <2>2, <2>3, <2>5, <2>6, <2>8
    <3>2. j \in 1 .. m - 1
      BY <1>1, <2>5, <3>1
    <3> QED BY <1>1, <2>6, <2>8, <3>2
  <2>9. CASE j = m
    <3>1. j < n
      BY <1>1, <2>2, <2>3, <2>5, <2>6, <2>9
    <3>2. j \in 1 .. n - 1
      BY <1>1, <2>5, <3>1
    <3> QED BY <1>1, <2>6, <2>9, <3>2
  <2> QED BY <1>1, <2>6, <2>7, <2>8, <2>9
<1>3. n = m /\ \A i \in 1..n : v[i] = w[i]
  <2>1. ASSUME NEW i \in Nat, i > 0, i <= n \/ i <= m
        PROVE  i <= n /\ i <= m /\ v[i] = w[i]
    BY <1>2, <2>1
  <2> HIDE DEF n, m
  <2>2. \A i \in 1..n : i <= m /\ v[i] = w[i]
    BY <1>1, <2>1
  <2>3. \A i \in 1..m : i <= n
    BY <1>1, <2>1
  <2> QED BY <1>1, <2>2, <2>3
<1> QED BY <1>3

(* A stretch of different threads is no longer than there are threads.     *)
LEMMA StretchIsShort ==
  ASSUME NEW c \in [Int -> Threads], NEW j \in Int, NEW f \in Int, j <= f,
         \A x, y \in j..f : c[x] = c[y] => x = y
  PROVE  f - j + 1 <= Cardinality(Threads)
PROOF
<1> DEFINE g == [i \in j..f |-> c[i]]
<1>1. g \in Injection(j..f, Threads)
  BY DEF Injection, IsInjective
<1>2. Cardinality(j..f) <= Cardinality(Threads)
  BY <1>1, FS_Injection, QueuedLockAssumption
<1>3. Cardinality(j..f) = f - j + 1
  BY FS_Interval
<1> QED BY <1>2, <1>3

(* The walk along the tickets j..f: none but that of j has a Last pointer, *)
(* and each points to the one before it.                                   *)
Steps(c, j, f) ==
  /\ c \in [Int -> Threads] /\ j \in Int /\ f \in Int /\ j <= f
  /\ \A x, y \in j..f : c[x] = c[y] => x = y
  /\ blk[c[j]].Last # NULL
  /\ \A i \in j..f : i > j => blk[c[i]].Last = NULL /\ blk[c[i]].Next = c[i - 1]

(* What Walk returns there: the blocks of the tickets f, f - 1, .., j.       *)
LEMMA WalkIs ==
  ASSUME NEW c, NEW j, NEW f, Steps(c, j, f)
  PROVE  Walk(c[f]) = [i \in 1 .. f - j + 1 |-> c[f + 1 - i]]
PROOF
<1> DEFINE n == f - j + 1
           w == [i \in 1..n |-> c[f + 1 - i]]
<1>1. /\ n \in Nat /\ n > 0 /\ n <= Cardinality(Threads)
      /\ Cardinality(Threads) \in Nat
  <2>1. Cardinality(Threads) \in Nat
    BY FS_CardinalityType, QueuedLockAssumption
  <2>2. f - j + 1 <= Cardinality(Threads)
    BY StretchIsShort DEF Steps
  <2> QED BY <2>1, <2>2 DEF Steps
<1>2. w \in Seq(Threads) /\ Len(w) = n /\ w \in [1..n -> Threads]
  BY <1>1 DEF Steps
<1>3. \A S : w \in S => \A i \in 1..n : w[i] = c[f + 1 - i]
  BY <1>1
<1>4. IsWalk(w, c[f])
  <2>1. w[1] = c[f] /\ w[n] = c[j]
    BY <1>1 DEF Steps
  <2>2. Ends(w[n])
    BY <2>1 DEF Ends, Steps
  <2>3. ASSUME NEW i \in 1 .. n - 1
        PROVE  ~Ends(w[i]) /\ w[i + 1] = blk[w[i]].Next
    <3>1. /\ f + 1 - i \in j..f /\ f + 1 - i > j /\ (f + 1 - i) - 1 = f + 1 - (i + 1)
          /\ (f + 1 - i) - 1 \in Int
          /\ i \in 1..n /\ i + 1 \in 1..n
      BY <1>1, <2>3 DEF Steps
    <3>2. /\ blk[c[f + 1 - i]].Last = NULL
          /\ blk[c[f + 1 - i]].Next = c[(f + 1 - i) - 1]
      BY <3>1 DEF Steps
    <3>3. w[i] = c[f + 1 - i] /\ w[i + 1] = c[f + 1 - (i + 1)]
      BY <3>1
    <3>4. c[(f + 1 - i) - 1] \in Threads
      BY <3>1 DEF Steps
    <3> HIDE DEF w
    <3> QED BY <3>1, <3>2, <3>3, <3>4, QueuedLockAssumption DEF Ends
  <2> HIDE DEF w, n
  <2> QED BY <1>1, <1>2, <2>1, <2>2, <2>3 DEF IsWalk
<1>5. w \in Walks
  <2>1. n \in 0 .. Cardinality(Threads)
    BY <1>1
  <2> HIDE DEF w, n
  <2> QED BY <1>2, <2>1 DEF Walks, SeqOf
<1>6. Walk(c[f]) \in Walks /\ IsWalk(Walk(c[f]), c[f])
  <2> HIDE DEF w
  <2> QED BY <1>4, <1>5 DEF Walk
<1>7. \A v \in Walks : v \in Seq(Threads)
  BY <1>1 DEF Walks, SeqOf
<1> HIDE DEF w
<1>8. Walk(c[f]) = w
  BY <1>2, <1>4, <1>6, <1>7, WalksAgree
<1> QED BY <1>8 DEF w

(* So it finds the block that the last one points to ...                   *)
LEMMA LastIs ==
  ASSUME NEW c, NEW j, NEW f, Steps(c, j, f)
  PROVE  /\ PhpFindLastQueuedWaitBlock(c[f]) = blk[c[j]].Last
         /\ ToSet(Walk(c[f])) \subseteq {c[i] : i \in j..f}
PROOF
<1> DEFINE n == f - j + 1
           w == [i \in 1..n |-> c[f + 1 - i]]
<1>1. Walk(c[f]) = w
  BY WalkIs
<1>2. n \in Nat /\ n > 0 /\ j \in Int /\ f \in Int /\ f + 1 - n = j
  BY DEF Steps
<1>3. Len(w) = n /\ w[n] = c[j] /\ DOMAIN w = 1..n
  BY <1>2
<1>4. \A i \in 1..n : w[i] = c[f + 1 - i] /\ f + 1 - i \in j..f
  BY <1>2
<1> HIDE DEF w
<1>5. PhpFindLastQueuedWaitBlock(c[f]) = blk[c[j]].Last
  BY <1>1, <1>3 DEF PhpFindLastQueuedWaitBlock, Last
<1>6. \A x : x \in ToSet(Walk(c[f])) => \E i \in j..f : x = c[i]
  BY <1>1, <1>3, <1>4 DEF ToSet
<1> QED BY <1>5, <1>6

Links(c, j, f, lk) ==
  /\ lk = [x \in Threads |-> lk[x]]
  /\ \A i \in j..f : i < f => lk[c[i]] = [blk[c[i]] EXCEPT !.Previous = c[i + 1]]
  /\ \A x \in Threads : (\A i \in j..f : i < f => x # c[i]) => lk[x] = blk[x]

(* ... and links the blocks on its way.                                    *)
LEMMA LinkedIs ==
  ASSUME NEW c, NEW j, NEW f, Steps(c, j, f)
  PROVE  Links(c, j, f, Linked(c[f]))
PROOF
<1> DEFINE n == f - j + 1
           w == Walk(c[f])
<1>1. w = [i \in 1..n |-> c[f + 1 - i]]
  BY WalkIs
<1>2. n \in Nat /\ n > 0 /\ j \in Int /\ f \in Int
  BY DEF Steps
<1>3. Len(w) = n /\ \A i \in 1..n : w[i] = c[f + 1 - i]
  BY <1>1, <1>2
<1> HIDE DEF w
<1>4. /\ \A i \in 2..n : f + 1 - i \in j..f /\ f + 1 - i < f /\ i - 1 \in 1..n
                         /\ f + 1 - (i - 1) = (f + 1 - i) + 1 /\ i \in 1..n
      /\ \A i \in j..f : i < f => f + 1 - i \in 2..n /\ f + 1 - (f + 1 - i) = i
  BY <1>2
<1>5. \A i \in 2..n : w[i] = c[f + 1 - i] /\ w[i - 1] = c[(f + 1 - i) + 1]
  BY <1>3, <1>4
<1>6. Linked(c[f]) =
        [x \in Threads |->
           IF \E i \in 2..n : w[i] = x
           THEN [blk[x] EXCEPT !.Previous = w[(CHOOSE i \in 2..n : w[i] = x) - 1]]
           ELSE blk[x]]
  BY <1>3 DEF Linked, w
<1>7. ASSUME NEW i \in j..f, i < f
      PROVE  Linked(c[f])[c[i]] = [blk[c[i]] EXCEPT !.Previous = c[i + 1]]
  <2> DEFINE h == CHOOSE h \in 2..n : w[h] = c[i]
  <2>1. c[i] \in Threads
    BY <1>2, <1>7 DEF Steps
  <2>2. \E h1 \in 2..n : w[h1] = c[i]
    BY <1>4, <1>5, <1>7
  <2>3. h \in 2..n /\ w[h] = c[i]
    BY <2>2
  <2> HIDE DEF h
  <2>4. f + 1 - h = i
    BY <1>4, <1>5, <1>7, <2>3 DEF Steps
  <2>5. w[h - 1] = c[i + 1]
    BY <1>5, <2>3, <2>4
  <2>6. Linked(c[f])[c[i]] = [blk[c[i]] EXCEPT !.Previous = w[h - 1]]
    BY <1>6, <2>1, <2>2 DEF h
  <2> QED BY <2>5, <2>6
<1>8. ASSUME NEW x \in Threads, \A i \in j..f : i < f => x # c[i]
      PROVE  Linked(c[f])[x] = blk[x]
  <2>1. ~\E i \in 2..n : w[i] = x
    BY <1>4, <1>5, <1>8
  <2> QED BY <1>6, <2>1
<1>9. Linked(c[f]) = [x \in Threads |-> Linked(c[f])[x]]
  BY <1>6
<1> QED BY <1>7, <1>8, <1>9 DEF Links
-----------------------------------------------------------------------------
(* Steps that leave the blocks alone.                                      *)

(* The number of threads in a set.                                         *)
LEMMA Counting ==
  ASSUME NEW S \in SUBSET Threads, NEW t \in Threads
  PROVE  /\ Cardinality(S) \in Nat /\ (Cardinality(S) = 0 <=> S = {})
         /\ t \notin S => Cardinality(S \cup {t}) = Cardinality(S) + 1
         /\ t \in S => /\ Cardinality(S \ {t}) = Cardinality(S) - 1
                       /\ Cardinality(S) = 1 <=> S = {t}
PROOF
<1>1. IsFiniteSet(S)
  BY FS_Subset, QueuedLockAssumption
<1>2. Cardinality(S) \in Nat /\ (Cardinality(S) = 0 <=> S = {})
  BY <1>1, FS_CardinalityType, FS_EmptySet
<1>3. t \notin S => Cardinality(S \cup {t}) = Cardinality(S) + 1
  BY <1>1, FS_AddElement
<1>4. t \in S => Cardinality(S \ {t}) = Cardinality(S) - 1
  BY <1>1, FS_RemoveElement
<1>5. t \in S => (Cardinality(S) = 1 <=> S = {t})
  <2>1. Cardinality(S) = 1 <=> \E x : S = {x}
    BY <1>1, FS_Singleton
  <2> QED BY <2>1
<1> QED BY <1>2, <1>3, <1>4, <1>5

(* The owners after a step of one thread.                                  *)
LEMMA OwnersMove ==
  ASSUME NEW t \in Threads, \A u \in Threads \ {t} : pc'[u] = pc[u]
  PROVE  /\ Ex' = IF pc'[t] \in {"exclusive", "releaseExclusive"}
                  THEN Ex \cup {t} ELSE Ex \ {t}
         /\ Sh' = IF pc'[t] \in {"shared", "releaseShared"}
                  THEN Sh \cup {t} ELSE Sh \ {t}
         /\ Ls' = IF pc'[t] = "lastShared" THEN Ls \cup {t} ELSE Ls \ {t}
         /\ SharedBy' = Sh' \cup Ls'
         /\ Ex' \in SUBSET Threads /\ Sh' \in SUBSET Threads /\ Ls' \in SUBSET Threads
         /\ Ex \in SUBSET Threads /\ Sh \in SUBSET Threads /\ Ls \in SUBSET Threads
PROOF
<1>1. Ex' = IF pc'[t] \in {"exclusive", "releaseExclusive"} THEN Ex \cup {t} ELSE Ex \ {t}
  BY DEF Ex
<1>2. Sh' = IF pc'[t] \in {"shared", "releaseShared"} THEN Sh \cup {t} ELSE Sh \ {t}
  BY DEF Sh
<1>3. Ls' = IF pc'[t] = "lastShared" THEN Ls \cup {t} ELSE Ls \ {t}
  BY DEF Ls
<1> QED BY <1>1, <1>2, <1>3 DEF Ex, Sh, Ls, SharedBy

(* They stay what they are.                                                *)
LEMMA OwnersStay ==
  ASSUME Owners, NEW t \in Threads, \A u \in Threads \ {t} : pc'[u] = pc[u],
         t \in Ex <=> pc'[t] \in {"exclusive", "releaseExclusive"},
         t \in Sh <=> pc'[t] \in {"shared", "releaseShared"},
         t \in Ls <=> pc'[t] = "lastShared",
         Value'.owned = Value.owned, Value'.waiters = Value.waiters,
         Value'.multi = Value.multi, Value'.shared = Value.shared
  PROVE  /\ Owners' /\ SharedBy' = SharedBy /\ Ex' = Ex /\ Sh' = Sh /\ Ls' = Ls
PROOF
<1>1. Ex' = Ex /\ Sh' = Sh /\ Ls' = Ls
  <2>1. /\ Ex' = IF t \in Ex THEN Ex \cup {t} ELSE Ex \ {t}
        /\ Sh' = IF t \in Sh THEN Sh \cup {t} ELSE Sh \ {t}
        /\ Ls' = IF t \in Ls THEN Ls \cup {t} ELSE Ls \ {t}
    BY OwnersMove
  <2> QED BY <2>1
<1>2. SharedBy' = SharedBy
  BY <1>1 DEF SharedBy
<1> QED BY <1>1, <1>2 DEF Owners

\* The blocks are as they were, but for the count of shared owners.
SameBlocks ==
  /\ blk' \in [Threads -> Blocks]
  /\ \A x \in Threads :
       /\ blk'[x].Next = blk[x].Next /\ blk'[x].Previous = blk[x].Previous
       /\ blk'[x].Last = blk[x].Last /\ blk'[x].Spinning = blk[x].Spinning

\* A step of t that changes neither the chain nor who waits in it.
Light(t) ==
  /\ pc' \in [Threads -> Points] /\ want' \in [Threads -> Modes] /\ DOMAIN val' = Threads
  /\ \A u \in Threads \ {t} : pc'[u] = pc[u] /\ want'[u] = want[u] /\ val'[u] = val[u]
  /\ SameBlocks /\ cur' = cur
  /\ Value'.waiters = Value.waiters /\ Value'.block = Value.block
  /\ Queued(t)' <=> Queued(t)
  /\ pc[t] # "keyed" /\ pc'[t] # "keyed" /\ (pc'[t] \in Waking <=> pc[t] \in Waking)
  /\ SharedBy' # {} => SharedBy # {} \/ ~Value.waiters

(* Such a step keeps everything about the blocks.                          *)
LEMMA LightKeeps ==
  ASSUME NEW c \in [Int -> Threads], NEW L \in SUBSET Int, NEW lo \in Int, NEW hi \in Int,
         NEW k \in Int, NEW a \in [Threads -> Int], NEW b \in [Threads -> Int],
         NEW t \in Threads, Light(t),
         Chain(c, lo, hi, k), Intact(c, lo, hi), Members(c, L), Wakers(c, a, b)
  PROVE  /\ Chain(c, lo, hi, k)' /\ Intact(c, lo, hi)'
         /\ Members(c, L)' /\ Wakers(c, a, b)'
PROOF
<1>1. Chain(c, lo, hi, k)'
  <2>1. Value.waiters => c[hi] \in Threads /\ c[k] \in Threads
    OBVIOUS
  <2>2. \A i \in lo..hi : c[i] \in Threads
    OBVIOUS
  <2> QED BY ZenonT(40), <2>1, <2>2 DEF Light, SameBlocks, Chain
<1>2. Intact(c, lo, hi)'
  <2>1. CASE ~Value.waiters
    BY <2>1 DEF Light, Chain, Intact
  <2>2. CASE SharedBy' = {}
    BY <2>2 DEF Intact
  <2>3. CASE SharedBy # {}
    <3>1. \A i \in lo..hi : c[i] \in Threads
      OBVIOUS
    <3> QED BY ZenonT(40), <2>3, <3>1 DEF Light, SameBlocks, Intact
  <2> QED BY <2>1, <2>2, <2>3 DEF Light
<1>3. Members(c, L)'
  <2>1. ASSUME NEW x \in Threads
        PROVE  (Queued(x)' <=> Queued(x)) /\ (pc'[x] = "keyed" <=> pc[x] = "keyed")
    <3>1. CASE x = t
      BY <3>1 DEF Light
    <3>2. CASE x # t
      BY <3>2 DEF Light, Queued
    <3> QED BY <3>1, <3>2
  <2>2. \A x \in Threads : blk'[x].Spinning = blk[x].Spinning
    BY DEF Light, SameBlocks
  <2>3. \A i \in L : c[i] \in Threads
    OBVIOUS
  <2> QED BY <2>1, <2>2, <2>3 DEF Members
<1>4. Wakers(c, a, b)'
  <2>1. \A u \in Threads : (pc'[u] \in Waking <=> pc[u] \in Waking)
    BY DEF Light
  <2>2. \A u \in Threads : \A i \in a[u]..b[u] : c[i] \in Threads
    OBVIOUS
  <2> QED BY ZenonT(40), <2>1, <2>2 DEF Light, SameBlocks, Wakers
<1> QED BY <1>1, <1>2, <1>3, <1>4

(* What the traverser goes by, when another thread steps.                  *)
LEMMA TraversersKept ==
  ASSUME NEW c \in [Int -> Threads], NEW lo \in Int, NEW hi \in Int, NEW k \in Int,
         NEW t \in Threads, Light(t), Sound(Value), Traversers(c, lo, hi, k),
         pc[t] \notin Traversal, pc'[t] \notin Traversal, Value'.trav = Value.trav
  PROVE  Traversers(c, lo, hi, k)'
PROOF
<1>1. OneTraverser'
  BY DEF OneTraverser, Traversers, Light
<1>2. ASSUME NEW u \in Threads PROVE Traverser(u, c, lo, hi, k)'
  <2>1. CASE u = t
    BY <2>1 DEF Traverser, Traversal
  <2>2. CASE u # t
    <3>1. /\ pc'[u] = pc[u] /\ val'[u] = val[u] /\ cur' = cur
          /\ \A i \in Int : blk'[c[i]].Previous = blk[c[i]].Previous
      BY <2>2 DEF Light, SameBlocks
    <3>2. pc[u] \in Traversal /\ SharedBy = {} => SharedBy' = {}
      BY DEF Light, Traversers, OneTraverser, Sound
    <3>3. Traverser(u, c, lo, hi, k)
      BY DEF Traversers
    <3>4. ASSUME NEW f \in Int
          PROVE  Starts(u, c, lo, hi, k, f)' <=> Starts(u, c, lo, hi, k, f)
      <4>1. blk'[c[f]].Previous = blk[c[f]].Previous
        BY <3>1
      <4>2. \A i \in lo..f : blk'[c[i]].Previous = blk[c[i]].Previous
        BY <3>1
      <4> QED BY <3>1, <4>1, <4>2 DEF Starts
    <3> QED BY <3>1, <3>2, <3>3, <3>4 DEF Traverser, Traversal
  <2> QED BY <2>1, <2>2
<1> QED BY <1>1, <1>2 DEF Traversers

(* What the others that release the lock go by.                            *)
LEMMA ReleasersKept ==
  ASSUME NEW c \in [Int -> Threads], NEW lo \in Int, NEW hi \in Int,
         NEW t \in Threads, Releasers(c, lo, hi), Releaser(t, c, lo, hi)',
         \A u \in Threads \ {t} : pc'[u] = pc[u] /\ val'[u] = val[u],
         Value'.waiters = Value.waiters,
         Value'.multi = Value.multi \/ Sh \ {t} = {}
  PROVE  Releasers(c, lo, hi)'
PROOF
<1>1. ASSUME NEW u \in Threads \ {t} PROVE Releaser(u, c, lo, hi)'
  <2>1. Releaser(u, c, lo, hi)
    BY DEF Releasers
  <2>2. pc[u] = "releaseShared" => Value'.multi = Value.multi
    BY DEF Sh
  <2> QED BY <2>1, <2>2 DEF Releaser
<1> QED BY <1>1 DEF Releasers

(* Somebody sees to the waiters after a step of t.                         *)
LEMMA SeenToKept ==
  ASSUME NEW c \in [Int -> Threads], NEW L \in SUBSET Int, NEW t \in Threads,
         SeenTo(c, L), \A u \in Threads \ {t} : pc'[u] = pc[u] /\ want'[u] = want[u] /\ val'[u] = val[u],
         Value'.waiters /\ ~Value'.owned /\ ~Value'.trav =>
           \/ Value' = Value /\ (Awake(t, c, L) => Awake(t, c, L)')
           \/ Awake(t, c, L)'
  PROVE  SeenTo(c, L)'
PROOF
<1>1. SUFFICES ASSUME Value'.waiters, ~Value'.owned, ~Value'.trav
               PROVE  \E u \in Threads : Awake(u, c, L)'
  BY DEF SeenTo
<1>2. CASE Awake(t, c, L)'
  BY <1>2
<1>3. CASE Value' = Value /\ ~Awake(t, c, L)
  <2>1. PICK u \in Threads : Awake(u, c, L)
    BY <1>1, <1>3 DEF SeenTo
  <2>2. u # t
    BY <1>3, <2>1
  <2>3. Awake(u, c, L)'
    BY <1>3, <2>1, <2>2 DEF Awake
  <2> QED BY <2>3
<1> QED BY <1>1, <1>2, <1>3

\* What t wants agrees with where it goes, and the values are sound.
Goes(t) ==
  /\ Sound(Value') /\ Sound(val'[t])
  /\ pc'[t] \in Outside => want'[t] = NULL
  /\ pc'[t] \in {"read", "try", "block", "keyed"} => want'[t] # NULL

\* The types after a step of t that leaves the blocks alone.
LEMMA TypesKept ==
  ASSUME Types, NEW t \in Threads, Light(t), Goes(t)
  PROVE  Types'
PROOF
<1>1. \A u \in Threads : /\ Sound(val'[u])
                         /\ pc'[u] \in Outside => want'[u] = NULL
                         /\ pc'[u] \in {"read", "try", "block", "keyed"} => want'[u] # NULL
  BY DEF Types, Light, Goes
<1> QED BY <1>1 DEF Types, Light, SameBlocks, Goes

(* A step that writes no block keeps every block.                           *)
LEMMA BlocksSame ==
  ASSUME Types, blk' = blk
  PROVE  SameBlocks
  BY DEF Types, SameBlocks

(* All together, for a step of t.                                          *)
LEMMA LightShape ==
  ASSUME NEW c \in [Int -> Threads], NEW L \in SUBSET Int, NEW lo \in Int, NEW hi \in Int,
         NEW k \in Int, NEW a \in [Threads -> Int], NEW b \in [Threads -> Int],
         Shape(c, L, lo, hi, k, a, b), NEW t \in Threads, Light(t), Goes(t),
         Owners', Counted(c[lo])', Traversers(c, lo, hi, k)', Releaser(t, c, lo, hi)',
         Value'.multi = Value.multi \/ Sh \ {t} = {},
         Value'.waiters /\ ~Value'.owned /\ ~Value'.trav =>
           \/ Value' = Value /\ (Awake(t, c, L) => Awake(t, c, L)')
           \/ Awake(t, c, L)'
  PROVE  Shape(c, L, lo, hi, k, a, b)'
PROOF
<1>1. Types'
  BY TypesKept DEF Shape
<1>2. /\ Chain(c, lo, hi, k)' /\ Intact(c, lo, hi)'
      /\ Members(c, L)' /\ Wakers(c, a, b)'
  BY LightKeeps DEF Shape
<1>3. Tickets(L, lo, hi, a, b)'
  BY DEF Shape, Tickets
<1>4. Releasers(c, lo, hi)'
  BY ReleasersKept DEF Shape, Light
<1>5. SeenTo(c, L)'
  BY SeenToKept DEF Shape, Light
<1> QED BY <1>1, <1>2, <1>3, <1>4, <1>5 DEF Shape

(* A step of a thread that does not traverse the chain.                    *)
LEMMA OuterShape ==
  ASSUME NEW c \in [Int -> Threads], NEW L \in SUBSET Int, NEW lo \in Int, NEW hi \in Int,
         NEW k \in Int, NEW a \in [Threads -> Int], NEW b \in [Threads -> Int],
         Shape(c, L, lo, hi, k, a, b), NEW t \in Threads, Light(t), Goes(t),
         Owners', Counted(c[lo])', Releaser(t, c, lo, hi)',
         pc[t] \notin Traversal, pc'[t] \notin Traversal, Value'.trav = Value.trav,
         Value'.multi = Value.multi \/ Sh \ {t} = {},
         Value'.waiters /\ ~Value'.owned /\ ~Value'.trav =>
           \/ Value' = Value /\ (Awake(t, c, L) => Awake(t, c, L)')
           \/ Awake(t, c, L)'
  PROVE  Shape(c, L, lo, hi, k, a, b)'
PROOF
<1>1. Traversers(c, lo, hi, k)'
  BY TraversersKept DEF Shape, Types
<1> QED BY <1>1, LightShape

(* The count in the oldest block, while the owners are the same.           *)
LEMMA CountedStays ==
  ASSUME NEW x, Counted(x), Sh' = Sh, blk' = blk,
         Value'.waiters = Value.waiters, Value'.multi = Value.multi
  PROVE  Counted(x)'
  BY DEF Counted

(* Only t may traverse the chain after its step.                           *)
LEMMA OnlyTraverser ==
  ASSUME NEW c \in [Int -> Threads], NEW lo \in Int, NEW hi \in Int, NEW k \in Int,
         NEW t \in Threads, \A u \in Threads \ {t} : pc'[u] \notin Traversal,
         Value'.trav <=> pc'[t] \in Traversal, Traverser(t, c, lo, hi, k)'
  PROVE  Traversers(c, lo, hi, k)'
PROOF
<1>1. OneTraverser'
  BY DEF OneTraverser
<1>2. ASSUME NEW u \in Threads \ {t} PROVE Traverser(u, c, lo, hi, k)'
  BY <1>2 DEF Traverser, Traversal
<1> QED BY <1>1, <1>2 DEF Traversers

(* The thread that is traversing is the only one; when none is, all others *)
(* are not.                                                                *)
LEMMA OthersDoNot ==
  ASSUME OneTraverser, NEW t \in Threads, pc[t] \in Traversal \/ ~Value.trav,
         \A u \in Threads \ {t} : pc'[u] = pc[u]
  PROVE  \A u \in Threads \ {t} : pc'[u] \notin Traversal
  BY DEF OneTraverser
-----------------------------------------------------------------------------
(* Acquiring.                                                              *)

(* The word of a free lock fits the layout of the lock word.               *)
LEMMA FreeIsSound == Sound(Free)
  BY DEF Sound, Words, Free

(* A thread that is not queued holds no ticket in use.                     *)
LEMMA NotMember ==
  ASSUME NEW c \in [Int -> Threads], NEW L \in SUBSET Int, NEW t \in Threads,
         Members(c, L), ~Queued(t)
  PROVE  \A i \in L : c[i] # t
  BY DEF Members, Queued

(* A thread that comes to wait, or tries again.                            *)
LEMMA TriesAgain ==
  ASSUME NEW c \in [Int -> Threads], NEW L \in SUBSET Int, NEW lo \in Int, NEW hi \in Int,
         NEW k \in Int, NEW a \in [Threads -> Int], NEW b \in [Threads -> Int],
         Shape(c, L, lo, hi, k, a, b), NEW t \in Threads,
         pc[t] \in {"idle", "read", "try"}, pc'[t] \in {"read", "try"},
         pc' \in [Threads -> Points], want' \in [Threads -> Modes], want'[t] # NULL,
         DOMAIN val' = Threads, Sound(val'[t]),
         \A u \in Threads \ {t} : pc'[u] = pc[u] /\ want'[u] = want[u] /\ val'[u] = val[u],
         UNCHANGED <<Value, blk, cur>>
  PROVE  Shape(c, L, lo, hi, k, a, b)'
PROOF
<1>1. Types /\ Owners /\ Counted(c[lo]) /\ Members(c, L)
  BY DEF Shape
<1>2. t \notin Ex /\ t \notin Sh /\ t \notin Ls /\ ~Queued(t) /\ ~Queued(t)'
  BY <1>1 DEF Ex, Sh, Ls, Queued, Types, Outside
<1>3. Owners' /\ Sh' = Sh /\ SharedBy' = SharedBy
  BY <1>1, <1>2, OwnersStay
<1>4. Counted(c[lo])'
  BY <1>1, <1>3, CountedStays
<1>5. Light(t)
  BY <1>1, <1>2, <1>3, BlocksSame DEF Light, Waking
<1>6. Goes(t)
  BY <1>1 DEF Goes, Types, Outside
<1>7. Releaser(t, c, lo, hi)'
  BY DEF Releaser
<1>8. Awake(t, c, L)'
  <2>1. \A i \in L : c[i] # t
    BY <1>1, <1>2, NotMember
  <2> QED BY <2>1 DEF Awake
<1> QED BY <1>3, <1>4, <1>5, <1>6, <1>7, <1>8, OuterShape DEF Traversal

(* A thread that acquires the lock shared: no exclusive owner, no waiters. *)
LEMMA SharedOwner ==
  ASSUME NEW c \in [Int -> Threads], NEW L \in SUBSET Int, NEW lo \in Int, NEW hi \in Int,
         NEW k \in Int, NEW a \in [Threads -> Int], NEW b \in [Threads -> Int],
         Shape(c, L, lo, hi, k, a, b), NEW t \in Threads,
         pc[t] \in {"idle", "try"}, pc'[t] = "shared",
         pc' \in [Threads -> Points], want' \in [Threads -> Modes], want'[t] = NULL,
         DOMAIN val' = Threads, Sound(val'[t]),
         \A u \in Threads \ {t} : pc'[u] = pc[u] /\ want'[u] = want[u] /\ val'[u] = val[u],
         ~Value.waiters, ~Value.owned \/ Value.shared > 0,
         Value' = [Value EXCEPT !.shared = @ + 1, !.owned = TRUE], UNCHANGED <<blk, cur>>
  PROVE  Shape(c, L, lo, hi, k, a, b)' /\ Ex = {}
PROOF
<1>1. Types /\ Owners
  BY DEF Shape
<1>2. t \notin Ex /\ t \notin Sh /\ t \notin Ls /\ ~Queued(t) /\ ~Queued(t)'
  BY <1>1 DEF Ex, Sh, Ls, Queued, Types, Outside
<1>3. /\ Value' \in Words /\ Value'.owned /\ Value'.waiters = Value.waiters
      /\ Value'.trav = Value.trav /\ Value'.multi = Value.multi
      /\ Value'.shared = Value.shared + 1 /\ Value'.block = Value.block
      /\ Value.shared \in Nat
  <2>1. Value \in Words
    BY <1>1 DEF Types, Sound
  <2>2. PICK n \in Nat : n = Value.shared + 1
    BY <2>1 DEF Words
  <2>3. Value' = [Value EXCEPT !.shared = n, !.owned = TRUE]
    BY <2>2
  <2> QED BY <2>1, <2>2, <2>3 DEF Words
<1>4. Ex = {} /\ Ls = {} /\ Value.shared = Cardinality(Sh)
  BY <1>1, <1>3 DEF Owners
<1>5. /\ Ex' = {} /\ Sh' = Sh \cup {t} /\ Ls' = {} /\ Sh \in SUBSET Threads
      /\ SharedBy' = Sh \cup {t}
  BY <1>2, <1>4, OwnersMove
<1>6. Cardinality(Sh') = Cardinality(Sh) + 1
  BY <1>2, <1>5, Counting
<1>7. Owners' /\ Counted(c[lo])'
  BY <1>3, <1>4, <1>5, <1>6 DEF Owners, Counted
<1>8. Light(t)
  BY <1>1, <1>2, <1>3, BlocksSame DEF Light, Waking
<1>9. Goes(t)
  BY <1>1, <1>3 DEF Goes, Types, Sound, Outside
<1>10. Releaser(t, c, lo, hi)'
  BY DEF Releaser
<1>11. Shape(c, L, lo, hi, k, a, b)'
  BY <1>3, <1>7, <1>8, <1>9, <1>10, OuterShape DEF Traversal
<1> QED BY <1>4, <1>11

(* A thread that acquires the lock exclusive: no owner.                    *)
LEMMA ExclusiveOwner ==
  ASSUME NEW c \in [Int -> Threads], NEW L \in SUBSET Int, NEW lo \in Int, NEW hi \in Int,
         NEW k \in Int, NEW a \in [Threads -> Int], NEW b \in [Threads -> Int],
         Shape(c, L, lo, hi, k, a, b), NEW t \in Threads,
         pc[t] \in {"idle", "try"}, pc'[t] = "exclusive",
         pc' \in [Threads -> Points], want' \in [Threads -> Modes], want'[t] = NULL,
         DOMAIN val' = Threads, Sound(val'[t]),
         \A u \in Threads \ {t} : pc'[u] = pc[u] /\ want'[u] = want[u] /\ val'[u] = val[u],
         ~Value.owned, Value' = [Value EXCEPT !.owned = TRUE], UNCHANGED <<blk, cur>>
  PROVE  Shape(c, L, lo, hi, k, a, b)' /\ Ex = {} /\ Sh = {}
PROOF
<1>1. Types /\ Owners
  BY DEF Shape
<1>2. ~Queued(t) /\ ~Queued(t)'
  BY <1>1 DEF Queued, Types, Outside
<1>3. /\ Value' \in Words /\ Value'.owned /\ Value'.waiters = Value.waiters
      /\ Value'.trav = Value.trav /\ Value'.multi = Value.multi
      /\ Value'.shared = Value.shared /\ Value'.block = Value.block
  BY <1>1 DEF Types, Sound, Words
<1>4. Ex = {} /\ Sh = {} /\ Ls = {} /\ ~Value.multi /\ Value.shared = 0
  BY <1>1 DEF Owners, SharedBy, Types, Sound, Words
<1>5. Ex' = {t} /\ Sh' = {} /\ Ls' = {} /\ SharedBy' = {}
  BY <1>4, OwnersMove
<1>6. Owners' /\ Counted(c[lo])'
  BY <1>1, <1>3, <1>4, <1>5 DEF Owners, Counted
<1>7. Light(t)
  BY <1>1, <1>2, <1>3, <1>5, BlocksSame DEF Light, Waking
<1>8. Goes(t)
  BY <1>1, <1>3 DEF Goes, Types, Sound, Outside
<1>9. Releaser(t, c, lo, hi)'
  BY DEF Releaser
<1>10. Shape(c, L, lo, hi, k, a, b)'
  BY <1>3, <1>6, <1>7, <1>8, <1>9, OuterShape DEF Traversal
<1> QED BY <1>4, <1>10

(* The first try of an exclusive owner.                                    *)
LEMMA AcquireExclusiveStep ==
  ASSUME NEW c \in [Int -> Threads], NEW L \in SUBSET Int, NEW lo \in Int, NEW hi \in Int,
         NEW k \in Int, NEW a \in [Threads -> Int], NEW b \in [Threads -> Int],
         Shape(c, L, lo, hi, k, a, b), NEW t \in Threads, PhAcquireQueuedLockExclusive(t)
  PROVE  Shape(c, L, lo, hi, k, a, b)'
PROOF
<1>1. /\ Types /\ pc[t] = "idle" /\ blk' = blk /\ val' = val /\ cur' = cur
      /\ want[t] = NULL /\ DOMAIN val' = Threads /\ Sound(val'[t])
  BY DEF Shape, Types, Outside, PhAcquireQueuedLockExclusive
<1>2. CASE Value.owned
  <2>1. /\ pc' = [pc EXCEPT ![t] = "read"] /\ want' = [want EXCEPT ![t] = "exclusive"]
        /\ Value' = Value
    BY <1>2 DEF PhAcquireQueuedLockExclusive, Goto
  <2>2. /\ pc'[t] = "read" /\ want'[t] = "exclusive"
        /\ \A u \in Threads \ {t} : pc'[u] = pc[u] /\ want'[u] = want[u]
        /\ pc' \in [Threads -> Points] /\ want' \in [Threads -> Modes]
    BY <1>1, <2>1 DEF Types, Points, Modes
  <2> QED BY <1>1, <2>1, <2>2, TriesAgain, QueuedLockAssumption
<1>3. CASE ~Value.owned
  <2>1. /\ pc' = [pc EXCEPT ![t] = "exclusive"] /\ want' = want
        /\ Value' = [Value EXCEPT !.owned = TRUE]
    BY <1>3 DEF PhAcquireQueuedLockExclusive, Goto
  <2>2. /\ pc'[t] = "exclusive"
        /\ \A u \in Threads \ {t} : pc'[u] = pc[u]
        /\ pc' \in [Threads -> Points] /\ want' \in [Threads -> Modes]
    BY <1>1, <2>1 DEF Types, Points, Outside
  <2> QED BY <1>1, <1>3, <2>1, <2>2, ExclusiveOwner
<1> QED BY <1>2, <1>3

(* The first try of a shared one.                                          *)
LEMMA AcquireSharedStep ==
  ASSUME NEW c \in [Int -> Threads], NEW L \in SUBSET Int, NEW lo \in Int, NEW hi \in Int,
         NEW k \in Int, NEW a \in [Threads -> Int], NEW b \in [Threads -> Int],
         Shape(c, L, lo, hi, k, a, b), NEW t \in Threads, PhAcquireQueuedLockShared(t)
  PROVE  Shape(c, L, lo, hi, k, a, b)'
PROOF
<1>1. /\ Types /\ pc[t] = "idle" /\ blk' = blk /\ val' = val /\ cur' = cur
      /\ want[t] = NULL /\ DOMAIN val' = Threads /\ Sound(val'[t])
  BY DEF Shape, Types, Outside, PhAcquireQueuedLockShared
<1>2. CASE Value # Free
  <2>1. /\ pc' = [pc EXCEPT ![t] = "read"] /\ want' = [want EXCEPT ![t] = "shared"]
        /\ Value' = Value
    BY <1>2 DEF PhAcquireQueuedLockShared, Goto
  <2>2. /\ pc'[t] = "read" /\ want'[t] = "shared"
        /\ \A u \in Threads \ {t} : pc'[u] = pc[u] /\ want'[u] = want[u]
        /\ pc' \in [Threads -> Points] /\ want' \in [Threads -> Modes]
    BY <1>1, <2>1 DEF Types, Points, Modes
  <2> QED BY <1>1, <2>1, <2>2, TriesAgain, QueuedLockAssumption
<1>3. CASE Value = Free
  <2>1. /\ pc' = [pc EXCEPT ![t] = "shared"] /\ want' = want
        /\ Value' = [Free EXCEPT !.owned = TRUE, !.shared = 1]
    BY <1>3 DEF PhAcquireQueuedLockShared, Goto
  <2>2. /\ pc'[t] = "shared"
        /\ \A u \in Threads \ {t} : pc'[u] = pc[u]
        /\ pc' \in [Threads -> Points] /\ want' \in [Threads -> Modes]
    BY <1>1, <2>1 DEF Types, Points, Outside
  <2>3. Value' = [Value EXCEPT !.shared = @ + 1, !.owned = TRUE]
    <3>1. Value.shared + 1 = 1
      BY <1>3 DEF Free
    <3> QED BY <1>3, <2>1, <3>1 DEF Free
  <2>4. ~Value.waiters /\ ~Value.owned
    BY <1>3 DEF Free
  <2> QED BY <1>1, <2>1, <2>2, <2>3, <2>4, SharedOwner
<1> QED BY <1>2, <1>3

(* Reading the lock word keeps the shape of the queue.                     *)
LEMMA ReadStep ==
  ASSUME NEW c \in [Int -> Threads], NEW L \in SUBSET Int, NEW lo \in Int, NEW hi \in Int,
         NEW k \in Int, NEW a \in [Threads -> Int], NEW b \in [Threads -> Int],
         Shape(c, L, lo, hi, k, a, b), NEW t \in Threads, ReadValue(t)
  PROVE  Shape(c, L, lo, hi, k, a, b)'
PROOF
<1>1. /\ Types /\ pc[t] = "read" /\ UNCHANGED <<Value, blk, want, cur>>
      /\ pc' = [pc EXCEPT ![t] = "try"] /\ val' = [val EXCEPT ![t] = Value]
      /\ want[t] # NULL
  BY DEF Shape, Types, ReadValue, Goto, GoBy
<1>2. /\ pc'[t] = "try" /\ val'[t] = Value /\ DOMAIN val' = Threads
      /\ \A u \in Threads \ {t} : pc'[u] = pc[u] /\ val'[u] = val[u]
      /\ pc' \in [Threads -> Points] /\ want' \in [Threads -> Modes] /\ Sound(Value)
  BY <1>1 DEF Types, Points
<1> QED BY <1>1, <1>2, TriesAgain

\* The lock is as an owner of that kind may take it.
TriesToAcquire(t) ==
  \/ /\ ~val[t].owned
     /\ Acquired(t, [val[t] EXCEPT !.owned = TRUE], "exclusive")
  \/ /\ ~val[t].waiters /\ (~val[t].owned \/ val[t].shared > 0)
     /\ Acquired(t, [val[t] EXCEPT !.shared = @ + 1, !.owned = TRUE], "shared")

(* Acquiring by a compare and exchange, or failing to.                     *)
LEMMA AcquiredStep ==
  ASSUME NEW c \in [Int -> Threads], NEW L \in SUBSET Int, NEW lo \in Int, NEW hi \in Int,
         NEW k \in Int, NEW a \in [Threads -> Int], NEW b \in [Threads -> Int],
         Shape(c, L, lo, hi, k, a, b), NEW t \in Threads, pc[t] = "try", TriesToAcquire(t)
  PROVE  Shape(c, L, lo, hi, k, a, b)'
PROOF
<1> USE DEF TriesToAcquire
<1>1. /\ Types /\ want[t] # NULL /\ UNCHANGED <<blk, cur>>
      /\ Sound(Value) /\ Sound(Free)
  BY FreeIsSound DEF Shape, Types, Acquired
<1>2. CASE Value # val[t]
  <2>1. pc' = [pc EXCEPT ![t] = "try"] /\ val' = [val EXCEPT ![t] = Value] /\ Value' = Value
    BY <1>2 DEF Acquired, CompareExchange, Goto, GoBy
  <2>2. /\ pc'[t] = "try" /\ val'[t] = Value /\ DOMAIN val' = Threads
        /\ \A u \in Threads \ {t} : pc'[u] = pc[u] /\ val'[u] = val[u]
        /\ pc' \in [Threads -> Points]
    BY <1>1, <2>1 DEF Types, Points
  <2>3. want' = want /\ want' \in [Threads -> Modes]
    BY <1>1, <2>2 DEF Acquired, Types
  <2> QED BY <1>1, <2>1, <2>2, <2>3, TriesAgain
<1>3. ASSUME NEW l \in {"exclusive", "shared"}, NEW new, Value = val[t], Acquired(t, new, l)
      PROVE  /\ pc'[t] = l /\ val'[t] = Free /\ DOMAIN val' = Threads /\ want'[t] = NULL
             /\ \A u \in Threads \ {t} :
                  pc'[u] = pc[u] /\ val'[u] = val[u] /\ want'[u] = want[u]
             /\ pc' \in [Threads -> Points] /\ want' \in [Threads -> Modes] /\ Value' = new
  <2>1. pc' = [pc EXCEPT ![t] = l] /\ val' = [val EXCEPT ![t] = Free] /\ Value' = new
    BY <1>3 DEF Acquired, CompareExchange, Goto, GoBy
  <2>2. /\ pc'[t] = l /\ val'[t] = Free /\ DOMAIN val' = Threads
        /\ \A u \in Threads \ {t} : pc'[u] = pc[u] /\ val'[u] = val[u]
        /\ pc' \in [Threads -> Points]
    BY <1>1, <2>1 DEF Types, Points, Outside
  <2>3. want' = [want EXCEPT ![t] = NULL]
    BY <1>3, <2>2 DEF Acquired
  <2> QED BY <1>1, <2>1, <2>2, <2>3 DEF Types, Modes
<1>4. CASE Value = val[t] /\ Acquired(t, [val[t] EXCEPT !.owned = TRUE], "exclusive")
           /\ ~val[t].owned
  BY <1>1, <1>3, <1>4, ExclusiveOwner
<1>5. CASE Value = val[t] /\ ~val[t].waiters /\ (~val[t].owned \/ val[t].shared > 0)
           /\ Acquired(t, [val[t] EXCEPT !.shared = @ + 1, !.owned = TRUE], "shared")
  BY <1>1, <1>3, <1>5, SharedOwner
<1> QED BY <1>2, <1>4, <1>5
-----------------------------------------------------------------------------
(* Releasing.                                                              *)

(* The last owner leaves.                                                  *)
LEMMA LastOwnerLeaves ==
  ASSUME Types, Owners, NEW t \in Threads, \A u \in Threads \ {t} : pc'[u] = pc[u],
         pc[t] \in {"exclusive", "releaseExclusive", "lastShared"},
         pc'[t] \notin {"exclusive", "releaseExclusive", "shared", "releaseShared",
                        "lastShared"},
         ~Value'.owned, ~Value'.multi, Value'.waiters = Value.waiters,
         Value'.shared = Value.shared
  PROVE  Owners' /\ SharedBy' = {} /\ Sh' = {} /\ Sh = {}
PROOF
<1>1. /\ t \in Ex <=> pc[t] \in {"exclusive", "releaseExclusive"}
      /\ t \in Ls <=> pc[t] = "lastShared"
      /\ Ex \subseteq Threads /\ Sh \subseteq Threads /\ Ls \subseteq Threads
  BY DEF Ex, Sh, Ls
<1>2. Sh = {} /\ Ex \subseteq {t} /\ Ls \subseteq {t} /\ Value.shared = 0
  BY <1>1 DEF Owners, SharedBy, Types, Sound
<1>3. Ex' = {} /\ Sh' = {} /\ Ls' = {} /\ SharedBy' = {}
  BY <1>2, OwnersMove
<1>4. Cardinality({}) = 0
  BY FS_EmptySet
<1> QED BY <1>2, <1>3, <1>4 DEF Owners

(* A thread that sets the traversing flag goes by the head of the chain.   *)
LEMMA TraverserEnters ==
  ASSUME NEW c \in [Int -> Threads], NEW lo \in Int, NEW hi \in Int, NEW k \in Int,
         Chain(c, lo, hi, k), Traversers(c, lo, hi, k), NEW t \in Threads,
         \A u \in Threads \ {t} : pc'[u] = pc[u], blk' = blk,
         pc'[t] = "wake", val'[t] = Value', ~Value.trav, Value'.trav, ~Value'.multi,
         Value.waiters, Value'.waiters, Value'.block = Value.block, SharedBy' = {}
  PROVE  Traversers(c, lo, hi, k)'
PROOF
<1>1. \A u \in Threads \ {t} : pc'[u] \notin Traversal
  BY OthersDoNot DEF Traversers
<1>2. Starts(t, c, lo, hi, k, hi)'
  BY DEF Chain, Starts
<1>3. Traverser(t, c, lo, hi, k)'
  BY <1>2 DEF Traverser
<1> QED BY <1>1, <1>3, OnlyTraverser DEF Traversal

(* It leaves the chain to the thread that is traversing it, or announces   *)
(* that it will wake the waiters, or sets about it.                        *)
LEMMA LastRelease ==
  ASSUME NEW c \in [Int -> Threads], NEW L \in SUBSET Int, NEW lo \in Int, NEW hi \in Int,
         NEW k \in Int, NEW a \in [Threads -> Int], NEW b \in [Threads -> Int],
         Shape(c, L, lo, hi, k, a, b), NEW t \in Threads,
         pc[t] \in {"exclusive", "releaseExclusive", "lastShared"},
         pc' \in [Threads -> Points], DOMAIN val' = Threads, Sound(Value'), Sound(val'[t]),
         \A u \in Threads \ {t} : pc'[u] = pc[u] /\ val'[u] = val[u],
         UNCHANGED <<blk, want, cur>>,
         ~Value'.owned, ~Value'.multi, Value'.waiters = Value.waiters,
         Value'.shared = Value.shared, Value'.block = Value.block,
         \/ /\ pc'[t] = "idle" /\ Value'.trav = Value.trav
            /\ Value.waiters => Value.trav
         \/ /\ pc'[t] = "wakeForRelease" /\ Value'.trav = Value.trav
            /\ Value.waiters /\ ~Value.trav /\ val'[t] = Value'
         \/ /\ pc'[t] = "wake" /\ Value.waiters /\ ~Value.trav
            /\ Value'.trav /\ val'[t] = Value'
  PROVE  Shape(c, L, lo, hi, k, a, b)'
PROOF
<1>1. Types /\ Owners /\ Chain(c, lo, hi, k) /\ Traversers(c, lo, hi, k)
  BY DEF Shape
<1>2. Owners' /\ SharedBy' = {} /\ Sh' = {} /\ Sh = {}
  BY <1>1, LastOwnerLeaves
<1>3. Counted(c[lo])' /\ want[t] = NULL /\ ~Queued(t) /\ ~Queued(t)'
  BY <1>1, <1>2 DEF Counted, Queued, Types, Outside
<1>4. Light(t)
  BY <1>1, <1>2, <1>3, BlocksSame DEF Light, Waking, Types
<1>5. Goes(t) /\ Releaser(t, c, lo, hi)'
  BY <1>3 DEF Goes, Releaser
<1>6. Value'.waiters /\ ~Value'.owned /\ ~Value'.trav => Awake(t, c, L)'
  BY DEF Awake
<1>7. Traversers(c, lo, hi, k)'
  <2>1. CASE pc'[t] = "wake"
    BY <1>1, <1>2, <2>1, TraverserEnters
  <2>2. CASE pc'[t] # "wake"
    <3>1. pc[t] \notin Traversal /\ pc'[t] \notin Traversal
      BY <2>2 DEF Traversal
    <3> QED BY <1>1, <1>4, <2>2, <3>1, TraversersKept DEF Types
  <2> QED BY <2>1, <2>2
<1> QED BY <1>2, <1>3, <1>4, <1>5, <1>6, <1>7, LightShape

(* The compare-and-swap of the inlined exclusive release keeps it.         *)
LEMMA ReleaseInlineStep ==
  ASSUME NEW c \in [Int -> Threads], NEW L \in SUBSET Int, NEW lo \in Int, NEW hi \in Int,
         NEW k \in Int, NEW a \in [Threads -> Int], NEW b \in [Threads -> Int],
         Shape(c, L, lo, hi, k, a, b), NEW t \in Threads, PhReleaseQueuedLockExclusive(t)
  PROVE  Shape(c, L, lo, hi, k, a, b)'
PROOF
<1>1. /\ Types /\ Owners /\ pc[t] = "exclusive" /\ UNCHANGED <<blk, want, cur>>
      /\ Value' = [Value EXCEPT !.owned = FALSE] /\ t \in Ex
  BY DEF Shape, PhReleaseQueuedLockExclusive, Ex
<1>2. /\ Sound(Value') /\ ~Value'.owned /\ ~Value'.multi /\ Value'.waiters = Value.waiters
      /\ Value'.trav = Value.trav /\ Value'.shared = Value.shared /\ Value'.block = Value.block
  <2>1. ~Value.multi /\ Value.shared = 0
    BY <1>1 DEF Owners
  <2>2. Sound(Value)
    BY <1>1 DEF Types
  <2>3. /\ Value' \in Words /\ ~Value'.owned /\ Value'.multi = Value.multi
        /\ Value'.waiters = Value.waiters /\ Value'.trav = Value.trav
        /\ Value'.shared = Value.shared /\ Value'.block = Value.block
    BY <1>1, <2>2 DEF Sound, Words
  <2> QED BY <2>1, <2>2, <2>3 DEF Sound
<1>3. CASE Value.waiters /\ ~Value.trav
  <2>1. pc' = [pc EXCEPT ![t] = "wakeForRelease"] /\ val' = [val EXCEPT ![t] = Value']
    BY <1>3 DEF PhReleaseQueuedLockExclusive, Goto, GoBy
  <2>2. /\ pc'[t] = "wakeForRelease" /\ val'[t] = Value' /\ DOMAIN val' = Threads
        /\ \A u \in Threads \ {t} : pc'[u] = pc[u] /\ val'[u] = val[u]
        /\ pc' \in [Threads -> Points]
    BY <1>1, <2>1 DEF Types, Points, Outside
  <2> QED BY ZenonT(40), <1>1, <1>2, <1>3, <2>2, LastRelease
<1>4. CASE ~(Value.waiters /\ ~Value.trav)
  <2>1. pc' = [pc EXCEPT ![t] = "idle"] /\ val' = val
    BY <1>4 DEF PhReleaseQueuedLockExclusive, Goto, GoBy
  <2>2. /\ pc'[t] = "idle" /\ DOMAIN val' = Threads /\ Sound(val'[t])
        /\ \A u \in Threads \ {t} : pc'[u] = pc[u] /\ val'[u] = val[u]
        /\ pc' \in [Threads -> Points]
    BY <1>1, <2>1 DEF Types, Points, Outside
  <2> QED BY <1>1, <1>2, <1>4, <2>2, LastRelease
<1> QED BY <1>3, <1>4

(* It gives up, or goes for the waiters.                                   *)
LEMMA OuterMoves ==
  ASSUME NEW c \in [Int -> Threads], NEW L \in SUBSET Int, NEW lo \in Int, NEW hi \in Int,
         NEW k \in Int, NEW a \in [Threads -> Int], NEW b \in [Threads -> Int],
         Shape(c, L, lo, hi, k, a, b), NEW t \in Threads,
         pc[t] \in Outside, pc'[t] \in Outside,
         pc[t] = "wakeForRelease" => val[t] # Value,
         t \in Ex <=> pc'[t] \in {"exclusive", "releaseExclusive"},
         t \in Sh <=> pc'[t] \in {"shared", "releaseShared"},
         t \in Ls <=> pc'[t] = "lastShared",
         pc' \in [Threads -> Points], DOMAIN val' = Threads, Sound(val'[t]),
         \A u \in Threads \ {t} : pc'[u] = pc[u] /\ val'[u] = val[u],
         UNCHANGED <<Value, blk, want, cur>>, Releaser(t, c, lo, hi)'
  PROVE  Shape(c, L, lo, hi, k, a, b)'
PROOF
<1>1. Types /\ Owners /\ Counted(c[lo])
  BY DEF Shape
<1>2. Owners' /\ SharedBy' = SharedBy /\ Sh' = Sh
  BY <1>1, OwnersStay
<1>3. Counted(c[lo])' /\ want[t] = NULL /\ ~Queued(t) /\ ~Queued(t)'
  BY <1>1, <1>2, CountedStays DEF Queued, Types
<1>4. Light(t)
  BY <1>1, <1>2, <1>3, BlocksSame DEF Light, Waking, Types, Outside
<1>5. Goes(t)
  BY <1>1, <1>3 DEF Goes, Types, Outside
<1>6. ~Awake(t, c, L)
  BY <1>3 DEF Awake, Outside
<1> QED BY <1>2, <1>3, <1>4, <1>5, <1>6, OuterShape DEF Traversal, Outside

(* PhfWakeForReleaseQueuedLock, setting the traversing bit or not.         *)
LEMMA WakeForReleaseStep ==
  ASSUME NEW c \in [Int -> Threads], NEW L \in SUBSET Int, NEW lo \in Int, NEW hi \in Int,
         NEW k \in Int, NEW a \in [Threads -> Int], NEW b \in [Threads -> Int],
         Shape(c, L, lo, hi, k, a, b), NEW t \in Threads, PhfWakeForReleaseQueuedLock(t)
  PROVE  Shape(c, L, lo, hi, k, a, b)'
PROOF
<1>1. /\ Types /\ Owners /\ Counted(c[lo]) /\ Chain(c, lo, hi, k) /\ Traversers(c, lo, hi, k)
      /\ pc[t] = "wakeForRelease" /\ UNCHANGED <<blk, want, cur>>
      /\ t \notin Ex /\ t \notin Sh /\ t \notin Ls
  BY DEF Shape, PhfWakeForReleaseQueuedLock, Ex, Sh, Ls
<1>2. CASE Value # val[t]
  <2>1. pc' = [pc EXCEPT ![t] = "idle"] /\ val' = [val EXCEPT ![t] = Free] /\ Value' = Value
    BY <1>2 DEF PhfWakeForReleaseQueuedLock, Goto, GoBy
  <2>2. /\ pc'[t] = "idle" /\ val'[t] = Free /\ DOMAIN val' = Threads
        /\ \A u \in Threads \ {t} : pc'[u] = pc[u] /\ val'[u] = val[u]
        /\ pc' \in [Threads -> Points]
    BY <1>1, <2>1 DEF Types, Points, Outside
  <2>3. Releaser(t, c, lo, hi)'
    BY <2>2 DEF Releaser
  <2> QED BY <1>1, <1>2, <2>1, <2>2, <2>3, OuterMoves, FreeIsSound DEF Outside
<1>3. CASE Value = val[t]
  <2>1. /\ pc' = [pc EXCEPT ![t] = "wake"] /\ val' = [val EXCEPT ![t] = Value']
        /\ Value' = [Value EXCEPT !.trav = TRUE]
    BY <1>3 DEF PhfWakeForReleaseQueuedLock, Goto, GoBy
  <2>2. /\ pc'[t] = "wake" /\ val'[t] = Value' /\ DOMAIN val' = Threads
        /\ \A u \in Threads \ {t} : pc'[u] = pc[u] /\ val'[u] = val[u]
        /\ pc' \in [Threads -> Points]
    BY <1>1, <2>1 DEF Types, Points, Traversal
  <2>3. Value.waiters /\ ~Value.trav /\ ~Value.owned /\ Sound(Value) /\ ~Value.multi
    BY <1>1, <1>3 DEF Shape, Releasers, Releaser, Types, Sound
  <2>4. /\ Value' \in Words /\ Value'.trav /\ Value'.multi = Value.multi
        /\ Value'.waiters = Value.waiters /\ Value'.owned = Value.owned
        /\ Value'.shared = Value.shared /\ Value'.block = Value.block
    BY <2>1, <2>3 DEF Sound, Words
  <2>5. Sound(Value')
    BY <2>3, <2>4 DEF Sound
  <2>6. Owners' /\ SharedBy' = SharedBy /\ Sh' = Sh /\ SharedBy' = {}
    <3>1. Owners' /\ SharedBy' = SharedBy /\ Sh' = Sh
      BY <1>1, <2>2, <2>4, OwnersStay
    <3> QED BY <1>1, <2>3, <3>1 DEF Owners
  <2>7. Counted(c[lo])' /\ want[t] = NULL /\ ~Queued(t) /\ ~Queued(t)'
    BY <1>1, <2>4, <2>6, CountedStays DEF Queued, Types, Outside
  <2>8. Light(t)
    BY <1>1, <2>2, <2>4, <2>6, <2>7, BlocksSame DEF Light, Waking, Types
  <2>9. Goes(t) /\ Releaser(t, c, lo, hi)'
    BY <2>2, <2>5 DEF Goes, Outside, Releaser
  <2>10. Traversers(c, lo, hi, k)'
    BY <1>1, <2>2, <2>3, <2>4, <2>6, TraverserEnters
  <2> QED BY <2>4, <2>6, <2>7, <2>8, <2>9, <2>10, LightShape
<1> QED BY <1>2, <1>3

(* Each try of PhfReleaseQueuedLockExclusive keeps it.                     *)
LEMMA ReleaseExclusiveStep ==
  ASSUME NEW c \in [Int -> Threads], NEW L \in SUBSET Int, NEW lo \in Int, NEW hi \in Int,
         NEW k \in Int, NEW a \in [Threads -> Int], NEW b \in [Threads -> Int],
         Shape(c, L, lo, hi, k, a, b), NEW t \in Threads, PhfReleaseQueuedLockExclusive(t)
  PROVE  Shape(c, L, lo, hi, k, a, b)'
PROOF
<1>1. /\ Types /\ Owners /\ UNCHANGED <<blk, want, cur>> /\ Sound(Value) /\ Sound(Free)
      /\ pc[t] \in {"exclusive", "releaseExclusive"}
      /\ t \in Ex /\ t \notin Sh /\ t \notin Ls
  BY FreeIsSound DEF Shape, Types, PhfReleaseQueuedLockExclusive, Ex, Sh, Ls
<1>2. Value.owned /\ ~Value.multi /\ Value.shared = 0
  BY <1>1 DEF Owners
<1>3. CASE /\ GoBy(t, Value) /\ Value' = Value
           /\ \/ pc[t] = "exclusive" /\ Goto(t, "releaseExclusive")
              \/ pc[t] = "releaseExclusive" /\ pc' = pc
  <2>1. /\ pc'[t] = "releaseExclusive" /\ val'[t] = Value /\ DOMAIN val' = Threads
        /\ \A u \in Threads \ {t} : pc'[u] = pc[u] /\ val'[u] = val[u]
        /\ pc' \in [Threads -> Points]
    BY <1>1, <1>3 DEF Types, Points, Outside, Goto, GoBy
  <2>2. Releaser(t, c, lo, hi)'
    BY <1>2, <2>1 DEF Releaser
  <2> QED BY <1>1, <1>3, <2>1, <2>2, OuterMoves DEF Outside
<1>4. CASE pc[t] = "releaseExclusive" /\ Value = val[t] /\ ~(Value' = Value /\ pc' = pc)
  <2>1. \/ /\ Value.waiters /\ ~Value.trav
           /\ Value' = [[Value EXCEPT !.owned = FALSE] EXCEPT !.trav = TRUE]
           /\ pc' = [pc EXCEPT ![t] = "wake"] /\ val' = [val EXCEPT ![t] = Value']
        \/ /\ ~(Value.waiters /\ ~Value.trav) /\ Value' = [Value EXCEPT !.owned = FALSE]
           /\ pc' = [pc EXCEPT ![t] = "idle"] /\ val' = [val EXCEPT ![t] = Free]
    BY <1>4 DEF PhfReleaseQueuedLockExclusive, Goto, GoBy
  <2>2. /\ Value' \in Words /\ ~Value'.owned /\ Value'.multi = Value.multi
        /\ Value'.waiters = Value.waiters /\ Value'.shared = Value.shared
        /\ Value'.block = Value.block
        /\ Value.waiters => Value'.trav
        /\ ~Value.waiters => Value'.trav = Value.trav
    BY <1>1, <2>1 DEF Sound, Words
  <2>3. Sound(Value')
    <3>1. ~Value'.waiters => Value'.block = NULL /\ ~Value'.trav
      BY <1>1, <2>2 DEF Sound
    <3>2. Value'.waiters => Value'.block \in Threads
      BY <1>1, <2>2 DEF Sound
    <3>3. ~Value'.multi /\ Value'.shared = 0
      BY <1>2, <2>2
    <3> QED BY <2>2, <3>1, <3>2, <3>3 DEF Sound
  <2>4. /\ DOMAIN val' = Threads /\ Sound(val'[t]) /\ pc' \in [Threads -> Points]
        /\ \A u \in Threads \ {t} : pc'[u] = pc[u] /\ val'[u] = val[u]
        /\ \/ /\ pc'[t] = "idle" /\ Value'.trav = Value.trav
              /\ Value.waiters => Value.trav
           \/ /\ pc'[t] = "wake" /\ Value.waiters /\ ~Value.trav
              /\ Value'.trav /\ val'[t] = Value'
    <3>1. CASE pc' = [pc EXCEPT ![t] = "wake"]
      BY <1>1, <2>1, <2>2, <2>3, <3>1 DEF Types, Points, Outside, Traversal
    <3>2. CASE pc' = [pc EXCEPT ![t] = "idle"]
      BY <1>1, <2>1, <2>2, <3>2 DEF Types, Points, Outside, Sound, Words
    <3> QED BY <2>1, <3>1, <3>2
  <2>5. pc[t] \in {"exclusive", "releaseExclusive", "lastShared"} /\ ~Value'.multi
    BY <1>1, <1>2, <2>2
  <2> QED BY <1>1, <2>2, <2>3, <2>4, <2>5, LastRelease
<1>5. ~(Value' = Value /\ pc' = pc) \/ GoBy(t, Value)
  <2>1. CASE pc[t] = "releaseExclusive" /\ Value = val[t] /\ pc' = pc
    BY <1>1, <2>1 DEF PhfReleaseQueuedLockExclusive, Goto, Types, Points, Outside
  <2> QED BY <2>1 DEF PhfReleaseQueuedLockExclusive
<1> QED BY <1>3, <1>4, <1>5 DEF PhfReleaseQueuedLockExclusive

(* A shared owner leaves a lock without waiters.                           *)
LEMMA SharedOwnerLeaves ==
  ASSUME NEW c \in [Int -> Threads], NEW L \in SUBSET Int, NEW lo \in Int, NEW hi \in Int,
         NEW k \in Int, NEW a \in [Threads -> Int], NEW b \in [Threads -> Int],
         Shape(c, L, lo, hi, k, a, b), NEW t \in Threads,
         pc[t] \in {"shared", "releaseShared"}, pc'[t] = "idle",
         pc' \in [Threads -> Points], DOMAIN val' = Threads, Sound(val'[t]),
         \A u \in Threads \ {t} : pc'[u] = pc[u] /\ val'[u] = val[u],
         UNCHANGED <<blk, want, cur>>, ~Value.waiters,
         Value' \in Words, ~Value'.waiters, Value'.block = NULL, ~Value'.trav, ~Value'.multi,
         Value'.shared = Value.shared - 1, Value'.owned <=> Value.shared > 1
  PROVE  Shape(c, L, lo, hi, k, a, b)'
PROOF
<1>1. /\ Types /\ Owners /\ t \in Sh /\ t \notin Ex /\ t \notin Ls /\ Sound(Value)
      /\ Traversers(c, lo, hi, k)
  BY DEF Shape, Types, Ex, Sh, Ls
<1>2. /\ Value.shared \in Nat /\ Value.block = NULL /\ ~Value.trav /\ ~Value.multi
      /\ Value.shared = Cardinality(Sh)
  BY <1>1 DEF Sound, Words, Owners
<1>3. Ex = {} /\ Ls = {} /\ Value.owned
  BY <1>1 DEF Owners, SharedBy
<1>4. /\ Ex' = {} /\ Ls' = {} /\ Sh' = Sh \ {t} /\ SharedBy' = Sh' /\ Sh \in SUBSET Threads
  <2>1. /\ Ex' = Ex \ {t} /\ Ls' = Ls \ {t} /\ Sh' = Sh \ {t} /\ SharedBy' = Sh' \cup Ls'
        /\ Sh \in SUBSET Threads
    BY OwnersMove
  <2> QED BY <1>3, <2>1
<1>5. /\ Value.shared > 0 /\ Value'.shared = Cardinality(Sh')
      /\ Value.shared = 1 <=> Sh' = {}
  <2>1. Sh \ {t} \in SUBSET Threads
    BY <1>4
  <2>2. /\ Cardinality(Sh) \in Nat /\ Cardinality(Sh) # 0
        /\ Cardinality(Sh \ {t}) = Cardinality(Sh) - 1
    BY ZenonT(40), <1>1, <1>4, Counting
  <2>3. Cardinality(Sh \ {t}) \in Nat /\ (Cardinality(Sh \ {t}) = 0 <=> Sh \ {t} = {})
    BY <2>1, Counting
  <2> QED BY <1>2, <1>4, <2>2, <2>3
<1>6. Value'.shared > 0 <=> Value.shared > 1
  BY <1>2
<1>7. Sound(Value')
  BY <1>6 DEF Sound
<1>8. Owners' /\ Counted(c[lo])'
  BY <1>2, <1>4, <1>5, <1>6 DEF Owners, Counted
<1>9. want[t] = NULL /\ ~Queued(t) /\ ~Queued(t)'
  BY <1>1 DEF Types, Outside, Queued
<1>10. Light(t)
  <2>1. Value'.waiters = Value.waiters
    BY <1>1, <1>6 DEF Sound, Words
  <2> QED BY <1>1, <1>2, <1>6, <1>9, <2>1, BlocksSame DEF Light, Waking, Types
<1>11. Goes(t) /\ Releaser(t, c, lo, hi)'
  BY <1>7, <1>9 DEF Goes, Releaser
<1>12. Value'.trav = Value.trav /\ Value'.multi = Value.multi
  BY <1>1, <1>2, <1>6 DEF Sound, Words
<1> QED BY <1>6, <1>8, <1>10, <1>11, <1>12, OuterShape DEF Traversal

(* What a shared owner reads.                                              *)
LEMMA SharedReads ==
  ASSUME NEW c \in [Int -> Threads], NEW L \in SUBSET Int, NEW lo \in Int, NEW hi \in Int,
         NEW k \in Int, NEW a \in [Threads -> Int], NEW b \in [Threads -> Int],
         Shape(c, L, lo, hi, k, a, b), NEW t \in Threads,
         pc[t] \in {"shared", "releaseShared"}, pc'[t] = "releaseShared",
         val'[t] = Value, DOMAIN val' = Threads, pc' \in [Threads -> Points],
         \A u \in Threads \ {t} : pc'[u] = pc[u] /\ val'[u] = val[u],
         UNCHANGED <<Value, blk, want, cur>>
  PROVE  Shape(c, L, lo, hi, k, a, b)'
PROOF
<1>1. /\ Types /\ Owners /\ t \in Sh /\ t \notin Ex /\ t \notin Ls /\ Sound(Value)
      /\ Chain(c, lo, hi, k) /\ Sh \in SUBSET Threads
  BY DEF Shape, Types, Ex, Sh, Ls
<1>2. ~Value.waiters => Value.owned /\ Value.shared > 0
  <2>1. Cardinality(Sh) \in Nat /\ Cardinality(Sh) # 0
    BY <1>1, Counting
  <2>2. Value.owned /\ (~Value.waiters => Value.shared = Cardinality(Sh))
    BY <1>1 DEF Owners, SharedBy
  <2> QED BY <2>1, <2>2
<1>3. Value.waiters => hi \in lo..hi /\ Value.block = c[hi]
  <2>1. Value.waiters => lo <= hi /\ Value.block = c[hi]
    BY <1>1 DEF Chain
  <2> QED BY <2>1
<1>4. Releaser(t, c, lo, hi)'
  <2>1. Value.waiters => \E f \in lo..hi : Value.block = c[f]
    BY <1>3
  <2> QED BY <1>2, <2>1 DEF Releaser
<1> QED BY <1>1, <1>4, OuterMoves DEF Outside

(* The compare-and-swap of the inlined shared release keeps it.            *)
LEMMA ReleaseSharedStep ==
  ASSUME NEW c \in [Int -> Threads], NEW L \in SUBSET Int, NEW lo \in Int, NEW hi \in Int,
         NEW k \in Int, NEW a \in [Threads -> Int], NEW b \in [Threads -> Int],
         Shape(c, L, lo, hi, k, a, b), NEW t \in Threads, PhReleaseQueuedLockShared(t)
  PROVE  Shape(c, L, lo, hi, k, a, b)'
PROOF
<1>1. Types /\ pc[t] = "shared" /\ UNCHANGED <<blk, want, cur>>
  BY DEF Shape, PhReleaseQueuedLockShared
<1>2. CASE Value = [Free EXCEPT !.owned = TRUE, !.shared = 1]
  <2>1. Value' = Free /\ pc' = [pc EXCEPT ![t] = "idle"] /\ val' = val
    BY <1>2 DEF PhReleaseQueuedLockShared, Goto
  <2>2. /\ pc'[t] = "idle" /\ DOMAIN val' = Threads /\ Sound(val'[t])
        /\ \A u \in Threads \ {t} : pc'[u] = pc[u] /\ val'[u] = val[u]
        /\ pc' \in [Threads -> Points]
    BY <1>1, <2>1 DEF Types, Points, Outside
  <2>3. /\ ~Value.waiters /\ Value.shared = 1 /\ Value'.shared = 0
        /\ Value' \in Words /\ ~Value'.waiters /\ Value'.block = NULL /\ ~Value'.trav
        /\ ~Value'.multi /\ ~Value'.owned
    BY <1>2, <2>1 DEF Free, Words
  <2> QED BY <1>1, <2>1, <2>2, <2>3, SharedOwnerLeaves
<1>3. CASE Value # [Free EXCEPT !.owned = TRUE, !.shared = 1]
  <2>1. /\ Value' = Value /\ pc' = [pc EXCEPT ![t] = "releaseShared"]
        /\ val' = [val EXCEPT ![t] = Value]
    BY <1>3 DEF PhReleaseQueuedLockShared, Goto, GoBy
  <2>2. /\ pc'[t] = "releaseShared" /\ val'[t] = Value /\ DOMAIN val' = Threads
        /\ \A u \in Threads \ {t} : pc'[u] = pc[u] /\ val'[u] = val[u]
        /\ pc' \in [Threads -> Points]
    BY <1>1, <2>1 DEF Types, Points, Outside
  <2> QED BY <1>1, <2>1, <2>2, SharedReads
<1> QED BY <1>2, <1>3

(* The last shared owner, who lets go of the lock, keeps it.               *)
LEMMA ReleaseLastSharedStep ==
  ASSUME NEW c \in [Int -> Threads], NEW L \in SUBSET Int, NEW lo \in Int, NEW hi \in Int,
         NEW k \in Int, NEW a \in [Threads -> Int], NEW b \in [Threads -> Int],
         Shape(c, L, lo, hi, k, a, b), NEW t \in Threads, ReleaseLastShared(t)
  PROVE  Shape(c, L, lo, hi, k, a, b)'
PROOF
<1>1. /\ Types /\ Owners /\ UNCHANGED <<blk, want, cur>> /\ Sound(Value) /\ Sound(Free)
      /\ pc[t] = "lastShared" /\ t \in Ls /\ t \notin Sh /\ t \notin Ex
  BY FreeIsSound DEF Shape, Types, ReleaseLastShared, Ex, Sh, Ls
<1>2. Value.waiters /\ Value.shared = 0
  BY <1>1 DEF Owners, Sound
<1>3. CASE Value # val[t]
  <2>1. val' = [val EXCEPT ![t] = Value] /\ Value' = Value /\ pc' = pc
    BY <1>3 DEF ReleaseLastShared, GoBy
  <2>2. /\ pc'[t] = "lastShared" /\ val'[t] = Value /\ DOMAIN val' = Threads
        /\ \A u \in Threads \ {t} : pc'[u] = pc[u] /\ val'[u] = val[u]
        /\ pc' \in [Threads -> Points]
    BY <1>1, <2>1 DEF Types
  <2>3. Releaser(t, c, lo, hi)'
    BY <2>2 DEF Releaser
  <2> QED BY <1>1, <2>1, <2>2, <2>3, OuterMoves DEF Outside
<1>4. CASE Value = val[t]
  <2>1. \/ /\ ~Value.trav
           /\ Value' = [[Value EXCEPT !.owned = FALSE, !.multi = FALSE] EXCEPT !.trav = TRUE]
           /\ pc' = [pc EXCEPT ![t] = "wake"] /\ val' = [val EXCEPT ![t] = Value']
        \/ /\ Value.trav /\ Value' = [Value EXCEPT !.owned = FALSE, !.multi = FALSE]
           /\ pc' = [pc EXCEPT ![t] = "idle"] /\ val' = [val EXCEPT ![t] = Free]
    BY <1>4 DEF ReleaseLastShared, Goto, GoBy
  <2>2. /\ Value' \in Words /\ ~Value'.owned /\ ~Value'.multi
        /\ Value'.waiters = Value.waiters /\ Value'.shared = Value.shared
        /\ Value'.block = Value.block /\ Value'.trav
    BY ZenonT(40), <1>1, <2>1 DEF Sound, Words
  <2>3. Sound(Value')
    <3>1. Value'.waiters /\ Value'.block \in Threads /\ Value'.shared = 0
      BY <1>1, <1>2, <2>2 DEF Sound
    <3> QED BY <2>2, <3>1 DEF Sound
  <2>4. /\ DOMAIN val' = Threads /\ Sound(val'[t]) /\ pc' \in [Threads -> Points]
        /\ \A u \in Threads \ {t} : pc'[u] = pc[u] /\ val'[u] = val[u]
        /\ \/ /\ pc'[t] = "idle" /\ Value'.trav = Value.trav
              /\ Value.waiters => Value.trav
           \/ /\ pc'[t] = "wake" /\ Value.waiters /\ ~Value.trav
              /\ Value'.trav /\ val'[t] = Value'
    <3>1. CASE pc' = [pc EXCEPT ![t] = "wake"]
      BY <1>1, <1>2, <2>1, <2>2, <2>3, <3>1 DEF Types, Points, Outside, Traversal
    <3>2. CASE pc' = [pc EXCEPT ![t] = "idle"]
      BY ZenonT(40), <1>1, <1>2, <2>1, <2>2, <3>2 DEF Types, Points, Outside, Sound, Words
    <3> QED BY <2>1, <3>1, <3>2
  <2>5. pc[t] \in {"exclusive", "releaseExclusive", "lastShared"}
    BY <1>1
  <2> QED BY <1>1, <2>2, <2>3, <2>4, <2>5, LastRelease
<1> QED BY <1>3, <1>4

\* The blocks on the way from ticket f have tickets of the chain.
OnChain(c, lo, hi, f) == \A x \in ToSet(Walk(c[f])) : \E i \in lo..hi : x = c[i]

(* Every way along the chain ends at the oldest block: from the newest     *)
(* ones ...                                                                *)
LEMMA WayFromNew ==
  ASSUME NEW c \in [Int -> Threads], NEW L \in SUBSET Int, NEW lo \in Int, NEW hi \in Int,
         NEW k \in Int, NEW a \in [Threads -> Int], NEW b \in [Threads -> Int],
         Chain(c, lo, hi, k), Tickets(L, lo, hi, a, b), Members(c, L),
         Value.waiters, NEW f \in k..hi
  PROVE  /\ Steps(c, k, f) /\ lo <= k /\ f \in lo..hi /\ f \in Int
         /\ PhpFindLastQueuedWaitBlock(c[f]) = c[lo]
         /\ OnChain(c, lo, hi, f)
PROOF
<1>1. lo <= k /\ k <= hi /\ k <= f /\ f <= hi /\ blk[c[k]].Last = c[lo] /\ f \in Int
  BY DEF Chain
<1>2. \A x, y \in k..f : c[x] = c[y] => x = y
  <2>1. \A i \in lo..hi : i \in L
    BY DEF Tickets
  <2>2. \A i, j \in L : c[i] = c[j] => i = j
    BY DEF Members
  <2> QED BY <1>1, <2>1, <2>2
<1>3. \A i \in k..f : i > k => blk[c[i]].Last = NULL /\ blk[c[i]].Next = c[i - 1]
  BY <1>1 DEF Chain
<1>4. c[lo] \in Threads /\ blk[c[k]].Last # NULL
  BY <1>1, QueuedLockAssumption
<1>5. Steps(c, k, f)
  BY <1>1, <1>2, <1>3, <1>4 DEF Steps
<1>6. PhpFindLastQueuedWaitBlock(c[f]) = blk[c[k]].Last
  BY <1>5, LastIs
<1>7. ASSUME NEW x \in ToSet(Walk(c[f])) PROVE \E i \in lo..hi : x = c[i]
  <2>1. ToSet(Walk(c[f])) \subseteq {c[i] : i \in k..f}
    BY <1>5, LastIs
  <2>2. \A i \in k..f : i \in lo..hi
    BY <1>1
  <2>3. PICK i \in k..f : x = c[i]
    BY <1>7, <2>1
  <2> QED BY <2>2, <2>3
<1>8. f \in lo..hi
  BY <1>1
<1> QED BY <1>1, <1>5, <1>6, <1>7, <1>8 DEF OnChain

(* ... and, while shared owners are left, from all of them.                *)
LEMMA WayFromAll ==
  ASSUME NEW c \in [Int -> Threads], NEW L \in SUBSET Int, NEW lo \in Int, NEW hi \in Int,
         NEW k \in Int, NEW a \in [Threads -> Int], NEW b \in [Threads -> Int],
         Intact(c, lo, hi), Tickets(L, lo, hi, a, b), Members(c, L),
         SharedBy # {}, NEW f \in lo..hi
  PROVE  PhpFindLastQueuedWaitBlock(c[f]) = c[lo]
PROOF
<1>1. /\ \A i \in lo..hi : /\ blk[c[i]].Last \in {NULL, c[lo]}
                           /\ i = lo => blk[c[i]].Last = c[lo]
                           /\ i > lo => blk[c[i]].Next = c[i - 1]
      /\ f \in Int /\ lo <= f /\ f <= hi
  BY DEF Intact
<1>2. c[lo] \in Threads /\ c[lo] # NULL
  BY QueuedLockAssumption
<1> DEFINE K == {n \in Nat : f - n >= lo /\ blk[c[f - n]].Last # NULL}
<1>3. f - lo \in K
  <2>1. f - lo \in Nat /\ f - (f - lo) = lo /\ lo \in lo..hi
    BY <1>1
  <2>2. blk[c[lo]].Last # NULL
    BY <1>1, <1>2, <2>1
  <2> QED BY <2>1, <2>2
<1>4. PICK m \in K : \A n \in K : m <= n
  <2>1. K \in SUBSET Nat /\ K # {}
    BY <1>3
  <2> HIDE DEF K
  <2> QED BY <2>1, FirstIs
<1>5. PICK j \in Int : j = f - m
  BY <1>1, <1>4
<1>6. m \in Nat /\ j \in lo..f /\ j \in lo..hi /\ blk[c[j]].Last # NULL
  BY <1>1, <1>4, <1>5
<1>7. ASSUME NEW i \in j..f, i > j
      PROVE  blk[c[i]].Last = NULL /\ blk[c[i]].Next = c[i - 1]
  <2>1. f - i \in Nat /\ f - (f - i) = i /\ f - i < m /\ i \in lo..hi /\ i > lo
    BY <1>1, <1>5, <1>6, <1>7
  <2>2. f - i \notin K
    <3> HIDE DEF K
    <3>1. f - i \in K => m <= f - i
      BY <1>4
    <3> QED BY <1>6, <2>1, <3>1
  <2>3. ~(blk[c[i]].Last # NULL)
    BY <1>1, <2>1, <2>2
  <2> QED BY <1>1, <2>1, <2>3
<1>8. \A x, y \in j..f : c[x] = c[y] => x = y
  <2>1. \A i \in lo..hi : i \in L
    BY DEF Tickets
  <2>2. \A x, y \in L : c[x] = c[y] => x = y
    BY DEF Members
  <2> QED BY <1>1, <1>6, <2>1, <2>2
<1> HIDE DEF K
<1>9. Steps(c, j, f)
  BY <1>1, <1>5, <1>6, <1>7, <1>8 DEF Steps
<1>10. PhpFindLastQueuedWaitBlock(c[f]) = blk[c[j]].Last
  BY <1>9, LastIs
<1> QED BY <1>1, <1>6, <1>10

(* A shared owner that finds waiters leaves, or is the last one.           *)
LEMMA SharedOwnerCounts ==
  ASSUME NEW c \in [Int -> Threads], NEW L \in SUBSET Int, NEW lo \in Int, NEW hi \in Int,
         NEW k \in Int, NEW a \in [Threads -> Int], NEW b \in [Threads -> Int],
         Shape(c, L, lo, hi, k, a, b), NEW t \in Threads,
         pc[t] = "releaseShared", pc'[t] \in {"idle", "lastShared"},
         pc' \in [Threads -> Points], DOMAIN val' = Threads, Sound(val'[t]),
         \A u \in Threads \ {t} : pc'[u] = pc[u] /\ val'[u] = val[u],
         UNCHANGED <<Value, want, cur>>, Value.waiters, SameBlocks,
         pc'[t] = "lastShared" => Sh = {t},
         pc'[t] = "idle" => /\ Value.multi /\ Sh # {t}
                            /\ blk'[c[lo]].SharedOwners = Cardinality(Sh) - 1
  PROVE  Shape(c, L, lo, hi, k, a, b)'
PROOF
<1>1. /\ Types /\ Owners /\ t \in Sh /\ t \notin Ex /\ t \notin Ls /\ Sound(Value)
      /\ Traversers(c, lo, hi, k)
  BY DEF Shape, Types, Ex, Sh, Ls
<1>2. Ex = {} /\ Ls = {} /\ Value.owned
  BY <1>1 DEF Owners, SharedBy
<1>3. /\ Ex' = {} /\ Sh' = Sh \ {t} /\ SharedBy' = Sh' \cup Ls' /\ Sh \in SUBSET Threads
      /\ Ls' = IF pc'[t] = "lastShared" THEN {t} ELSE {}
  <2>1. /\ Ex' = Ex \ {t} /\ Sh' = Sh \ {t} /\ SharedBy' = Sh' \cup Ls'
        /\ Ls' = (IF pc'[t] = "lastShared" THEN Ls \cup {t} ELSE Ls \ {t})
        /\ Sh \in SUBSET Threads
    BY OwnersMove
  <2> QED BY <1>2, <2>1
<1>4. Cardinality(Sh \ {t}) = Cardinality(Sh) - 1
  BY <1>1, <1>3, Counting
<1>5. Owners'
  <2>1. CASE pc'[t] = "lastShared"
    BY <1>1, <1>2, <1>3, <2>1 DEF Owners
  <2>2. CASE pc'[t] = "idle"
    <3>1. Ls' = {} /\ Sh' # {}
      BY <1>1, <1>3, <2>2
    <3> QED BY <1>1, <1>2, <1>3, <2>2, <3>1 DEF Owners
  <2> QED BY <2>1, <2>2
<1>6. Counted(c[lo])'
  <2>1. CASE pc'[t] = "lastShared"
    BY <1>3, <2>1 DEF Counted
  <2>2. CASE pc'[t] = "idle"
    BY <1>3, <1>4, <2>2 DEF Counted
  <2> QED BY <2>1, <2>2
<1>7. want[t] = NULL /\ ~Queued(t) /\ ~Queued(t)'
  BY <1>1 DEF Types, Outside, Queued
<1>8. Light(t)
  BY <1>1, <1>7 DEF Light, Waking, Types, SharedBy
<1>9. Goes(t) /\ Releaser(t, c, lo, hi)' /\ ~Awake(t, c, L)
  BY <1>1, <1>7 DEF Goes, Releaser, Awake
<1> QED BY <1>5, <1>6, <1>8, <1>9, OuterShape DEF Traversal

(* PhfReleaseQueuedLockShared, counting down in the last block or the word. *)
LEMMA ReleaseSharedSlowStep ==
  ASSUME NEW c \in [Int -> Threads], NEW L \in SUBSET Int, NEW lo \in Int, NEW hi \in Int,
         NEW k \in Int, NEW a \in [Threads -> Int], NEW b \in [Threads -> Int],
         Shape(c, L, lo, hi, k, a, b), NEW t \in Threads, PhfReleaseQueuedLockShared(t)
  PROVE  Shape(c, L, lo, hi, k, a, b)'
PROOF
<1>1. /\ Types /\ Owners /\ Intact(c, lo, hi) /\ Tickets(L, lo, hi, a, b) /\ Members(c, L)
      /\ Counted(c[lo]) /\ Releaser(t, c, lo, hi)
      /\ pc[t] = "releaseShared" /\ UNCHANGED <<want, cur>>
      /\ t \in Sh /\ Sound(Value) /\ Sound(val[t]) /\ Sh \in SUBSET Threads
  BY DEF Shape, Types, PhfReleaseQueuedLockShared, Sh, Releasers
<1>2. CASE ~val[t].waiters
  <2>1. /\ CompareExchange(t, IF val[t].shared > 1 THEN [val[t] EXCEPT !.shared = @ - 1]
                              ELSE Free, "idle", "releaseShared")
        /\ blk' = blk
    BY <1>2 DEF PhfReleaseQueuedLockShared
  <2>2. CASE Value # val[t]
    <3>1. /\ val' = [val EXCEPT ![t] = Value] /\ pc' = [pc EXCEPT ![t] = "releaseShared"]
          /\ Value' = Value
      BY <2>1, <2>2 DEF CompareExchange, Goto, GoBy
    <3>2. /\ pc'[t] = "releaseShared" /\ val'[t] = Value /\ DOMAIN val' = Threads
          /\ \A u \in Threads \ {t} : pc'[u] = pc[u] /\ val'[u] = val[u]
          /\ pc' \in [Threads -> Points]
      BY <1>1, <3>1 DEF Types, Points, Outside
    <3> QED BY <1>1, <2>1, <3>1, <3>2, SharedReads
  <2>3. CASE Value = val[t]
    <3>1. /\ val' = [val EXCEPT ![t] = Free] /\ pc' = [pc EXCEPT ![t] = "idle"]
          /\ Value' = IF Value.shared > 1 THEN [Value EXCEPT !.shared = @ - 1] ELSE Free
      BY <2>1, <2>3 DEF CompareExchange, Goto, GoBy
    <3>2. /\ pc'[t] = "idle" /\ val'[t] = Free /\ DOMAIN val' = Threads
          /\ \A u \in Threads \ {t} : pc'[u] = pc[u] /\ val'[u] = val[u]
          /\ pc' \in [Threads -> Points] /\ Sound(Free)
      BY <1>1, <3>1, FreeIsSound DEF Types, Points, Outside
    <3>3. /\ ~Value.waiters /\ Value.owned /\ Value.shared > 0 /\ Value.shared \in Nat
          /\ Value.block = NULL /\ ~Value.trav /\ ~Value.multi
      BY <1>1, <1>2, <2>3 DEF Releaser, Sound, Words
    <3>4. PICK n \in Nat : n = Value.shared - 1
      BY <3>3
    <3>5. Value' = IF n > 0 THEN [Value EXCEPT !.shared = n] ELSE Free
      BY <3>1, <3>3, <3>4
    <3>6. /\ Value' \in Words /\ ~Value'.waiters /\ Value'.block = NULL /\ ~Value'.trav
          /\ ~Value'.multi /\ Value'.shared = n /\ (Value'.owned <=> n > 0)
      <4>1. CASE n > 0
        BY <1>1, <3>3, <3>5, <4>1 DEF Sound, Words
      <4>2. CASE ~(n > 0)
        BY <3>5, <4>2 DEF Free, Words
      <4> QED BY <4>1, <4>2
    <3>7. Value'.shared = Value.shared - 1 /\ (Value'.owned <=> Value.shared > 1)
      BY <3>3, <3>4, <3>6
    <3> QED BY <1>1, <2>1, <3>2, <3>3, <3>6, <3>7, SharedOwnerLeaves
  <2> QED BY <2>2, <2>3
<1>3. CASE val[t].waiters
  <2>1. /\ Value.waiters /\ (val[t].multi <=> Value.multi)
        /\ \E f \in lo..hi : val[t].block = c[f]
    BY <1>1, <1>3 DEF Releaser
  <2>2. Value' = Value
    BY <1>3 DEF PhfReleaseQueuedLockShared
  <2>3. CASE ~val[t].multi
    <3>1. pc' = [pc EXCEPT ![t] = "lastShared"] /\ val' = val /\ blk' = blk
      BY <1>3, <2>3 DEF PhfReleaseQueuedLockShared, Goto
    <3>2. /\ pc'[t] = "lastShared" /\ DOMAIN val' = Threads /\ Sound(val'[t])
          /\ \A u \in Threads \ {t} : pc'[u] = pc[u] /\ val'[u] = val[u]
          /\ pc' \in [Threads -> Points]
      BY <1>1, <3>1 DEF Types, Points, Outside
    <3>3. Sh = {t}
      BY <1>1, <2>1, <2>3 DEF Owners
    <3> QED BY <1>1, <2>1, <2>2, <3>1, <3>2, <3>3, SharedOwnerCounts, BlocksSame
  <2>4. CASE val[t].multi
    <3>1. PhpFindLastQueuedWaitBlock(val[t].block) = c[lo]
      <4>1. PICK f \in lo..hi : val[t].block = c[f]
        BY <2>1
      <4>2. SharedBy # {}
        BY <1>1 DEF SharedBy
      <4>3. PhpFindLastQueuedWaitBlock(c[f]) = c[lo]
        BY <1>1, <4>2, WayFromAll
      <4> QED BY <4>1, <4>3
    <3>2. PICK n \in Int : n = blk[c[lo]].SharedOwners - 1
      BY <1>1 DEF Types, Blocks
    <3>3. /\ blk' = [blk EXCEPT ![c[lo]].SharedOwners = n]
          /\ IF blk[c[lo]].SharedOwners > 1 THEN Goto(t, "idle") /\ GoBy(t, Free)
             ELSE Goto(t, "lastShared") /\ val' = val
      BY <1>3, <2>4, <3>1, <3>2 DEF PhfReleaseQueuedLockShared
    <3>4. blk[c[lo]].SharedOwners = Cardinality(Sh)
      BY <1>1, <2>1, <2>4 DEF Counted
    <3>5. /\ blk'[c[lo]].SharedOwners = Cardinality(Sh) - 1 /\ SameBlocks
      <4>1. /\ \A x \in Threads \ {c[lo]} : blk'[x] = blk[x]
            /\ blk'[c[lo]] = [blk[c[lo]] EXCEPT !.SharedOwners = n]
            /\ DOMAIN blk' = Threads /\ blk' = [x \in Threads |-> blk'[x]]
        BY <1>1, <3>3 DEF Types
      <4>2. /\ blk'[c[lo]] \in Blocks /\ blk'[c[lo]].Next = blk[c[lo]].Next
            /\ blk'[c[lo]].Previous = blk[c[lo]].Previous
            /\ blk'[c[lo]].Last = blk[c[lo]].Last
            /\ blk'[c[lo]].Spinning = blk[c[lo]].Spinning
            /\ blk'[c[lo]].SharedOwners = n
          <5>1. PICK r \in Blocks : r = blk[c[lo]]
            BY <1>1 DEF Types
          <5>2. blk'[c[lo]] = [r EXCEPT !.SharedOwners = n]
            BY <4>1, <5>1
          <5>3. /\ [r EXCEPT !.SharedOwners = n] \in Blocks
                /\ [r EXCEPT !.SharedOwners = n].Next = r.Next
                /\ [r EXCEPT !.SharedOwners = n].Previous = r.Previous
                /\ [r EXCEPT !.SharedOwners = n].Last = r.Last
                /\ [r EXCEPT !.SharedOwners = n].Spinning = r.Spinning
                /\ [r EXCEPT !.SharedOwners = n].SharedOwners = n
            BY DEF Blocks
          <5> QED BY <5>1, <5>2, <5>3
      <4>3. SameBlocks
        <5>1. \A x \in Threads : blk'[x] \in Blocks
          BY <1>1, <4>1, <4>2 DEF Types
        <5> QED BY <4>1, <4>2, <5>1 DEF SameBlocks
      <4> QED BY <3>2, <3>4, <4>2, <4>3
    <3>6. Cardinality(Sh) \in Nat /\ Cardinality(Sh) # 0 /\ (Cardinality(Sh) = 1 <=> Sh = {t})
      BY <1>1, Counting
    <3>7. CASE blk[c[lo]].SharedOwners > 1
      <4>1. pc' = [pc EXCEPT ![t] = "idle"] /\ val' = [val EXCEPT ![t] = Free]
        BY <3>3, <3>7 DEF Goto, GoBy
      <4>2. /\ pc'[t] = "idle" /\ DOMAIN val' = Threads /\ Sound(val'[t])
            /\ \A u \in Threads \ {t} : pc'[u] = pc[u] /\ val'[u] = val[u]
            /\ pc' \in [Threads -> Points]
        BY <1>1, <4>1, FreeIsSound DEF Types, Points, Outside
      <4>3. Sh # {t}
        BY <3>4, <3>6, <3>7
      <4> QED BY <1>1, <2>1, <2>2, <2>4, <3>5, <4>2, <4>3, SharedOwnerCounts
    <3>8. CASE ~(blk[c[lo]].SharedOwners > 1)
      <4>1. pc' = [pc EXCEPT ![t] = "lastShared"] /\ val' = val
        BY <3>3, <3>8 DEF Goto
      <4>2. /\ pc'[t] = "lastShared" /\ DOMAIN val' = Threads /\ Sound(val'[t])
            /\ \A u \in Threads \ {t} : pc'[u] = pc[u] /\ val'[u] = val[u]
            /\ pc' \in [Threads -> Points]
        BY <1>1, <4>1 DEF Types, Points, Outside
      <4>3. Sh = {t}
        BY <3>4, <3>6, <3>8
      <4> QED BY <1>1, <2>1, <2>2, <3>5, <4>2, <4>3, SharedOwnerCounts
    <3> QED BY <3>7, <3>8
  <2> QED BY <2>3, <2>4
<1> QED BY <1>2, <1>3
-----------------------------------------------------------------------------
(* Traversing.                                                             *)

(* It takes a new look, or turns from optimizing to waking.                *)
LEMMA TraverserMoves ==
  ASSUME NEW c \in [Int -> Threads], NEW L \in SUBSET Int, NEW lo \in Int, NEW hi \in Int,
         NEW k \in Int, NEW a \in [Threads -> Int], NEW b \in [Threads -> Int],
         Shape(c, L, lo, hi, k, a, b), NEW t \in Threads,
         pc[t] \in Traversal \ {"unlinked"}, pc'[t] \in {"optimize", "wake"},
         pc' \in [Threads -> Points], DOMAIN val' = Threads,
         \A u \in Threads \ {t} : pc'[u] = pc[u] /\ val'[u] = val[u],
         UNCHANGED <<Value, blk, want, cur>>,
         val'[t] = Value \/ (val'[t] = val[t] /\ pc[t] = "optimize"),
         pc'[t] = "wake" => pc[t] \in {"wake", "takeAll"} \/ ~val'[t].owned
  PROVE  Shape(c, L, lo, hi, k, a, b)'
PROOF
<1>1. /\ Types /\ Owners /\ Counted(c[lo]) /\ Chain(c, lo, hi, k)
      /\ Traversers(c, lo, hi, k) /\ Traverser(t, c, lo, hi, k)
      /\ Sound(Value) /\ Sound(val[t])
      /\ t \notin Ex /\ t \notin Sh /\ t \notin Ls
  BY DEF Shape, Types, Ex, Sh, Ls, Traversal, Traversers
<1>2. /\ Owners' /\ SharedBy' = SharedBy /\ Sh' = Sh
  BY <1>1, OwnersStay
<1>3. Counted(c[lo])'
  BY <1>1, <1>2, CountedStays
<1>4. Value.trav /\ Value.waiters
  BY <1>1 DEF Traversers, OneTraverser, Sound, Traversal
<1>5. Light(t)
  <2>1. pc[t] \notin {"read", "try", "keyed"} \cup Waking
    BY DEF Traversal, Waking
  <2>2. Queued(t)' <=> Queued(t)
    BY <2>1 DEF Queued
  <2> QED BY <1>1, <1>2, <2>1, <2>2, BlocksSame DEF Light, Waking, Types
<1>6. Goes(t) /\ Releaser(t, c, lo, hi)'
  BY <1>1 DEF Goes, Releaser, Outside
<1>7. ~Value.owned => SharedBy = {}
  BY <1>1 DEF Owners
<1>8. SharedBy = {} => (Value.multi => FALSE)
  BY <1>1 DEF Owners, Sound
<1>9. Traverser(t, c, lo, hi, k)'
  <2>1. CASE val'[t] = Value
    <3>1. Starts(t, c, lo, hi, k, hi)'
      BY <1>1, <1>4, <2>1 DEF Starts, Chain
    <3>2. pc'[t] = "wake" => SharedBy = {}
      BY <1>1, <1>7, <2>1 DEF Traverser
    <3> QED BY <1>2, <1>4, <1>7, <1>8, <2>1, <3>1, <3>2 DEF Traverser
  <2>2. CASE val'[t] = val[t] /\ pc[t] = "optimize"
    <3>1. /\ val[t].waiters /\ val[t].trav /\ (~val[t].owned => SharedBy = {})
          /\ \E f \in Int : Starts(t, c, lo, hi, k, f)
      BY <1>1, <2>2 DEF Traverser, Traversal
    <3>2. PICK f \in Int : Starts(t, c, lo, hi, k, f)
      BY <3>1
    <3>3. Starts(t, c, lo, hi, k, f)'
      BY <2>2, <3>2 DEF Starts
    <3>4. pc'[t] = "wake" => ~val[t].owned /\ ~val[t].multi
      BY <1>1, <2>2 DEF Sound
    <3> QED BY <1>2, <2>2, <3>1, <3>3, <3>4 DEF Traverser
  <2> QED BY <2>1, <2>2
<1>10. Traversers(c, lo, hi, k)'
  <2>1. \A u \in Threads \ {t} : pc'[u] \notin Traversal
    BY <1>1, OthersDoNot DEF Traversers
  <2>2. Value'.trav <=> pc'[t] \in Traversal
    BY <1>4 DEF Traversal
  <2> QED BY <1>9, <2>1, <2>2, OnlyTraverser
<1> QED BY <1>2, <1>3, <1>4, <1>5, <1>6, <1>10, LightShape

(* It is done, and clears the flag.                                        *)
LEMMA TraverserEnds ==
  ASSUME NEW c \in [Int -> Threads], NEW L \in SUBSET Int, NEW lo \in Int, NEW hi \in Int,
         NEW k \in Int, NEW a \in [Threads -> Int], NEW b \in [Threads -> Int],
         Shape(c, L, lo, hi, k, a, b), NEW t \in Threads,
         pc[t] \in Traversal, pc'[t] \in {"idle", "block", "unblock"},
         pc'[t] = "unblock" <=> pc[t] = "unlinked",
         pc'[t] = "idle" => want[t] = NULL, pc'[t] = "block" => want[t] # NULL,
         pc' \in [Threads -> Points], DOMAIN val' = Threads, Sound(val'[t]),
         \A u \in Threads \ {t} : pc'[u] = pc[u] /\ val'[u] = val[u],
         UNCHANGED <<blk, want, cur>>, Value' = [Value EXCEPT !.trav = FALSE],
         pc'[t] = "unblock" \/ Value.owned
  PROVE  Shape(c, L, lo, hi, k, a, b)'
PROOF
<1>1. /\ Types /\ Owners /\ Counted(c[lo]) /\ Traversers(c, lo, hi, k) /\ Sound(Value)
      /\ t \notin Ex /\ t \notin Sh /\ t \notin Ls
  BY DEF Shape, Types, Ex, Sh, Ls, Traversal
<1>2. /\ Value' \in Words /\ Value'.owned = Value.owned /\ Value'.waiters = Value.waiters
      /\ ~Value'.trav /\ Value'.multi = Value.multi
      /\ Value'.shared = Value.shared /\ Value'.block = Value.block
  BY <1>1 DEF Sound, Words
<1>3. Sound(Value')
  BY <1>1, <1>2 DEF Sound
<1>4. /\ Owners' /\ SharedBy' = SharedBy /\ Sh' = Sh
  BY <1>1, <1>2, OwnersStay
<1>5. Counted(c[lo])'
  BY <1>1, <1>2, <1>4, CountedStays
<1>6. Light(t)
  <2>1. pc[t] \notin {"read", "try", "keyed"} /\ (pc[t] \in Waking <=> pc[t] = "unlinked")
    BY DEF Traversal, Waking
  <2>2. Queued(t)' <=> Queued(t)
    BY <2>1 DEF Queued
  <2> QED BY <1>1, <1>2, <1>4, <2>1, <2>2, BlocksSame DEF Light, Waking, Types
<1>7. Goes(t) /\ Releaser(t, c, lo, hi)'
  BY <1>3 DEF Goes, Releaser, Outside
<1>8. Traversers(c, lo, hi, k)'
  <2>1. \A u \in Threads \ {t} : pc'[u] \notin Traversal
    BY <1>1, OthersDoNot DEF Traversers
  <2>2. Traverser(t, c, lo, hi, k)' /\ (Value'.trav <=> pc'[t] \in Traversal)
    BY <1>2 DEF Traversal, Traverser
  <2> QED BY <2>1, <2>2, OnlyTraverser
<1>9. Value'.waiters /\ ~Value'.owned /\ ~Value'.trav => Awake(t, c, L)'
  BY <1>2 DEF Awake
<1> QED BY <1>2, <1>4, <1>5, <1>6, <1>7, <1>8, <1>9, LightShape

(* A traverser that gives up its bit, the lock being owned, keeps it.      *)
LEMMA ClearTraversingStep ==
  ASSUME NEW c \in [Int -> Threads], NEW L \in SUBSET Int, NEW lo \in Int, NEW hi \in Int,
         NEW k \in Int, NEW a \in [Threads -> Int], NEW b \in [Threads -> Int],
         Shape(c, L, lo, hi, k, a, b), NEW t \in Threads,
         \/ ClearTraversing(t)
         \/ PhpPrepareToWakeQueuedLock(t) /\ val[t].owned
  PROVE  Shape(c, L, lo, hi, k, a, b)'
PROOF
<1>1. /\ Types /\ UNCHANGED <<blk, want, cur>> /\ pc[t] \in {"optimized", "wake"}
      /\ val[t].owned /\ pc[t] \in Traversal /\ pc[t] \in Traversal \ {"unlinked"}
  BY DEF Shape, Traversers, Traverser, ClearTraversing, PhpPrepareToWakeQueuedLock, Traversal
<1>2. \E l \in {"optimize", "wake"} :
        CompareExchange(t, [val[t] EXCEPT !.trav = FALSE], After(t), l)
        /\ (l = "wake" => pc[t] = "wake")
  <2>1. CASE ClearTraversing(t)
    BY <2>1 DEF ClearTraversing
  <2>2. CASE PhpPrepareToWakeQueuedLock(t)
    BY <1>1, <2>2 DEF PhpPrepareToWakeQueuedLock
  <2> QED BY <2>1, <2>2
<1>3. PICK l \in {"optimize", "wake"} :
        CompareExchange(t, [val[t] EXCEPT !.trav = FALSE], After(t), l)
        /\ (l = "wake" => pc[t] = "wake")
  BY <1>2
<1>4. CASE Value # val[t]
  <2>1. pc' = [pc EXCEPT ![t] = l] /\ val' = [val EXCEPT ![t] = Value] /\ Value' = Value
    BY <1>3, <1>4 DEF CompareExchange, Goto, GoBy
  <2>2. /\ pc'[t] = l /\ val'[t] = Value /\ DOMAIN val' = Threads
        /\ \A u \in Threads \ {t} : pc'[u] = pc[u] /\ val'[u] = val[u]
        /\ pc' \in [Threads -> Points] /\ UNCHANGED <<Value, blk, want, cur>>
    BY <1>1, <2>1 DEF Types, Points, Traversal
  <2>3. /\ pc'[t] \in {"optimize", "wake"}
        /\ pc'[t] = "wake" => pc[t] \in {"wake", "takeAll"} \/ ~val'[t].owned
        /\ val'[t] = Value \/ (val'[t] = val[t] /\ pc[t] = "optimize")
    BY <1>3, <2>2
  <2> QED BY <1>1, <2>2, <2>3, TraverserMoves
<1>5. CASE Value = val[t]
  <2>1. /\ pc' = [pc EXCEPT ![t] = After(t)] /\ val' = [val EXCEPT ![t] = Free]
        /\ Value' = [Value EXCEPT !.trav = FALSE]
    BY <1>3, <1>5 DEF CompareExchange, Goto, GoBy
  <2>2. /\ After(t) \in {"idle", "block"} /\ (After(t) = "idle" <=> want[t] = NULL)
        /\ After(t) \in Points
    BY DEF After, Points, Outside
  <2>3. /\ pc'[t] = After(t) /\ DOMAIN val' = Threads /\ Sound(val'[t])
        /\ \A u \in Threads \ {t} : pc'[u] = pc[u] /\ val'[u] = val[u]
        /\ pc' \in [Threads -> Points]
    BY <1>1, <2>1, <2>2, FreeIsSound DEF Types
  <2>4. Value.owned /\ pc[t] # "unlinked"
    BY <1>1, <1>5
  <2>5. /\ pc'[t] \in {"idle", "block", "unblock"} /\ pc'[t] # "unblock"
        /\ pc'[t] = "idle" => want[t] = NULL
        /\ pc'[t] = "block" => want[t] # NULL
    BY <2>2, <2>3
  <2> QED BY <1>1, <2>1, <2>3, <2>4, <2>5, TraverserEnds
<1> QED BY <1>4, <1>5

(* Clearing the bit after one exclusive waiter has been unlinked keeps it. *)
LEMMA UnlinkOneStep ==
  ASSUME NEW c \in [Int -> Threads], NEW L \in SUBSET Int, NEW lo \in Int, NEW hi \in Int,
         NEW k \in Int, NEW a \in [Threads -> Int], NEW b \in [Threads -> Int],
         Shape(c, L, lo, hi, k, a, b), NEW t \in Threads, UnlinkOne(t)
  PROVE  Shape(c, L, lo, hi, k, a, b)'
PROOF
<1>1. /\ Types /\ UNCHANGED <<blk, want, cur>> /\ pc[t] = "unlinked"
      /\ Value' = [Value EXCEPT !.trav = FALSE] /\ pc' = [pc EXCEPT ![t] = "unblock"]
      /\ val' = [val EXCEPT ![t] = Free]
  BY DEF Shape, UnlinkOne, Goto, GoBy
<1>2. /\ pc'[t] = "unblock" /\ DOMAIN val' = Threads /\ Sound(val'[t])
      /\ \A u \in Threads \ {t} : pc'[u] = pc[u] /\ val'[u] = val[u]
      /\ pc' \in [Threads -> Points]
  BY <1>1, FreeIsSound DEF Types, Points, Waking
<1> QED BY <1>1, <1>2, TraverserEnds DEF Traversal

\* The chain is linked up to ticket f, and lk is blk for the rest.
LinkedTo(c, L, lo, f, lk) ==
  /\ lk \in [Threads -> Blocks]
  /\ \A x \in Threads :
       /\ lk[x].Next = blk[x].Next /\ lk[x].Last = blk[x].Last
       /\ lk[x].SharedOwners = blk[x].SharedOwners
       /\ lk[x].Exclusive = blk[x].Exclusive /\ lk[x].Spinning = blk[x].Spinning
  /\ \A i \in L : lk[c[i]].Previous = IF lo <= i /\ i < f THEN c[i + 1]
                                      ELSE blk[c[i]].Previous

(* What the traverser links.                                               *)
LEMMA LinkedFrom ==
  ASSUME NEW c \in [Int -> Threads], NEW L \in SUBSET Int, NEW lo \in Int, NEW hi \in Int,
         NEW k \in Int, NEW a \in [Threads -> Int], NEW b \in [Threads -> Int],
         Types, Chain(c, lo, hi, k), Tickets(L, lo, hi, a, b), Members(c, L),
         Value.waiters, NEW f \in k..hi, NEW lk, lk = Linked(c[f])
  PROVE  /\ LinkedTo(c, L, lo, f, lk)
         /\ PhpFindLastQueuedWaitBlock(c[f]) = c[lo]
         /\ lo <= f /\ f <= hi
PROOF
<1>1. /\ Steps(c, k, f) /\ lo <= k /\ f \in lo..hi /\ f \in Int
      /\ PhpFindLastQueuedWaitBlock(c[f]) = c[lo]
  BY WayFromNew
<1>2. /\ lk = [x \in Threads |-> lk[x]]
      /\ \A i \in k..f : i < f => lk[c[i]] = [blk[c[i]] EXCEPT !.Previous = c[i + 1]]
      /\ \A x \in Threads : (\A i \in k..f : i < f => x # c[i]) => lk[x] = blk[x]
  <2>1. Links(c, k, f, lk)
    BY <1>1, LinkedIs
  <2> QED BY <2>1 DEF Links
<1>3. blk \in [Threads -> Blocks]
  BY DEF Types
<1>4. ASSUME NEW r \in Blocks, NEW p \in Threads
      PROVE  /\ [r EXCEPT !.Previous = p] \in Blocks
             /\ [r EXCEPT !.Previous = p].Next = r.Next
             /\ [r EXCEPT !.Previous = p].Last = r.Last
             /\ [r EXCEPT !.Previous = p].SharedOwners = r.SharedOwners
             /\ [r EXCEPT !.Previous = p].Exclusive = r.Exclusive
             /\ [r EXCEPT !.Previous = p].Spinning = r.Spinning
             /\ [r EXCEPT !.Previous = p].Previous = p
  BY DEF Blocks
<1>5. ASSUME NEW i \in k..f, i < f
      PROVE  /\ lk[c[i]] \in Blocks
             /\ lk[c[i]].Next = blk[c[i]].Next /\ lk[c[i]].Last = blk[c[i]].Last
             /\ lk[c[i]].SharedOwners = blk[c[i]].SharedOwners
             /\ lk[c[i]].Exclusive = blk[c[i]].Exclusive
             /\ lk[c[i]].Spinning = blk[c[i]].Spinning
             /\ lk[c[i]].Previous = c[i + 1]
  <2>1. blk[c[i]] \in Blocks /\ c[i + 1] \in Threads
    BY <1>3
  <2>2. lk[c[i]] = [blk[c[i]] EXCEPT !.Previous = c[i + 1]]
    BY <1>2, <1>5
  <2> HIDE <1>2
  <2> QED BY <1>4, <2>1, <2>2
<1>6. ASSUME NEW x \in Threads
      PROVE  /\ lk[x] \in Blocks
             /\ lk[x].Next = blk[x].Next /\ lk[x].Last = blk[x].Last
             /\ lk[x].SharedOwners = blk[x].SharedOwners
             /\ lk[x].Exclusive = blk[x].Exclusive /\ lk[x].Spinning = blk[x].Spinning
  <2>1. CASE \E i \in k..f : i < f /\ x = c[i]
    BY <1>5, <2>1
  <2>2. CASE ~\E i \in k..f : i < f /\ x = c[i]
    BY <1>2, <1>3, <2>2
  <2> QED BY <2>1, <2>2
<1>7. ASSUME NEW i \in L
      PROVE  lk[c[i]].Previous = IF lo <= i /\ i < f THEN c[i + 1] ELSE blk[c[i]].Previous
  <2>1. CASE k <= i /\ i < f
    BY <1>1, <1>5, <2>1
  <2>2. CASE ~(k <= i /\ i < f)
    <3>1. \A j \in k..f : j < f => c[i] # c[j]
      <4>1. ASSUME NEW j \in k..f, j < f, c[i] = c[j] PROVE FALSE
        <5>1. j \in L
          BY <1>1 DEF Tickets
        <5>2. i = j
          BY <4>1, <5>1 DEF Members
        <5> QED BY <2>2, <4>1, <5>2
      <4> QED BY <4>1
    <3>2. lk[c[i]] = blk[c[i]]
      BY <1>2, <3>1
    <3>3. lo <= i /\ i < f => blk[c[i]].Previous = c[i + 1]
      <4>1. lo <= i /\ i < f => i \in lo..hi /\ i < k
        BY <1>1, <2>2
      <4> QED BY <4>1 DEF Chain
    <3> QED BY <3>2, <3>3
  <2> QED BY <2>1, <2>2
<1>8. lk \in [Threads -> Blocks]
  BY <1>2, <1>6
<1>9. LinkedTo(c, L, lo, f, lk)
  BY <1>6, <1>7, <1>8 DEF LinkedTo
<1>10. lo <= f /\ f <= hi
  BY <1>1
<1> QED BY <1>1, <1>9, <1>10

\* The blocks of a chain that is linked; ticket kk has a Last pointer.
Optimized(c, L, lo, f, kk) ==
  /\ blk' \in [Threads -> Blocks]
  /\ \A x \in Threads : /\ blk'[x].Next = blk[x].Next
                         /\ blk'[x].SharedOwners = blk[x].SharedOwners
                         /\ blk'[x].Spinning = blk[x].Spinning
  /\ \A i \in L : blk'[c[i]].Previous = IF lo <= i /\ i < f THEN c[i + 1]
                                        ELSE blk[c[i]].Previous
  /\ \A i \in L : blk'[c[i]].Last = IF i = f /\ kk = f THEN c[lo] ELSE blk[c[i]].Last

(* The chain after it is linked, as the optimizer leaves it (kk = f) or as *)
(* a thread does that is about to take all of it (kk = k).                 *)
LEMMA LinksShape ==
  ASSUME NEW c \in [Int -> Threads], NEW L \in SUBSET Int, NEW lo \in Int, NEW hi \in Int,
         NEW k \in Int, NEW a \in [Threads -> Int], NEW b \in [Threads -> Int],
         Shape(c, L, lo, hi, k, a, b), NEW t \in Threads,
         pc[t] \in {"optimize", "wake"}, NEW f \in Int, Starts(t, c, lo, hi, k, f),
         NEW kk \in {k, f}, Optimized(c, L, lo, f, kk),
         pc' \in [Threads -> Points], \A u \in Threads \ {t} : pc'[u] = pc[u],
         UNCHANGED <<Value, want, val>>, cur' \in [Threads -> Threads \cup {NULL}],
         \A u \in Threads \ {t} : cur'[u] = cur[u],
         \/ pc'[t] = "optimized" /\ val[t].owned
         \/ /\ pc[t] = "wake" /\ pc'[t] = "takeAll"
            /\ ~val[t].owned /\ cur'[t] = c[lo]
  PROVE  Shape(c, L, lo, hi, kk, a, b)'
PROOF
<1> USE DEF Optimized
<1>1. /\ Types /\ Owners /\ Counted(c[lo]) /\ Chain(c, lo, hi, k) /\ Intact(c, lo, hi)
      /\ Tickets(L, lo, hi, a, b) /\ Members(c, L) /\ Wakers(c, a, b)
      /\ Traversers(c, lo, hi, k) /\ Traverser(t, c, lo, hi, k) /\ Releasers(c, lo, hi)
      /\ t \notin Ex /\ t \notin Sh /\ t \notin Ls /\ Sound(Value)
  BY DEF Shape, Types, Ex, Sh, Ls, Traversers
<1>2. Value.trav /\ Value.waiters
  BY <1>1 DEF Traversers, OneTraverser, Sound, Traversal
<1>3. /\ lo <= k /\ k <= f /\ f <= hi /\ blk[c[f]].Previous = NULL /\ val[t].block = c[f]
      /\ lo <= kk /\ kk <= f
  BY <1>1, <1>2 DEF Chain, Starts
<1>4. \A i \in lo..hi : i \in L
  BY <1>1 DEF Tickets
<1>5. Owners' /\ SharedBy' = SharedBy /\ Sh' = Sh
  BY <1>1, OwnersStay
<1>6. Types'
  BY <1>1 DEF Types, Outside
<1>7. Counted(c[lo])'
  <2>1. c[lo] \in Threads
    OBVIOUS
  <2> QED BY <1>1, <1>5, <2>1 DEF Counted
<1>8. Chain(c, lo, hi, kk)'
  <2>1. lo <= hi + 1 /\ (Value'.waiters <=> lo <= hi)
    BY <1>1 DEF Chain
  <2>2. lo <= kk /\ kk <= hi /\ Value'.block = c[hi]
    BY <1>1, <1>2, <1>3 DEF Chain
  <2>3. blk'[c[hi]].Previous = NULL
    <3>1. blk[c[hi]].Previous = NULL /\ hi \in L /\ ~(hi < f)
      BY <1>1, <1>2, <1>3, <1>4 DEF Chain
    <3> QED BY <3>1
  <2>4. blk'[c[kk]].Last = c[lo]
    <3>1. kk \in L /\ blk[c[k]].Last = c[lo]
      BY <1>1, <1>2, <1>3, <1>4 DEF Chain
    <3> QED BY <3>1
  <2>5. ASSUME NEW i \in lo..hi
        PROVE  /\ i > kk => blk'[c[i]].Last = NULL /\ blk'[c[i]].Next = c[i - 1]
               /\ i < kk => blk'[c[i]].Previous = c[i + 1]
               /\ i < hi => blk'[c[i]].Previous \in {NULL, c[i + 1]}
    <3>1. /\ i > k => blk[c[i]].Last = NULL /\ blk[c[i]].Next = c[i - 1]
          /\ i < k => blk[c[i]].Previous = c[i + 1]
          /\ i < hi => blk[c[i]].Previous \in {NULL, c[i + 1]}
      BY <1>1 DEF Chain
    <3>2. i \in L /\ c[i] \in Threads
      BY <1>4
    <3>3. /\ blk'[c[i]].Previous = IF lo <= i /\ i < f THEN c[i + 1] ELSE blk[c[i]].Previous
          /\ blk'[c[i]].Last = IF i = f /\ kk = f THEN c[lo] ELSE blk[c[i]].Last
          /\ blk'[c[i]].Next = blk[c[i]].Next
      BY <3>2
    <3> QED BY <1>3, <3>1, <3>3
  <2> QED BY <2>1, <2>2, <2>3, <2>4, <2>5 DEF Chain
<1>9. Intact(c, lo, hi)'
  <2>1. ASSUME SharedBy # {}, NEW i \in lo..hi
        PROVE  /\ blk'[c[i]].Last \in {NULL, c[lo]}
               /\ i = lo => blk'[c[i]].Last = c[lo]
               /\ i > lo => blk'[c[i]].Next = c[i - 1]
    <3>1. /\ blk[c[i]].Last \in {NULL, c[lo]}
          /\ i = lo => blk[c[i]].Last = c[lo]
          /\ i > lo => blk[c[i]].Next = c[i - 1]
      BY <1>1, <2>1 DEF Intact
    <3>2. i \in L /\ c[i] \in Threads
      BY <1>4
    <3> QED BY <3>1, <3>2
  <2> QED BY <1>5, <2>1 DEF Intact
<1>10. Tickets(L, lo, hi, a, b)'
  BY <1>1 DEF Tickets
<1>11. \A u \in Threads : /\ Queued(u)' <=> Queued(u)
                          /\ pc'[u] = "keyed" <=> pc[u] = "keyed"
                          /\ pc'[u] \in Waking <=> pc[u] \in Waking
                          /\ pc[u] \in Waking => u # t
  BY DEF Queued, Waking
<1>12. Members(c, L)'
  <2>1. /\ \A i, j \in L : c[i] = c[j] => i = j
        /\ \A i \in L : Queued(c[i]) /\ (blk[c[i]].Spinning <=> pc[c[i]] # "keyed")
        /\ \A u \in Threads : (\A i \in L : c[i] # u) => pc[u] # "keyed" /\ ~blk[u].Spinning
    BY <1>1 DEF Members
  <2>2. \A i \in L : Queued(c[i])' /\ (blk'[c[i]].Spinning <=> pc'[c[i]] # "keyed")
    <3>1. ASSUME NEW i \in L
          PROVE  Queued(c[i])' /\ (blk'[c[i]].Spinning <=> pc'[c[i]] # "keyed")
      <4>1. c[i] \in Threads
        OBVIOUS
      <4> QED BY <1>11, <2>1, <4>1
    <3> QED BY <3>1
  <2>3. \A u \in Threads : (\A i \in L : c[i] # u) => pc'[u] # "keyed" /\ ~blk'[u].Spinning
    BY <1>11, <2>1
  <2> QED BY <2>1, <2>2, <2>3 DEF Members
<1>13. Wakers(c, a, b)'
  <2>1. ASSUME NEW u \in Threads
        PROVE  /\ pc'[u] \in Waking <=> a[u] <= b[u]
               /\ a[u] <= b[u] => cur'[u] = c[a[u]]
               /\ \A i \in a[u]..b[u] :
                    blk'[c[i]].Previous = IF i < b[u] THEN c[i + 1] ELSE NULL
    <3>1. /\ pc[u] \in Waking <=> a[u] <= b[u]
          /\ a[u] <= b[u] => cur[u] = c[a[u]]
          /\ \A i \in a[u]..b[u] :
               blk[c[i]].Previous = IF i < b[u] THEN c[i + 1] ELSE NULL
      BY <1>1 DEF Wakers
    <3>2. b[u] < lo /\ \A i \in a[u]..b[u] : i \in L
      BY <1>1 DEF Tickets
    <3>3. \A i \in a[u]..b[u] : i < lo /\ blk'[c[i]].Previous = blk[c[i]].Previous
      <4>1. ASSUME NEW i \in a[u]..b[u]
            PROVE  i < lo /\ blk'[c[i]].Previous = blk[c[i]].Previous
        <5>1. i \in L /\ i \in Int /\ a[u] \in Int /\ b[u] \in Int
          BY <3>2
        <5>2. i < lo /\ ~(lo <= i)
          BY <3>2, <5>1
        <5>3. blk'[c[i]].Previous = IF lo <= i /\ i < f THEN c[i + 1] ELSE blk[c[i]].Previous
          BY <5>1, Zenon
        <5> QED BY <5>2, <5>3, Zenon
      <4> QED BY <4>1
    <3> QED BY <1>11, <3>1, <3>3
  <2> QED BY <2>1 DEF Wakers
<1>14. Traversers(c, lo, hi, kk)'
  <2>1. \A u \in Threads \ {t} : pc'[u] \notin Traversal
    BY <1>1, OthersDoNot DEF Traversers, Traversal
  <2>2. Value'.trav <=> pc'[t] \in Traversal
    BY <1>2 DEF Traversal
  <2>3. Starts(t, c, lo, hi, kk, f)'
    <3>1. \A i \in lo..f : i \in L
      BY <1>3, <1>4
    <3>2. f \in kk..hi /\ val'[t].block = c[f]
      BY <1>3
    <3>3. f \in L /\ ~(f < f)
      BY <1>3, <3>1
    <3>4. blk'[c[f]].Previous = NULL
      BY <1>3, <3>3
    <3>5. \A i \in lo..f : i < f => blk'[c[i]].Previous = c[i + 1]
      BY <3>1
    <3> QED BY <3>2, <3>4, <3>5 DEF Starts
  <2>4. Traverser(t, c, lo, hi, kk)'
    BY <1>1, <1>5, <2>3 DEF Traverser, Traversal
  <2> QED BY <2>1, <2>2, <2>4, OnlyTraverser
<1>15. Releasers(c, lo, hi)'
  <2>1. Releaser(t, c, lo, hi)'
    BY DEF Releaser
  <2> QED BY <1>1, <2>1, ReleasersKept
<1>16. SeenTo(c, L)'
  BY <1>2 DEF SeenTo
<1> QED BY <1>5, <1>6, <1>7, <1>8, <1>9, <1>10, <1>12, <1>13, <1>14, <1>15, <1>16 DEF Shape

(* Optimising the list gives newer blocks a Last pointer, nothing else.    *)
LEMMA OptimizeStep ==
  ASSUME NEW c \in [Int -> Threads], NEW L \in SUBSET Int, NEW lo \in Int, NEW hi \in Int,
         NEW k \in Int, NEW a \in [Threads -> Int], NEW b \in [Threads -> Int],
         Shape(c, L, lo, hi, k, a, b), NEW t \in Threads, PhpOptimizeQueuedLockListEx(t)
  PROVE  \E kk \in Int : Shape(c, L, lo, hi, kk, a, b)'
PROOF
<1>1. /\ Types /\ Chain(c, lo, hi, k) /\ Tickets(L, lo, hi, a, b) /\ Members(c, L)
      /\ Traverser(t, c, lo, hi, k) /\ OneTraverser
      /\ pc[t] = "optimize" /\ UNCHANGED <<Value, want, val, cur>> /\ Sound(Value)
  BY DEF Shape, Types, Traversers, PhpOptimizeQueuedLockListEx
<1>2. CASE ~val[t].owned
  <2>1. pc' = [pc EXCEPT ![t] = "wake"] /\ blk' = blk
    BY <1>2 DEF PhpOptimizeQueuedLockListEx, Goto
  <2>2. /\ pc'[t] = "wake" /\ val'[t] = val[t] /\ DOMAIN val' = Threads
        /\ \A u \in Threads \ {t} : pc'[u] = pc[u] /\ val'[u] = val[u]
        /\ pc' \in [Threads -> Points] /\ UNCHANGED <<Value, blk, want, cur>>
        /\ pc[t] \in Traversal \ {"unlinked"}
    BY <1>1, <2>1 DEF Types, Points, Traversal
  <2>3. Shape(c, L, lo, hi, k, a, b)'
    BY <1>1, <1>2, <2>2, TraverserMoves
  <2> QED BY <2>3
<1>3. CASE val[t].owned
  <2>1. PICK f \in Int : Starts(t, c, lo, hi, k, f)
    BY <1>1 DEF Traverser, Traversal
  <2>2. f \in k..hi /\ val[t].block = c[f] /\ Value.waiters
    BY <1>1, <2>1 DEF Starts, OneTraverser, Sound, Traversal
  <2>3. PICK lk : lk = Linked(c[f])
    OBVIOUS
  <2>4. /\ LinkedTo(c, L, lo, f, lk) /\ PhpFindLastQueuedWaitBlock(c[f]) = c[lo]
        /\ lo <= f /\ f <= hi
    <3>1. f \in k..hi /\ Value.waiters
      BY <2>2
    <3> QED BY <1>1, <2>3, <3>1, LinkedFrom
  <2> USE DEF LinkedTo
  <2>5. blk' = [lk EXCEPT ![c[f]].Last = c[lo]] /\ pc' = [pc EXCEPT ![t] = "optimized"]
    BY <1>3, <2>2, <2>3, <2>4 DEF PhpOptimizeQueuedLockListEx, Goto
  <2>6. /\ \A x \in Threads \ {c[f]} : blk'[x] = lk[x]
        /\ blk'[c[f]] = [lk[c[f]] EXCEPT !.Last = c[lo]]
        /\ blk' = [x \in Threads |-> blk'[x]]
    BY <2>4, <2>5
  <2>7. PICK r \in Blocks : r = lk[c[f]]
    BY <2>4
  <2>8. /\ [r EXCEPT !.Last = c[lo]] \in Blocks
        /\ [r EXCEPT !.Last = c[lo]].Next = r.Next
        /\ [r EXCEPT !.Last = c[lo]].Previous = r.Previous
        /\ [r EXCEPT !.Last = c[lo]].SharedOwners = r.SharedOwners
        /\ [r EXCEPT !.Last = c[lo]].Spinning = r.Spinning
        /\ [r EXCEPT !.Last = c[lo]].Last = c[lo]
    BY DEF Blocks
  <2>9. /\ blk'[c[f]] \in Blocks /\ blk'[c[f]].Next = lk[c[f]].Next
        /\ blk'[c[f]].Previous = lk[c[f]].Previous
        /\ blk'[c[f]].SharedOwners = lk[c[f]].SharedOwners
        /\ blk'[c[f]].Spinning = lk[c[f]].Spinning
        /\ blk'[c[f]].Last = c[lo]
    BY <2>6, <2>7, <2>8
  <2> HIDE <2>3, <2>5, <2>6, <2>8
  <2>10. \A x \in Threads \ {c[f]} : blk'[x] = lk[x]
    BY <2>6
  <2>11. \A x \in Threads : /\ blk'[x] \in Blocks
                            /\ blk'[x].Next = blk[x].Next
                            /\ blk'[x].Previous = lk[x].Previous
                            /\ blk'[x].SharedOwners = blk[x].SharedOwners
                            /\ blk'[x].Spinning = blk[x].Spinning
    BY <2>4, <2>9, <2>10
  <2>12. blk' \in [Threads -> Blocks]
    BY <2>6, <2>11
  <2>13. \A i \in L : c[i] = c[f] => i = f
    <3>1. f \in L
      BY <1>1, <2>4 DEF Tickets
    <3> QED BY <1>1, <3>1 DEF Members
  <2>14. \A i \in L : blk'[c[i]].Last = IF i = f /\ f = f THEN c[lo] ELSE blk[c[i]].Last
    <3>1. ASSUME NEW i \in L
          PROVE  blk'[c[i]].Last = IF i = f /\ f = f THEN c[lo] ELSE blk[c[i]].Last
      <4>1. CASE i = f
        BY <2>9, <4>1
      <4>2. CASE i # f
        BY <2>4, <2>10, <2>13, <4>2
      <4> QED BY <4>1, <4>2
    <3> QED BY <3>1
  <2>15. \A i \in L : blk'[c[i]].Previous = IF lo <= i /\ i < f THEN c[i + 1]
                                            ELSE blk[c[i]].Previous
    BY <2>4, <2>11
  <2>16. /\ pc'[t] = "optimized" /\ \A u \in Threads \ {t} : pc'[u] = pc[u]
         /\ pc' \in [Threads -> Points] /\ cur' \in [Threads -> Threads \cup {NULL}]
    BY <1>1, <2>5 DEF Types, Points, Traversal
  <2>17. Shape(c, L, lo, hi, f, a, b)'
    <3>1. Optimized(c, L, lo, f, f)
      BY <2>11, <2>12, <2>14, <2>15 DEF Optimized
    <3> QED BY <1>1, <1>3, <2>1, <2>16, <3>1, LinksShape
  <2> QED BY <2>17
<1> QED BY <1>2, <1>3

\* The blocks once the oldest one is unlinked; lw is the oldest ticket then.
Unlinked(c, L, lo, f, lw) ==
  /\ blk' \in [Threads -> Blocks]
  /\ \A x \in Threads : blk'[x].Next = blk[x].Next /\ blk'[x].Spinning = blk[x].Spinning
  /\ \A i \in L : blk'[c[i]].Previous = IF i = lo THEN NULL
                                        ELSE IF lo <= i /\ i < f THEN c[i + 1]
                                        ELSE blk[c[i]].Previous
  /\ \A i \in L : blk'[c[i]].Last = IF i = f THEN c[lw] ELSE blk[c[i]].Last

(* The oldest waiter is unlinked: its ticket goes to the thread that will  *)
(* wake it.                                                                *)
LEMMA UnlinkShape ==
  ASSUME NEW c \in [Int -> Threads], NEW L \in SUBSET Int, NEW lo \in Int, NEW hi \in Int,
         NEW k \in Int, NEW a \in [Threads -> Int], NEW b \in [Threads -> Int],
         Shape(c, L, lo, hi, k, a, b), NEW t \in Threads,
         pc[t] = "wake", NEW f \in Int, Starts(t, c, lo, hi, k, f), lo < f,
         NEW lw \in Int, lw = lo + 1,
         Unlinked(c, L, lo, f, lw),
         pc' \in [Threads -> Points], \A u \in Threads \ {t} : pc'[u] = pc[u],
         UNCHANGED <<Value, want, val>>, cur' \in [Threads -> Threads \cup {NULL}],
         \A u \in Threads \ {t} : cur'[u] = cur[u],
         pc'[t] = "unlinked", cur'[t] = c[lo],
         NEW aa \in [Threads -> Int], NEW bb \in [Threads -> Int],
         aa[t] = lo, bb[t] = lo, \A u \in Threads \ {t} : aa[u] = a[u] /\ bb[u] = b[u]
  PROVE  Shape(c, L, lw, hi, f, aa, bb)'
PROOF
<1> USE DEF Unlinked
<1>1. /\ Types /\ Owners /\ Chain(c, lo, hi, k)
      /\ Tickets(L, lo, hi, a, b) /\ Members(c, L) /\ Wakers(c, a, b)
      /\ Traversers(c, lo, hi, k) /\ Traverser(t, c, lo, hi, k) /\ Releasers(c, lo, hi)
      /\ t \notin Ex /\ t \notin Sh /\ t \notin Ls /\ Sound(Value)
  BY DEF Shape, Types, Ex, Sh, Ls, Traversers
<1>2. Value.trav /\ Value.waiters /\ SharedBy = {}
  BY <1>1 DEF Traversers, OneTraverser, Sound, Traversal, Traverser
<1>3. /\ lo <= k /\ k <= f /\ f <= hi /\ blk[c[f]].Previous = NULL /\ val[t].block = c[f]
  BY <1>1, <1>2 DEF Chain, Starts
<1>4. \A i \in lo..hi : i \in L
  BY <1>1 DEF Tickets
<1>5. Owners' /\ SharedBy' = {} /\ Sh' = {}
  <2>1. Owners' /\ SharedBy' = SharedBy /\ Sh' = Sh
    BY <1>1, OwnersStay
  <2> QED BY <1>2, <2>1 DEF SharedBy
<1>6. Types'
  BY <1>1 DEF Types, Outside
<1>7. Counted(c[lw])' /\ Intact(c, lw, hi)'
  BY <1>5 DEF Counted, Intact
<1>8. Chain(c, lw, hi, f)'
  <2>1. /\ lw <= hi + 1 /\ lw <= hi /\ lw <= f /\ f <= hi
        /\ Value'.waiters /\ Value'.block = c[hi]
    <3>1. Value.block = c[hi]
      BY <1>1, <1>2 DEF Chain
    <3>2. lw <= hi + 1 /\ lw <= hi /\ lw <= f /\ f <= hi
      BY <1>3
    <3> QED BY <1>2, <3>1, <3>2
  <2>2. blk'[c[hi]].Previous = NULL
    <3>1. blk[c[hi]].Previous = NULL
      BY <1>1, <1>2 DEF Chain
    <3>2. hi \in lo..hi /\ ~(hi < f) /\ hi # lo
      BY <1>3
    <3>3. hi \in L
      BY <1>4, <3>2
    <3> QED BY <3>1, <3>2, <3>3
  <2>3. blk'[c[f]].Last = c[lw]
    <3>1. f \in L
      BY <1>3, <1>4
    <3> QED BY <3>1
  <2>4. ASSUME NEW i \in lw..hi
        PROVE  /\ i > f => blk'[c[i]].Last = NULL /\ blk'[c[i]].Next = c[i - 1]
               /\ i < f => blk'[c[i]].Previous = c[i + 1]
               /\ i < hi => blk'[c[i]].Previous \in {NULL, c[i + 1]}
    <3>1. i \in lo..hi /\ i # lo /\ lo <= i
      OBVIOUS
    <3>2. /\ i > k => blk[c[i]].Last = NULL /\ blk[c[i]].Next = c[i - 1]
          /\ i < hi => blk[c[i]].Previous \in {NULL, c[i + 1]}
      BY <1>1, <3>1 DEF Chain
    <3>3. i \in L /\ c[i] \in Threads
      BY <1>4, <3>1
    <3>4. /\ blk'[c[i]].Previous = IF i < f THEN c[i + 1] ELSE blk[c[i]].Previous
          /\ blk'[c[i]].Last = IF i = f THEN c[lw] ELSE blk[c[i]].Last
          /\ blk'[c[i]].Next = blk[c[i]].Next
      BY <3>1, <3>3
    <3> QED BY <1>3, <3>1, <3>2, <3>4
  <2> QED BY <2>1, <2>2, <2>3, <2>4 DEF Chain
<1>9. ~(a[t] <= b[t]) /\ \A u \in Threads : b[u] < lo /\ \A i \in a[u]..b[u] : i \in L /\ i < lo
  <2>1. ~(a[t] <= b[t])
    BY <1>1 DEF Wakers, Waking
  <2>2. ASSUME NEW u \in Threads
        PROVE  b[u] < lo /\ \A i \in a[u]..b[u] : i \in L /\ i < lo
    <3>1. b[u] < lo /\ \A i \in a[u]..b[u] : i \in L
      BY <1>1 DEF Tickets
    <3> QED BY <3>1
  <2> QED BY <2>1, <2>2
<1>10. Tickets(L, lw, hi, aa, bb)'
  <2>1. \A i \in lw..hi : i \in L
    BY <1>4
  <2>2. \A u \in Threads : bb[u] < lw /\ \A i \in aa[u]..bb[u] : i \in L
    <3>1. ASSUME NEW u \in Threads, u # t
          PROVE  bb[u] < lw /\ \A i \in aa[u]..bb[u] : i \in L
      <4>1. aa[u] = a[u] /\ bb[u] = b[u] /\ b[u] \in Int
        BY <3>1
      <4> QED BY <1>9, <4>1
    <3>2. bb[t] < lw /\ \A i \in aa[t]..bb[t] : i \in L
      <4>1. lo \in L
        BY <1>3, <1>4
      <4> QED BY <4>1
    <3> QED BY <3>1, <3>2
  <2>3. \A i \in L : i \in lw..hi \/ \E u \in Threads : i \in aa[u]..bb[u]
    <3>1. ASSUME NEW i \in L, i \notin lw..hi
          PROVE  \E u \in Threads : i \in aa[u]..bb[u]
      <4>1. CASE i = lo
        BY SMTT(30), <4>1
      <4>2. CASE i # lo
        <5>1. i \notin lo..hi
          BY <3>1, <4>2
        <5>2. PICK u \in Threads : i \in a[u]..b[u]
          BY <1>1, <5>1 DEF Tickets
        <5>3. u # t
          BY <1>9, <5>2
        <5>4. aa[u] = a[u] /\ bb[u] = b[u]
          BY <5>3
        <5> QED BY <5>2, <5>4
      <4> QED BY <4>1, <4>2
    <3> QED BY <3>1
  <2>4. \A u, v \in Threads : \A i \in aa[u]..bb[u] : i \in aa[v]..bb[v] => u = v
    <3>1. ASSUME NEW u \in Threads, NEW v \in Threads, NEW i \in aa[u]..bb[u],
                 i \in aa[v]..bb[v], u # v
          PROVE  FALSE
      <4>1. \A w \in Threads : i \in aa[w]..bb[w] => (w = t => i = lo) /\ (w # t => i < lo)
        <5>1. ASSUME NEW w \in Threads, i \in aa[w]..bb[w], w # t PROVE i < lo
          <6>1. aa[w] = a[w] /\ bb[w] = b[w]
            BY <5>1
          <6> QED BY <1>9, <5>1, <6>1
        <5>2. i \in aa[t]..bb[t] => i = lo
          OBVIOUS
        <5> QED BY <5>1, <5>2
      <4>2. u # t /\ v # t
        BY SMTT(30), <3>1, <4>1
      <4>3. i \in a[u]..b[u] /\ i \in a[v]..b[v]
        BY <3>1, <4>2
      <4> QED BY <1>1, <3>1, <4>3 DEF Tickets
    <3> QED BY <3>1
  <2> QED BY <2>1, <2>2, <2>3, <2>4 DEF Tickets
<1>11. \A u \in Threads : /\ Queued(u)' <=> Queued(u)
                          /\ pc'[u] = "keyed" <=> pc[u] = "keyed"
                          /\ u # t => (pc'[u] \in Waking <=> pc[u] \in Waking)
  BY DEF Queued, Waking
<1>12. Members(c, L)'
  <2>1. /\ \A i, j \in L : c[i] = c[j] => i = j
        /\ \A i \in L : Queued(c[i]) /\ (blk[c[i]].Spinning <=> pc[c[i]] # "keyed")
        /\ \A u \in Threads : (\A i \in L : c[i] # u) => pc[u] # "keyed" /\ ~blk[u].Spinning
    BY <1>1 DEF Members
  <2>2. \A i \in L : Queued(c[i])' /\ (blk'[c[i]].Spinning <=> pc'[c[i]] # "keyed")
    <3>1. ASSUME NEW i \in L
          PROVE  Queued(c[i])' /\ (blk'[c[i]].Spinning <=> pc'[c[i]] # "keyed")
      <4>1. c[i] \in Threads
        OBVIOUS
      <4> QED BY ZenonT(40), <1>11, <2>1, <4>1
    <3> QED BY <3>1
  <2>3. \A u \in Threads : (\A i \in L : c[i] # u) => pc'[u] # "keyed" /\ ~blk'[u].Spinning
    BY <1>11, <2>1
  <2> QED BY <2>1, <2>2, <2>3 DEF Members
<1>13. Wakers(c, aa, bb)'
  <2>1. ASSUME NEW u \in Threads, u # t
        PROVE  /\ pc'[u] \in Waking <=> aa[u] <= bb[u]
               /\ aa[u] <= bb[u] => cur'[u] = c[aa[u]]
               /\ \A i \in aa[u]..bb[u] :
                    blk'[c[i]].Previous = IF i < bb[u] THEN c[i + 1] ELSE NULL
    <3>1. /\ pc[u] \in Waking <=> a[u] <= b[u]
          /\ a[u] <= b[u] => cur[u] = c[a[u]]
          /\ \A i \in a[u]..b[u] :
               blk[c[i]].Previous = IF i < b[u] THEN c[i + 1] ELSE NULL
      BY <1>1 DEF Wakers
    <3>2. \A i \in a[u]..b[u] : blk'[c[i]].Previous = blk[c[i]].Previous
      <4>1. ASSUME NEW i \in a[u]..b[u]
            PROVE  blk'[c[i]].Previous = blk[c[i]].Previous
        <5>1. i \in L /\ ~(lo <= i) /\ i # lo
          BY <1>9
        <5>2. blk'[c[i]].Previous = IF i = lo THEN NULL
                                    ELSE IF lo <= i /\ i < f THEN c[i + 1]
                                    ELSE blk[c[i]].Previous
          BY <5>1, Zenon
        <5> QED BY <5>1, <5>2, Zenon
      <4> QED BY <4>1
    <3>3. aa[u] = a[u] /\ bb[u] = b[u] /\ cur'[u] = cur[u]
      BY <2>1
    <3> QED BY <1>11, <2>1, <3>1, <3>2, <3>3
  <2>2. /\ pc'[t] \in Waking <=> aa[t] <= bb[t]
        /\ aa[t] <= bb[t] => cur'[t] = c[aa[t]]
        /\ \A i \in aa[t]..bb[t] :
             blk'[c[i]].Previous = IF i < bb[t] THEN c[i + 1] ELSE NULL
    <3>1. blk'[c[lo]].Previous = NULL
      <4>1. lo \in L
        BY <1>3, <1>4
      <4> QED BY <4>1
    <3> QED BY <3>1 DEF Waking
  <2> QED BY <2>1, <2>2 DEF Wakers
<1>14. Traversers(c, lw, hi, f)'
  <2>1. \A u \in Threads \ {t} : pc'[u] \notin Traversal
    BY <1>1, OthersDoNot DEF Traversers, Traversal
  <2>2. Value'.trav <=> pc'[t] \in Traversal
    BY <1>2 DEF Traversal
  <2>3. Traverser(t, c, lw, hi, f)'
    BY <1>5 DEF Traverser, Traversal
  <2> QED BY <2>1, <2>2, <2>3, OnlyTraverser
<1>15. Releasers(c, lw, hi)'
  <2>1. ASSUME NEW u \in Threads PROVE Releaser(u, c, lw, hi)'
    <3>1. pc'[u] # "releaseShared"
      BY <1>5 DEF Sh
    <3>2. Releaser(u, c, lo, hi)
      BY <1>1 DEF Releasers
    <3>3. CASE u = t
      BY <3>3 DEF Releaser
    <3>4. CASE u # t
      BY <3>1, <3>2, <3>4 DEF Releaser
    <3> QED BY <3>3, <3>4
  <2> QED BY <2>1 DEF Releasers
<1>16. SeenTo(c, L)'
  BY <1>2 DEF SeenTo
<1> QED BY <1>5, <1>6, <1>7, <1>8, <1>10, <1>12, <1>13, <1>14, <1>15, <1>16 DEF Shape

(* The invariant after a step, from the tickets that show its shape.       *)
LEMMA InvFrom ==
  ASSUME NEW c \in [Int -> Threads], NEW L \in SUBSET Int, NEW lo \in Int, NEW hi \in Int,
         NEW k \in Int, NEW a \in [Threads -> Int], NEW b \in [Threads -> Int],
         Shape(c, L, lo, hi, k, a, b)'
  PROVE  QueuedLockInv'
PROOF
<1>1. \E c1 \in [Int -> Threads], L1 \in SUBSET Int, lo1, hi1, k1 \in Int,
         a1, b1 \in [Threads -> Int] : Shape(c1, L1, lo1, hi1, k1, a1, b1)'
  <2> WITNESS c \in [Int -> Threads], L \in SUBSET Int, lo \in Int, hi \in Int, k \in Int,
              a \in [Threads -> Int], b \in [Threads -> Int]
  <2> QED OBVIOUS
<1> QED BY <1>1 DEF QueuedLockInv

(* PhpPrepareToWakeQueuedLock keeps the invariant: it takes one exclusive  *)
(* waiter off the end, or makes ready to take them all.                    *)
LEMMA PrepareStep ==
  ASSUME NEW c \in [Int -> Threads], NEW L \in SUBSET Int, NEW lo \in Int, NEW hi \in Int,
         NEW k \in Int, NEW a \in [Threads -> Int], NEW b \in [Threads -> Int],
         Shape(c, L, lo, hi, k, a, b), NEW t \in Threads, PhpPrepareToWakeQueuedLock(t)
  PROVE  QueuedLockInv'
PROOF
<1>0. SUFFICES ASSUME ~val[t].owned PROVE QueuedLockInv'
  <2>1. CASE val[t].owned
    <3>1. Shape(c, L, lo, hi, k, a, b)'
      BY <2>1, ClearTraversingStep
    <3> QED BY <3>1, InvFrom
  <2> QED BY <2>1
<1>1. /\ Types /\ Chain(c, lo, hi, k) /\ Tickets(L, lo, hi, a, b) /\ Members(c, L)
      /\ Traverser(t, c, lo, hi, k) /\ OneTraverser
      /\ pc[t] = "wake" /\ UNCHANGED <<Value, want, val>> /\ Sound(Value)
  BY <1>0 DEF Shape, Types, Traversers, PhpPrepareToWakeQueuedLock
<1>2. PICK f \in Int : Starts(t, c, lo, hi, k, f)
  BY <1>1 DEF Traverser, Traversal
<1>3. /\ f \in k..hi /\ val[t].block = c[f] /\ Value.waiters
      /\ blk[c[f]].Previous = NULL
  BY <1>1, <1>2 DEF Starts, OneTraverser, Sound, Traversal
<1>4. PICK lk : lk = Linked(c[f])
  OBVIOUS
<1>5. /\ LinkedTo(c, L, lo, f, lk) /\ PhpFindLastQueuedWaitBlock(c[f]) = c[lo]
      /\ lo <= f /\ f <= hi
  <2>1. f \in k..hi /\ Value.waiters
    BY <1>3
  <2> QED BY <1>1, <1>4, <2>1, LinkedFrom
<1> USE DEF LinkedTo
<1>6. lo \in L /\ f \in L /\ (lo = f => lk[c[lo]].Previous = NULL)
      /\ (lo < f => lk[c[lo]].Previous = c[lo + 1])
  <2>1. lo \in lo..hi /\ f \in lo..hi
    BY <1>5
  <2>2. lo \in L /\ f \in L
    BY <1>1, <2>1 DEF Tickets
  <2> QED BY <1>3, <1>5, <2>2
<1>7. /\ cur' = [cur EXCEPT ![t] = c[lo]]
      /\ IF lk[c[lo]].Exclusive /\ lk[c[lo]].Previous # NULL
         THEN /\ blk' = [lk EXCEPT ![c[f]].Last = lk[c[lo]].Previous, ![c[lo]].Previous = NULL]
              /\ pc' = [pc EXCEPT ![t] = "unlinked"]
         ELSE blk' = lk /\ pc' = [pc EXCEPT ![t] = "takeAll"]
  BY ZenonT(40), <1>0, <1>1, <1>3, <1>4, <1>5 DEF PhpPrepareToWakeQueuedLock, Goto
<1>8. /\ cur'[t] = c[lo] /\ \A u \in Threads \ {t} : cur'[u] = cur[u]
      /\ cur' \in [Threads -> Threads \cup {NULL}]
  <2>1. cur' = [cur EXCEPT ![t] = c[lo]] /\ c[lo] \in Threads
    BY <1>7
  <2> QED BY <1>1, <2>1 DEF Types
<1>9. CASE ~(lk[c[lo]].Exclusive /\ lk[c[lo]].Previous # NULL)
  <2>1. blk' = lk /\ pc' = [pc EXCEPT ![t] = "takeAll"]
    BY <1>7, <1>9
  <2>2. /\ pc'[t] = "takeAll" /\ \A u \in Threads \ {t} : pc'[u] = pc[u]
        /\ pc' \in [Threads -> Points]
    BY <1>1, <2>1 DEF Types, Points, Traversal
  <2>3. \A i \in L : blk'[c[i]].Last = IF i = f /\ k = f THEN c[lo] ELSE blk[c[i]].Last
    <3>1. blk[c[k]].Last = c[lo]
      BY <1>1, <1>3 DEF Chain
    <3>2. ASSUME NEW i \in L
          PROVE  blk'[c[i]].Last = IF i = f /\ k = f THEN c[lo] ELSE blk[c[i]].Last
      <4>1. c[i] \in Threads
        OBVIOUS
      <4> QED BY <1>5, <2>1, <3>1, <4>1
    <3> QED BY <3>2
  <2>4. Optimized(c, L, lo, f, k)
    BY <1>5, <2>1, <2>3 DEF Optimized
  <2> HIDE <1>4, <1>5, <1>7, <2>1
  <2>5. k \in {k, f} /\ pc[t] \in {"optimize", "wake"}
    BY <1>1
  <2>6. Shape(c, L, lo, hi, k, a, b)'
    BY <1>0, <1>1, <1>2, <1>8, <2>2, <2>4, <2>5, LinksShape
  <2> QED BY <2>6, InvFrom
<1>10. CASE lk[c[lo]].Exclusive /\ lk[c[lo]].Previous # NULL
  <2>1. PICK lw \in Int : lw = lo + 1
    OBVIOUS
  <2>2. lo < f /\ lk[c[lo]].Previous = c[lw]
    <3>1. lo # f /\ lo <= f
      BY <1>5, <1>6, <1>10
    <3> QED BY <1>6, <2>1, <3>1
  <2>3. /\ blk' = [lk EXCEPT ![c[f]].Last = c[lw], ![c[lo]].Previous = NULL]
        /\ pc' = [pc EXCEPT ![t] = "unlinked"]
    BY <1>7, <1>10, <2>2
  <2>4. \A i \in L : (c[i] = c[f] => i = f) /\ (c[i] = c[lo] => i = lo)
    BY <1>1, <1>6 DEF Members
  <2>5. c[f] # c[lo]
    BY <1>6, <2>2, <2>4
  <2>6. /\ \A x \in Threads \ {c[f], c[lo]} : blk'[x] = lk[x]
        /\ blk'[c[f]] = [lk[c[f]] EXCEPT !.Last = c[lw]]
        /\ blk'[c[lo]] = [lk[c[lo]] EXCEPT !.Previous = NULL]
        /\ blk' = [x \in Threads |-> blk'[x]]
    BY <1>5, <2>3, <2>5
  <2>7. PICK r \in Blocks, s \in Blocks : r = lk[c[f]] /\ s = lk[c[lo]]
    BY <1>5
  <2>8. /\ [r EXCEPT !.Last = c[lw]] \in Blocks
        /\ [r EXCEPT !.Last = c[lw]].Next = r.Next
        /\ [r EXCEPT !.Last = c[lw]].Previous = r.Previous
        /\ [r EXCEPT !.Last = c[lw]].Spinning = r.Spinning
        /\ [r EXCEPT !.Last = c[lw]].Last = c[lw]
        /\ [s EXCEPT !.Previous = NULL] \in Blocks
        /\ [s EXCEPT !.Previous = NULL].Next = s.Next
        /\ [s EXCEPT !.Previous = NULL].Last = s.Last
        /\ [s EXCEPT !.Previous = NULL].Spinning = s.Spinning
        /\ [s EXCEPT !.Previous = NULL].Previous = NULL
    BY DEF Blocks
  <2>9. /\ blk'[c[f]] \in Blocks /\ blk'[c[f]].Next = lk[c[f]].Next
        /\ blk'[c[f]].Previous = lk[c[f]].Previous
        /\ blk'[c[f]].Spinning = lk[c[f]].Spinning
        /\ blk'[c[f]].Last = c[lw]
        /\ blk'[c[lo]] \in Blocks /\ blk'[c[lo]].Next = lk[c[lo]].Next
        /\ blk'[c[lo]].Previous = NULL
        /\ blk'[c[lo]].Spinning = lk[c[lo]].Spinning
        /\ blk'[c[lo]].Last = lk[c[lo]].Last
    BY <2>6, <2>7, <2>8
  <2> HIDE <1>4, <1>7, <2>3, <2>6, <2>8
  <2>10. \A x \in Threads \ {c[f], c[lo]} : blk'[x] = lk[x]
    BY <2>6
  <2>11. \A x \in Threads : /\ blk'[x] \in Blocks
                            /\ blk'[x].Next = blk[x].Next
                            /\ blk'[x].Spinning = blk[x].Spinning
    <3>1. ASSUME NEW x \in Threads
          PROVE  /\ blk'[x] \in Blocks
                 /\ blk'[x].Next = blk[x].Next /\ blk'[x].Spinning = blk[x].Spinning
      <4>1. /\ lk[x] \in Blocks
            /\ lk[x].Next = blk[x].Next /\ lk[x].Spinning = blk[x].Spinning
        BY <1>5
      <4>2. CASE x = c[f]
        BY <2>9, <4>1, <4>2
      <4>3. CASE x = c[lo]
        BY <2>9, <4>1, <4>3
      <4>4. CASE x # c[f] /\ x # c[lo]
        BY <2>10, <4>1, <4>4
      <4> QED BY <4>2, <4>3, <4>4
    <3> QED BY <3>1
  <2>12. blk' \in [Threads -> Blocks]
    BY <2>6, <2>11
  <2>13. ASSUME NEW i \in L
         PROVE  /\ blk'[c[i]].Last = IF i = f THEN c[lw] ELSE blk[c[i]].Last
                /\ blk'[c[i]].Previous = IF i = lo THEN NULL
                                         ELSE IF lo <= i /\ i < f THEN c[i + 1]
                                         ELSE blk[c[i]].Previous
    <3>1. /\ lk[c[i]].Previous = IF lo <= i /\ i < f THEN c[i + 1] ELSE blk[c[i]].Previous
          /\ lk[c[i]].Last = blk[c[i]].Last
      BY <1>5
    <3>2. CASE i = f
      BY <2>2, <2>9, <3>1, <3>2
    <3>3. CASE i = lo
      BY <2>2, <2>9, <3>1, <3>3
    <3>4. CASE i # f /\ i # lo
      <4>1. blk'[c[i]] = lk[c[i]]
        BY <2>4, <2>10, <3>4
      <4> QED BY <3>1, <3>4, <4>1
    <3> QED BY <3>2, <3>3, <3>4
  <2>14. /\ pc'[t] = "unlinked" /\ \A u \in Threads \ {t} : pc'[u] = pc[u]
         /\ pc' \in [Threads -> Points]
    BY <1>1, <2>3 DEF Types, Points, Traversal
  <2>15. PICK aa \in [Threads -> Int], bb \in [Threads -> Int] :
           aa[t] = lo /\ bb[t] = lo /\ \A u \in Threads \ {t} : aa[u] = a[u] /\ bb[u] = b[u]
    <3>1. /\ [a EXCEPT ![t] = lo] \in [Threads -> Int] /\ [a EXCEPT ![t] = lo][t] = lo
          /\ [b EXCEPT ![t] = lo] \in [Threads -> Int] /\ [b EXCEPT ![t] = lo][t] = lo
          /\ \A u \in Threads \ {t} : /\ [a EXCEPT ![t] = lo][u] = a[u]
                                      /\ [b EXCEPT ![t] = lo][u] = b[u]
      OBVIOUS
    <3> QED BY ZenonT(40), <3>1
  <2>16. Shape(c, L, lw, hi, f, aa, bb)'
    <3>1. Unlinked(c, L, lo, f, lw)
      BY <2>11, <2>12, <2>13 DEF Unlinked
    <3> HIDE <1>5, <1>6, <2>9, <2>13
    <3> QED BY <1>0, <1>1, <1>2, <1>8, <2>1, <2>2, <2>14, <2>15, <3>1, UnlinkShape
  <2> QED BY <2>16, InvFrom
<1> QED BY <1>9, <1>10

(* All of the chain is taken: its tickets go to the thread that will wake  *)
(* them.                                                                   *)
LEMMA TakeAllStep ==
  ASSUME NEW c \in [Int -> Threads], NEW L \in SUBSET Int, NEW lo \in Int, NEW hi \in Int,
         NEW k \in Int, NEW a \in [Threads -> Int], NEW b \in [Threads -> Int],
         Shape(c, L, lo, hi, k, a, b), NEW t \in Threads, TakeAll(t)
  PROVE  QueuedLockInv'
PROOF
<1>1. /\ Types /\ Owners /\ Chain(c, lo, hi, k)
      /\ Tickets(L, lo, hi, a, b) /\ Members(c, L) /\ Wakers(c, a, b)
      /\ Traversers(c, lo, hi, k) /\ Traverser(t, c, lo, hi, k) /\ Releasers(c, lo, hi)
      /\ pc[t] = "takeAll" /\ UNCHANGED <<blk, want, cur>> /\ Sound(Value) /\ Sound(Free)
      /\ t \notin Ex /\ t \notin Sh /\ t \notin Ls
  BY FreeIsSound DEF Shape, Types, Ex, Sh, Ls, Traversers, TakeAll
<1>2. Value.trav /\ Value.waiters /\ SharedBy = {}
  BY <1>1 DEF Traversers, OneTraverser, Sound, Traversal, Traverser
<1>3. CASE Value # val[t]
  <2>1. pc' = [pc EXCEPT ![t] = "wake"] /\ val' = [val EXCEPT ![t] = Value] /\ Value' = Value
    BY <1>3 DEF TakeAll, CompareExchange, Goto, GoBy
  <2>2. /\ pc'[t] = "wake" /\ val'[t] = Value /\ DOMAIN val' = Threads
        /\ \A u \in Threads \ {t} : pc'[u] = pc[u] /\ val'[u] = val[u]
        /\ pc' \in [Threads -> Points] /\ UNCHANGED <<Value, blk, want, cur>>
        /\ pc[t] \in Traversal \ {"unlinked"}
    BY <1>1, <2>1 DEF Types, Points, Traversal
  <2>3. Shape(c, L, lo, hi, k, a, b)'
    BY <1>1, <2>2, TraverserMoves
  <2> QED BY <2>3, InvFrom
<1>4. CASE Value = val[t]
  <2>1. pc' = [pc EXCEPT ![t] = "unblock"] /\ val' = [val EXCEPT ![t] = Free] /\ Value' = Free
    BY <1>4 DEF TakeAll, CompareExchange, Goto, GoBy
  <2>2. /\ pc'[t] = "unblock" /\ val'[t] = Free /\ DOMAIN val' = Threads
        /\ \A u \in Threads \ {t} : pc'[u] = pc[u] /\ val'[u] = val[u]
        /\ pc' \in [Threads -> Points] /\ UNCHANGED <<blk, want, cur>>
    BY <1>1, <2>1 DEF Types, Points, Waking
  <2>3. /\ ~Value'.owned /\ ~Value'.waiters /\ ~Value'.trav /\ ~Value'.multi
        /\ Value'.shared = 0 /\ Value'.block = NULL
    BY <2>1 DEF Free
  <2>4. /\ cur[t] = c[lo] /\ blk[c[hi]].Previous = NULL /\ lo <= hi
        /\ \A i \in lo..hi : i < hi => blk[c[i]].Previous = c[i + 1]
    <3>1. PICK f \in Int : Starts(t, c, lo, hi, k, f)
      BY <1>1 DEF Traverser, Traversal
    <3>2. /\ f \in k..hi /\ val[t].block = c[f] /\ blk[c[f]].Previous = NULL
          /\ \A i \in lo..f : i < f => blk[c[i]].Previous = c[i + 1]
      BY <1>1, <3>1 DEF Starts
    <3>3. lo <= k /\ k <= hi /\ Value.block = c[hi]
      BY <1>1, <1>2 DEF Chain
    <3>4. f = hi
      <4>1. f \in lo..hi /\ hi \in lo..hi
        BY <3>2, <3>3
      <4>2. f \in L /\ hi \in L
        BY <1>1, <4>1 DEF Tickets
      <4>3. c[f] = c[hi]
        BY <1>4, <3>2, <3>3
      <4> QED BY <1>1, <4>2, <4>3 DEF Members
    <3>5. cur[t] = c[lo]
      BY <1>1 DEF Traverser
    <3> QED BY <3>2, <3>3, <3>4, <3>5
  <2>5. PICK lw \in Int : lw = hi + 1
    OBVIOUS
  <2>6. PICK aa \in [Threads -> Int], bb \in [Threads -> Int] :
          aa[t] = lo /\ bb[t] = hi /\ \A u \in Threads \ {t} : aa[u] = a[u] /\ bb[u] = b[u]
    <3>1. /\ [a EXCEPT ![t] = lo] \in [Threads -> Int] /\ [a EXCEPT ![t] = lo][t] = lo
          /\ [b EXCEPT ![t] = hi] \in [Threads -> Int] /\ [b EXCEPT ![t] = hi][t] = hi
          /\ \A u \in Threads \ {t} : /\ [a EXCEPT ![t] = lo][u] = a[u]
                                      /\ [b EXCEPT ![t] = hi][u] = b[u]
      OBVIOUS
    <3> QED BY <3>1
  <2> HIDE <2>1
  <2>7. /\ Ex = {} /\ Sh = {} /\ Ls = {}
    <3>1. ~val[t].owned
      BY <1>1 DEF Traverser
    <3>2. Ex \cup SharedBy = {}
      BY <1>1, <1>4, <3>1 DEF Owners
    <3> QED BY <3>2 DEF SharedBy
  <2>8. Ex' = {} /\ Sh' = {} /\ Ls' = {} /\ SharedBy' = {}
    BY <2>2, <2>7, OwnersMove
  <2>9. Owners'
    <3>1. Cardinality({}) = 0
      BY FS_EmptySet
    <3> QED BY <2>3, <2>8, <3>1 DEF Owners
  <2>10. Types'
    <3>1. Sound(Value') /\ \A u \in Threads : Sound(val'[u])
      BY <1>1, <2>1, <2>2 DEF Types
    <3> QED BY <1>1, <2>2, <3>1 DEF Types, Outside
  <2>11. Counted(c[lw])' /\ Intact(c, lw, hi)' /\ SeenTo(c, L)'
    BY <2>3, <2>8 DEF Counted, Intact, SeenTo
  <2>12. Chain(c, lw, hi, k)'
    <3>1. lw <= hi + 1 /\ ~(lw <= hi) /\ \A i \in lw..hi : FALSE
      BY <2>5
    <3> QED BY <2>3, <3>1 DEF Chain
  <2>13. ~(a[t] <= b[t]) /\ \A u \in Threads : b[u] < lo
    BY <1>1 DEF Wakers, Waking, Tickets
  <2>14. Tickets(L, lw, hi, aa, bb)'
    <3>1. \A i \in lw..hi : i \in L
      BY <2>5
    <3>2. \A u \in Threads : bb[u] < lw /\ \A i \in aa[u]..bb[u] : i \in L
      <4>1. ASSUME NEW u \in Threads, u # t
            PROVE  bb[u] < lw /\ \A i \in aa[u]..bb[u] : i \in L
        <5>1. aa[u] = a[u] /\ bb[u] = b[u] /\ b[u] \in Int /\ b[u] < lo
          BY <2>6, <2>13, <4>1
        <5>2. \A i \in a[u]..b[u] : i \in L
          BY <1>1 DEF Tickets
        <5> QED BY <2>4, <2>5, <5>1, <5>2
      <4>2. bb[t] < lw /\ \A i \in aa[t]..bb[t] : i \in L
        BY <1>1, <2>5, <2>6 DEF Tickets
      <4> QED BY <4>1, <4>2
    <3>3. \A i \in L : i \in lw..hi \/ \E u \in Threads : i \in aa[u]..bb[u]
      <4>1. ASSUME NEW i \in L PROVE \E u \in Threads : i \in aa[u]..bb[u]
        <5>1. CASE i \in lo..hi
          BY <2>6, <5>1
        <5>2. CASE i \notin lo..hi
          <6>1. PICK u \in Threads : i \in a[u]..b[u]
            BY <1>1, <5>2 DEF Tickets
          <6>2. u # t
            BY <2>13, <6>1
          <6> QED BY <2>6, <6>1, <6>2
        <5> QED BY <5>1, <5>2
      <4> QED BY <4>1
    <3>4. \A u, v \in Threads : \A i \in aa[u]..bb[u] : i \in aa[v]..bb[v] => u = v
      <4>1. ASSUME NEW u \in Threads, NEW v \in Threads, NEW i \in aa[u]..bb[u],
                   i \in aa[v]..bb[v], u # v
            PROVE  FALSE
        <5>1. \A w \in Threads : i \in aa[w]..bb[w] => (w = t => lo <= i) /\ (w # t => i < lo)
          <6>1. ASSUME NEW w \in Threads, i \in aa[w]..bb[w], w # t PROVE i < lo
            <7>1. aa[w] = a[w] /\ bb[w] = b[w] /\ b[w] \in Int /\ b[w] < lo
              BY <2>6, <2>13, <6>1
            <7> QED BY <6>1, <7>1
          <6>2. i \in aa[t]..bb[t] => lo <= i
            BY <2>6
          <6> QED BY <6>1, <6>2
        <5>2. u # t /\ v # t
          BY <4>1, <5>1
        <5>3. i \in a[u]..b[u] /\ i \in a[v]..b[v]
          BY <2>6, <4>1, <5>2
        <5> QED BY <1>1, <4>1, <5>3 DEF Tickets
      <4> QED BY <4>1
    <3> QED BY <3>1, <3>2, <3>3, <3>4 DEF Tickets
  <2>15. \A u \in Threads : /\ Queued(u)' <=> Queued(u)
                            /\ pc'[u] = "keyed" <=> pc[u] = "keyed"
                            /\ u # t => (pc'[u] \in Waking <=> pc[u] \in Waking)
    BY <1>1, <2>2 DEF Queued, Waking
  <2>16. Members(c, L)'
    <3>1. \A i \in L : c[i] \in Threads
      OBVIOUS
    <3>2. \A i \in L : Queued(c[i])' /\ (blk'[c[i]].Spinning <=> pc'[c[i]] # "keyed")
      BY <1>1, <2>2, <2>15, <3>1 DEF Members
    <3>3. ASSUME NEW u \in Threads, \A i \in L : c[i] # u
          PROVE  pc'[u] # "keyed" /\ ~blk'[u].Spinning
      <4>1. pc[u] # "keyed" /\ ~blk[u].Spinning
        BY <1>1, <3>3 DEF Members
      <4> QED BY <2>2, <2>15, <4>1
    <3>4. \A i, j \in L : c[i] = c[j] => i = j
      BY <1>1 DEF Members
    <3> QED BY <3>2, <3>3, <3>4 DEF Members
  <2>17. Wakers(c, aa, bb)'
    <3>1. ASSUME NEW u \in Threads, u # t
          PROVE  /\ pc'[u] \in Waking <=> aa[u] <= bb[u]
                 /\ aa[u] <= bb[u] => cur'[u] = c[aa[u]]
                 /\ \A i \in aa[u]..bb[u] :
                      blk'[c[i]].Previous = IF i < bb[u] THEN c[i + 1] ELSE NULL
      <4>1. /\ pc[u] \in Waking <=> a[u] <= b[u]
            /\ a[u] <= b[u] => cur[u] = c[a[u]]
            /\ \A i \in a[u]..b[u] :
                 blk[c[i]].Previous = IF i < b[u] THEN c[i + 1] ELSE NULL
        BY <1>1 DEF Wakers
      <4>2. aa[u] = a[u] /\ bb[u] = b[u]
        BY <2>6, <3>1
      <4> QED BY <2>2, <2>15, <3>1, <4>1, <4>2
    <3>2. /\ pc'[t] \in Waking <=> aa[t] <= bb[t]
          /\ aa[t] <= bb[t] => cur'[t] = c[aa[t]]
          /\ \A i \in aa[t]..bb[t] :
               blk'[c[i]].Previous = IF i < bb[t] THEN c[i + 1] ELSE NULL
      <4>1. ASSUME NEW i \in lo..hi
            PROVE  blk[c[i]].Previous = IF i < hi THEN c[i + 1] ELSE NULL
        <5>1. CASE i < hi
          BY <2>4, <5>1
        <5>2. CASE ~(i < hi)
          <6>1. i = hi
            BY <5>2
          <6> QED BY <2>4, <5>2, <6>1
        <5> QED BY <5>1, <5>2
      <4>2. pc'[t] \in Waking <=> aa[t] <= bb[t]
        BY <2>2, <2>4, <2>6 DEF Waking
      <4>3. cur'[t] = c[aa[t]]
        BY <2>2, <2>4, <2>6
      <4> QED BY <2>2, <2>6, <4>1, <4>2, <4>3
    <3> QED BY <3>1, <3>2 DEF Wakers
  <2>18. Traversers(c, lw, hi, k)'
    <3>1. \A u \in Threads \ {t} : pc'[u] \notin Traversal
      BY <1>1, <2>2, OthersDoNot DEF Traversers, Traversal
    <3>2. Value'.trav <=> pc'[t] \in Traversal
      BY <2>2, <2>3 DEF Traversal
    <3>3. Traverser(t, c, lw, hi, k)'
      BY <2>2 DEF Traverser, Traversal
    <3> QED BY <3>1, <3>2, <3>3, OnlyTraverser
  <2>19. Releasers(c, lw, hi)'
    <3>1. ASSUME NEW u \in Threads PROVE Releaser(u, c, lw, hi)'
      <4>1. pc'[u] # "releaseShared"
        BY <2>8 DEF Sh
      <4>2. Releaser(u, c, lo, hi)
        BY <1>1 DEF Releasers
      <4>3. CASE u = t
        BY <2>2, <4>3 DEF Releaser
      <4>4. CASE u # t
        BY <2>2, <4>1, <4>2, <4>4 DEF Releaser
      <4> QED BY <4>3, <4>4
    <3> QED BY <3>1 DEF Releasers
  <2>20. Shape(c, L, lw, hi, k, aa, bb)'
    BY <2>9, <2>10, <2>11, <2>12, <2>14, <2>16, <2>17, <2>18, <2>19 DEF Shape
  <2> QED BY <2>20, InvFrom
<1> QED BY <1>3, <1>4
-----------------------------------------------------------------------------
(* Waking.                                                                 *)

(* The ticket after j is the first one above it.                           *)
LEMMA NextTicket ==
  ASSUME NEW i \in Int, NEW j \in Int, NEW n \in Int, n = j + 1, j <= i, i # j
  PROVE  n <= i
  OBVIOUS

(* The next ticket a thread has to wake is dropped: the thread that drew   *)
(* it will read the lock again, and so sees to the waiters.                *)
LEMMA TicketDropped ==
  ASSUME NEW c \in [Int -> Threads], NEW L \in SUBSET Int, NEW lo \in Int, NEW hi \in Int,
         NEW k \in Int, NEW a \in [Threads -> Int], NEW b \in [Threads -> Int],
         Shape(c, L, lo, hi, k, a, b), NEW t \in Threads, pc[t] \in {"unblock", "release"},
         NEW x \in Threads, x = cur[t],
         pc' \in [Threads -> Points], blk' \in [Threads -> Blocks], ~blk'[x].Spinning,
         \A u \in Threads \ {x} : blk'[u] = blk[u],
         \A u \in Threads \ {t} : pc'[u] = IF u = x /\ pc[u] = "keyed" THEN "read" ELSE pc[u],
         pc'[t] = IF blk[x].Previous = NULL THEN After(t) ELSE "unblock",
         cur' = [cur EXCEPT ![t] = blk[x].Previous], UNCHANGED <<Value, want, val>>
  PROVE  QueuedLockInv'
PROOF
<1>1. /\ Types /\ Owners /\ Counted(c[lo]) /\ Chain(c, lo, hi, k) /\ Intact(c, lo, hi)
      /\ Tickets(L, lo, hi, a, b) /\ Members(c, L) /\ Wakers(c, a, b)
      /\ Traversers(c, lo, hi, k) /\ Releasers(c, lo, hi)
  BY DEF Shape
<1>2. PICK j \in Int : j = a[t]
  OBVIOUS
<1>3. /\ j <= b[t] /\ x = c[j] /\ j < lo /\ j \in L /\ j \in a[t]..b[t]
      /\ blk[x].Previous = IF j < b[t] THEN c[j + 1] ELSE NULL
  <2>1. j <= b[t] /\ x = c[j]
    BY <1>1, <1>2 DEF Wakers, Waking
  <2>2. j \in a[t]..b[t] /\ b[t] < lo
    BY <1>1, <1>2, <2>1 DEF Tickets
  <2>3. j \in L
    BY <1>1, <2>2 DEF Tickets
  <2>4. blk[x].Previous = IF j < b[t] THEN c[j + 1] ELSE NULL
    BY <1>1, <2>1, <2>2 DEF Wakers
  <2> QED BY <2>1, <2>2, <2>3, <2>4
<1>4. Queued(x) /\ want[x] # NULL
  BY <1>1, <1>3 DEF Members, Queued
<1>5. \A i \in L : i # j => c[i] # x /\ blk'[c[i]] = blk[c[i]]
  <2>1. ASSUME NEW i \in L, i # j PROVE c[i] # x
    BY <1>1, <1>3, <2>1 DEF Members
  <2>2. \A i \in L : c[i] \in Threads
    OBVIOUS
  <2> QED BY <2>1, <2>2
<1>6. \A i \in lo..hi : i \in L /\ i # j /\ blk'[c[i]] = blk[c[i]]
  <2>1. \A i \in lo..hi : i \in L /\ i # j
    BY <1>1, <1>3 DEF Tickets
  <2> QED BY <1>5, <2>1
<1>7. PICK jn \in Int : jn = j + 1
  OBVIOUS
<1>8. PICK aa \in [Threads -> Int] :
        aa[t] = jn /\ \A u \in Threads \ {t} : aa[u] = a[u]
  <2>1. /\ [a EXCEPT ![t] = jn] \in [Threads -> Int] /\ [a EXCEPT ![t] = jn][t] = jn
        /\ \A u \in Threads \ {t} : [a EXCEPT ![t] = jn][u] = a[u]
    OBVIOUS
  <2> QED BY <2>1
<1>9. PICK M \in SUBSET Int : M = L \ {j}
  OBVIOUS
<1>10. /\ pc'[t] \in {"idle", "block", "unblock"} /\ (pc'[t] = "idle" => want[t] = NULL)
       /\ (pc'[t] = "block" => want[t] # NULL)
       /\ (pc'[t] = "unblock" <=> j < b[t])
  <2>1. j < b[t] => c[j + 1] \in Threads /\ c[j + 1] # NULL
    BY QueuedLockAssumption
  <2> QED BY <1>3, <2>1 DEF After
<1>11. \A u \in Threads :
         /\ pc'[u] = pc[u] \/ (pc[u] = "keyed" /\ pc'[u] = "read" /\ u = x) \/ u = t
         /\ u # x => (Queued(u) => Queued(u)')
         /\ pc'[u] = "keyed" <=> pc[u] = "keyed" /\ u # x
  BY <1>3, <1>4, <1>10 DEF Queued
<1>12. /\ Ex' = Ex /\ Sh' = Sh /\ Ls' = Ls /\ SharedBy' = SharedBy
       /\ \A u \in Threads : pc'[u] \in Traversal <=> pc[u] \in Traversal
  <2>1. \A u \in Threads :
          /\ pc'[u] \in {"exclusive", "releaseExclusive"} <=> pc[u] \in {"exclusive", "releaseExclusive"}
          /\ pc'[u] \in {"shared", "releaseShared"} <=> pc[u] \in {"shared", "releaseShared"}
          /\ pc'[u] = "lastShared" <=> pc[u] = "lastShared"
          /\ pc'[u] \in Traversal <=> pc[u] \in Traversal
    BY <1>10, <1>11 DEF Traversal
  <2>2. Ex' = Ex /\ Sh' = Sh /\ Ls' = Ls
    BY <2>1 DEF Ex, Sh, Ls
  <2> QED BY <2>1, <2>2 DEF SharedBy
<1>13. Types'
  <2>1. cur' \in [Threads -> Threads \cup {NULL}]
    BY <1>1 DEF Types, Blocks
  <2>2. ASSUME NEW u \in Threads
        PROVE  /\ pc'[u] \in Outside => want'[u] = NULL
               /\ pc'[u] \in {"read", "try", "block", "keyed"} => want'[u] # NULL
    <3>1. CASE u = t
      BY <1>10, <3>1 DEF Outside
    <3>2. CASE u # t /\ pc'[u] = "read" /\ u = x
      BY <1>4, <3>2 DEF Outside
    <3>3. CASE pc'[u] = pc[u]
      BY <1>1, <3>3 DEF Types
    <3> QED BY <1>11, <3>1, <3>2, <3>3
  <2> QED BY <1>1, <2>1, <2>2 DEF Types
<1>14. Owners'
  BY <1>1, <1>12 DEF Owners
<1>15. Counted(c[lo])'
  <2>1. Value.waiters => lo \in lo..hi
    BY <1>1 DEF Chain
  <2> QED BY <1>1, <1>6, <1>12, <2>1 DEF Counted
<1>16. Chain(c, lo, hi, k)'
  <2>1. Value.waiters => hi \in lo..hi /\ k \in lo..hi
    BY <1>1 DEF Chain
  <2> QED BY SMTT(30), <1>1, <1>6, <2>1 DEF Chain
<1>17. Intact(c, lo, hi)'
  BY <1>1, <1>6, <1>12 DEF Intact
<1>18. Tickets(M, lo, hi, aa, b)'
  <2>1. \A i \in lo..hi : i \in M
    BY <1>6, <1>9
  <2>2. \A u \in Threads : b[u] < lo /\ \A i \in aa[u]..b[u] : i \in M
    <3>1. ASSUME NEW u \in Threads, NEW i \in aa[u]..b[u] PROVE i \in M
      <4>1. i \in a[u]..b[u]
        BY <1>2, <1>7, <1>8, <3>1
      <4>2. i # j
        <5>1. CASE u = t
          BY <1>7, <1>8, <3>1, <5>1
        <5>2. CASE u # t
          BY <1>1, <1>3, <4>1, <5>2 DEF Tickets
        <5> QED BY <5>1, <5>2
      <4>3. i \in L
        BY <1>1, <4>1 DEF Tickets
      <4> QED BY <1>9, <4>2, <4>3
    <3> QED BY <1>1, <3>1 DEF Tickets
  <2>3. \A i \in M : i \in lo..hi \/ \E u \in Threads : i \in aa[u]..b[u]
    <3>1. ASSUME NEW i \in M, i \notin lo..hi PROVE \E u \in Threads : i \in aa[u]..b[u]
      <4>1. i \in L /\ i # j
        BY <1>9
      <4>2. PICK u \in Threads : i \in a[u]..b[u]
        BY <1>1, <3>1, <4>1 DEF Tickets
      <4>3. i \in aa[u]..b[u]
        <5>1. CASE u = t
          <6>1. i \in Int /\ j <= i /\ i <= b[t]
            BY <1>2, <4>2, <5>1
          <6>2. jn <= i
            BY <1>7, <4>1, <6>1, NextTicket
          <6> QED BY <1>8, <5>1, <6>1, <6>2
        <5>2. CASE u # t
          BY <1>8, <4>2, <5>2
        <5> QED BY <5>1, <5>2
      <4> QED BY <4>3
    <3> QED BY <3>1
  <2>4. \A u, v \in Threads : \A i \in aa[u]..b[u] : i \in aa[v]..b[v] => u = v
    <3>1. \A u \in Threads : \A i \in aa[u]..b[u] : i \in a[u]..b[u]
      <4>1. ASSUME NEW u \in Threads, NEW i \in aa[u]..b[u] PROVE i \in a[u]..b[u]
        <5>1. CASE u = t
          BY <1>2, <1>7, <1>8, <5>1, <4>1
        <5>2. CASE u # t
          BY <1>8, <4>1, <5>2
        <5> QED BY <5>1, <5>2
      <4> QED BY <4>1
    <3> QED BY <1>1, <3>1 DEF Tickets
  <2> QED BY <2>1, <2>2, <2>3, <2>4 DEF Tickets
<1>19. Members(c, M)'
  <2>1. \A i, j1 \in M : c[i] = c[j1] => i = j1
    BY <1>1, <1>9 DEF Members
  <2>2. ASSUME NEW i \in M
        PROVE  Queued(c[i])' /\ (blk'[c[i]].Spinning <=> pc'[c[i]] # "keyed")
    <3>1. i \in L /\ c[i] # x /\ blk'[c[i]] = blk[c[i]] /\ c[i] \in Threads
      BY <1>5, <1>9
    <3>2. Queued(c[i]) /\ (blk[c[i]].Spinning <=> pc[c[i]] # "keyed")
      BY <1>1, <3>1 DEF Members
    <3> QED BY <1>11, <3>1, <3>2
  <2>3. ASSUME NEW u \in Threads, \A i \in M : c[i] # u
        PROVE  pc'[u] # "keyed" /\ ~blk'[u].Spinning
    <3>1. CASE u = x
      BY <1>11, <3>1
    <3>2. CASE u # x
      <4>1. \A i \in L : c[i] # u
        BY <1>3, <1>9, <2>3, <3>2
      <4>2. pc[u] # "keyed" /\ ~blk[u].Spinning
        BY <1>1, <4>1 DEF Members
      <4> QED BY <1>11, <3>2, <4>2
    <3> QED BY <3>1, <3>2
  <2> QED BY <2>1, <2>2, <2>3 DEF Members
<1>20. Wakers(c, aa, b)'
  <2>1. ASSUME NEW u \in Threads, NEW i \in aa[u]..b[u]
        PROVE  blk'[c[i]].Previous = IF i < b[u] THEN c[i + 1] ELSE NULL
    <3>1. i \in M
      BY <1>18 DEF Tickets
    <3>2. i \in L /\ blk'[c[i]] = blk[c[i]]
      BY <1>5, <1>9, <3>1
    <3>3. i \in a[u]..b[u]
      <4>1. CASE u = t
        BY <1>2, <1>7, <1>8, <2>1, <4>1
      <4>2. CASE u # t
        BY <1>8, <2>1, <4>2
      <4> QED BY <4>1, <4>2
    <3>4. blk[c[i]].Previous = IF i < b[u] THEN c[i + 1] ELSE NULL
      BY <1>1, <3>3 DEF Wakers
    <3> QED BY <3>2, <3>4
  <2>2. ASSUME NEW u \in Threads
        PROVE  (pc'[u] \in Waking <=> aa[u] <= b[u]) /\ (aa[u] <= b[u] => cur'[u] = c[aa[u]])
    <3>1. CASE u = t
      <4>1. aa[t] <= b[t] <=> j < b[t]
        BY <1>7, <1>8
      <4>2. pc'[t] \in Waking <=> j < b[t]
        BY <1>10 DEF Waking
      <4>3. cur'[t] = blk[x].Previous
        BY <1>1 DEF Types
      <4> QED BY <1>3, <1>7, <1>8, <3>1, <4>1, <4>2, <4>3
    <3>2. CASE u # t
      <4>1. cur'[u] = cur[u] /\ aa[u] = a[u]
        BY <1>1, <1>8, <3>2 DEF Types
      <4>2. pc'[u] \in Waking <=> pc[u] \in Waking
        BY <1>11, <3>2 DEF Waking
      <4>3. (pc[u] \in Waking <=> a[u] <= b[u]) /\ (a[u] <= b[u] => cur[u] = c[a[u]])
        BY <1>1 DEF Wakers
      <4> QED BY <4>1, <4>2, <4>3
    <3> QED BY <3>1, <3>2
  <2> QED BY <2>1, <2>2 DEF Wakers
<1>21. Traversers(c, lo, hi, k)'
  <2>1. OneTraverser'
    BY <1>1, <1>12 DEF Traversers, OneTraverser
  <2>2. ASSUME NEW u \in Threads PROVE Traverser(u, c, lo, hi, k)'
    <3>1. CASE pc[u] \notin Traversal
      <4>1. pc'[u] \notin Traversal
        BY <1>12, <3>1
      <4> QED BY <4>1 DEF Traverser, Traversal
    <3>2. CASE pc[u] \in Traversal
      <4>1. u # t /\ pc'[u] = pc[u] /\ val'[u] = val[u] /\ cur'[u] = cur[u]
        <5>1. u # t /\ pc[u] # "keyed"
          BY <3>2 DEF Traversal
        <5> QED BY <1>1, <1>11, <5>1 DEF Types
      <4>2. Traverser(u, c, lo, hi, k)
        BY <1>1 DEF Traversers
      <4>3. Value.trav /\ Value.waiters
        BY <1>1, <3>2 DEF Traversers, OneTraverser, Types, Sound
      <4>4. ASSUME NEW f \in Int, Starts(u, c, lo, hi, k, f)
            PROVE  Starts(u, c, lo, hi, k, f)'
        <5>1. f \in lo..hi
          BY <1>1, <4>3, <4>4 DEF Starts, Chain
        <5>2. blk'[c[f]] = blk[c[f]] /\ \A i \in lo..f : blk'[c[i]] = blk[c[i]]
          BY <1>6, <5>1
        <5> QED BY <4>1, <4>4, <5>2 DEF Starts
      <4> QED BY <1>12, <4>1, <4>2, <4>4 DEF Traverser, Traversal
    <3> QED BY <3>1, <3>2
  <2> QED BY <2>1, <2>2 DEF Traversers
<1>22. Releasers(c, lo, hi)'
  <2>1. ASSUME NEW u \in Threads PROVE Releaser(u, c, lo, hi)'
    <3>1. Releaser(u, c, lo, hi)
      BY <1>1 DEF Releasers
    <3>2. pc'[u] = pc[u] \/ pc'[u] \in {"read", "idle", "block", "unblock"}
      BY <1>10, <1>11
    <3> QED BY <3>1, <3>2 DEF Releaser
  <2> QED BY <2>1 DEF Releasers
<1>23. SeenTo(c, M)'
  <2>1. \A i \in M : c[i] # x
    BY <1>5, <1>9
  <2>2. Awake(x, c, M)'
    BY <1>4, <2>1 DEF Awake
  <2> QED BY <2>2 DEF SeenTo
<1>24. Shape(c, M, lo, hi, k, aa, b)'
  BY <1>13, <1>14, <1>15, <1>16, <1>17, <1>18, <1>19, <1>20, <1>21, <1>22, <1>23 DEF Shape
<1> QED BY <1>24, InvFrom

(* A waiter spins, sleeps, or returns: its block changes only in what it   *)
(* says of the thread itself, unless its ticket is not in use any more.    *)
LEMMA WaiterMoves ==
  ASSUME NEW c \in [Int -> Threads], NEW L \in SUBSET Int, NEW lo \in Int, NEW hi \in Int,
         NEW k \in Int, NEW a \in [Threads -> Int], NEW b \in [Threads -> Int],
         Shape(c, L, lo, hi, k, a, b), NEW t \in Threads,
         pc[t] = "block", pc'[t] \in {"read", "keyed"},
         pc' \in [Threads -> Points], blk' \in [Threads -> Blocks],
         \A u \in Threads \ {t} : pc'[u] = pc[u],
         \A i \in L : /\ blk'[c[i]].Next = blk[c[i]].Next
                      /\ blk'[c[i]].Previous = blk[c[i]].Previous
                      /\ blk'[c[i]].Last = blk[c[i]].Last
                      /\ blk'[c[i]].SharedOwners = blk[c[i]].SharedOwners,
         Members(c, L)', UNCHANGED <<Value, want, val, cur>>
  PROVE  QueuedLockInv'
PROOF
<1>1. /\ Types /\ Owners /\ Counted(c[lo]) /\ Chain(c, lo, hi, k) /\ Intact(c, lo, hi)
      /\ Tickets(L, lo, hi, a, b) /\ Wakers(c, a, b)
      /\ Traversers(c, lo, hi, k) /\ Releasers(c, lo, hi) /\ SeenTo(c, L)
      /\ t \notin Ex /\ t \notin Sh /\ t \notin Ls
  BY DEF Shape, Ex, Sh, Ls
<1>2. \A i \in lo..hi : /\ blk'[c[i]].Next = blk[c[i]].Next
                        /\ blk'[c[i]].Previous = blk[c[i]].Previous
                        /\ blk'[c[i]].Last = blk[c[i]].Last
                        /\ blk'[c[i]].SharedOwners = blk[c[i]].SharedOwners
  <2>1. \A i \in lo..hi : i \in L
    BY <1>1 DEF Tickets
  <2> QED BY <2>1
<1>3. Types'
  BY <1>1 DEF Types, Outside
<1>4. Owners' /\ SharedBy' = SharedBy /\ Sh' = Sh
  BY <1>1, OwnersStay
<1>5. Counted(c[lo])'
  <2>1. Value.waiters => lo \in lo..hi
    BY <1>1 DEF Chain
  <2> QED BY <1>1, <1>2, <1>4, <2>1 DEF Counted
<1>6. Chain(c, lo, hi, k)'
  <2>1. Value.waiters => hi \in lo..hi /\ k \in lo..hi
    BY <1>1 DEF Chain
  <2>2. \A i \in lo..hi :
          /\ i > k => blk'[c[i]].Last = NULL /\ blk'[c[i]].Next = c[i - 1]
          /\ i < k => blk'[c[i]].Previous = c[i + 1]
          /\ i < hi => blk'[c[i]].Previous \in {NULL, c[i + 1]}
    BY <1>1, <1>2 DEF Chain
  <2>3. Value.waiters => blk'[c[hi]].Previous = NULL /\ blk'[c[k]].Last = c[lo]
    BY <1>1, <1>2, <2>1 DEF Chain
  <2> QED BY <1>1, <2>2, <2>3 DEF Chain
<1>7. Intact(c, lo, hi)'
  BY <1>1, <1>2, <1>4 DEF Intact
<1>8. Tickets(L, lo, hi, a, b)'
  BY <1>1 DEF Tickets
<1>9. Wakers(c, a, b)'
  <2>1. \A u \in Threads : \A i \in a[u]..b[u] : blk'[c[i]].Previous = blk[c[i]].Previous
    <3>1. \A u \in Threads : \A i \in a[u]..b[u] : i \in L
      BY <1>1 DEF Tickets
    <3> QED BY <3>1
  <2>2. \A u \in Threads : pc'[u] \in Waking <=> pc[u] \in Waking
    BY DEF Waking
  <2> QED BY <1>1, <2>1, <2>2 DEF Wakers
<1>10. Traversers(c, lo, hi, k)'
  <2>1. /\ \A u \in Threads : pc'[u] \in Traversal <=> pc[u] \in Traversal
        /\ pc[t] \notin Traversal
    BY DEF Traversal
  <2>2. OneTraverser'
    BY <1>1, <2>1 DEF Traversers, OneTraverser
  <2>3. ASSUME NEW u \in Threads PROVE Traverser(u, c, lo, hi, k)'
    <3>1. CASE pc[u] \notin Traversal
      <4>1. pc'[u] \notin Traversal
        BY <2>1, <3>1
      <4> QED BY <4>1 DEF Traverser, Traversal
    <3>2. CASE pc[u] \in Traversal
      <4>1. u # t /\ pc'[u] = pc[u] /\ val'[u] = val[u] /\ cur'[u] = cur[u]
        BY <2>1, <3>2
      <4>2. Traverser(u, c, lo, hi, k)
        BY <1>1 DEF Traversers
      <4>3. Value.trav /\ Value.waiters
        BY <1>1, <3>2 DEF Traversers, OneTraverser, Types, Sound
      <4>4. ASSUME NEW f \in Int, Starts(u, c, lo, hi, k, f)
            PROVE  Starts(u, c, lo, hi, k, f)'
        <5>1. f \in lo..hi
          BY <1>1, <4>3, <4>4 DEF Starts, Chain
        <5>2. /\ blk'[c[f]].Previous = blk[c[f]].Previous
              /\ \A i \in lo..f : blk'[c[i]].Previous = blk[c[i]].Previous
          BY <1>2, <5>1
        <5> QED BY <4>1, <4>4, <5>2 DEF Starts
      <4> QED BY <1>4, <4>1, <4>2, <4>4 DEF Traverser, Traversal
    <3> QED BY <3>1, <3>2
  <2> QED BY <2>2, <2>3 DEF Traversers
<1>11. Releasers(c, lo, hi)'
  <2>1. ASSUME NEW u \in Threads PROVE Releaser(u, c, lo, hi)'
    <3>1. Releaser(u, c, lo, hi)
      BY <1>1 DEF Releasers
    <3>2. pc'[u] = pc[u] \/ pc'[u] \in {"read", "keyed"}
      OBVIOUS
    <3> QED BY <3>1, <3>2 DEF Releaser
  <2> QED BY <2>1 DEF Releasers
<1>12. SeenTo(c, L)'
  <2>1. \A u \in Threads : Awake(u, c, L) => Awake(u, c, L)'
    BY DEF Awake
  <2> QED BY <1>1, <2>1 DEF SeenTo
<1>13. Shape(c, L, lo, hi, k, a, b)'
  BY <1>3, <1>4, <1>5, <1>6, <1>7, <1>8, <1>9, <1>10, <1>11, <1>12 DEF Shape
<1> QED BY <1>13, InvFrom

(* Blocking on the wait block: only a thread whose ticket is in use finds  *)
(* the flag set.                                                           *)
LEMMA BlockStep ==
  ASSUME NEW c \in [Int -> Threads], NEW L \in SUBSET Int, NEW lo \in Int, NEW hi \in Int,
         NEW k \in Int, NEW a \in [Threads -> Int], NEW b \in [Threads -> Int],
         Shape(c, L, lo, hi, k, a, b), NEW t \in Threads, PhpBlockOnQueuedWaitBlock(t)
  PROVE  QueuedLockInv'
PROOF
<1>1. /\ Types /\ Members(c, L) /\ pc[t] = "block" /\ UNCHANGED <<Value, want, val, cur>>
  BY DEF Shape, PhpBlockOnQueuedWaitBlock
<1>2. CASE ~blk[t].Spinning
  <2>1. pc' = [pc EXCEPT ![t] = "read"] /\ blk' = [blk EXCEPT ![t] = NoBlock]
    BY <1>2 DEF PhpBlockOnQueuedWaitBlock, Goto
  <2>2. NoBlock \in Blocks /\ ~NoBlock.Spinning
    BY DEF NoBlock, Blocks
  <2>3. /\ pc'[t] = "read" /\ pc' \in [Threads -> Points]
        /\ \A u \in Threads \ {t} : pc'[u] = pc[u] /\ blk'[u] = blk[u]
        /\ blk' \in [Threads -> Blocks] /\ ~blk'[t].Spinning
    BY <1>1, <2>1, <2>2 DEF Types, Points
  <2> HIDE <2>1
  <2>4. \A i \in L : c[i] # t /\ c[i] \in Threads
    BY <1>1, <1>2 DEF Members
  <2>5. Members(c, L)'
    <3>1. \A i \in L : Queued(c[i])' /\ (blk'[c[i]].Spinning <=> pc'[c[i]] # "keyed")
      BY <1>1, <2>3, <2>4 DEF Members, Queued
    <3>2. ASSUME NEW u \in Threads, \A i \in L : c[i] # u
          PROVE  pc'[u] # "keyed" /\ ~blk'[u].Spinning
      <4>1. pc[u] # "keyed" /\ ~blk[u].Spinning
        BY <1>1, <3>2 DEF Members
      <4> QED BY <2>3, <4>1
    <3> QED BY <1>1, <3>1, <3>2 DEF Members
  <2>6. \A i \in L : blk'[c[i]] = blk[c[i]]
    BY <2>3, <2>4
  <2> QED BY <1>1, <2>3, <2>5, <2>6, WaiterMoves
<1>3. CASE blk[t].Spinning
  <2>1. pc' = [pc EXCEPT ![t] = "keyed"] /\ blk' = [blk EXCEPT ![t].Spinning = FALSE]
    BY <1>3 DEF PhpBlockOnQueuedWaitBlock, Goto
  <2>2. PICK r \in Blocks : r = blk[t]
    BY <1>1 DEF Types
  <2>3. PICK q \in Blocks : /\ q = [r EXCEPT !.Spinning = FALSE] /\ ~q.Spinning
                            /\ q.Next = r.Next /\ q.Previous = r.Previous
                            /\ q.Last = r.Last /\ q.SharedOwners = r.SharedOwners
    <3> DEFINE q1 == [r EXCEPT !.Spinning = FALSE]
    <3>1. q1 \in Blocks
      BY DEF Blocks
    <3>2. /\ ~q1.Spinning /\ q1.Next = r.Next /\ q1.Previous = r.Previous
          /\ q1.Last = r.Last /\ q1.SharedOwners = r.SharedOwners
      BY DEF Blocks
    <3> QED BY <3>1, <3>2
  <2>4. blk' = [blk EXCEPT ![t] = q]
    BY <2>1, <2>2, <2>3
  <2>5. /\ pc'[t] = "keyed" /\ pc' \in [Threads -> Points]
        /\ \A u \in Threads \ {t} : pc'[u] = pc[u] /\ blk'[u] = blk[u]
        /\ blk' \in [Threads -> Blocks] /\ blk'[t] = q
    <3>1. /\ pc'[t] = "keyed" /\ pc' \in [Threads -> Points]
          /\ \A u \in Threads \ {t} : pc'[u] = pc[u]
      BY <1>1, <2>1 DEF Types, Points
    <3>2. /\ blk' \in [Threads -> Blocks] /\ blk'[t] = q
          /\ \A u \in Threads \ {t} : blk'[u] = blk[u]
      BY <1>1, <2>4 DEF Types
    <3> QED BY <3>1, <3>2
  <2> HIDE <2>1, <2>4
  <2>6. Members(c, L)'
    <3>1. ASSUME NEW i \in L
          PROVE  Queued(c[i])' /\ (blk'[c[i]].Spinning <=> pc'[c[i]] # "keyed")
      <4>1. c[i] \in Threads /\ Queued(c[i]) /\ (blk[c[i]].Spinning <=> pc[c[i]] # "keyed")
        BY <1>1 DEF Members
      <4>2. CASE c[i] = t
        BY <1>1, <2>3, <2>5, <4>1, <4>2 DEF Queued
      <4>3. CASE c[i] # t
        BY <1>1, <2>5, <4>1, <4>3 DEF Queued
      <4> QED BY <4>2, <4>3
    <3>2. ASSUME NEW u \in Threads, \A i \in L : c[i] # u
          PROVE  pc'[u] # "keyed" /\ ~blk'[u].Spinning
      <4>1. pc[u] # "keyed" /\ ~blk[u].Spinning
        BY <1>1, <3>2 DEF Members
      <4>2. u # t
        BY <1>3, <4>1
      <4> QED BY <2>5, <4>1, <4>2
    <3> QED BY <1>1, <3>1, <3>2 DEF Members
  <2>7. \A i \in L : /\ blk'[c[i]].Next = blk[c[i]].Next
                     /\ blk'[c[i]].Previous = blk[c[i]].Previous
                     /\ blk'[c[i]].Last = blk[c[i]].Last
                     /\ blk'[c[i]].SharedOwners = blk[c[i]].SharedOwners
    <3>1. \A u \in Threads : /\ blk'[u].Next = blk[u].Next
                             /\ blk'[u].Previous = blk[u].Previous
                             /\ blk'[u].Last = blk[u].Last
                             /\ blk'[u].SharedOwners = blk[u].SharedOwners
      BY <2>2, <2>3, <2>5
    <3> QED BY <3>1
  <2> QED BY <1>1, <2>5, <2>6, <2>7, WaiterMoves
<1> QED BY <1>2, <1>3

(* Unblocking a waiter that spins, or finding that it does not.            *)
LEMMA UnblockStep ==
  ASSUME NEW c \in [Int -> Threads], NEW L \in SUBSET Int, NEW lo \in Int, NEW hi \in Int,
         NEW k \in Int, NEW a \in [Threads -> Int], NEW b \in [Threads -> Int],
         Shape(c, L, lo, hi, k, a, b), NEW t \in Threads, PhpUnblockQueuedWaitBlock(t)
  PROVE  QueuedLockInv'
PROOF
<1>1. /\ Types /\ Owners /\ Counted(c[lo]) /\ Members(c, L) /\ Tickets(L, lo, hi, a, b)
      /\ Wakers(c, a, b) /\ pc[t] = "unblock" /\ UNCHANGED <<Value, want, val>>
      /\ t \notin Ex /\ t \notin Sh /\ t \notin Ls
  BY DEF Shape, PhpUnblockQueuedWaitBlock, Ex, Sh, Ls
<1>2. a[t] \in L /\ cur[t] = c[a[t]] /\ cur[t] \in Threads
  <2>1. a[t] <= b[t] /\ cur[t] = c[a[t]]
    BY <1>1 DEF Wakers, Waking
  <2>2. a[t] \in a[t]..b[t]
    BY <2>1
  <2> QED BY <1>1, <2>1, <2>2 DEF Tickets
<1>3. PICK x \in Threads : x = cur[t]
  BY <1>2
<1>4. CASE blk[x].Spinning
  <2>1. /\ blk' = [blk EXCEPT ![x].Spinning = FALSE] /\ cur' = [cur EXCEPT ![t] = blk[x].Previous]
        /\ pc' = [pc EXCEPT ![t] = IF blk[x].Previous = NULL THEN After(t) ELSE "unblock"]
    BY <1>3, <1>4 DEF PhpUnblockQueuedWaitBlock, Unblocked, Goto
  <2>2. pc[x] # "keyed"
    BY <1>1, <1>2, <1>3, <1>4 DEF Members
  <2>3. PICK r \in Blocks : r = blk[x]
    BY <1>1 DEF Types
  <2>4. PICK q \in Blocks : q = [r EXCEPT !.Spinning = FALSE] /\ ~q.Spinning
    <3> DEFINE q1 == [r EXCEPT !.Spinning = FALSE]
    <3>1. q1 \in Blocks /\ ~q1.Spinning
      BY DEF Blocks
    <3> QED BY <3>1
  <2>5. blk' = [blk EXCEPT ![x] = q]
    BY <2>1, <2>3, <2>4
  <2>6. /\ blk' \in [Threads -> Blocks] /\ ~blk'[x].Spinning
        /\ \A u \in Threads \ {x} : blk'[u] = blk[u]
    BY <1>1, <2>4, <2>5 DEF Types
  <2>7. PICK l \in Points : l = IF blk[x].Previous = NULL THEN After(t) ELSE "unblock"
    BY DEF After, Points, Outside, Waking
  <2>8. pc' = [pc EXCEPT ![t] = l]
    BY <2>1, <2>7
  <2>9. /\ pc' \in [Threads -> Points] /\ pc'[t] = l
        /\ \A u \in Threads \ {t} : pc'[u] = pc[u]
    BY <1>1, <2>8 DEF Types
  <2>10. cur' = [cur EXCEPT ![t] = blk[x].Previous]
    BY <2>1
  <2> HIDE <2>1
  <2>11. \A u \in Threads \ {t} :
           pc'[u] = IF u = x /\ pc[u] = "keyed" THEN "read" ELSE pc[u]
    BY <2>2, <2>9
  <2>12. pc'[t] = IF blk[x].Previous = NULL THEN After(t) ELSE "unblock"
    BY <2>7, <2>9
  <2>13. pc[t] \in {"unblock", "release"}
    BY <1>1
  <2> QED BY <1>1, <1>3, <2>6, <2>9, <2>10, <2>11, <2>12, <2>13, TicketDropped
<1>5. CASE ~blk[x].Spinning
  <2>1. pc' = [pc EXCEPT ![t] = "release"] /\ UNCHANGED <<blk, cur>>
    BY <1>3, <1>5 DEF PhpUnblockQueuedWaitBlock, Goto
  <2>2. /\ pc'[t] = "release" /\ pc' \in [Threads -> Points] /\ DOMAIN val' = Threads
        /\ \A u \in Threads \ {t} : pc'[u] = pc[u]
    BY <1>1, <2>1 DEF Types, Points, Waking
  <2>3. /\ Owners' /\ SharedBy' = SharedBy /\ Sh' = Sh
    BY <1>1, <2>2, OwnersStay
  <2>4. Counted(c[lo])'
    BY <1>1, <2>1, <2>3, CountedStays
  <2>5. Light(t)
    <3>1. Queued(t)' <=> Queued(t)
      BY <1>1, <2>2 DEF Queued
    <3> QED BY <1>1, <2>1, <2>2, <2>3, <3>1, BlocksSame DEF Light, Waking, Types
  <2>6. Goes(t) /\ Releaser(t, c, lo, hi)'
    BY <1>1, <2>2 DEF Goes, Types, Outside, Releaser
  <2>7. Awake(t, c, L)'
    BY <2>2 DEF Awake
  <2>8. Shape(c, L, lo, hi, k, a, b)'
    BY <1>1, <2>2, <2>3, <2>4, <2>5, <2>6, <2>7, OuterShape DEF Traversal
  <2> QED BY <2>8, InvFrom
<1> QED BY <1>4, <1>5

(* Meeting a waiter that sleeps at the keyed event.                        *)
LEMMA ReleaseEventStep ==
  ASSUME NEW c \in [Int -> Threads], NEW L \in SUBSET Int, NEW lo \in Int, NEW hi \in Int,
         NEW k \in Int, NEW a \in [Threads -> Int], NEW b \in [Threads -> Int],
         Shape(c, L, lo, hi, k, a, b), NEW t \in Threads, NtReleaseKeyedEvent(t)
  PROVE  QueuedLockInv'
PROOF
<1>1. /\ Types /\ Tickets(L, lo, hi, a, b) /\ Wakers(c, a, b) /\ pc[t] = "release"
      /\ UNCHANGED <<Value, want, val>>
  BY DEF Shape, NtReleaseKeyedEvent
<1>2. cur[t] \in Threads
  BY <1>1 DEF Wakers, Waking
<1>3. PICK x \in Threads : x = cur[t]
  BY <1>2
<1>4. PICK l \in Points : l = IF blk[x].Previous = NULL THEN After(t) ELSE "unblock"
  BY DEF After, Points, Outside, Waking
<1>5. /\ pc[x] = "keyed" /\ pc' = [pc EXCEPT ![x] = "read", ![t] = l] /\ x # t
      /\ blk' = [blk EXCEPT ![x] = NoBlock] /\ cur' = [cur EXCEPT ![t] = blk[x].Previous]
  BY <1>1, <1>3, <1>4 DEF NtReleaseKeyedEvent, Unblocked
<1>6. NoBlock \in Blocks /\ ~NoBlock.Spinning
  BY DEF NoBlock, Blocks
<1>7. /\ pc' \in [Threads -> Points] /\ pc'[t] = l /\ pc'[x] = "read"
      /\ \A u \in Threads \ {t, x} : pc'[u] = pc[u]
  BY <1>1, <1>5 DEF Types, Points
<1>8. /\ blk' \in [Threads -> Blocks] /\ ~blk'[x].Spinning
      /\ \A u \in Threads \ {x} : blk'[u] = blk[u]
  BY <1>1, <1>5, <1>6 DEF Types
<1>9. \A u \in Threads \ {t} : pc'[u] = IF u = x /\ pc[u] = "keyed" THEN "read" ELSE pc[u]
  BY <1>5, <1>7
<1> QED BY ZenonT(40), <1>1, <1>3, <1>4, <1>5, <1>7, <1>8, <1>9, TicketDropped
-----------------------------------------------------------------------------
(* Pushing.                                                                *)

(* The ticket after one that is not the last.                              *)
LEMMA InBetween ==
  ASSUME NEW m \in Int, NEW n \in Int, NEW i \in m..n, i < n
  PROVE  i + 1 \in m..n
  OBVIOUS

\* The tickets after t has drawn hn.
Draws(t, c, L, hi, d, M, hn) ==
  /\ hn = hi + 1 /\ d[hn] = t /\ \A i \in Int : i # hn => d[i] = c[i]
  /\ M = L \cup {hn}

\* A step of t by which its block comes into use.
NewBlock(t) ==
  /\ pc[t] = "try" /\ pc'[t] \in {"optimize", "block"}
  /\ \A u \in Threads \ {t} : pc'[u] = pc[u] /\ blk'[u] = blk[u]
  /\ blk'[t].Spinning /\ UNCHANGED <<want, cur>>

\* The blocks of the chain are others, and stay as they are.
Apart(t, c, lo, hi, d, hn) ==
  \A i \in lo..hi : c[i] # t /\ i # hn /\ d[i] = c[i] /\ blk'[c[i]] = blk[c[i]]

(* The thread that pushes its block draws a new ticket.                    *)
LEMMA NewTicket ==
  ASSUME NEW c \in [Int -> Threads], NEW L \in SUBSET Int, NEW lo \in Int, NEW hi \in Int,
         NEW k \in Int, NEW a \in [Threads -> Int], NEW b \in [Threads -> Int],
         Shape(c, L, lo, hi, k, a, b), NEW t \in Threads, NewBlock(t),
         NEW hn \in Int, NEW d \in [Int -> Threads], NEW M \in SUBSET Int,
         Draws(t, c, L, hi, d, M, hn)
  PROVE  /\ Tickets(M, lo, hn, a, b)' /\ Members(d, M)' /\ Wakers(d, a, b)'
         /\ Apart(t, c, lo, hi, d, hn)
PROOF
<1>0. /\ pc[t] = "try" /\ pc'[t] \in {"optimize", "block"}
      /\ \A u \in Threads \ {t} : pc'[u] = pc[u] /\ blk'[u] = blk[u]
      /\ blk'[t].Spinning /\ UNCHANGED <<want, cur>>
      /\ hn = hi + 1 /\ d[hn] = t /\ (\A i \in Int : i # hn => d[i] = c[i])
      /\ M = L \cup {hn}
  BY DEF NewBlock, Draws
<1>1. /\ Types /\ Chain(c, lo, hi, k) /\ Tickets(L, lo, hi, a, b)
      /\ Members(c, L) /\ Wakers(c, a, b) /\ want[t] # NULL /\ ~Queued(t)
      /\ lo <= hi + 1
  BY <1>0 DEF Shape, Types, Chain, Queued
<1>2. hn \notin L
  <2>1. SUFFICES ASSUME hn \in L PROVE FALSE
    OBVIOUS
  <2>2. PICK u \in Threads : hn \in a[u]..b[u]
    <3>1. hn \notin lo..hi
      BY <1>0
    <3> QED BY <1>1, <2>1, <3>1 DEF Tickets
  <2>3. b[u] < lo /\ b[u] \in Int
    BY <1>0, <1>1 DEF Tickets
  <2> QED BY <1>0, <1>1, <2>2, <2>3
<1>3. \A i \in L : c[i] \in Threads /\ c[i] # t /\ i # hn /\ d[i] = c[i] /\ blk'[c[i]] = blk[c[i]]
  <2>1. \A i \in L : c[i] # t
    BY <1>0, <1>1, NotMember
  <2> QED BY <1>0, <1>2, <2>1
<1>4. \A i \in lo..hi : c[i] # t /\ i # hn /\ d[i] = c[i] /\ blk'[c[i]] = blk[c[i]]
  <2>1. \A i \in lo..hi : i \in L
    BY <1>0, <1>1 DEF Tickets
  <2> QED BY <1>0, <1>3, <2>1
<1>5. Tickets(M, lo, hn, a, b)'
  <2>1. ASSUME NEW i \in lo..hn PROVE i \in M
    <3>1. i = hn \/ i \in lo..hi
      BY <1>0, <2>1
    <3> QED BY <1>0, <1>1, <3>1 DEF Tickets
  <2>2. \A u \in Threads : b[u] < lo /\ \A i \in a[u]..b[u] : i \in M
    BY <1>0, <1>1 DEF Tickets
  <2>3. ASSUME NEW i \in M PROVE i \in lo..hn \/ \E u \in Threads : i \in a[u]..b[u]
    <3>1. hn \in lo..hn /\ \A i1 \in lo..hi : i1 \in lo..hn
      BY <1>0, <1>1
    <3> QED BY <1>0, <1>1, <3>1 DEF Tickets
  <2>4. \A u, v \in Threads : \A i \in a[u]..b[u] : i \in a[v]..b[v] => u = v
    BY <1>0, <1>1 DEF Tickets
  <2> QED BY <1>0, <2>1, <2>2, <2>3, <2>4 DEF Tickets
<1>6. \A u \in Threads \ {t} : /\ Queued(u)' <=> Queued(u)
                               /\ pc'[u] \in Waking <=> pc[u] \in Waking
  BY <1>0 DEF Queued
<1>7. Members(d, M)'
  <2>1. ASSUME NEW i \in M, NEW j \in M, d[i] = d[j] PROVE i = j
    <3>1. CASE i = hn /\ j = hn
      BY <1>0, <3>1
    <3>2. CASE i = hn /\ j \in L
      BY <1>0, <1>3, <2>1, <3>2
    <3>3. CASE i \in L /\ j = hn
      BY <1>0, <1>3, <2>1, <3>3
    <3>4. CASE i \in L /\ j \in L
      <4>1. c[i] = c[j]
        BY <1>3, <2>1, <3>4
      <4> QED BY <1>1, <3>4, <4>1 DEF Members
    <3> QED BY <1>0, <3>1, <3>2, <3>3, <3>4
  <2>2. ASSUME NEW i \in M
        PROVE  Queued(d[i])' /\ (blk'[d[i]].Spinning <=> pc'[d[i]] # "keyed")
    <3>1. CASE i = hn
      BY <1>0, <1>1, <3>1 DEF Queued
    <3>2. CASE i \in L
      <4>1. Queued(c[i]) /\ (blk[c[i]].Spinning <=> pc[c[i]] # "keyed")
        BY <1>0, <1>1, <3>2 DEF Members
      <4>2. c[i] \in Threads \ {t} /\ d[i] = c[i] /\ blk'[c[i]] = blk[c[i]]
        BY <1>0, <1>3, <3>2
      <4> QED BY <1>0, <1>6, <4>1, <4>2
    <3> QED BY <1>0, <3>1, <3>2
  <2>3. ASSUME NEW u \in Threads, \A i \in M : d[i] # u
        PROVE  pc'[u] # "keyed" /\ ~blk'[u].Spinning
    <3>1. u # t
      BY <1>0, <2>3
    <3>2. \A i \in L : c[i] # u
      BY <1>0, <1>3, <2>3
    <3>3. pc[u] # "keyed" /\ ~blk[u].Spinning
      BY <1>0, <1>1, <3>2 DEF Members
    <3> QED BY <1>0, <3>1, <3>3
  <2> QED BY <2>1, <2>2, <2>3 DEF Members
<1>8. Wakers(d, a, b)'
  <2>1. ASSUME NEW u \in Threads, NEW i \in a[u]..b[u]
        PROVE  blk'[d[i]].Previous = IF i < b[u] THEN d[i + 1] ELSE NULL
    <3>1. i \in L /\ (i < b[u] => i + 1 \in a[u]..b[u])
      <4>1. i \in L
        BY <1>0, <1>1 DEF Tickets
      <4>2. a[u] \in Int /\ b[u] \in Int
        OBVIOUS
      <4>3. i < b[u] => i + 1 \in a[u]..b[u]
        BY <4>2, InBetween
      <4> QED BY <1>0, <4>1, <4>3
    <3>2. i < b[u] => d[i + 1] = c[i + 1]
      <4>1. i < b[u] => i + 1 \in L
        BY <1>0, <1>1, <3>1 DEF Tickets
      <4> QED BY <1>0, <1>3, <4>1
    <3>3. blk[c[i]].Previous = IF i < b[u] THEN c[i + 1] ELSE NULL
      BY ZenonT(40), <1>0, <1>1 DEF Wakers
    <3>4. blk'[d[i]] = blk[c[i]]
      BY <1>0, <1>3, <3>1
    <3> QED BY <1>0, <3>2, <3>3, <3>4
  <2>2. ASSUME NEW u \in Threads
        PROVE  (pc'[u] \in Waking <=> a[u] <= b[u]) /\ (a[u] <= b[u] => cur'[u] = d[a[u]])
    <3>1. (pc[u] \in Waking <=> a[u] <= b[u]) /\ (a[u] <= b[u] => cur[u] = c[a[u]])
      BY <1>0, <1>1 DEF Wakers
    <3>2. a[u] <= b[u] => d[a[u]] = c[a[u]]
      <4>1. a[u] <= b[u] => a[u] \in a[u]..b[u]
        OBVIOUS
      <4>2. a[u] <= b[u] => a[u] \in L
        BY <1>0, <1>1, <4>1 DEF Tickets
      <4> QED BY <1>0, <1>3, <4>2
    <3>3. pc'[u] \in Waking <=> pc[u] \in Waking
      <4>1. CASE u = t
        BY <1>0, <4>1 DEF Waking
      <4>2. CASE u # t
        BY <1>0, <1>6, <4>2
      <4> QED BY <1>0, <4>1, <4>2
    <3> QED BY <1>0, <3>1, <3>2, <3>3
  <2> QED BY <1>0, <2>1, <2>2 DEF Wakers
<1> QED BY <1>4, <1>5, <1>7, <1>8 DEF Apart

(* Where a ticket is, when hn was drawn last.                              *)
LEMMA LastTicket ==
  ASSUME NEW lo \in Int, NEW hi \in Int, NEW hn \in Int, hn = hi + 1, NEW k \in Int,
         lo <= k, k <= hi, NEW i \in lo..hn
  PROVE  /\ i = hn => hn - 1 = hi /\ ~(i < k) /\ ~(i < hn) /\ i # lo
         /\ i # hn => /\ i \in lo..hi /\ (~(i < hi) => i = hi)
                      /\ i > lo => i - 1 \in lo..hi
                      /\ i > k => i - 1 \in lo..hi
  OBVIOUS

\* A step of t that pushes its block in front of others.
InFront(t) ==
  /\ NewBlock(t) /\ DOMAIN val' = Threads
  /\ pc' \in [Threads -> Points] /\ blk' \in [Threads -> Blocks]
  /\ \A u \in Threads \ {t} : val'[u] = val[u]
  /\ Value.waiters /\ Value' = [Value EXCEPT !.block = t, !.trav = TRUE]
  /\ blk'[t].Next = Value.block /\ blk'[t].Last = NULL /\ blk'[t].Previous = NULL
  /\ \/ ~Value.trav /\ pc'[t] = "optimize" /\ val'[t] = Value'
     \/ Value.trav /\ pc'[t] = "block" /\ val'[t] = Free

(* A block is pushed in front of others.                                   *)
LEMMA PushedInFront ==
  ASSUME NEW c \in [Int -> Threads], NEW L \in SUBSET Int, NEW lo \in Int, NEW hi \in Int,
         NEW k \in Int, NEW a \in [Threads -> Int], NEW b \in [Threads -> Int],
         Shape(c, L, lo, hi, k, a, b), NEW t \in Threads, InFront(t)
  PROVE  QueuedLockInv'
PROOF
<1>0. /\ pc[t] = "try" /\ pc'[t] \in {"optimize", "block"} /\ DOMAIN val' = Threads
      /\ pc' \in [Threads -> Points] /\ blk' \in [Threads -> Blocks] /\ UNCHANGED <<want, cur>>
      /\ \A u \in Threads \ {t} : pc'[u] = pc[u] /\ blk'[u] = blk[u] /\ val'[u] = val[u]
      /\ Value.waiters /\ Value' = [Value EXCEPT !.block = t, !.trav = TRUE]
      /\ blk'[t].Next = Value.block /\ blk'[t].Last = NULL /\ blk'[t].Previous = NULL
      /\ \/ ~Value.trav /\ pc'[t] = "optimize" /\ val'[t] = Value'
         \/ Value.trav /\ pc'[t] = "block" /\ val'[t] = Free
  BY DEF NewBlock, InFront
<1>1. /\ Types /\ Owners /\ Counted(c[lo]) /\ Chain(c, lo, hi, k) /\ Intact(c, lo, hi)
      /\ Tickets(L, lo, hi, a, b) /\ Members(c, L) /\ Wakers(c, a, b)
      /\ Traversers(c, lo, hi, k) /\ Releasers(c, lo, hi) /\ want[t] # NULL
      /\ t \notin Ex /\ t \notin Sh /\ t \notin Ls /\ Sound(Value) /\ Sound(Free)
  BY <1>0, FreeIsSound DEF Shape, Types, Ex, Sh, Ls
<1>2. /\ Value' \in Words /\ Value'.owned = Value.owned /\ Value'.waiters
      /\ Value'.trav /\ Value'.multi = Value.multi
      /\ Value'.shared = Value.shared /\ Value'.block = t
  BY <1>0, <1>1 DEF Sound, Words
<1>3. Sound(Value') /\ Sound(val'[t])
  <2>1. Sound(Value')
    BY <1>0, <1>1, <1>2 DEF Sound
  <2> QED BY <1>0, <1>1, <2>1
<1>4. PICK hn \in Int : hn = hi + 1
  OBVIOUS
<1>5. PICK d \in [Int -> Threads] : d[hn] = t /\ \A i \in Int : i # hn => d[i] = c[i]
  <2>1. /\ [c EXCEPT ![hn] = t] \in [Int -> Threads] /\ [c EXCEPT ![hn] = t][hn] = t
        /\ \A i \in Int : i # hn => [c EXCEPT ![hn] = t][i] = c[i]
    OBVIOUS
  <2> QED BY <1>0, <2>1
<1>6. PICK M \in SUBSET Int : M = L \cup {hn}
  OBVIOUS
<1>7. /\ Tickets(M, lo, hn, a, b)' /\ Members(d, M)' /\ Wakers(d, a, b)'
      /\ \A i \in lo..hi : c[i] # t /\ i # hn /\ d[i] = c[i] /\ blk'[c[i]] = blk[c[i]]
  <2>1. Draws(t, c, L, hi, d, M, hn) /\ NewBlock(t)
    BY <1>4, <1>5, <1>6 DEF Draws, InFront
  <2>2. /\ Tickets(M, lo, hn, a, b)' /\ Members(d, M)' /\ Wakers(d, a, b)'
        /\ Apart(t, c, lo, hi, d, hn)
    BY <2>1, NewTicket
  <2> QED BY <2>2 DEF Apart
<1>8. /\ lo <= k /\ k <= hi /\ Value.block = c[hi] /\ lo \in lo..hi /\ hi \in lo..hi
      /\ k \in lo..hi /\ blk[c[hi]].Previous = NULL /\ blk[c[k]].Last = c[lo]
  BY <1>0, <1>1 DEF Chain
<1>9. Owners' /\ SharedBy' = SharedBy /\ Sh' = Sh
  BY <1>0, <1>1, <1>2, OwnersStay
<1>10. Types'
  <2>1. \A u \in Threads : /\ Sound(val'[u])
                           /\ pc'[u] \in Outside => want'[u] = NULL
                           /\ pc'[u] \in {"read", "try", "block", "keyed"} => want'[u] # NULL
    BY <1>0, <1>1, <1>3 DEF Types, Outside
  <2> QED BY <1>0, <1>1, <1>3, <2>1 DEF Types
<1>11. Counted(d[lo])'
  BY <1>0, <1>1, <1>2, <1>7, <1>8, <1>9 DEF Counted
<1>12. Chain(d, lo, hn, k)'
  <2>1. ASSUME NEW i \in lo..hn
        PROVE  /\ i > k => blk'[d[i]].Last = NULL /\ blk'[d[i]].Next = d[i - 1]
               /\ i < k => blk'[d[i]].Previous = d[i + 1]
               /\ i < hn => blk'[d[i]].Previous \in {NULL, d[i + 1]}
    <3>1. CASE i = hn
      <4>1. hn - 1 = hi /\ ~(i < k) /\ ~(i < hn)
        BY <1>4, <1>8, <3>1, LastTicket
      <4> QED BY <1>0, <1>5, <1>7, <1>8, <3>1, <4>1
    <3>2. CASE i # hn
      <4>1. i \in lo..hi /\ (i > k => i - 1 \in lo..hi) /\ (~(i < hi) => i = hi)
        BY <1>4, <1>8, <3>2, LastTicket
      <4>2. /\ i > k => blk[c[i]].Last = NULL /\ blk[c[i]].Next = c[i - 1]
            /\ i < k => blk[c[i]].Previous = c[i + 1]
            /\ i < hi => blk[c[i]].Previous \in {NULL, c[i + 1]}
        BY <1>0, <1>1, <4>1 DEF Chain
      <4>3. i < hi => i + 1 \in lo..hi
        BY <4>1, InBetween
      <4>4. d[i] = c[i] /\ blk'[c[i]] = blk[c[i]] /\ (i < hi => d[i + 1] = c[i + 1])
        BY <1>0, <1>7, <4>1, <4>3
      <4>5. i < k => i < hi
        BY <1>0, <1>8, <4>1
      <4>6. i > k => d[i - 1] = c[i - 1]
        BY <1>0, <1>7, <4>1
      <4>7. ~(i < hi) => blk[c[i]].Previous = NULL
        BY <1>0, <1>8, <4>1
      <4> QED BY <1>0, <4>2, <4>4, <4>5, <4>6, <4>7
    <3> QED BY <1>0, <3>1, <3>2
  <2>2. lo <= hn + 1 /\ lo <= hn /\ k <= hn
    BY <1>0, <1>4, <1>8
  <2>3. blk'[d[hn]].Previous = NULL /\ blk'[d[k]].Last = d[lo]
    BY <1>0, <1>5, <1>7, <1>8
  <2> QED BY <1>0, <1>2, <1>5, <1>8, <2>1, <2>2, <2>3 DEF Chain
<1>13. Intact(d, lo, hn)'
  <2>1. SUFFICES ASSUME SharedBy # {}, NEW i \in lo..hn
                 PROVE  /\ blk'[d[i]].Last \in {NULL, d[lo]}
                        /\ i = lo => blk'[d[i]].Last = d[lo]
                        /\ i > lo => blk'[d[i]].Next = d[i - 1]
    BY <1>0, <1>9 DEF Intact
  <2>2. CASE i = hn
    <3>1. hn - 1 = hi /\ i # lo
      BY <1>4, <1>8, <2>2, LastTicket
    <3> QED BY <1>0, <1>5, <1>7, <1>8, <2>2, <3>1
  <2>3. CASE i # hn
    <3>1. i \in lo..hi /\ (i > lo => i - 1 \in lo..hi)
      BY <1>4, <1>8, <2>1, <2>3, LastTicket
    <3>2. /\ blk[c[i]].Last \in {NULL, c[lo]}
          /\ i = lo => blk[c[i]].Last = c[lo]
          /\ i > lo => blk[c[i]].Next = c[i - 1]
      BY <1>0, <1>1, <2>1, <3>1 DEF Intact
    <3>3. d[i] = c[i] /\ blk'[c[i]] = blk[c[i]] /\ d[lo] = c[lo]
      BY <1>0, <1>7, <1>8, <3>1
    <3>4. i > lo => d[i - 1] = c[i - 1]
      BY <1>0, <1>7, <3>1
    <3> QED BY <1>0, <3>2, <3>3, <3>4
  <2> QED BY <1>0, <2>2, <2>3
<1>14. Traversers(d, lo, hn, k)'
  <2>1. \A u \in Threads : pc'[u] \in Traversal <=> (pc[u] \in Traversal \/ (u = t /\ ~Value.trav))
    BY <1>0 DEF Traversal
  <2>2. OneTraverser'
    <3>1. CASE Value.trav
      BY <1>0, <1>1, <1>2, <2>1, <3>1 DEF Traversers, OneTraverser
    <3>2. CASE ~Value.trav
      BY <1>0, <1>1, <1>2, <2>1, <3>2 DEF Traversers, OneTraverser
    <3> QED BY <1>0, <3>1, <3>2
  <2>3. ASSUME NEW u \in Threads PROVE Traverser(u, d, lo, hn, k)'
    <3>1. CASE pc'[u] \notin Traversal
      BY <1>0, <3>1 DEF Traverser, Traversal
    <3>2. CASE u = t /\ pc'[t] = "optimize"
      <4>1. hn \in k..hn
        BY <1>0, <1>4, <1>8
      <4>2. Starts(u, d, lo, hn, k, hn)'
        BY <1>0, <1>2, <1>5, <3>2, <4>1 DEF Starts
      <4>3. val'[t].waiters /\ val'[t].trav /\ (~val'[t].owned => SharedBy = {})
        BY <1>0, <1>1, <1>2, <3>2 DEF Owners
      <4> QED BY <1>0, <1>9, <3>2, <4>2, <4>3 DEF Traverser
    <3>3. CASE pc'[u] \in Traversal /\ u # t
      <4>1. pc'[u] = pc[u] /\ val'[u] = val[u] /\ cur'[u] = cur[u]
        BY <1>0, <3>3
      <4>2. Traverser(u, c, lo, hi, k)
        BY <1>0, <1>1 DEF Traversers
      <4>3. d[lo] = c[lo]
        BY <1>0, <1>7, <1>8
      <4>4. ASSUME NEW f \in Int, Starts(u, c, lo, hi, k, f)
            PROVE  Starts(u, d, lo, hn, k, f)'
        <5>1. f \in lo..hi /\ f \in k..hn
          <6>1. f \in k..hi
            BY <1>0, <4>4 DEF Starts
          <6> QED BY <1>0, <1>4, <1>8, <6>1
        <5>2. /\ d[f] = c[f] /\ blk'[d[f]] = blk[c[f]] 
          BY <1>0, <1>7, <5>1
        <5>3. ASSUME NEW i \in lo..f, i < f
              PROVE  d[i + 1] = c[i + 1] /\ blk'[d[i]] = blk[c[i]]
          <6>1. i \in lo..hi /\ i + 1 \in lo..hi
            BY <1>0, <5>1, <5>3
          <6> QED BY <1>0, <1>7, <6>1
        <5> QED BY <1>0, <4>1, <4>4, <5>1, <5>2, <5>3 DEF Starts
      <4> QED BY <1>0, <1>9, <4>1, <4>2, <4>3, <4>4 DEF Traverser, Traversal
    <3> QED BY <1>0, <3>1, <3>2, <3>3 DEF Traversal
  <2> QED BY <1>0, <2>2, <2>3 DEF Traversers
<1>15. Releasers(d, lo, hn)'
  <2>1. ASSUME NEW u \in Threads PROVE Releaser(u, d, lo, hn)'
    <3>1. CASE u = t
      BY <1>0, <3>1 DEF Releaser
    <3>2. CASE u # t
      <4>1. Releaser(u, c, lo, hi)
        BY <1>0, <1>1 DEF Releasers
      <4>2. \A f \in lo..hi : f \in lo..hn /\ d[f] = c[f]
        BY <1>0, <1>4, <1>7
      <4> QED BY <1>0, <1>2, <3>2, <4>1, <4>2 DEF Releaser
    <3> QED BY <1>0, <3>1, <3>2
  <2> QED BY <1>0, <2>1 DEF Releasers
<1>16. SeenTo(d, M)'
  BY <1>0, <1>2 DEF SeenTo
<1>17. Shape(d, M, lo, hn, k, a, b)'
  BY <1>0, <1>7, <1>9, <1>10, <1>11, <1>12, <1>13, <1>14, <1>15, <1>16 DEF Shape
<1> QED BY <1>17, InvFrom

\* A step of t that pushes its block on a lock nobody waits for: it notes
\* the shared owners.
First(t) ==
  /\ NewBlock(t) /\ pc'[t] = "block" /\ val'[t] = Free /\ DOMAIN val' = Threads
  /\ pc' \in [Threads -> Points] /\ blk' \in [Threads -> Blocks]
  /\ \A u \in Threads \ {t} : val'[u] = val[u]
  /\ ~Value.waiters /\ Value.owned
  /\ Value' \in Words /\ Value'.owned /\ Value'.waiters /\ ~Value'.trav /\ Value'.shared = 0
  /\ Value'.block = t /\ (Value'.multi <=> Value.shared > 1)
  /\ blk'[t].Last = t /\ blk'[t].Previous = NULL /\ blk'[t].SharedOwners = Value.shared

(* A single ticket.                                                        *)
LEMMA OneTicket ==
  ASSUME NEW lo \in Int, NEW hi \in Int, NEW hn \in Int, hn = hi + 1,
         lo <= hi + 1, ~(lo <= hi)
  PROVE  lo = hn /\ lo \in lo..hn /\ \A i \in lo..hn : i = lo
  OBVIOUS

(* A block is pushed on a lock nobody waits for.                           *)
LEMMA PushedFirst ==
  ASSUME NEW c \in [Int -> Threads], NEW L \in SUBSET Int, NEW lo \in Int, NEW hi \in Int,
         NEW k \in Int, NEW a \in [Threads -> Int], NEW b \in [Threads -> Int],
         Shape(c, L, lo, hi, k, a, b), NEW t \in Threads, First(t)
  PROVE  QueuedLockInv'
PROOF
<1>0. /\ pc[t] = "try" /\ pc'[t] = "block" /\ val'[t] = Free /\ DOMAIN val' = Threads
      /\ pc' \in [Threads -> Points] /\ blk' \in [Threads -> Blocks] /\ UNCHANGED <<want, cur>>
      /\ \A u \in Threads \ {t} : pc'[u] = pc[u] /\ blk'[u] = blk[u] /\ val'[u] = val[u]
      /\ ~Value.waiters /\ Value.owned
  BY DEF NewBlock, First
<1>1. /\ Types /\ Owners /\ Chain(c, lo, hi, k)
      /\ Traversers(c, lo, hi, k) /\ Releasers(c, lo, hi) /\ want[t] # NULL
      /\ t \notin Ex /\ t \notin Sh /\ t \notin Ls /\ Sound(Value) /\ Sound(Free)
  BY <1>0, FreeIsSound DEF Shape, Types, Ex, Sh, Ls
<1>2. /\ Value' \in Words /\ Value'.owned /\ Value'.waiters /\ ~Value'.trav /\ Value'.shared = 0
      /\ Value'.block = t /\ (Value'.multi <=> Value.shared > 1)
      /\ blk'[t].Last = t /\ blk'[t].Previous = NULL /\ blk'[t].SharedOwners = Value.shared
  BY DEF First
<1>3. Sound(Value')
  BY <1>2 DEF Sound
<1>4. PICK hn \in Int : hn = hi + 1
  OBVIOUS
<1>5. PICK d \in [Int -> Threads] : d[hn] = t /\ \A i \in Int : i # hn => d[i] = c[i]
  <2>1. /\ [c EXCEPT ![hn] = t] \in [Int -> Threads] /\ [c EXCEPT ![hn] = t][hn] = t
        /\ \A i \in Int : i # hn => [c EXCEPT ![hn] = t][i] = c[i]
    OBVIOUS
  <2> QED BY <2>1
<1>6. PICK M \in SUBSET Int : M = L \cup {hn}
  OBVIOUS
<1>7. Tickets(M, lo, hn, a, b)' /\ Members(d, M)' /\ Wakers(d, a, b)'
  <2>1. Draws(t, c, L, hi, d, M, hn) /\ NewBlock(t)
    BY <1>4, <1>5, <1>6 DEF Draws, First
  <2> QED BY <2>1, NewTicket
<1>8. lo = hn /\ lo \in lo..hn /\ d[lo] = t /\ \A i \in lo..hn : i = lo
  <2>1. lo <= hi + 1 /\ ~(lo <= hi)
    BY <1>0, <1>1 DEF Chain
  <2>2. lo = hn /\ lo \in lo..hn /\ \A i \in lo..hn : i = lo
    BY <1>4, <2>1, OneTicket
  <2> QED BY <1>5, <2>2
<1>9. /\ Ls = {} /\ Value.shared = Cardinality(Sh) /\ Sh \in SUBSET Threads
      /\ Ex' = Ex /\ Sh' = Sh /\ Ls' = Ls /\ SharedBy' = SharedBy
  <2>1. Ls = {} /\ Value.shared = Cardinality(Sh) /\ Sh \in SUBSET Threads
    BY <1>0, <1>1 DEF Owners, Sh
  <2>2. Ex' = Ex /\ Sh' = Sh /\ Ls' = Ls
    <3>1. /\ \A u \in Threads \ {t} : pc'[u] = pc[u]
          /\ pc'[t] \notin {"exclusive", "releaseExclusive", "shared", "releaseShared",
                            "lastShared"}
      BY <1>0
    <3>2. Ex' = Ex \ {t} /\ Sh' = Sh \ {t} /\ Ls' = Ls \ {t}
      BY <3>1, OwnersMove
    <3> QED BY <1>1, <3>2
  <2> QED BY <2>1, <2>2 DEF SharedBy
<1>10. Owners'
  <2>1. Value.shared = 0 => Sh = {}
    BY <1>9, Counting
  <2>2. ~Value'.multi => \A x, y \in Sh : x = y
    <3>1. SUFFICES ASSUME ~Value'.multi, NEW x \in Sh, NEW y \in Sh PROVE x = y
      OBVIOUS
    <3>2. Value.shared \in Nat /\ ~(Value.shared > 1)
      BY <1>1, <1>2, <3>1 DEF Sound, Words
    <3>3. Value.shared = 1
      BY <2>1, <3>1, <3>2
    <3>4. x \in Threads
      BY <1>9
    <3>5. Sh = {x}
      BY <1>9, <3>1, <3>3, <3>4, Counting
    <3> QED BY <3>1, <3>5
  <2>3. Ex # {} => SharedBy = {} /\ ~Value'.multi
    <3>1. Ex # {} => SharedBy = {} /\ Value.shared = 0
      BY <1>1 DEF Owners
    <3> QED BY <1>2, <3>1
  <2>4. Value.owned <=> Ex \cup SharedBy # {}
    BY <1>1 DEF Owners
  <2>5. \A x, y \in Ex : x = y
    BY <1>1 DEF Owners
  <2> QED BY <1>0, <1>2, <1>9, <2>2, <2>3, <2>4, <2>5 DEF Owners
<1>11. Types'
  <2>1. \A u \in Threads : /\ Sound(val'[u])
                           /\ pc'[u] \in Outside => want'[u] = NULL
                           /\ pc'[u] \in {"read", "try", "block", "keyed"} => want'[u] # NULL
    BY <1>0, <1>1 DEF Types, Outside
  <2> QED BY <1>0, <1>1, <1>3, <2>1 DEF Types
<1>12. Counted(d[lo])'
  BY <1>2, <1>8, <1>9 DEF Counted
<1>13. Chain(d, lo, hn, lo)'
  <2>1. \A i \in lo..hn : i = lo /\ ~(i > lo) /\ ~(i < lo) /\ ~(i < hn)
    BY <1>8
  <2>2. lo <= hn + 1 /\ lo <= hn
    BY <1>8
  <2> QED BY <1>2, <1>5, <1>8, <2>1, <2>2 DEF Chain
<1>14. Intact(d, lo, hn)'
  <2>1. \A i \in lo..hn : i = lo /\ ~(i > lo)
    BY <1>8
  <2> QED BY <1>2, <1>8, <2>1 DEF Intact
<1>15. Traversers(d, lo, hn, lo)'
  <2>1. OneTraverser /\ ~Value.trav
    BY <1>0, <1>1 DEF Traversers, Sound
  <2>2. \A u \in Threads \ {t} : pc'[u] \notin Traversal
    BY <1>0, <2>1, OthersDoNot
  <2>3. pc'[t] \notin Traversal
    BY <1>0 DEF Traversal
  <2>4. Traverser(t, d, lo, hn, lo)'
    BY <1>0 DEF Traverser, Traversal
  <2> QED BY <1>2, <2>2, <2>3, <2>4, OnlyTraverser
<1>16. Releasers(d, lo, hn)'
  <2>1. ASSUME NEW u \in Threads PROVE Releaser(u, d, lo, hn)'
    <3>1. CASE u = t
      BY <1>0, <3>1 DEF Releaser
    <3>2. CASE u # t
      <4>1. Releaser(u, c, lo, hi)
        BY <1>1 DEF Releasers
      <4> QED BY <1>0, <3>2, <4>1 DEF Releaser
    <3> QED BY <3>1, <3>2
  <2> QED BY <2>1 DEF Releasers
<1>17. SeenTo(d, M)'
  BY <1>2 DEF SeenTo
<1>18. Shape(d, M, lo, hn, lo, a, b)'
  BY <1>7, <1>10, <1>11, <1>12, <1>13, <1>14, <1>15, <1>16, <1>17 DEF Shape
<1> QED BY <1>18, InvFrom

(* A thread that pushes its block, or fails to and tries again.            *)
LEMMA PushStep ==
  ASSUME NEW c \in [Int -> Threads], NEW L \in SUBSET Int, NEW lo \in Int, NEW hi \in Int,
         NEW k \in Int, NEW a \in [Threads -> Int], NEW b \in [Threads -> Int],
         Shape(c, L, lo, hi, k, a, b), NEW t \in Threads, pc[t] = "try",
         PhpPushQueuedWaitBlock(t), UNCHANGED <<want, cur>>,
         IF want[t] = "exclusive" THEN val[t].owned
         ELSE val[t].waiters \/ (val[t].owned /\ ~(val[t].shared > 0))
  PROVE  QueuedLockInv'
PROOF
<1>1. /\ Types /\ want[t] # NULL /\ Sound(Value) /\ Sound(Free) /\ DOMAIN val = Threads
  BY FreeIsSound DEF Shape, Types
<1>2. CASE Value # val[t]
  <2>1. val' = [val EXCEPT ![t] = Value] /\ UNCHANGED <<Value, blk, pc>>
    BY <1>2 DEF PhpPushQueuedWaitBlock, GoBy
  <2>2. /\ pc'[t] = "try" /\ val'[t] = Value /\ DOMAIN val' = Threads
        /\ \A u \in Threads \ {t} : pc'[u] = pc[u] /\ want'[u] = want[u] /\ val'[u] = val[u]
        /\ pc' \in [Threads -> Points] /\ want' \in [Threads -> Modes] /\ want'[t] # NULL
    BY <1>1, <2>1 DEF Types
  <2>3. Shape(c, L, lo, hi, k, a, b)'
    BY <1>1, <2>1, <2>2, TriesAgain
  <2> QED BY <2>3, InvFrom
<1>3. CASE Value = val[t]
  <2> DEFINE exclusive == want[t] = "exclusive"
  <2>1. PICK v \in Words : v = Value /\ Sound(v)
    BY <1>1 DEF Sound
  <2>2. PICK q \in Blocks : q = PushedBlock(v, exclusive, t)
    <3>0. PICK e \in BOOLEAN : e = exclusive
      OBVIOUS
    <3> HIDE DEF exclusive
    <3>1. PICK n \in Int : n = IF e /\ ~v.waiters THEN v.shared ELSE 0
      BY <2>1 DEF Words
    <3>2. PICK x \in Threads \cup {NULL} : x = IF v.waiters THEN NULL ELSE t
      OBVIOUS
    <3>3. v.block \in Threads \cup {NULL}
      BY <2>1 DEF Words
    <3>4. PushedBlock(v, e, t) =
            [Next |-> v.block, Previous |-> NULL, Last |-> x, SharedOwners |-> n,
             Exclusive |-> e, Spinning |-> TRUE]
      <4>1. PushedBlock(v, e, t) =
              [NoBlock EXCEPT !.Next = v.block, !.Last = x, !.SharedOwners = n,
                              !.Exclusive = e, !.Spinning = TRUE]
        BY <3>1, <3>2, Zenon DEF PushedBlock
      <4> QED BY <4>1 DEF NoBlock
    <3>5. PushedBlock(v, e, t) \in Blocks
      BY <3>3, <3>4 DEF Blocks
    <3> QED BY <3>0, <3>5
  <2>3. PICK new \in Words : new = PushedValue(v, exclusive, t)
    BY <2>1 DEF PushedValue, Free, Words
  <2>4. /\ q.Spinning /\ q.Next = v.block /\ q.Previous = NULL
        /\ q.Last = IF v.waiters THEN NULL ELSE t
        /\ q.SharedOwners = IF exclusive /\ ~v.waiters THEN v.shared ELSE 0
    BY <2>2 DEF PushedBlock, NoBlock
  <2>5. PICK l \in {"optimize", "block"} :
          l = IF v.waiters /\ ~v.trav THEN "optimize" ELSE "block"
    OBVIOUS
  <2>6. PICK go \in {new, Free} : go = IF v.waiters /\ ~v.trav THEN new ELSE Free
    OBVIOUS
  <2>7. /\ Value' = new /\ blk' = [blk EXCEPT ![t] = q] /\ pc' = [pc EXCEPT ![t] = l]
        /\ val' = [val EXCEPT ![t] = go]
    BY <1>3, <2>1, <2>2, <2>3, <2>5, <2>6 DEF PhpPushQueuedWaitBlock, Goto, GoBy
  <2>8. /\ pc' \in [Threads -> Points] /\ pc'[t] = l /\ \A u \in Threads \ {t} : pc'[u] = pc[u]
    BY <1>1, <2>7 DEF Types, Points, Traversal
  <2>9. /\ blk' \in [Threads -> Blocks] /\ blk'[t] = q /\ \A u \in Threads \ {t} : blk'[u] = blk[u]
    BY <1>1, <2>7 DEF Types
  <2>10. /\ DOMAIN val' = Threads /\ val'[t] = go /\ \A u \in Threads \ {t} : val'[u] = val[u]
    BY <1>1, <2>7
  <2>11. NewBlock(t)
    BY <2>4, <2>8, <2>9 DEF NewBlock
  <2>12. CASE v.waiters
    <3>1. new = [Value EXCEPT !.block = t, !.trav = TRUE]
      BY <2>1, <2>3, <2>12 DEF PushedValue
    <3>2. InFront(t)
      BY <2>1, <2>4, <2>5, <2>6, <2>7, <2>8, <2>9, <2>10, <2>11, <2>12, <3>1 DEF InFront
    <3> QED BY <3>2, PushedInFront
  <2>13. CASE ~v.waiters
    <3>1. v.shared \in Nat
      BY <2>1 DEF Words
    <3>2. v.owned /\ (~exclusive => v.shared = 0)
      BY <1>3, <2>1, <2>13, <3>1
    <3>3. new = [Free EXCEPT !.owned = TRUE, !.waiters = TRUE, !.block = t,
                             !.multi = exclusive /\ v.shared > 1]
      BY <2>3, <2>13 DEF PushedValue
    <3>4. /\ new.owned /\ new.waiters /\ ~new.trav /\ new.shared = 0 /\ new.block = t
          /\ new.multi = (exclusive /\ v.shared > 1)
      BY <3>3 DEF Free
    <3>5. new.multi <=> v.shared > 1
      <4>1. CASE exclusive
        BY <3>4, <4>1
      <4>2. CASE ~exclusive
        <5>1. v.shared = 0 /\ ~(v.shared > 1)
          BY <3>2, <4>2
        <5> QED BY <3>4, <4>2, <5>1
      <4> QED BY <4>1, <4>2
    <3>6. q.SharedOwners = v.shared /\ q.Last = t
      BY <2>4, <2>13, <3>2
    <3>7. l = "block" /\ go = Free
      BY <2>5, <2>6, <2>13
    <3>8. Value' = new /\ v = Value
      BY <2>1, <2>7
    <3>9. First(t)
      BY <2>4, <2>8, <2>9, <2>10, <2>11, <2>13, <3>2, <3>4, <3>5, <3>6, <3>7, <3>8 DEF First
    <3> QED BY <3>9, PushedFirst
  <2> QED BY <2>12, <2>13
<1> QED BY <1>2, <1>3
-----------------------------------------------------------------------------
(* Together.                                                               *)

(* At first nobody waits.                                                  *)
LEMMA QueuedLockInitially == Init => QueuedLockInv
PROOF
<1> SUFFICES ASSUME Init PROVE QueuedLockInv
  OBVIOUS
<1>1. PICK s \in Threads : TRUE
  BY QueuedLockAssumption
<1> DEFINE c == [i \in Int |-> s]
           a == [t \in Threads |-> 1]
           b == [t \in Threads |-> 0]
<1>2. /\ c \in [Int -> Threads] /\ a \in [Threads -> Int] /\ b \in [Threads -> Int]
      /\ \A t \in Threads : a[t] = 1 /\ b[t] = 0 /\ ~(a[t] <= b[t]) /\ \A i \in a[t]..b[t] : FALSE
      /\ \A i \in 1..0 : FALSE
  BY <1>1
<1> HIDE DEF c, a, b
<1>3. /\ Value = Free /\ pc = [t \in Threads |-> "idle"] /\ blk = [t \in Threads |-> NoBlock]
      /\ want = [t \in Threads |-> NULL] /\ val = [t \in Threads |-> Free]
      /\ cur = [t \in Threads |-> NULL]
  BY DEF Init
<1>4. Types
  <2>1. blk \in [Threads -> Blocks]
    BY <1>3 DEF NoBlock, Blocks
  <2>2. Sound(Value) /\ DOMAIN val = Threads /\ \A t \in Threads : Sound(val[t])
    BY <1>3, FreeIsSound
  <2>3. /\ pc \in [Threads -> Points] /\ want \in [Threads -> Modes]
        /\ cur \in [Threads -> Threads \cup {NULL}]
        /\ \A t \in Threads : pc[t] = "idle" /\ want[t] = NULL
    BY <1>3 DEF Points, Outside, Modes
  <2> QED BY <2>1, <2>2, <2>3 DEF Types
<1>5. /\ ~Value.owned /\ ~Value.waiters /\ ~Value.trav /\ Value.shared = 0
      /\ \A t \in Threads : pc[t] = "idle" /\ ~blk[t].Spinning
  BY <1>3 DEF Free, NoBlock
<1>6. Ex = {} /\ Sh = {} /\ Ls = {} /\ SharedBy = {}
  BY <1>5 DEF Ex, Sh, Ls, SharedBy
<1>7. Owners
  <2>1. Cardinality({}) = 0
    BY FS_EmptySet
  <2> QED BY <1>5, <1>6, <2>1 DEF Owners
<1>8. Counted(c[1]) /\ Intact(c, 1, 0) /\ SeenTo(c, {})
  BY <1>5, <1>6 DEF Counted, Intact, SeenTo
<1>9. Chain(c, 1, 0, 0)
  <2>1. 1 <= 0 + 1 /\ ~(1 <= 0)
    OBVIOUS
  <2> QED BY <1>2, <1>5, <2>1 DEF Chain
<1>10. Tickets({}, 1, 0, a, b)
  <2>1. \A t \in Threads : b[t] < 1
    BY <1>2
  <2> QED BY <1>2, <2>1 DEF Tickets
<1>11. Members(c, {})
  BY <1>5 DEF Members
<1>12. Wakers(c, a, b)
  <2>1. \A t \in Threads : pc[t] \notin Waking
    BY <1>5 DEF Waking
  <2> QED BY <1>2, <2>1 DEF Wakers
<1>13. Traversers(c, 1, 0, 0)
  <2>1. \A t \in Threads : pc[t] \notin Traversal
    BY <1>5 DEF Traversal
  <2>2. \A t \in Threads : Traverser(t, c, 1, 0, 0)
    BY <2>1 DEF Traverser, Traversal
  <2> QED BY <1>5, <2>1, <2>2 DEF Traversers, OneTraverser
<1>14. Releasers(c, 1, 0)
  BY <1>5 DEF Releasers, Releaser
<1>15. Shape(c, {}, 1, 0, 0, a, b)
  BY <1>4, <1>7, <1>8, <1>9, <1>10, <1>11, <1>12, <1>13, <1>14 DEF Shape
<1>16. \E c1 \in [Int -> Threads], L1 \in SUBSET Int, lo1, hi1, k1 \in Int,
          a1, b1 \in [Threads -> Int] : Shape(c1, L1, lo1, hi1, k1, a1, b1)
  <2> USE <1>2
  <2> WITNESS c \in [Int -> Threads], {} \in SUBSET Int, 1 \in Int, 0 \in Int, 0 \in Int,
              a \in [Threads -> Int], b \in [Threads -> Int]
  <2> QED BY <1>15
<1> QED BY <1>16 DEF QueuedLockInv

(* Every step of a thread keeps the invariant.                             *)
LEMMA QueuedLockStep ==
  ASSUME NEW c \in [Int -> Threads], NEW L \in SUBSET Int, NEW lo \in Int, NEW hi \in Int,
         NEW k \in Int, NEW a \in [Threads -> Int], NEW b \in [Threads -> Int],
         Shape(c, L, lo, hi, k, a, b), Next
  PROVE  QueuedLockInv'
PROOF
<1>1. PICK t \in Threads :
        \/ PhAcquireQueuedLockExclusive(t) \/ PhAcquireQueuedLockShared(t) \/ ReadValue(t)
        \/ PhfAcquireQueuedLockExclusive(t) \/ PhfAcquireQueuedLockShared(t)
        \/ PhpBlockOnQueuedWaitBlock(t)
        \/ PhpOptimizeQueuedLockListEx(t) \/ ClearTraversing(t)
        \/ PhpPrepareToWakeQueuedLock(t) \/ UnlinkOne(t) \/ TakeAll(t)
        \/ PhpUnblockQueuedWaitBlock(t) \/ NtReleaseKeyedEvent(t)
        \/ PhReleaseQueuedLockExclusive(t) \/ PhfWakeForReleaseQueuedLock(t)
        \/ PhfReleaseQueuedLockExclusive(t)
        \/ PhReleaseQueuedLockShared(t) \/ PhfReleaseQueuedLockShared(t) \/ ReleaseLastShared(t)
  BY DEF Next
<1>2. CASE PhAcquireQueuedLockExclusive(t)
  <2>1. Shape(c, L, lo, hi, k, a, b)'
    BY <1>2, AcquireExclusiveStep
  <2> QED BY <2>1, InvFrom
<1>3. CASE PhAcquireQueuedLockShared(t)
  <2>1. Shape(c, L, lo, hi, k, a, b)'
    BY <1>3, AcquireSharedStep
  <2> QED BY <2>1, InvFrom
<1>4. CASE ReadValue(t)
  <2>1. Shape(c, L, lo, hi, k, a, b)'
    BY <1>4, ReadStep
  <2> QED BY <2>1, InvFrom
<1>5. CASE PhfAcquireQueuedLockExclusive(t)
  <2>1. pc[t] = "try" /\ want[t] = "exclusive"
    BY <1>5 DEF PhfAcquireQueuedLockExclusive
  <2>2. CASE ~val[t].owned
    <3>1. Acquired(t, [val[t] EXCEPT !.owned = TRUE], "exclusive")
      BY <1>5, <2>2 DEF PhfAcquireQueuedLockExclusive
    <3>2. TriesToAcquire(t)
      BY <2>2, <3>1 DEF TriesToAcquire
    <3>3. Shape(c, L, lo, hi, k, a, b)'
      BY <2>1, <3>2, AcquiredStep
    <3> QED BY <3>3, InvFrom
  <2>3. CASE val[t].owned
    <3>1. PhpPushQueuedWaitBlock(t) /\ UNCHANGED <<want, cur>>
      BY <1>5, <2>3 DEF PhfAcquireQueuedLockExclusive
    <3> QED BY <2>1, <2>3, <3>1, PushStep
  <2> QED BY <2>2, <2>3
<1>6. CASE PhfAcquireQueuedLockShared(t)
  <2>1. pc[t] = "try" /\ want[t] = "shared" /\ want[t] # "exclusive"
    BY <1>6 DEF PhfAcquireQueuedLockShared
  <2>2. CASE ~val[t].waiters /\ (~val[t].owned \/ val[t].shared > 0)
    <3>1. Acquired(t, [val[t] EXCEPT !.shared = @ + 1, !.owned = TRUE], "shared")
      BY <1>6, <2>2 DEF PhfAcquireQueuedLockShared
    <3>2. TriesToAcquire(t)
      BY <2>2, <3>1 DEF TriesToAcquire
    <3>3. Shape(c, L, lo, hi, k, a, b)'
      BY <2>1, <3>2, AcquiredStep
    <3> QED BY <3>3, InvFrom
  <2>3. CASE val[t].waiters \/ (val[t].owned /\ ~(val[t].shared > 0))
    <3>1. PhpPushQueuedWaitBlock(t) /\ UNCHANGED <<want, cur>>
      BY <1>6, <2>3 DEF PhfAcquireQueuedLockShared
    <3> QED BY <2>1, <2>3, <3>1, PushStep
  <2> QED BY <2>2, <2>3
<1>7. CASE PhpOptimizeQueuedLockListEx(t)
  <2>1. PICK kk \in Int : Shape(c, L, lo, hi, kk, a, b)'
    BY <1>7, OptimizeStep
  <2> QED BY <2>1, InvFrom
<1>8. CASE ClearTraversing(t)
  <2>1. Shape(c, L, lo, hi, k, a, b)'
    BY <1>8, ClearTraversingStep
  <2> QED BY <2>1, InvFrom
<1>9. CASE PhpPrepareToWakeQueuedLock(t)
  BY <1>9, PrepareStep
<1>10. CASE UnlinkOne(t)
  <2>1. Shape(c, L, lo, hi, k, a, b)'
    BY <1>10, UnlinkOneStep
  <2> QED BY <2>1, InvFrom
<1>11. CASE TakeAll(t)
  BY <1>11, TakeAllStep
<1>12. CASE PhpBlockOnQueuedWaitBlock(t)
  BY <1>12, BlockStep
<1>13. CASE PhpUnblockQueuedWaitBlock(t)
  BY <1>13, UnblockStep
<1>14. CASE NtReleaseKeyedEvent(t)
  BY <1>14, ReleaseEventStep
<1>15. CASE PhReleaseQueuedLockExclusive(t)
  <2>1. Shape(c, L, lo, hi, k, a, b)'
    BY <1>15, ReleaseInlineStep
  <2> QED BY <2>1, InvFrom
<1>16. CASE PhfWakeForReleaseQueuedLock(t)
  <2>1. Shape(c, L, lo, hi, k, a, b)'
    BY <1>16, WakeForReleaseStep
  <2> QED BY <2>1, InvFrom
<1>17. CASE PhfReleaseQueuedLockExclusive(t)
  <2>1. Shape(c, L, lo, hi, k, a, b)'
    BY <1>17, ReleaseExclusiveStep
  <2> QED BY <2>1, InvFrom
<1>18. CASE PhReleaseQueuedLockShared(t)
  <2>1. Shape(c, L, lo, hi, k, a, b)'
    BY <1>18, ReleaseSharedStep
  <2> QED BY <2>1, InvFrom
<1>19. CASE PhfReleaseQueuedLockShared(t)
  <2>1. Shape(c, L, lo, hi, k, a, b)'
    BY <1>19, ReleaseSharedSlowStep
  <2> QED BY <2>1, InvFrom
<1>20. CASE ReleaseLastShared(t)
  <2>1. Shape(c, L, lo, hi, k, a, b)'
    BY <1>20, ReleaseLastSharedStep
  <2> QED BY <2>1, InvFrom
<1> QED BY <1>1, <1>2, <1>3, <1>4, <1>5, <1>6, <1>7, <1>8, <1>9, <1>10, <1>11, <1>12, <1>13,
           <1>14, <1>15, <1>16, <1>17, <1>18, <1>19, <1>20

(* So does a step of something else.                                       *)
LEMMA QueuedLockStutter ==
  ASSUME NEW c \in [Int -> Threads], NEW L \in SUBSET Int, NEW lo \in Int, NEW hi \in Int,
         NEW k \in Int, NEW a \in [Threads -> Int], NEW b \in [Threads -> Int],
         Shape(c, L, lo, hi, k, a, b), UNCHANGED vars
  PROVE  QueuedLockInv'
PROOF
<1>1. UNCHANGED <<Value, blk, pc, want, val, cur>>
  BY DEF vars
<1>2. Ex' = Ex /\ Sh' = Sh /\ Ls' = Ls /\ SharedBy' = SharedBy
  BY <1>1 DEF Ex, Sh, Ls, SharedBy
<1>3. Types' /\ Owners' /\ Counted(c[lo])' /\ Chain(c, lo, hi, k)' /\ Intact(c, lo, hi)'
  BY <1>1, <1>2 DEF Shape, Types, Owners, Counted, Chain, Intact
<1>4. Tickets(L, lo, hi, a, b)' /\ Members(c, L)' /\ Wakers(c, a, b)'
  BY <1>1 DEF Shape, Tickets, Members, Wakers, Queued
<1>5. Traversers(c, lo, hi, k)'
  BY <1>1, <1>2 DEF Shape, Traversers, OneTraverser, Traverser, Starts
<1>6. Releasers(c, lo, hi)' /\ SeenTo(c, L)'
  BY <1>1 DEF Shape, Releasers, Releaser, SeenTo, Awake
<1>7. Shape(c, L, lo, hi, k, a, b)'
  BY <1>3, <1>4, <1>5, <1>6 DEF Shape
<1> QED BY <1>7, InvFrom

(* The invariant is inductive.                                             *)
LEMMA QueuedLockNext == QueuedLockInv /\ [Next]_vars => QueuedLockInv'
PROOF
<1> SUFFICES ASSUME QueuedLockInv, [Next]_vars PROVE QueuedLockInv'
  OBVIOUS
<1>1. PICK c \in [Int -> Threads], L \in SUBSET Int, lo \in Int, hi \in Int, k \in Int,
           a \in [Threads -> Int], b \in [Threads -> Int] : Shape(c, L, lo, hi, k, a, b)
  BY DEF QueuedLockInv
<1>2. CASE Next
  BY <1>1, <1>2, QueuedLockStep
<1>3. CASE UNCHANGED vars
  BY <1>1, <1>3, QueuedLockStutter
<1> QED BY <1>2, <1>3

(* The invariant of the queued lock: tickets in order of the pushes, each  *)
(* on the chain or about to be woken, and somebody who sees to a chain     *)
(* whose lock is free.                                                     *)
THEOREM QueuedLockInvariance == Spec => []QueuedLockInv
PROOF
  BY QueuedLockInitially, QueuedLockNext, PTL DEF Spec
-----------------------------------------------------------------------------
(* What the invariant says of the lock.                                    *)

(* The assertions of the code hold.                                        *)
LEMMA AssertionsFollow == QueuedLockInv => AssertsHold
PROOF
<1> SUFFICES ASSUME QueuedLockInv PROVE AssertsHold
  OBVIOUS
<1>1. PICK c \in [Int -> Threads], L \in SUBSET Int, lo \in Int, hi \in Int, k \in Int,
           a \in [Threads -> Int], b \in [Threads -> Int] : Shape(c, L, lo, hi, k, a, b)
  BY DEF QueuedLockInv
<1>2. \A t \in Threads : Traverser(t, c, lo, hi, k) /\ Releaser(t, c, lo, hi)
  BY <1>1 DEF Shape, Traversers, Releasers
<1>3. ASSUME NEW t \in Threads
      PROVE  /\ pc[t] \in {"optimize", "optimized"} => val[t].trav
             /\ pc[t] \in {"wake", "takeAll"} => val[t].trav /\ ~val[t].multi
  BY <1>2 DEF Traverser, Traversal
<1>4. ASSUME NEW t \in Threads
      PROVE  /\ pc[t] = "releaseExclusive" =>
                  val[t].owned /\ (val[t].waiters \/ val[t].shared = 0)
             /\ pc[t] = "releaseShared" /\ ~val[t].waiters => val[t].owned /\ val[t].shared > 0
  BY <1>2 DEF Releaser
<1> QED BY <1>3, <1>4 DEF AssertsHold

(* Every block that is reached is in use: it has a ticket.                 *)
LEMMA BlocksFollow == QueuedLockInv => BlocksLive
PROOF
<1> SUFFICES ASSUME QueuedLockInv PROVE BlocksLive
  OBVIOUS
<1>1. PICK c \in [Int -> Threads], L \in SUBSET Int, lo \in Int, hi \in Int, k \in Int,
           a \in [Threads -> Int], b \in [Threads -> Int] : Shape(c, L, lo, hi, k, a, b)
  BY DEF QueuedLockInv
<1>2. /\ Types /\ Chain(c, lo, hi, k) /\ Intact(c, lo, hi)
      /\ Tickets(L, lo, hi, a, b) /\ Members(c, L) /\ Wakers(c, a, b)
      /\ Traversers(c, lo, hi, k) /\ Releasers(c, lo, hi)
  BY <1>1 DEF Shape
<1>3. \A i \in lo..hi : Queued(c[i])
  BY <1>2 DEF Tickets, Members
<1>4. Value.waiters => lo \in lo..hi /\ lo <= k /\ k <= hi /\ Value.block = c[hi]
  BY <1>2 DEF Chain
<1>5. ASSUME Value.waiters
      PROVE  /\ \A x \in ToSet(Walk(Value.block)) : Queued(x)
             /\ Queued(PhpFindLastQueuedWaitBlock(Value.block))
  <2>1. hi \in k..hi
    BY <1>4, <1>5
  <2>2. PhpFindLastQueuedWaitBlock(c[hi]) = c[lo] /\ OnChain(c, lo, hi, hi)
    BY <1>2, <1>5, <2>1, WayFromNew
  <2> QED BY <1>3, <1>4, <1>5, <2>2 DEF OnChain
<1>6. ASSUME NEW t \in Threads
      PROVE  pc[t] \in {"unlinked", "takeAll", "unblock", "release"} => Queued(cur[t])
  <2>1. CASE pc[t] \in Waking
    <3>1. a[t] \in a[t]..b[t] /\ cur[t] = c[a[t]]
      <4>1. a[t] <= b[t] /\ cur[t] = c[a[t]]
        BY <1>2, <2>1 DEF Wakers
      <4> QED BY <4>1
    <3>2. a[t] \in L
      BY <1>2, <3>1 DEF Tickets
    <3> QED BY <1>2, <3>1, <3>2 DEF Members
  <2>2. CASE pc[t] = "takeAll"
    <3>1. cur[t] = c[lo]
      BY <1>2, <2>2 DEF Traversers, Traverser
    <3>2. Value.waiters
      BY <1>2, <2>2 DEF Traversers, OneTraverser, Traversal, Types, Sound
    <3> QED BY <1>3, <1>4, <3>1, <3>2
  <2> QED BY <2>1, <2>2 DEF Waking
<1>7. ASSUME NEW t \in Threads
      PROVE  pc[t] \in {"optimize", "optimized", "wake"} => Queued(val[t].block)
  <2>1. SUFFICES ASSUME pc[t] \in {"optimize", "optimized", "wake"}
                 PROVE  Queued(val[t].block)
    OBVIOUS
  <2>2. PICK f \in Int : Starts(t, c, lo, hi, k, f)
    BY <1>2, <2>1 DEF Traversers, Traverser, Traversal
  <2>3. Value.waiters
    BY <1>2, <2>1 DEF Traversers, OneTraverser, Traversal, Types, Sound
  <2>4. f \in k..hi /\ val[t].block = c[f]
    BY <2>2 DEF Starts
  <2>5. f \in lo..hi
    BY <1>4, <2>3, <2>4
  <2> QED BY <1>3, <2>4, <2>5
<1>8. ASSUME NEW t \in Threads, pc[t] = "releaseShared", val[t].waiters
      PROVE  Queued(PhpFindLastQueuedWaitBlock(val[t].block))
  <2>1. Releaser(t, c, lo, hi)
    BY <1>2 DEF Releasers
  <2>2. PICK f \in lo..hi : val[t].block = c[f]
    BY <1>8, <2>1 DEF Releaser
  <2>3. SharedBy # {}
    BY <1>8 DEF SharedBy, Sh
  <2>4. PhpFindLastQueuedWaitBlock(c[f]) = c[lo]
    BY <1>2, <2>3, WayFromAll
  <2>5. lo \in lo..hi
    BY <2>2
  <2> QED BY <1>3, <2>2, <2>4, <2>5
<1> QED BY <1>5, <1>6, <1>7, <1>8 DEF BlocksLive

(* A sleeper has a ticket on the chain, and somebody will see to it.       *)
LEMMA NoneSleeps == QueuedLockInv => NoLostWakeup
PROOF
<1> SUFFICES ASSUME QueuedLockInv, \A t \in Threads : pc[t] \in {"idle", "keyed"},
                    NEW s \in Threads, pc[s] # "idle"
             PROVE  FALSE
  BY DEF NoLostWakeup
<1>1. PICK c \in [Int -> Threads], L \in SUBSET Int, lo \in Int, hi \in Int, k \in Int,
           a \in [Threads -> Int], b \in [Threads -> Int] : Shape(c, L, lo, hi, k, a, b)
  BY DEF QueuedLockInv
<1>2. /\ Types /\ Owners /\ Chain(c, lo, hi, k) /\ Tickets(L, lo, hi, a, b) /\ Members(c, L)
      /\ Wakers(c, a, b) /\ Traversers(c, lo, hi, k) /\ SeenTo(c, L)
  BY <1>1 DEF Shape
<1>3. \A t \in Threads : pc[t] = "idle" \/ pc[t] = "keyed"
  OBVIOUS
<1>4. PICK i \in L : c[i] = s
  BY <1>2, <1>3 DEF Members
<1>5. i \in lo..hi
  <2>1. \A t \in Threads : ~(a[t] <= b[t])
    BY <1>2, <1>3 DEF Wakers, Waking
  <2>2. \A t \in Threads : i \notin a[t]..b[t]
    BY <2>1
  <2> QED BY <1>2, <2>2 DEF Tickets
<1>6. Value.waiters
  <2>1. lo <= hi
    BY <1>5
  <2> QED BY <1>2, <2>1 DEF Chain
<1>7. ~Value.owned
  <2>1. Ex = {} /\ SharedBy = {}
    BY <1>3 DEF Ex, SharedBy, Sh, Ls
  <2> QED BY <1>2, <2>1 DEF Owners
<1>8. ~Value.trav
  BY <1>2, <1>3 DEF Traversers, OneTraverser, Traversal
<1>9. PICK t \in Threads : Awake(t, c, L)
  BY <1>2, <1>6, <1>7, <1>8 DEF SeenTo
<1>10. want[t] # NULL /\ \A j \in L : c[j] # t
  BY <1>3, <1>9 DEF Awake
<1>11. pc[t] # "idle"
  BY <1>2, <1>10 DEF Types, Outside
<1>12. pc[t] # "keyed"
  BY <1>2, <1>10 DEF Members
<1> QED BY <1>3, <1>11, <1>12

(* What PhpPrepareToWakeQueuedLock, the optimizer and the releasers assert *)
(* of the value they go by is so.                                          *)
THEOREM QueuedLockAsserts == Spec => []AssertsHold
PROOF
  BY QueuedLockInvariance, AssertionsFollow, PTL

(* No thread follows a pointer to a wait block that is no longer on the    *)
(* stack of a waiting thread.                                              *)
THEOREM QueuedLockBlocks == Spec => []BlocksLive
PROOF
  BY QueuedLockInvariance, BlocksFollow, PTL

(* No wake-up is lost: never do all threads sleep, or stay away from the   *)
(* lock, while one sleeps.                                                 *)
THEOREM QueuedLockWakes == Spec => []NoLostWakeup
PROOF
  BY QueuedLockInvariance, NoneSleeps, PTL
-----------------------------------------------------------------------------
(* The queued lock is a reader-writer lock.                                *)

ExPoints == {"exclusive", "releaseExclusive"}
ShPoints == {"shared", "releaseShared"}

(* How threads hold the lock, by the sets of its owners.                   *)
LEMMA HoldsIs ==
  /\ Holds = [t \in Threads |-> IF t \in Ex THEN "exclusive"
                                ELSE IF t \in Sh THEN "shared" ELSE "none"]
  /\ Holds' = [t \in Threads |-> IF t \in Ex' THEN "exclusive"
                                 ELSE IF t \in Sh' THEN "shared" ELSE "none"]
PROOF
<1>1. \A t \in Threads : /\ t \in Ex <=> pc[t] \in ExPoints
                         /\ t \in Sh <=> pc[t] \in ShPoints
                         /\ t \in Ex' <=> pc'[t] \in ExPoints
                         /\ t \in Sh' <=> pc'[t] \in ShPoints
  BY DEF Ex, Sh, ExPoints, ShPoints
<1>2. Holds = [t \in Threads |-> IF t \in Ex THEN "exclusive"
                                 ELSE IF t \in Sh THEN "shared" ELSE "none"]
  BY <1>1 DEF Holds, ExPoints, ShPoints
<1>3. Holds' = [t \in Threads |-> IF t \in Ex' THEN "exclusive"
                                  ELSE IF t \in Sh' THEN "shared" ELSE "none"]
  BY <1>1 DEF Holds, ExPoints, ShPoints
<1> QED BY <1>2, <1>3

\* The ways in which a step of t changes the owners.
Neutral(t) ==
  (pc'[t] \in ExPoints <=> pc[t] \in ExPoints) /\ (pc'[t] \in ShPoints <=> pc[t] \in ShPoints)
Leaves(t) ==
  pc[t] \in ExPoints \cup ShPoints /\ pc'[t] \notin ExPoints \cup ShPoints
TakesExclusive(t) ==
  pc'[t] = "exclusive" /\ Ex = {} /\ Sh = {}
TakesShared(t) ==
  pc'[t] = "shared" /\ Ex = {} /\ t \notin Sh

(* Each is a step of the reader-writer lock, or none.                      *)
LEMMA OwnersStep ==
  ASSUME NEW t \in Threads,
         \A u \in Threads \ {t} : pc'[u] = pc[u] \/ (pc[u] = "keyed" /\ pc'[u] = "read"),
         Neutral(t) \/ Leaves(t) \/ TakesExclusive(t) \/ TakesShared(t)
  PROVE  [Abstract!Next]_Holds
PROOF
<1>1. \A u \in Threads : /\ u \in Ex <=> pc[u] \in ExPoints
                         /\ u \in Sh <=> pc[u] \in ShPoints
                         /\ u \in Ex' <=> pc'[u] \in ExPoints
                         /\ u \in Sh' <=> pc'[u] \in ShPoints
  BY DEF Ex, Sh, ExPoints, ShPoints
<1>2. \A u \in Threads \ {t} : (u \in Ex' <=> u \in Ex) /\ (u \in Sh' <=> u \in Sh)
  BY <1>1 DEF ExPoints, ShPoints
<1>3. CASE Neutral(t)
  <2>1. \A u \in Threads : (u \in Ex' <=> u \in Ex) /\ (u \in Sh' <=> u \in Sh)
    BY <1>1, <1>2, <1>3 DEF Neutral
  <2>2. Holds' = Holds
    BY <2>1, HoldsIs
  <2> QED BY <2>2
<1>4. CASE Leaves(t)
  <2>1. t \notin Ex' /\ t \notin Sh' /\ (t \in Ex \/ t \in Sh)
    BY <1>1, <1>4 DEF Leaves
  <2>2. Holds[t] # "none"
    BY <2>1, HoldsIs
  <2>3. Holds' = [Holds EXCEPT ![t] = "none"]
    BY <1>2, <2>1, HoldsIs
  <2>4. Abstract!Release(t)
    BY <2>2, <2>3 DEF Abstract!Release
  <2> QED BY <2>4 DEF Abstract!Next
<1>5. CASE TakesExclusive(t)
  <2>1. t \in Ex' /\ \A u \in Threads : u \notin Ex /\ u \notin Sh
    BY <1>1, <1>5 DEF TakesExclusive, ExPoints
  <2>2. \A u \in Threads : Holds[u] = "none"
    BY <2>1, HoldsIs
  <2>3. Holds' = [Holds EXCEPT ![t] = "exclusive"]
    BY <1>2, <2>1, HoldsIs
  <2>4. Abstract!AcquireExclusive(t)
    BY <2>2, <2>3 DEF Abstract!AcquireExclusive
  <2> QED BY <2>4 DEF Abstract!Next
<1>6. CASE TakesShared(t)
  <2>1. t \in Sh' /\ t \notin Ex' /\ t \notin Sh /\ \A u \in Threads : u \notin Ex
    BY <1>1, <1>6 DEF TakesShared, ExPoints, ShPoints
  <2>2. Holds[t] = "none" /\ \A u \in Threads : Holds[u] # "exclusive"
    BY <2>1, HoldsIs
  <2>3. Holds' = [Holds EXCEPT ![t] = "shared"]
    BY <1>2, <2>1, HoldsIs
  <2>4. Abstract!AcquireShared(t)
    BY <2>2, <2>3 DEF Abstract!AcquireShared
  <2> QED BY <2>4 DEF Abstract!Next
<1> QED BY <1>3, <1>4, <1>5, <1>6

(* Nobody has a lock that is free, and nobody exclusively one that is      *)
(* shared.                                                                 *)
LEMMA FreeOrShared ==
  ASSUME QueuedLockInv
  PROVE  /\ pc \in [Threads -> Points]
         /\ ~Value.owned => Ex = {} /\ Sh = {}
         /\ Value.shared > 0 => Ex = {}
PROOF
<1>1. PICK c \in [Int -> Threads], L \in SUBSET Int, lo \in Int, hi \in Int, k \in Int,
           a \in [Threads -> Int], b \in [Threads -> Int] : Shape(c, L, lo, hi, k, a, b)
  BY DEF QueuedLockInv
<1>2. Types /\ Owners
  BY <1>1 DEF Shape
<1>3. ~Value.owned => Ex = {} /\ Sh = {}
  BY <1>2 DEF Owners, SharedBy
<1>4. Value.shared > 0 => Ex = {}
  <2>1. Ex # {} => Value.shared = 0
    BY <1>2 DEF Owners
  <2>2. ~(0 > 0)
    OBVIOUS
  <2> QED BY <2>1, <2>2
<1> QED BY <1>2, <1>3, <1>4 DEF Types

(* A step from one point to another.                                       *)
LEMMA PointMoves ==
  ASSUME pc \in [Threads -> Points], NEW t \in Threads, NEW l, pc' = [pc EXCEPT ![t] = l]
  PROVE  pc'[t] = l /\ \A u \in Threads \ {t} : pc'[u] = pc[u]
  OBVIOUS

(* The steps of acquiring the lock.                                        *)
LEMMA HoldsAcquire ==
  ASSUME QueuedLockInv, NEW t \in Threads,
         \/ PhAcquireQueuedLockExclusive(t) \/ PhAcquireQueuedLockShared(t) \/ ReadValue(t)
         \/ PhfAcquireQueuedLockExclusive(t) \/ PhfAcquireQueuedLockShared(t)
  PROVE  [Abstract!Next]_Holds
PROOF
<1>1. /\ pc \in [Threads -> Points] /\ (~Value.owned => Ex = {} /\ Sh = {})
      /\ Value.shared > 0 => Ex = {}
  BY FreeOrShared
<1>2. pc[t] \in {"idle", "read", "try"}
  BY DEF PhAcquireQueuedLockExclusive, PhAcquireQueuedLockShared, ReadValue,
         PhfAcquireQueuedLockExclusive, PhfAcquireQueuedLockShared
<1>3. ASSUME NEW l \in {"read", "try", "optimize", "block", "exclusive", "shared"},
             pc' = [pc EXCEPT ![t] = l],
             l = "exclusive" => Ex = {} /\ Sh = {}, l = "shared" => Ex = {}
      PROVE  [Abstract!Next]_Holds
  <2>1. pc'[t] = l /\ \A u \in Threads \ {t} : pc'[u] = pc[u]
    BY <1>1, <1>3, PointMoves
  <2>2. t \notin Sh
    BY <1>2 DEF Sh
  <2>3. Neutral(t) \/ TakesExclusive(t) \/ TakesShared(t)
    BY <1>2, <1>3, <2>1, <2>2 DEF Neutral, TakesExclusive, TakesShared, ExPoints, ShPoints
  <2> QED BY <2>1, <2>3, OwnersStep
<1>4. CASE PhAcquireQueuedLockExclusive(t)
  <2>1. \/ pc' = [pc EXCEPT ![t] = "read"]
        \/ ~Value.owned /\ pc' = [pc EXCEPT ![t] = "exclusive"]
    BY <1>4 DEF PhAcquireQueuedLockExclusive, Goto
  <2> QED BY <1>1, <1>3, <2>1
<1>5. CASE PhAcquireQueuedLockShared(t)
  <2>1. \/ pc' = [pc EXCEPT ![t] = "read"]
        \/ ~Value.owned /\ pc' = [pc EXCEPT ![t] = "shared"]
    BY <1>5 DEF PhAcquireQueuedLockShared, Goto, Free
  <2> QED BY <1>1, <1>3, <2>1
<1>6. CASE ReadValue(t)
  <2>1. pc' = [pc EXCEPT ![t] = "try"]
    BY <1>6 DEF ReadValue, Goto
  <2> QED BY <1>3, <2>1
<1>7. pc' = pc => [Abstract!Next]_Holds
  <2>1. ASSUME pc' = pc PROVE [Abstract!Next]_Holds
    <3>1. Neutral(t) /\ \A u \in Threads \ {t} : pc'[u] = pc[u]
      BY <2>1 DEF Neutral
    <3> QED BY <3>1, OwnersStep
  <2> QED BY <2>1
<1>8. ASSUME PhpPushQueuedWaitBlock(t) PROVE [Abstract!Next]_Holds
  <2>1. \/ pc' = [pc EXCEPT ![t] = "optimize"] \/ pc' = [pc EXCEPT ![t] = "block"]
        \/ pc' = pc
    BY <1>8 DEF PhpPushQueuedWaitBlock, Goto
  <2> QED BY <1>3, <1>7, <2>1
<1>9. CASE PhfAcquireQueuedLockExclusive(t)
  <2>1. CASE ~val[t].owned
    <3>1. \/ ~Value.owned /\ pc' = [pc EXCEPT ![t] = "exclusive"]
          \/ pc' = [pc EXCEPT ![t] = "try"]
      BY <1>9, <2>1 DEF PhfAcquireQueuedLockExclusive, Acquired, CompareExchange, Goto
    <3> QED BY <1>1, <1>3, <3>1
  <2>2. CASE val[t].owned
    BY <1>8, <1>9, <2>2 DEF PhfAcquireQueuedLockExclusive
  <2> QED BY <2>1, <2>2
<1>10. CASE PhfAcquireQueuedLockShared(t)
  <2>1. CASE ~val[t].waiters /\ (~val[t].owned \/ val[t].shared > 0)
    <3>1. \/ /\ ~Value.owned \/ Value.shared > 0
             /\ pc' = [pc EXCEPT ![t] = "shared"]
          \/ pc' = [pc EXCEPT ![t] = "try"]
      BY <1>10, <2>1 DEF PhfAcquireQueuedLockShared, Acquired, CompareExchange, Goto
    <3> QED BY <1>1, <1>3, <3>1
  <2>2. CASE ~(~val[t].waiters /\ (~val[t].owned \/ val[t].shared > 0))
    BY <1>8, <1>10, <2>2 DEF PhfAcquireQueuedLockShared
  <2> QED BY <2>1, <2>2
<1> QED BY <1>4, <1>5, <1>6, <1>9, <1>10

\* The points of a thread that does not hold the lock.
Elsewhere == Points \ (ExPoints \cup ShPoints)

(* A step between such points.                                             *)
LEMMA StaysOff ==
  ASSUME pc \in [Threads -> Points], NEW t \in Threads, pc[t] \in Elsewhere,
         NEW l \in Elsewhere, pc' = [pc EXCEPT ![t] = l]
  PROVE  [Abstract!Next]_Holds
PROOF
<1>1. pc'[t] = l /\ \A u \in Threads \ {t} : pc'[u] = pc[u]
  BY PointMoves
<1>2. Neutral(t)
  BY <1>1 DEF Neutral, Elsewhere
<1> QED BY <1>1, <1>2, OwnersStep

(* The steps of waiting, optimizing and waking.                            *)
LEMMA HoldsWait ==
  ASSUME QueuedLockInv, NEW t \in Threads,
         \/ PhpBlockOnQueuedWaitBlock(t)
         \/ PhpOptimizeQueuedLockListEx(t) \/ ClearTraversing(t)
         \/ PhpPrepareToWakeQueuedLock(t) \/ UnlinkOne(t) \/ TakeAll(t)
         \/ PhpUnblockQueuedWaitBlock(t) \/ PhfWakeForReleaseQueuedLock(t)
  PROVE  [Abstract!Next]_Holds
PROOF
<1>1. pc \in [Threads -> Points]
  BY FreeOrShared
<1>2. {"idle", "read", "block", "keyed", "wakeForRelease"} \cup Traversal \cup Waking
        \subseteq Elsewhere
  BY DEF Elsewhere, Points, Outside, Traversal, Waking, ExPoints, ShPoints
<1>3. After(t) \in {"idle", "block"}
  BY DEF After
<1>4. ASSUME NEW l \in {"idle", "read", "block", "keyed"} \cup Traversal \cup Waking,
             pc[t] \in {"block", "wakeForRelease"} \cup Traversal \cup Waking,
             pc' = [pc EXCEPT ![t] = l]
      PROVE  [Abstract!Next]_Holds
  BY <1>1, <1>2, <1>4, StaysOff
<1>5. CASE PhpBlockOnQueuedWaitBlock(t)
  <2>1. pc[t] = "block" /\ \E l \in {"read", "keyed"} : pc' = [pc EXCEPT ![t] = l]
    BY <1>5 DEF PhpBlockOnQueuedWaitBlock, Goto
  <2> QED BY <1>4, <2>1
<1>6. CASE PhpOptimizeQueuedLockListEx(t)
  <2>1. pc[t] = "optimize" /\ \E l \in {"optimized", "wake"} : pc' = [pc EXCEPT ![t] = l]
    BY <1>6 DEF PhpOptimizeQueuedLockListEx, Goto
  <2> QED BY <1>4, <2>1 DEF Traversal
<1>7. CASE ClearTraversing(t)
  <2>1. pc[t] = "optimized" /\ \E l \in {After(t), "optimize"} : pc' = [pc EXCEPT ![t] = l]
    BY <1>7 DEF ClearTraversing, CompareExchange, Goto
  <2> QED BY <1>3, <1>4, <2>1 DEF Traversal
<1>8. CASE PhpPrepareToWakeQueuedLock(t)
  <2>1. pc[t] = "wake"
    BY <1>8 DEF PhpPrepareToWakeQueuedLock
  <2>2. \E l \in {After(t), "wake", "unlinked", "takeAll"} : pc' = [pc EXCEPT ![t] = l]
    <3>1. CASE val[t].owned
      BY <1>8, <3>1 DEF PhpPrepareToWakeQueuedLock, CompareExchange, Goto
    <3>2. CASE ~val[t].owned
      BY <1>8, <3>2 DEF PhpPrepareToWakeQueuedLock, Goto
    <3> QED BY <3>1, <3>2
  <2> QED BY <1>3, <1>4, <2>1, <2>2 DEF Traversal
<1>9. CASE UnlinkOne(t)
  <2>1. pc[t] = "unlinked" /\ pc' = [pc EXCEPT ![t] = "unblock"]
    BY <1>9 DEF UnlinkOne, Goto
  <2> QED BY <1>4, <2>1 DEF Traversal, Waking
<1>10. CASE TakeAll(t)
  <2>1. pc[t] = "takeAll" /\ \E l \in {"unblock", "wake"} : pc' = [pc EXCEPT ![t] = l]
    BY <1>10 DEF TakeAll, CompareExchange, Goto
  <2> QED BY <1>4, <2>1 DEF Traversal, Waking
<1>11. CASE PhpUnblockQueuedWaitBlock(t)
  <2>1. pc[t] = "unblock" /\ \E l \in {After(t), "unblock", "release"} : pc' = [pc EXCEPT ![t] = l]
    BY <1>11 DEF PhpUnblockQueuedWaitBlock, Goto
  <2> QED BY <1>3, <1>4, <2>1 DEF Waking
<1>12. CASE PhfWakeForReleaseQueuedLock(t)
  <2>1. pc[t] = "wakeForRelease" /\ \E l \in {"wake", "idle"} : pc' = [pc EXCEPT ![t] = l]
    BY <1>12 DEF PhfWakeForReleaseQueuedLock, Goto
  <2> QED BY <1>4, <2>1 DEF Traversal
<1> QED BY <1>5, <1>6, <1>7, <1>8, <1>9, <1>10, <1>11, <1>12

(* The step at the keyed event: the thread that is met does not hold the   *)
(* lock either.                                                            *)
LEMMA HoldsEvent ==
  ASSUME QueuedLockInv, NEW t \in Threads, NtReleaseKeyedEvent(t)
  PROVE  [Abstract!Next]_Holds
PROOF
<1>1. pc \in [Threads -> Points]
  BY FreeOrShared
<1>2. PICK l \in {"idle", "block", "unblock"} :
        pc' = [pc EXCEPT ![cur[t]] = "read", ![t] = l]
  BY DEF NtReleaseKeyedEvent, After
<1>3. pc[t] = "release" /\ pc[cur[t]] = "keyed"
  BY DEF NtReleaseKeyedEvent
<1>4. /\ pc'[t] = l
      /\ \A u \in Threads \ {t} : pc'[u] = pc[u] \/ (pc[u] = "keyed" /\ pc'[u] = "read")
  BY <1>1, <1>2, <1>3
<1>5. Neutral(t)
  BY <1>3, <1>4 DEF Neutral, ExPoints, ShPoints
<1> QED BY <1>4, <1>5, OwnersStep

(* The steps of releasing the lock.                                        *)
LEMMA HoldsRelease ==
  ASSUME QueuedLockInv, NEW t \in Threads,
         \/ PhReleaseQueuedLockExclusive(t) \/ PhfReleaseQueuedLockExclusive(t)
         \/ PhReleaseQueuedLockShared(t) \/ PhfReleaseQueuedLockShared(t)
         \/ ReleaseLastShared(t)
  PROVE  [Abstract!Next]_Holds
PROOF
<1>1. pc \in [Threads -> Points]
  BY FreeOrShared
<1>2. ASSUME pc' = pc PROVE [Abstract!Next]_Holds
  <2>1. Neutral(t) /\ \A u \in Threads \ {t} : pc'[u] = pc[u]
    BY <1>2 DEF Neutral
  <2> QED BY <2>1, OwnersStep
<1>3. ASSUME NEW l, pc' = [pc EXCEPT ![t] = l],
             \/ l \notin ExPoints \cup ShPoints /\ pc[t] \in ExPoints \cup ShPoints \cup {"lastShared"}
             \/ l \in ExPoints /\ pc[t] \in ExPoints
             \/ l \in ShPoints /\ pc[t] \in ShPoints
      PROVE  [Abstract!Next]_Holds
  <2>1. pc'[t] = l /\ \A u \in Threads \ {t} : pc'[u] = pc[u]
    BY <1>1, <1>3, PointMoves
  <2>2. Neutral(t) \/ Leaves(t)
    BY <1>3, <2>1 DEF Neutral, Leaves, ExPoints, ShPoints
  <2> QED BY <2>1, <2>2, OwnersStep
<1>4. CASE PhReleaseQueuedLockExclusive(t)
  <2>1. pc[t] = "exclusive" /\ \E l \in {"wakeForRelease", "idle"} : pc' = [pc EXCEPT ![t] = l]
    BY <1>4 DEF PhReleaseQueuedLockExclusive, Goto
  <2> QED BY <1>3, <2>1 DEF ExPoints, ShPoints
<1>5. CASE PhfReleaseQueuedLockExclusive(t)
  <2>1. \/ pc[t] = "exclusive" /\ pc' = [pc EXCEPT ![t] = "releaseExclusive"]
        \/ pc[t] = "releaseExclusive" /\ \E l \in {"wake", "idle"} : pc' = [pc EXCEPT ![t] = l]
        \/ pc' = pc
    BY <1>5 DEF PhfReleaseQueuedLockExclusive, Goto
  <2> QED BY <1>2, <1>3, <2>1 DEF ExPoints, ShPoints
<1>6. CASE PhReleaseQueuedLockShared(t)
  <2>1. pc[t] = "shared" /\ \E l \in {"idle", "releaseShared"} : pc' = [pc EXCEPT ![t] = l]
    BY <1>6 DEF PhReleaseQueuedLockShared, Goto
  <2> QED BY <1>3, <2>1 DEF ExPoints, ShPoints
<1>7. CASE PhfReleaseQueuedLockShared(t)
  <2>1. /\ pc[t] = "releaseShared"
        /\ \E l \in {"idle", "releaseShared", "lastShared"} : pc' = [pc EXCEPT ![t] = l]
    BY <1>7 DEF PhfReleaseQueuedLockShared, CompareExchange, Goto
  <2> QED BY <1>3, <2>1 DEF ExPoints, ShPoints
<1>8. CASE ReleaseLastShared(t)
  <2>1. \/ pc[t] = "lastShared" /\ \E l \in {"wake", "idle"} : pc' = [pc EXCEPT ![t] = l]
        \/ pc' = pc
    BY <1>8 DEF ReleaseLastShared, Goto
  <2> QED BY <1>2, <1>3, <2>1 DEF ExPoints, ShPoints
<1> QED BY <1>4, <1>5, <1>6, <1>7, <1>8

(* The queued lock is a reader-writer lock: an exclusive owner is alone,   *)
(* however fast paths, pushes and wake-ups interleave (queuedlock.c).      *)
THEOREM QueuedLockRefines == Spec => ImplementsRWLock
PROOF
<1>1. Init => Abstract!Init
  <2>1. ASSUME Init PROVE Abstract!Init
    <3>1. \A t \in Threads : pc[t] = "idle"
      BY <2>1 DEF Init
    <3> QED BY <3>1 DEF Abstract!Init, Holds
  <2> QED BY <2>1
<1>2. QueuedLockInv /\ [Next]_vars => [Abstract!Next]_Holds
  <2>1. SUFFICES ASSUME QueuedLockInv, [Next]_vars PROVE [Abstract!Next]_Holds
    OBVIOUS
  <2>2. CASE UNCHANGED vars
    <3>1. pc' = pc
      BY <2>2 DEF vars
    <3>2. Holds' = Holds
      BY <3>1 DEF Holds
    <3> QED BY <3>2
  <2>3. CASE Next
    <3>1. PICK t \in Threads :
            \/ PhAcquireQueuedLockExclusive(t) \/ PhAcquireQueuedLockShared(t) \/ ReadValue(t)
            \/ PhfAcquireQueuedLockExclusive(t) \/ PhfAcquireQueuedLockShared(t)
            \/ PhpBlockOnQueuedWaitBlock(t)
            \/ PhpOptimizeQueuedLockListEx(t) \/ ClearTraversing(t)
            \/ PhpPrepareToWakeQueuedLock(t) \/ UnlinkOne(t) \/ TakeAll(t)
            \/ PhpUnblockQueuedWaitBlock(t) \/ NtReleaseKeyedEvent(t)
            \/ PhReleaseQueuedLockExclusive(t) \/ PhfWakeForReleaseQueuedLock(t)
            \/ PhfReleaseQueuedLockExclusive(t)
            \/ PhReleaseQueuedLockShared(t) \/ PhfReleaseQueuedLockShared(t)
            \/ ReleaseLastShared(t)
      BY <2>3 DEF Next
    <3> QED BY <2>1, <3>1, HoldsAcquire, HoldsWait, HoldsEvent, HoldsRelease
  <2> QED BY <2>1, <2>2, <2>3
<1> QED BY <1>1, <1>2, QueuedLockInvariance, PTL DEF Spec, ImplementsRWLock, Abstract!Spec
=============================================================================
