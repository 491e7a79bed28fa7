----------------------------- MODULE WatchProofs -----------------------------
(***************************************************************************)
(* The debugger and the hook DLL against the loader: for any number of     *)
(* threads, addresses and names, no handler of the debugger reads a dead   *)
(* structure or freed memory, and the names it shows are current.          *)
(*                                                                         *)
(* The inductive invariant follows a structure through its life: a thread  *)
(* that works on one is the only one to do so, a structure is marked dead  *)
(* only between the line that announces its end and the line that          *)
(* announces the next structure at its address, and the thread that prints *)
(* such a line waits until it is handled.                                  *)
(***************************************************************************)
EXTENDS Watch, TLAPS

\* Where a loader thread can be: loading a module, or under the loader lock.
Loading == {"allocated", "mapping", "mapped", "freeing"}
Condensing == {"condensing", "merging", "merged", "exiting", "exited"}
Unloading == {"unloading", "unmapping", "destroying"}
Places == {"idle", "failed", "contextless"} \cup Loading \cup Condensing \cup Unloading

ThreadState == [at : Places, m : Mods \cup {NULL}, n : Nodes \cup {NULL},
                o : Ctxs \cup Nodes \cup {NULL}]

Codes == {"CreateProcess", "LoadDll", "Other", "TargetOffsets", "Breakpoint",
          "ExitProcess", "AllocateModuleEntry", "MapDllWithSectionHandle",
          "FreeLoadContext", "CondenseGraphRecurse", "MergeNodesExit",
          "UnmapModule", "DestroyNode"}

Event == [t : Threads \cup {Main}, code : Codes,
          obj : Mods \cup Nodes \cup Ctxs \cup {NULL} \cup SUBSET Nodes]

LoaderTypes ==
  /\ mod \in [Mods -> ModuleEntry \cup {NULL}]
  /\ list \in [Nodes -> Seq(Mods)]
  /\ nodes \subseteq Nodes
  /\ entry \in [Ctxs -> Mods \cup {NULL}]
  /\ named \in [Nodes -> SUBSET Names]
  /\ pc \in [Threads -> ThreadState]
  /\ queue \in Seq(Event)

\* The lists hold the modules of each node, once; an edge joins nodes of the
\* graph; a module whose load is over has a name.
Graph ==
  /\ \A x \in Mods : mod[x] # NULL => mod[x].node \in nodes
  /\ \A k \in Nodes : \A x \in Mods :
       x \in ToSet(list[k]) <=> mod[x] # NULL /\ mod[x].node = k
  /\ \A k \in Nodes : \A i, j \in 1..Len(list[k]) : list[k][i] = list[k][j] => i = j
  /\ \A d \in edges : \E x, y \in Linked : d = <<mod[x].node, mod[y].node>>
  /\ \A x \in Mods : mod[x] # NULL =>
       /\ mod[x].linked /\ mod[x].ctx = NULL => mod[x].name # NULL
       /\ mod[x].name # NULL => mod[x].name \in named[mod[x].node]

\* The module that a thread loads, whose load has failed, or that it made
\* without a load context.
Loads(t) ==
  LET x == mod[pc[t].m] IN
  pc[t].at \in Loading \cup {"failed", "contextless"} =>
    /\ pc[t].m \in Mods /\ x # NULL
    /\ list[x.node] = <<pc[t].m>>
    /\ pc[t].at \in {"failed", "contextless"} => x.ctx = NULL
    /\ pc[t].at \notin {"failed", "contextless"} =>
         pc[t].o \in Ctxs /\ x.ctx = pc[t].o /\ entry[pc[t].o] = pc[t].m
    /\ pc[t].at \in {"allocated", "mapping", "failed", "contextless"} => ~x.linked
    /\ pc[t].at \notin {"allocated", "contextless"} => x.name # NULL
    /\ pc[t].at = "contextless" => pc[t].o = NULL

\* The nodes that a thread merges.
Condenses(t) ==
  pc[t].at \in Condensing =>
    /\ lock = t /\ Loaded(pc[t].o)
    /\ pc[t].at \in {"condensing", "merging"} => Loaded(pc[t].n) /\ pc[t].n # pc[t].o
    /\ pc[t].at = "merged" => pc[t].n \in nodes /\ list[pc[t].n] = <<>>

\* The node that a thread unloads.
Unloads(t) ==
  pc[t].at \in Unloading =>
    /\ lock = t /\ pc[t].n \in nodes
    /\ \A x \in ToSet(list[pc[t].n]) :
         ~mod[x].linked /\ mod[x].ctx = NULL /\ mod[x].name # NULL
    /\ pc[t].at = "unmapping" =>
         list[pc[t].n] # <<>> /\ pc[t].m = Head(list[pc[t].n])
    /\ pc[t].at = "destroying" => list[pc[t].n] = <<>>

\* No two threads work on one module.
Apart ==
  /\ \A t, u \in Threads :
       /\ pc[t].at \in Loading \cup {"failed", "contextless"}
       /\ pc[u].at \in Loading \cup {"failed", "contextless"}
       /\ pc[t].m = pc[u].m
       => t = u
  /\ \A t, u \in Threads :
       pc[t].at \in {"failed", "contextless"} /\ pc[u].at \in Unloading
         => mod[pc[t].m].node # pc[u].n

Loader ==
  /\ LoaderTypes /\ Graph /\ Apart
  /\ \A t \in Threads : Loads(t) /\ Condenses(t) /\ Unloads(t)

\* The event a thread waits for.
IsEvent(q) ==
  \/ /\ q.t = Main
     /\ \/ q.code = "CreateProcess" /\ phase = "created"
        \/ q.code = "LoadDll" /\ phase = "kernelbase"
        \/ q.code = "Other" /\ phase = "arch"
        \/ q.code = "TargetOffsets" /\ phase = "offsets"
        \/ q.code = "Breakpoint" /\ phase = "broke"
        \/ q.code = "ExitProcess" /\ phase = "exited"
  \/ /\ q.t \in Threads
     /\ q.code = "Other" /\ pc[q.t].at \in {"idle", "merging"}
  \/ /\ q.t \in Threads /\ hooked
     /\ \/ /\ q.code = "AllocateModuleEntry"
           /\ pc[q.t].at \in {"allocated", "contextless"} /\ q.obj = pc[q.t].m
        \/ /\ q.code = "MapDllWithSectionHandle"
           /\ pc[q.t].at = "mapping" /\ q.obj = pc[q.t].o
        \/ /\ q.code = "FreeLoadContext"
           /\ pc[q.t].at = "freeing" /\ q.obj = pc[q.t].o
        \/ /\ q.code = "CondenseGraphRecurse"
           /\ \/ pc[q.t].at = "condensing" /\ q.obj = {pc[q.t].o, pc[q.t].n}
              \/ pc[q.t].at = "exited" /\ q.obj = {pc[q.t].o}
        \/ /\ q.code = "UnmapModule"
           /\ pc[q.t].at = "unmapping" /\ q.obj = pc[q.t].m
        \/ /\ q.code = "DestroyNode"
           /\ pc[q.t].at \in {"merged", "destroying"} /\ q.obj = pc[q.t].n
        \/ q.code = "MergeNodesExit" /\ pc[q.t].at = "exiting"

\* A thread waits for one event.
Events ==
  /\ \A i \in 1..Len(queue) : IsEvent(queue[i])
  /\ \A i, j \in 1..Len(queue) : queue[i].t = queue[j].t => i = j
  /\ dbg = "key" => queue # <<>> /\ queue[1].code = "Breakpoint"

\* How far the main thread is.
MainThread ==
  /\ phase \in {"new", "created", "kernelbase", "arch", "offsets", "attached",
                "broke", "exited"}
  /\ dbg = "start" => phase = "new" /\ queue = <<>>
  /\ phase \in {"arch", "offsets"} => lock = Main
  /\ phase = "offsets" /\ ~Blocked(Main) => offsets = HookTargets
  /\ hooked => phase \in {"attached", "broke", "exited"} /\ offsets = HookTargets

\* A thread whose new module was printed and not yet handled.
Announced(t) == pc[t].at \in {"allocated", "contextless"} /\ Blocked(t)

\* A thread whose node is about to be freed, the line about it handled.
Frees(t) == pc[t].at \in {"merged", "destroying"} /\ ~Blocked(t)

\* A structure that is marked dead and is in memory is about to be freed, or
\* is new and its line is still to be handled.
DeadOrNew ==
  /\ dead # {} => hooked
  /\ \A c \in Ctxs \cap dead : entry[c] # NULL =>
       \E t \in Threads : /\ pc[t].o = c
                          /\ Announced(t) \/ (pc[t].at = "freeing" /\ ~Blocked(t))
  /\ \A x \in Mods \cap dead : mod[x] # NULL =>
       \E t \in Threads : /\ pc[t].m = x
                          /\ Announced(t) \/ (pc[t].at = "unmapping" /\ ~Blocked(t))
  /\ \A k \in nodes \cap dead :
       \E t \in Threads : \/ Announced(t) /\ mod[pc[t].m].node = k
                          \/ Frees(t) /\ pc[t].n = k
  /\ \A t \in Threads : hooked /\ Frees(t) => pc[t].n \in dead

\* The debugger has looked at the breakpoint.
AtBreakpoint ==
  \/ phase = "broke" /\ (~Blocked(Main) \/ dbg = "key")
  \/ phase = "exited"

\* What the cache knows is in memory or dead; until the breakpoint only a
\* process with hooks is known.
Cache ==
  /\ hooked => known \subseteq nodes \cup dead
  /\ ~hooked /\ ~AtBreakpoint => known = {}
  /\ \A t \in Threads : Announced(t) => mod[pc[t].m].node \notin known \ dead

\* The modules of the node a thread works on may not tell its name any more.
LosesModules(t) ==
  \/ pc[t].at = "condensing" /\ ~Blocked(t)
  \/ pc[t].at = "merging"
  \/ pc[t].at \in {"merged", "destroying"} /\ Blocked(t)
  \/ pc[t].at = "unmapping" /\ ~Blocked(t)
  \/ pc[t].at = "unloading" /\ list[pc[t].n] = <<>>

\* The names of nodes, and the nodes that need one when their modules go.
NodeNames ==
  /\ \A k \in Nodes : name[k] # NULL =>
       hooked /\ k \in nodes \ dead /\ name[k] \in named[k]
  /\ \A t \in Threads : hooked /\ LosesModules(t) => name[pc[t].n] # NULL

WatchInv ==
  /\ Loader /\ WatchTypeOK /\ Events /\ MainThread /\ DeadOrNew /\ Cache /\ NodeNames
-----------------------------------------------------------------------------
(* Sequences.                                                              *)

(* The elements of short sequences, and the first element of a sequence.   *)
LEMMA SetOfSeq ==
  /\ \A x : ToSet(<<x>>) = {x} /\ <<x>> # <<>> /\ Head(<<x>>) = x /\ Len(<<x>>) = 1
  /\ ToSet(<<>>) = {}
  /\ \A S : \A s \in Seq(S) : /\ ToSet(s) \subseteq S
                              /\ s # <<>> => Head(s) \in ToSet(s)
                              /\ s = <<>> <=> ToSet(s) = {}
PROOF
<1>1. \A x : ToSet(<<x>>) = {x} /\ <<x>> # <<>> /\ Head(<<x>>) = x /\ Len(<<x>>) = 1
  BY DEF ToSet
<1>2. ToSet(<<>>) = {}
  BY DEF ToSet
<1>3. ASSUME NEW S, NEW s \in Seq(S)
      PROVE  /\ ToSet(s) \subseteq S
             /\ s # <<>> => Head(s) \in ToSet(s)
             /\ s = <<>> <=> ToSet(s) = {}
  <2>1. DOMAIN s = 1..Len(s) /\ Len(s) \in Nat
    OBVIOUS
  <2>2. ToSet(s) \subseteq S
    BY DEF ToSet
  <2>3. s # <<>> => Head(s) \in ToSet(s)
    <3> SUFFICES ASSUME s # <<>> PROVE Head(s) \in ToSet(s)
      OBVIOUS
    <3>1. 1 \in 1..Len(s) /\ Head(s) = s[1]
      OBVIOUS
    <3> QED BY <2>1, <3>1 DEF ToSet
  <2> QED BY <1>2, <2>2, <2>3
<1> QED BY <1>1, <1>2, <1>3

\* Every element of a sequence is there once.
Once(s) == \A i, j \in 1..Len(s) : s[i] = s[j] => i = j

(* The elements of two sequences in a row, if each has its elements once   *)
(* and they share none.                                                    *)
LEMMA SetOfConcat ==
  ASSUME NEW S, NEW s \in Seq(S), NEW r \in Seq(S), NEW q, q = s \o r,
         Once(s), Once(r), \A x \in ToSet(s) : x \notin ToSet(r)
  PROVE  /\ q \in Seq(S) /\ Once(q)
         /\ \A x : x \in ToSet(q) <=> x \in ToSet(s) \/ x \in ToSet(r)
PROOF
<1> DEFINE a == Len(s)
           b == Len(r)
           c == Len(q)
<1>1. /\ q \in Seq(S) /\ c = a + b /\ a \in Nat /\ b \in Nat
      /\ DOMAIN s = 1..a /\ DOMAIN r = 1..b /\ DOMAIN q = 1..c
      /\ \A i \in 1..c : q[i] = IF i <= a THEN s[i] ELSE r[i - a]
  OBVIOUS
<1>2. /\ \A i \in 1..c : i <= a => i \in 1..a
      /\ \A i \in 1..c : ~(i <= a) => i - a \in 1..b
      /\ \A i \in 1..a : i \in 1..c /\ i <= a
      /\ \A i \in 1..b : i + a \in 1..c /\ ~(i + a <= a) /\ (i + a) - a = i
      /\ \A i, j \in 1..c : i - a = j - a => i = j
  <2> HIDE DEF a, b, c
  <2> QED BY <1>1
<1> HIDE DEF a, b, c
<1>3. \A i \in 1..c : i <= a => q[i] = s[i] /\ s[i] \in ToSet(s)
  BY <1>1, <1>2, ZenonT(40) DEF ToSet
<1>4. \A i \in 1..c : ~(i <= a) => q[i] = r[i - a] /\ r[i - a] \in ToSet(r)
  BY <1>1, <1>2, ZenonT(40) DEF ToSet
<1>5. \A x \in ToSet(q) : x \in ToSet(s) \cup ToSet(r)
  BY <1>1, <1>3, <1>4 DEF ToSet
<1>6. \A x \in ToSet(s) : x \in ToSet(q)
  BY <1>1, <1>2 DEF ToSet
<1>7. \A x \in ToSet(r) : x \in ToSet(q)
  <2>1. \A i \in 1..b : q[i + a] = r[i]
    BY <1>1, <1>2
  <2>2. \A x \in ToSet(r) : \E i \in 1..b : x = r[i]
    BY <1>1 DEF ToSet
  <2>3. \A i \in 1..c : q[i] \in ToSet(q)
    BY <1>1 DEF ToSet
  <2>4. ASSUME NEW i \in 1..b PROVE r[i] \in ToSet(q)
    <3>1. i + a \in 1..c /\ q[i + a] = r[i]
      BY <1>2, <2>1
    <3>2. q[i + a] \in ToSet(q)
      BY <2>3, <3>1
    <3> QED BY <3>1, <3>2
  <2> QED BY <2>2, <2>4
<1>8. ASSUME NEW i \in 1..c, NEW j \in 1..c, q[i] = q[j]
      PROVE  i = j
  <2>1. CASE i <= a /\ j <= a
    BY <1>2, <1>3, <1>8, <2>1 DEF a, Once
  <2>2. CASE ~(i <= a) /\ ~(j <= a)
    <3>1. i - a \in 1..b /\ j - a \in 1..b /\ r[i - a] = r[j - a]
      BY <1>2, <1>4, <1>8, <2>2
    <3>2. \A x, y \in 1..b : r[x] = r[y] => x = y
      BY DEF b, Once
    <3>3. i - a = j - a
      BY <3>1, <3>2
    <3> QED BY <1>2, <3>3
  <2>3. CASE i <= a /\ ~(j <= a)
    BY <1>3, <1>4, <1>8, <2>3
  <2>4. CASE ~(i <= a) /\ j <= a
    BY <1>3, <1>4, <1>8, <2>4
  <2> QED BY <2>1, <2>2, <2>3, <2>4
<1>9. \A x : x \in ToSet(q) <=> x \in ToSet(s) \/ x \in ToSet(r)
  BY <1>5, <1>6, <1>7
<1> QED BY <1>1, <1>8, <1>9 DEF c, Once

(* What is left when the first element is taken away.                      *)
LEMMA SetOfTail ==
  ASSUME NEW S, NEW s \in Seq(S), s # <<>>, NEW q, q = Tail(s),
         Once(s)
  PROVE  q \in Seq(S) /\ ToSet(q) = ToSet(s) \ {Head(s)} /\ Once(q)
PROOF
<1> DEFINE n == Len(s)
           k == Len(q)
<1>1. /\ q \in Seq(S) /\ k = n - 1 /\ n \in Nat /\ n > 0 /\ Head(s) = s[1]
      /\ DOMAIN s = 1..n /\ DOMAIN q = 1..k
      /\ \A i \in 1..k : q[i] = s[i + 1]
  OBVIOUS
<1>2. /\ 1 \in 1..n
      /\ \A i \in 1..k : i + 1 \in 1..n /\ i + 1 # 1
      /\ \A i \in 1..n : i = 1 \/ (i - 1 \in 1..k /\ (i - 1) + 1 = i)
      /\ \A i, j \in 1..k : i + 1 = j + 1 => i = j
  <2> HIDE DEF n, k
  <2> QED BY <1>1
<1>3. \A i, j \in 1..n : s[i] = s[j] => i = j
  BY DEF Once
<1> HIDE DEF n, k
<1>4. \A x \in ToSet(q) : x \in ToSet(s) \ {s[1]}
  BY <1>1, <1>2, <1>3 DEF ToSet
<1>5. \A i \in 1..n : i = 1 \/ q[i - 1] = s[i]
  BY <1>1, <1>2
<1>6. \A x \in ToSet(s) : x = s[1] \/ x \in ToSet(q)
  <2>1. \A x \in ToSet(s) : \E i \in 1..n : x = s[i]
    BY <1>1 DEF ToSet
  <2>2. \A i \in 1..k : q[i] \in ToSet(q)
    BY <1>1 DEF ToSet
  <2>3. ASSUME NEW i \in 1..n, i # 1 PROVE s[i] \in ToSet(q)
    <3>1. i - 1 \in 1..k /\ q[i - 1] = s[i]
      BY <1>2, <1>5, <2>3
    <3>2. q[i - 1] \in ToSet(q)
      BY <2>2, <3>1
    <3> QED BY <3>1, <3>2
  <2> QED BY <2>1, <2>3
<1>7. \A i, j \in 1..k : q[i] = q[j] => i = j
  BY <1>1, <1>2, <1>3
<1>8. ToSet(q) = ToSet(s) \ {Head(s)}
  BY <1>1, <1>4, <1>6
<1> QED BY <1>1, <1>7, <1>8 DEF k, Once
-----------------------------------------------------------------------------
(* Events.                                                                 *)

(* An event that a thread which waits for none raises.                     *)
LEMMA RaiseIs ==
  ASSUME LoaderTypes, NEW q \in Event, ~Blocked(q.t),
         \A i, j \in 1..Len(queue) : queue[i].t = queue[j].t => i = j,
         queue' = Append(queue, q)
  PROVE  /\ queue' \in Seq(Event)
         /\ \A u : Blocked(u)' <=> Blocked(u) \/ u = q.t
         /\ \A i, j \in 1..Len(queue') : queue'[i].t = queue'[j].t => i = j
         /\ \A i \in 1..Len(queue') :
              queue'[i] = q \/ \E j \in 1..Len(queue) : queue'[i] = queue[j]
         /\ queue' # <<>> /\ (queue # <<>> => queue'[1] = queue[1])
PROOF
<1>1. PICK r : r = queue'
  OBVIOUS
<1> DEFINE n == Len(queue)
           k == Len(r)
<1>2. /\ queue \in Seq(Event) /\ r \in Seq(Event) /\ k = n + 1 /\ n \in Nat
      /\ DOMAIN queue = 1..n /\ DOMAIN r = 1..k /\ r[k] = q /\ r # <<>>
      /\ \A i \in 1..n : r[i] = queue[i]
      /\ n = 0 => queue = <<>>
  <2>1. queue \in Seq(Event) /\ q \in Event /\ r = Append(queue, q)
    BY <1>1 DEF LoaderTypes
  <2> QED BY <2>1
<1> HIDE DEF n, k
<1>3. /\ k \in 1..k /\ k \notin 1..n
      /\ \A i \in 1..k : i = k \/ i \in 1..n
      /\ \A i \in 1..n : i \in 1..k
      /\ n = 0 \/ 1 \in 1..n
  BY <1>2
<1>4. \A i \in 1..n : queue[i].t # q.t
  BY <1>2 DEF Blocked
<1>5. \A u : Blocked(u)' <=> Blocked(u) \/ u = q.t
  <2>1. \A u : Blocked(u)' <=> \E i \in 1..k : r[i].t = u
    BY <1>1, <1>2 DEF Blocked
  <2>2. \A u : Blocked(u) <=> \E i \in 1..n : queue[i].t = u
    BY <1>2 DEF Blocked
  <2> QED BY <1>2, <1>3, <2>1, <2>2, SMTT(30)
<1>6. \A i, j \in 1..k : r[i].t = r[j].t => i = j
  <2>1. \A i, j \in 1..n : queue[i].t = queue[j].t => i = j
    BY DEF n
  <2> QED BY <1>2, <1>3, <1>4, <2>1
<1>7. \A i \in 1..k : r[i] = q \/ \E j \in 1..n : r[i] = queue[j]
  BY <1>2, <1>3
<1> QED BY <1>1, <1>2, <1>3, <1>5, <1>6, <1>7 DEF n, k

(* The first event is handled.                                             *)
LEMMA PopIs ==
  ASSUME LoaderTypes, queue # <<>>,
         \A i, j \in 1..Len(queue) : queue[i].t = queue[j].t => i = j,
         queue' = Tail(queue)
  PROVE  /\ queue' \in Seq(Event) /\ Head(queue) = queue[1] /\ 1 \in 1..Len(queue)
         /\ \A u : Blocked(u)' <=> Blocked(u) /\ u # queue[1].t
         /\ \A i, j \in 1..Len(queue') : queue'[i].t = queue'[j].t => i = j
         /\ \A i \in 1..Len(queue') :
              \E j \in 1..Len(queue) : queue'[i] = queue[j] /\ queue[j].t # queue[1].t
PROOF
<1>1. PICK r : r = queue'
  OBVIOUS
<1> DEFINE n == Len(queue)
           k == Len(r)
<1>2. /\ queue \in Seq(Event) /\ r \in Seq(Event) /\ k = n - 1 /\ n \in Nat /\ n > 0
      /\ DOMAIN queue = 1..n /\ DOMAIN r = 1..k /\ Head(queue) = queue[1]
      /\ \A i \in 1..k : r[i] = queue[i + 1]
  BY <1>1 DEF LoaderTypes
<1>3. \A i, j \in 1..n : queue[i].t = queue[j].t => i = j
  OBVIOUS
<1> HIDE DEF n, k
<1>4. /\ 1 \in 1..n
      /\ \A i \in 1..k : i + 1 \in 1..n /\ i + 1 # 1
      /\ \A i \in 1..n : i = 1 \/ (i - 1 \in 1..k /\ (i - 1) + 1 = i)
      /\ \A i, j \in 1..k : i + 1 = j + 1 => i = j
  BY <1>2
<1>5. \A i \in 1..n : i = 1 \/ (i - 1 \in 1..k /\ r[i - 1] = queue[i])
  BY <1>2, <1>4
<1>6. \A u : Blocked(u)' <=> Blocked(u) /\ u # queue[1].t
  <2>1. \A u : Blocked(u)' <=> \E i \in 1..k : r[i].t = u
    BY <1>1, <1>2 DEF Blocked
  <2>2. \A u : Blocked(u) <=> \E i \in 1..n : queue[i].t = u
    BY <1>2 DEF Blocked
  <2>3. ASSUME NEW u, Blocked(u), u # queue[1].t
        PROVE  Blocked(u)'
    <3>1. PICK i \in 1..n : queue[i].t = u
      BY <2>2, <2>3
    <3>2. i - 1 \in 1..k /\ r[i - 1] = queue[i]
      BY <1>5, <2>3, <3>1
    <3> QED BY <2>1, <3>1, <3>2
  <2>4. ASSUME NEW u, Blocked(u)'
        PROVE  Blocked(u) /\ u # queue[1].t
    BY <1>2, <1>3, <1>4, <2>1, <2>2, <2>4
  <2> QED BY <2>3, <2>4
<1>7. \A i, j \in 1..k : r[i].t = r[j].t => i = j
  BY <1>2, <1>3, <1>4
<1>8. \A i \in 1..k : \E j \in 1..n : r[i] = queue[j] /\ queue[j].t # queue[1].t
  BY <1>2, <1>3, <1>4
<1> QED BY <1>1, <1>2, <1>4, <1>6, <1>7, <1>8 DEF n, k
-----------------------------------------------------------------------------
(* Steps of a loader thread, in general.                                   *)

\* What a step of t leaves alone: the other threads, the modules they load,
\* and what the holder of the lock works on.
MemoryKept(t) ==
  /\ \A u \in Threads \ {t} : pc'[u] = pc[u]
  /\ \A u \in Threads \ {t} : pc[u].at \in Loading \cup {"failed", "contextless"} =>
       /\ mod'[pc[u].m] = mod[pc[u].m]
       /\ list'[mod[pc[u].m].node] = list[mod[pc[u].m].node]
       /\ pc[u].at \notin {"failed", "contextless"} => entry'[pc[u].o] = entry[pc[u].o]
  /\ \A u \in Threads \ {t} : pc[u].at \in Condensing \cup Unloading =>
       /\ lock' = lock /\ nodes \subseteq nodes'
       /\ \A k \in nodes : list'[k] = list[k]
       /\ \A x \in Mods : mod[x] # NULL /\ mod[x].ctx = NULL => mod'[x] = mod[x]

(* The modules of a node that is loaded.                                   *)
LEMMA LoadedIs ==
  ASSUME LoaderTypes, NEW k
  PROVE  Loaded(k) <=>
           /\ k \in nodes \ {NtdllNode} /\ list[k] # <<>>
           /\ \A x \in ToSet(list[k]) :
                x \in Mods /\ mod[x] # NULL /\ mod[x].linked /\ mod[x].ctx = NULL
PROOF
<1>1. k \in nodes => ToSet(list[k]) \subseteq Mods
  BY SetOfSeq DEF LoaderTypes
<1> QED BY <1>1 DEF Loaded, Linked

(* A node stays loaded while its modules are left alone.                   *)
LEMMA LoadedKept ==
  ASSUME LoaderTypes, LoaderTypes', NEW k, Loaded(k), k \in nodes',
         list'[k] = list[k],
         \A x \in ToSet(list[k]) : mod[x].ctx = NULL => mod'[x] = mod[x]
  PROVE  Loaded(k)'
PROOF
<1>1. /\ k \in nodes \ {NtdllNode} /\ list[k] # <<>>
      /\ \A x \in ToSet(list[k]) :
           x \in Mods /\ mod[x] # NULL /\ mod[x].linked /\ mod[x].ctx = NULL
  BY LoadedIs
<1>2. \A x \in ToSet(list[k]) : mod'[x] = mod[x]
  BY <1>1
<1> QED BY <1>1, <1>2 DEF Loaded, Linked

(* The other threads keep what they work on.                               *)
LEMMA OthersKept ==
  ASSUME Loader, LoaderTypes', NEW t \in Threads, MemoryKept(t),
         NEW u \in Threads \ {t}
  PROVE  Loads(u)' /\ Condenses(u)' /\ Unloads(u)'
PROOF
<1> USE DEF Loader
<1>1. pc'[u] = pc[u] /\ u \in Threads
  BY DEF MemoryKept
<1>2. Loads(u)'
  BY <1>1 DEF Loads, MemoryKept
<1>3. ASSUME pc[u].at \in Condensing \cup Unloading
      PROVE  /\ lock' = lock /\ nodes \subseteq nodes'
             /\ \A k \in nodes : list'[k] = list[k]
             /\ \A k \in nodes : Loaded(k) => Loaded(k)'
             /\ \A k \in nodes : \A x \in ToSet(list[k]) :
                  x \in Mods /\ mod[x] # NULL /\ (mod[x].ctx = NULL => mod'[x] = mod[x])
  <2>1. /\ lock' = lock /\ nodes \subseteq nodes'
        /\ \A k \in nodes : list'[k] = list[k]
        /\ \A x \in Mods : mod[x] # NULL /\ mod[x].ctx = NULL => mod'[x] = mod[x]
    BY <1>3 DEF MemoryKept
  <2>2. ASSUME NEW k \in nodes, NEW x \in ToSet(list[k])
        PROVE  x \in Mods /\ mod[x] # NULL
    <3>1. k \in Nodes /\ list[k] \in Seq(Mods)
      BY DEF LoaderTypes
    <3>2. x \in Mods
      BY <3>1, SetOfSeq
    <3> QED BY <3>1, <3>2 DEF Graph
  <2>3. ASSUME NEW k \in nodes, Loaded(k) PROVE Loaded(k)'
    BY <2>1, <2>2, <2>3, LoadedKept
  <2> QED BY <2>1, <2>2, <2>3
<1>4. Condenses(u)'
  <2> SUFFICES ASSUME pc[u].at \in Condensing PROVE Condenses(u)'
    BY <1>1 DEF Condenses
  <2>1. /\ lock = u /\ Loaded(pc[u].o)
        /\ pc[u].at \in {"condensing", "merging"} => Loaded(pc[u].n) /\ pc[u].n # pc[u].o
        /\ pc[u].at = "merged" => pc[u].n \in nodes /\ list[pc[u].n] = <<>>
    BY DEF Condenses
  <2>2. pc[u].o \in nodes /\ (pc[u].at \in {"condensing", "merging"} => pc[u].n \in nodes)
    BY <2>1 DEF Loaded
  <2>3. Loaded(pc[u].o)'
    <3>1. PICK k \in nodes : k = pc[u].o
      BY <2>2
    <3>2. Loaded(k)'
      BY <1>3, <2>1, <3>1
    <3> QED BY <1>1, <3>1, <3>2
  <2>4. pc[u].at \in {"condensing", "merging"} => Loaded(pc[u].n)'
    <3> SUFFICES ASSUME pc[u].at \in {"condensing", "merging"} PROVE Loaded(pc[u].n)'
      OBVIOUS
    <3>1. PICK k \in nodes : k = pc[u].n
      BY <2>2
    <3>2. Loaded(k)'
      BY <1>3, <2>1, <3>1
    <3> QED BY <1>1, <3>1, <3>2
  <2>5. pc[u].at = "merged" => pc[u].n \in nodes' /\ list'[pc[u].n] = <<>>
    BY <1>3, <2>1
  <2> QED BY <1>1, <1>3, <2>1, <2>3, <2>4, <2>5 DEF Condenses
<1>5. Unloads(u)'
  <2> SUFFICES ASSUME pc[u].at \in Unloading PROVE Unloads(u)'
    BY <1>1 DEF Unloads
  <2>1. /\ lock = u /\ pc[u].n \in nodes
        /\ \A x \in ToSet(list[pc[u].n]) :
             ~mod[x].linked /\ mod[x].ctx = NULL /\ mod[x].name # NULL
        /\ pc[u].at = "unmapping" =>
             list[pc[u].n] # <<>> /\ pc[u].m = Head(list[pc[u].n])
        /\ pc[u].at = "destroying" => list[pc[u].n] = <<>>
    BY DEF Unloads
  <2>2. lock' = u /\ pc[u].n \in nodes' /\ list'[pc[u].n] = list[pc[u].n]
    BY <1>3, <2>1
  <2>3. \A x \in ToSet(list[pc[u].n]) : mod'[x] = mod[x]
    BY <1>3, <2>1
  <2> QED BY <1>1, <2>1, <2>2, <2>3 DEF Unloads
<1> QED BY <1>2, <1>4, <1>5

(* The loader after a step of t.                                           *)
LEMMA LoaderKept ==
  ASSUME Loader, LoaderTypes', Graph', NEW t \in Threads, MemoryKept(t),
         Loads(t)', Condenses(t)', Unloads(t)',
         \A u \in Threads \ {t} :
           /\ pc[u].at \in Loading \cup {"failed", "contextless"}
           /\ pc'[t].at \in Loading \cup {"failed", "contextless"}
           => pc[u].m # pc'[t].m,
         \A u \in Threads \ {t} :
           pc'[t].at \in {"failed", "contextless"} /\ pc[u].at \in Unloading
             => mod'[pc'[t].m].node # pc[u].n,
         \A u \in Threads \ {t} :
           pc[u].at \in {"failed", "contextless"} /\ pc'[t].at \in Unloading
             => mod[pc[u].m].node # pc'[t].n
  PROVE  Loader'
PROOF
<1>1. \A u \in Threads \ {t} : Loads(u)' /\ Condenses(u)' /\ Unloads(u)'
  BY OthersKept
<1>2. \A u \in Threads : u # t => pc'[u] = pc[u]
  BY DEF MemoryKept
<1>3. Apart'
  <2>1. ASSUME NEW u \in Threads, NEW v \in Threads,
               pc'[u].at \in Loading \cup {"failed", "contextless"},
               pc'[v].at \in Loading \cup {"failed", "contextless"}, pc'[u].m = pc'[v].m
        PROVE  u = v
    BY <1>2, <2>1 DEF Loader, Apart
  <2>2. ASSUME NEW u \in Threads, NEW v \in Threads,
               pc'[u].at \in {"failed", "contextless"}, pc'[v].at \in Unloading
        PROVE  mod'[pc'[u].m].node # pc'[v].n
    <3>1. u # v
      BY <2>2 DEF Unloading
    <3>2. CASE u # t
      <4>1. mod'[pc[u].m] = mod[pc[u].m] /\ pc[u].at \in {"failed", "contextless"}
        BY <1>2, <2>2, <3>2 DEF MemoryKept
      <4> QED BY <1>2, <2>2, <3>1, <3>2, <4>1 DEF Loader, Apart
    <3>3. CASE u = t
      BY <1>2, <2>2, <3>1, <3>3
    <3> QED BY <3>2, <3>3
  <2> QED BY <2>1, <2>2 DEF Apart
<1> QED BY <1>1, <1>3 DEF Loader

(* The events of the others stay as they are while t runs.                 *)
LEMMA QuietKeeps ==
  ASSUME LoaderTypes, Events, NEW t \in Threads, ~Blocked(t),
         \A u \in Threads \ {t} : pc'[u] = pc[u],
         UNCHANGED <<phase, hooked, dbg, queue>>, dbg = "wait"
  PROVE  Events' /\ \A u : Blocked(u)' <=> Blocked(u)
PROOF
<1>1. DOMAIN queue = 1..Len(queue) /\ \A i \in 1..Len(queue) : queue[i].t # t
  BY DEF Blocked, LoaderTypes
<1>2. ASSUME NEW q, IsEvent(q), q.t # t PROVE IsEvent(q)'
  BY <1>2 DEF IsEvent
<1>3. \A i \in 1..Len(queue') : IsEvent(queue[i])'
  <2>1. ASSUME NEW i \in 1..Len(queue) PROVE IsEvent(queue[i])'
    <3>1. PICK q : q = queue[i]
      OBVIOUS
    <3>2. IsEvent(q)'
      BY <1>1, <1>2, <3>1 DEF Events
    <3> QED BY <3>1, <3>2
  <2> QED BY <2>1
<1> QED BY <1>3 DEF Events, Blocked

(* And when it prints a line.                                              *)
LEMMA RaiseKeeps ==
  ASSUME LoaderTypes, Events, NEW t \in Threads, ~Blocked(t),
         \A u \in Threads \ {t} : pc'[u] = pc[u],
         UNCHANGED <<phase, hooked, dbg>>, dbg = "wait",
         NEW c \in Codes, NEW x \in Mods \cup Nodes \cup Ctxs \cup {NULL} \cup SUBSET Nodes,
         Raise(t, c, x), IsEvent([t |-> t, code |-> c, obj |-> x])'
  PROVE  /\ Events' /\ queue' \in Seq(Event)
         /\ \A u : Blocked(u)' <=> Blocked(u) \/ u = t
PROOF
<1>1. PICK q : q = [t |-> t, code |-> c, obj |-> x]
  OBVIOUS
<1>2. q \in Event /\ q.t = t /\ queue' = Append(queue, q)
  BY <1>1 DEF Event, Raise
<1>3. DOMAIN queue = 1..Len(queue) /\ \A i \in 1..Len(queue) : queue[i].t # t
  BY DEF Blocked, LoaderTypes
<1>4. /\ queue' \in Seq(Event)
      /\ \A u : Blocked(u)' <=> Blocked(u) \/ u = t
      /\ \A i, j \in 1..Len(queue') : queue'[i].t = queue'[j].t => i = j
      /\ \A i \in 1..Len(queue') :
           queue'[i] = q \/ \E j \in 1..Len(queue) : queue'[i] = queue[j]
  BY <1>2, RaiseIs DEF Events
<1>5. ASSUME NEW r, IsEvent(r), r.t # t PROVE IsEvent(r)'
  BY <1>5 DEF IsEvent
<1>6. IsEvent(q)'
  BY <1>1
<1>7. ASSUME NEW i \in 1..Len(queue') PROVE IsEvent(queue[i])'
  <2>1. PICK r : r = queue'[i]
    OBVIOUS
  <2>2. IsEvent(r)'
    BY <1>3, <1>4, <1>5, <1>6, <2>1 DEF Events
  <2> QED BY <2>1, <2>2
<1> QED BY <1>4, <1>7 DEF Events

(* The same of the lines of the hooks.                                     *)
LEMMA PrintKeeps ==
  ASSUME LoaderTypes, Events, NEW t \in Threads, ~Blocked(t),
         \A u \in Threads \ {t} : pc'[u] = pc[u],
         UNCHANGED <<phase, hooked, dbg>>, dbg = "wait", hooked \in BOOLEAN,
         NEW c \in Codes, NEW x \in Mods \cup Nodes \cup Ctxs \cup {NULL} \cup SUBSET Nodes,
         dbgprint(t, c, x), hooked => IsEvent([t |-> t, code |-> c, obj |-> x])'
  PROVE  /\ Events' /\ queue' \in Seq(Event)
         /\ \A u \in Threads \cup {Main} : u # t => (Blocked(u)' <=> Blocked(u))
         /\ Blocked(t)' <=> hooked
PROOF
<1>1. CASE hooked
  <2>1. Raise(t, c, x)
    BY <1>1 DEF dbgprint
  <2>2. /\ Events' /\ queue' \in Seq(Event)
        /\ \A u : Blocked(u)' <=> Blocked(u) \/ u = t
    BY <1>1, <2>1, RaiseKeeps
  <2> QED BY <1>1, <2>2
<1>2. CASE ~hooked
  <2>1. UNCHANGED queue
    BY <1>2 DEF dbgprint
  <2>2. Events' /\ \A u : Blocked(u)' <=> Blocked(u)
    BY <2>1, QuietKeeps
  <2> QED BY <1>2, <2>1, <2>2 DEF LoaderTypes
<1> QED BY <1>1, <1>2

(* The debugger's view after a step of t: a structure is freed only when   *)
(* it is dead or the debugger never heard of it, and a new one is printed. *)
LEMMA WatchKept ==
  ASSUME WatchInv, NEW t \in Threads, dbg = "wait", ~Blocked(t),
         UNCHANGED <<watchVars, phase, hooked>>, MemoryKept(t), Loader', Events',
         \A u \in Threads \cup {Main} : u # t => (Blocked(u)' <=> Blocked(u)),
         lock = Main => lock' = Main,
         \A c \in Ctxs : entry'[c] # NULL =>
           \/ entry[c] # NULL /\ (pc[t].at # "freeing" \/ pc[t].o # c)
           \/ pc'[t].at \in {"allocated", "contextless"} /\ (hooked => Blocked(t)') /\ pc'[t].o = c,
         \A x \in Mods : mod'[x] # NULL =>
           \/ mod[x] # NULL /\ (pc[t].at # "unmapping" \/ pc[t].m # x)
           \/ pc'[t].at \in {"allocated", "contextless"} /\ (hooked => Blocked(t)') /\ pc'[t].m = x,
         \A k \in nodes' :
           \/ k \in nodes /\ (pc[t].at \notin {"merged", "destroying"} \/ pc[t].n # k)
           \/ /\ pc'[t].at \in {"allocated", "contextless"} /\ (hooked => Blocked(t)')
              /\ mod'[pc'[t].m].node = k,
         hooked /\ pc'[t].at \in {"merged", "destroying"} => Blocked(t)',
         \A k \in nodes \ nodes' : hooked => k \in dead,
         pc'[t].at \in {"allocated", "contextless"} /\ Blocked(t)' =>
           hooked /\ mod'[pc'[t].m].node \notin nodes,
         \A k \in nodes \cap nodes' : named[k] \subseteq named'[k],
         hooked /\ LosesModules(t)' => name[pc'[t].n] # NULL
  PROVE  WatchInv'
PROOF
<1> USE DEF WatchInv
<1>1. UNCHANGED <<dbg, scheduled, dead, known, name, symbols, offsets, phase, hooked>>
  BY DEF watchVars
<1>2. WatchTypeOK'
  BY <1>1 DEF WatchTypeOK
<1>3. \A u \in Threads : u # t => pc'[u] = pc[u] /\ (Blocked(u)' <=> Blocked(u))
  BY DEF MemoryKept
<1>4. Main # t /\ (Blocked(Main)' <=> Blocked(Main))
  BY LoaderAssumption DEF LoaderAssumption
<1>5. MainThread'
  BY <1>1, <1>4 DEF MainThread
<1>6. \A u \in Threads : u # t => /\ Announced(u)' <=> Announced(u)
                                  /\ Frees(u)' <=> Frees(u)
  BY <1>3 DEF Announced, Frees
<1>7. ~Announced(t) /\ (Announced(t)' <=> pc'[t].at \in {"allocated", "contextless"} /\ Blocked(t)')
  BY DEF Announced
<1>8. \A u \in Threads : u # t /\ pc[u].at \in {"allocated", "contextless"} =>
        mod'[pc[u].m].node = mod[pc[u].m].node
  BY DEF MemoryKept, Loading
<1>9. DeadOrNew'
  <2>1. dead' # {} => hooked'
    BY <1>1 DEF DeadOrNew
  <2>2. ASSUME NEW c \in Ctxs \cap dead, entry'[c] # NULL
        PROVE  \E u \in Threads :
                 /\ pc'[u].o = c
                 /\ Announced(u)' \/ (pc'[u].at = "freeing" /\ ~Blocked(u)')
    <3>0. hooked
      BY <2>2 DEF DeadOrNew
    <3>1. CASE entry[c] # NULL /\ (pc[t].at # "freeing" \/ pc[t].o # c)
      <4>1. PICK u \in Threads :
              /\ pc[u].o = c
              /\ Announced(u) \/ (pc[u].at = "freeing" /\ ~Blocked(u))
        BY <2>2, <3>1 DEF DeadOrNew
      <4>2. u # t
        BY <1>7, <3>1, <4>1
      <4> QED BY <1>3, <1>6, <4>1, <4>2
    <3>2. CASE pc'[t].at \in {"allocated", "contextless"} /\ (hooked => Blocked(t)') /\ pc'[t].o = c
      BY <1>7, <3>0, <3>2
    <3> QED BY <2>2, <3>1, <3>2
  <2>3. ASSUME NEW x \in Mods \cap dead, mod'[x] # NULL
        PROVE  \E u \in Threads :
                 /\ pc'[u].m = x
                 /\ Announced(u)' \/ (pc'[u].at = "unmapping" /\ ~Blocked(u)')
    <3>0. hooked
      BY <2>3 DEF DeadOrNew
    <3>1. CASE mod[x] # NULL /\ (pc[t].at # "unmapping" \/ pc[t].m # x)
      <4>1. PICK u \in Threads :
              /\ pc[u].m = x
              /\ Announced(u) \/ (pc[u].at = "unmapping" /\ ~Blocked(u))
        BY <2>3, <3>1 DEF DeadOrNew
      <4>2. u # t
        BY <1>7, <3>1, <4>1
      <4> QED BY <1>3, <1>6, <4>1, <4>2
    <3>2. CASE pc'[t].at \in {"allocated", "contextless"} /\ (hooked => Blocked(t)') /\ pc'[t].m = x
      BY <1>7, <3>0, <3>2
    <3> QED BY <2>3, <3>1, <3>2
  <2>4. ASSUME NEW k \in nodes' \cap dead
        PROVE  \E u \in Threads : \/ Announced(u)' /\ mod'[pc'[u].m].node = k
                                  \/ Frees(u)' /\ pc'[u].n = k
    <3>0. hooked
      BY <2>4 DEF DeadOrNew
    <3>1. CASE k \in nodes /\ (pc[t].at \notin {"merged", "destroying"} \/ pc[t].n # k)
      <4>1. PICK u \in Threads : \/ Announced(u) /\ mod[pc[u].m].node = k
                                 \/ Frees(u) /\ pc[u].n = k
        BY <2>4, <3>1 DEF DeadOrNew
      <4>2. u # t
        BY <1>7, <3>1, <4>1 DEF Frees
      <4>3. Announced(u) => mod'[pc[u].m].node = mod[pc[u].m].node
        BY <1>8, <4>2 DEF Announced
      <4> QED BY <1>3, <1>6, <4>1, <4>2, <4>3
    <3>2. CASE /\ pc'[t].at \in {"allocated", "contextless"} /\ (hooked => Blocked(t)')
               /\ mod'[pc'[t].m].node = k
      BY <1>7, <3>0, <3>2
    <3> QED BY <2>4, <3>1, <3>2
  <2>5. ASSUME NEW u \in Threads, hooked, Frees(u)'
        PROVE  pc'[u].n \in dead
    <3>1. u # t
      BY <2>5 DEF Frees
    <3> QED BY <1>3, <1>6, <2>5, <3>1 DEF DeadOrNew
  <2> QED BY <1>1, <2>1, <2>2, <2>3, <2>4, <2>5 DEF DeadOrNew
<1>10. Cache'
  <2>1. hooked => known \subseteq nodes' \cup dead
    BY DEF Cache
  <2>2. AtBreakpoint' <=> AtBreakpoint
    BY <1>1, <1>4 DEF AtBreakpoint
  <2>3. ~hooked /\ ~AtBreakpoint => known = {}
    BY DEF Cache
  <2>4. ASSUME NEW u \in Threads, Announced(u)'
        PROVE  mod'[pc'[u].m].node \notin known \ dead
    <3>1. CASE u = t
      BY <1>7, <2>4, <3>1 DEF Cache
    <3>2. CASE u # t
      <4>1. Announced(u) /\ mod[pc[u].m].node \notin known \ dead
        BY <1>6, <2>4, <3>2 DEF Cache
      <4> QED BY <1>3, <1>8, <3>2, <4>1 DEF Announced
    <3> QED BY <3>1, <3>2
  <2> QED BY <1>1, <2>1, <2>2, <2>3, <2>4 DEF Cache
<1>11. NodeNames'
  <2>1. ASSUME NEW k \in Nodes, name[k] # NULL
        PROVE  hooked /\ k \in nodes' \ dead /\ name[k] \in named'[k]
    BY <2>1 DEF NodeNames
  <2>2. ASSUME NEW u \in Threads, hooked, LosesModules(u)'
        PROVE  name[pc'[u].n] # NULL
    <3>1. CASE u = t
      BY <2>2, <3>1
    <3>2. CASE u # t
      <4>1. pc[u].at = "unloading" => list'[pc[u].n] = list[pc[u].n]
        BY <3>2 DEF Loader, Unloads, Unloading, MemoryKept
      <4>2. LosesModules(u)
        BY <1>3, <2>2, <3>2, <4>1 DEF LosesModules
      <4> QED BY <1>3, <2>2, <3>2, <4>2 DEF NodeNames
    <3> QED BY <3>1, <3>2
  <2> QED BY <1>1, <2>1, <2>2 DEF NodeNames
<1> QED BY <1>2, <1>5, <1>9, <1>10, <1>11
-----------------------------------------------------------------------------
(* Steps that leave the memory of the process alone.                       *)

\* A step of a loader thread, which runs while the debugger waits.
Runs(t) == WatchInv /\ dbg = "wait" /\ UNCHANGED <<watchVars, phase>> /\ ~Blocked(t)

(* A thread goes on to another place.                                      *)
LEMMA GotoIs ==
  ASSUME LoaderTypes, NEW t \in Threads, NEW to \in Places, Goto(t, to)
  PROVE  /\ pc' \in [Threads -> ThreadState]
         /\ \A u \in Threads \ {t} : pc'[u] = pc[u]
         /\ pc'[t].at = to
         /\ pc'[t].m = pc[t].m /\ pc'[t].n = pc[t].n /\ pc'[t].o = pc[t].o
PROOF
<1>1. pc \in [Threads -> ThreadState] /\ pc' = [pc EXCEPT ![t].at = to]
  BY DEF LoaderTypes, Goto
<1>2. pc[t] \in ThreadState
  BY <1>1
<1>3. pc'[t] = [pc[t] EXCEPT !.at = to]
  BY <1>1
<1>4. pc'[t] \in ThreadState
  BY <1>2, <1>3 DEF ThreadState
<1>5. /\ pc'[t].at = to
      /\ pc'[t].m = pc[t].m /\ pc'[t].n = pc[t].n /\ pc'[t].o = pc[t].o
  BY <1>2, <1>3 DEF ThreadState
<1>6. \A u \in Threads \ {t} : pc'[u] = pc[u]
  BY <1>1
<1>7. pc' \in [Threads -> ThreadState]
  BY <1>1, <1>4
<1> QED BY <1>5, <1>6, <1>7

(* Or starts something else.                                               *)
LEMMA StartsIs ==
  ASSUME LoaderTypes, NEW t \in Threads, NEW r \in ThreadState,
         pc' = [pc EXCEPT ![t] = r]
  PROVE  /\ pc' \in [Threads -> ThreadState] /\ pc'[t] = r
         /\ \A u \in Threads \ {t} : pc'[u] = pc[u]
PROOF
  BY DEF LoaderTypes

(* What the threads know of the lock.                                      *)
LEMMA LockIs ==
  ASSUME Loader, NEW u \in Threads, pc[u].at \in Condensing \cup Unloading
  PROVE  lock = u
PROOF
  BY DEF Loader, Condenses, Unloads

(* The records of a thread.                                                *)
LEMMA ThreadIs ==
  ASSUME LoaderTypes, NEW t \in Threads
  PROVE  /\ pc[t].at \in Places /\ pc[t].m \in Mods \cup {NULL}
         /\ pc[t].n \in Nodes \cup {NULL} /\ pc[t].o \in Ctxs \cup Nodes \cup {NULL}
PROOF
<1>1. pc[t] \in ThreadState
  BY DEF LoaderTypes
<1> QED BY <1>1 DEF ThreadState

(* The memory is left alone.                                               *)
LEMMA MemorySame ==
  ASSUME Loader, NEW t \in Threads, UNCHANGED <<mod, list, nodes, entry, edges, named>>,
         pc' \in [Threads -> ThreadState], queue' \in Seq(Event),
         \A u \in Threads \ {t} : pc'[u] = pc[u],
         \A u \in Threads \ {t} : pc[u].at \in Condensing \cup Unloading => lock' = lock
  PROVE  /\ LoaderTypes' /\ Graph' /\ MemoryKept(t)
         /\ \A k : Loaded(k)' <=> Loaded(k)
PROOF
<1>1. LoaderTypes'
  BY DEF Loader, LoaderTypes
<1>2. Graph'
  BY DEF Loader, Graph, Linked
<1>3. MemoryKept(t)
  BY DEF MemoryKept
<1>4. \A k : Loaded(k)' <=> Loaded(k)
  BY DEF Loaded, Linked
<1> QED BY <1>1, <1>2, <1>3, <1>4

(* The debugger's view of it.                                              *)
LEMMA WatchSame ==
  ASSUME NEW t \in Threads, Runs(t), UNCHANGED hooked, Loader', Events',
         UNCHANGED <<mod, list, nodes, entry, edges, named>>, MemoryKept(t),
         \A u \in Threads \cup {Main} : u # t => (Blocked(u)' <=> Blocked(u)),
         lock = Main => lock' = Main,
         pc[t].at \notin {"freeing", "unmapping", "merged", "destroying"},
         pc'[t].at \notin {"allocated", "contextless"},
         hooked /\ pc'[t].at \in {"merged", "destroying"} => Blocked(t)',
         hooked /\ LosesModules(t)' => name[pc'[t].n] # NULL
  PROVE  WatchInv'
PROOF
<1>1. WatchInv /\ dbg = "wait" /\ ~Blocked(t)
  BY DEF Runs
<1>2. UNCHANGED <<watchVars, phase, hooked>>
  BY DEF Runs
<1> HIDE DEF Runs, WatchInv
<1> QED BY <1>1, <1>2, WatchKept

(* The context of a load is about to be freed.                             *)
LEMMA HookFreeKeeps ==
  ASSUME NEW t \in Threads, Runs(t), HookLdrpFreeLoadContext(t)
  PROVE  WatchInv'
PROOF
<1>1. /\ Loader /\ LoaderTypes /\ Events /\ dbg = "wait" /\ ~Blocked(t)
      /\ hooked \in BOOLEAN /\ UNCHANGED <<phase, dbg, hooked>>
      /\ UNCHANGED <<mod, list, nodes, entry, edges, named, lock>>
      /\ pc[t].at = "mapped" /\ Loads(t) /\ Goto(t, "freeing")
      /\ dbgprint(t, "FreeLoadContext", pc[t].o)
  BY DEF Runs, WatchInv, Loader, WatchTypeOK, watchVars, HookLdrpFreeLoadContext, At
<1>2. /\ pc' \in [Threads -> ThreadState]
      /\ \A u \in Threads \ {t} : pc'[u] = pc[u]
      /\ pc'[t].at = "freeing" /\ pc'[t].m = pc[t].m /\ pc'[t].o = pc[t].o
  BY <1>1, GotoIs DEF Places, Loading
<1>3. /\ pc[t].m \in Mods /\ pc[t].o \in Ctxs
  BY <1>1 DEF Loads, Loading
<1>4. /\ Events' /\ queue' \in Seq(Event)
      /\ \A u \in Threads \cup {Main} : u # t => (Blocked(u)' <=> Blocked(u))
  <2>1. PICK x : x = pc[t].o
    OBVIOUS
  <2>2. hooked => IsEvent([t |-> t, code |-> "FreeLoadContext", obj |-> x])'
    BY <1>1, <1>2, <2>1 DEF IsEvent
  <2>3. dbgprint(t, "FreeLoadContext", x)
    BY <1>1, <2>1
  <2>4. /\ x \in Mods \cup Nodes \cup Ctxs \cup {NULL} \cup SUBSET Nodes
        /\ "FreeLoadContext" \in Codes
    BY <1>3, <2>1 DEF Codes
  <2>5. UNCHANGED <<phase, hooked, dbg>>
    BY <1>1
  <2> QED BY <1>1, <1>2, <2>2, <2>3, <2>4, <2>5, PrintKeeps
<1>5. LoaderTypes' /\ Graph' /\ MemoryKept(t)
  BY <1>1, <1>2, <1>4, MemorySame
<1>6. Loads(t)' /\ Condenses(t)' /\ Unloads(t)'
  BY <1>1, <1>2 DEF Loads, Condenses, Unloads, Loading, Condensing, Unloading
<1>7. Loader'
  <2>1. \A u \in Threads \ {t} :
          pc[u].at \in Loading \cup {"failed", "contextless"} => pc[u].m # pc[t].m
    BY <1>1 DEF Loader, Apart, Loading
  <2>2. pc'[t].at \notin Unloading /\ pc'[t].at \notin {"failed", "contextless"}
    BY <1>2 DEF Unloading
  <2> QED BY <1>1, <1>2, <1>5, <1>6, <2>1, <2>2, LoaderKept
<1> QED BY <1>1, <1>2, <1>4, <1>5, <1>7, WatchSame DEF LosesModules

(* What a running thread can count on.                                     *)
LEMMA RunsIs ==
  ASSUME NEW t \in Threads, Runs(t)
  PROVE  /\ Loader /\ LoaderTypes /\ Graph /\ Apart /\ Events /\ dbg = "wait" /\ ~Blocked(t)
         /\ Loads(t) /\ Condenses(t) /\ Unloads(t)
         /\ hooked \in BOOLEAN /\ UNCHANGED <<phase, dbg>>
         /\ DeadOrNew /\ NodeNames
PROOF
  BY DEF Runs, WatchInv, Loader, WatchTypeOK, watchVars

(* The line it prints.                                                     *)
LEMMA LineIs ==
  ASSUME NEW t \in Threads, Runs(t), UNCHANGED hooked,
         \A u \in Threads \ {t} : pc'[u] = pc[u],
         NEW c \in Codes, NEW x \in Mods \cup Nodes \cup Ctxs \cup {NULL} \cup SUBSET Nodes,
         dbgprint(t, c, x), hooked => IsEvent([t |-> t, code |-> c, obj |-> x])'
  PROVE  /\ Events' /\ queue' \in Seq(Event)
         /\ \A u \in Threads \cup {Main} : u # t => (Blocked(u)' <=> Blocked(u))
         /\ Blocked(t)' <=> hooked
PROOF
<1>1. /\ LoaderTypes /\ Events /\ dbg = "wait" /\ ~Blocked(t)
      /\ hooked \in BOOLEAN /\ UNCHANGED <<phase, hooked, dbg>>
  BY RunsIs
<1> QED BY <1>1, PrintKeeps

(* Or that it prints none.                                                 *)
LEMMA NoLineIs ==
  ASSUME NEW t \in Threads, Runs(t), UNCHANGED <<hooked, queue>>,
         \A u \in Threads \ {t} : pc'[u] = pc[u]
  PROVE  /\ Events' /\ queue' \in Seq(Event)
         /\ \A u \in Threads \cup {Main} : u # t => (Blocked(u)' <=> Blocked(u))
         /\ ~Blocked(t)'
PROOF
<1>1. /\ LoaderTypes /\ Events /\ dbg = "wait" /\ ~Blocked(t)
      /\ UNCHANGED <<phase, hooked, dbg, queue>>
  BY RunsIs
<1>2. Events' /\ \A u : Blocked(u)' <=> Blocked(u)
  BY <1>1, QuietKeeps
<1> QED BY <1>1, <1>2 DEF LoaderTypes

(* A step outside of a load that leaves the memory alone.                  *)
LEMMA SameKeeps ==
  ASSUME NEW t \in Threads, Runs(t), UNCHANGED hooked,
         UNCHANGED <<mod, list, nodes, entry, edges, named>>,
         pc' \in [Threads -> ThreadState], queue' \in Seq(Event), Events',
         \A u \in Threads \ {t} : pc'[u] = pc[u],
         \A u \in Threads \cup {Main} : u # t => (Blocked(u)' <=> Blocked(u)),
         lock' = lock \/ lock = NULL \/ lock = t,
         pc[t].at \notin {"freeing", "unmapping", "merged", "destroying"},
         pc'[t].at \notin Loading \cup {"failed", "contextless"},
         pc'[t].at \in Unloading => pc[t].at \in Unloading /\ pc'[t].n = pc[t].n,
         Condenses(t)', Unloads(t)',
         hooked /\ pc'[t].at \in {"merged", "destroying"} => Blocked(t)',
         hooked /\ LosesModules(t)' => name[pc'[t].n] # NULL
  PROVE  WatchInv'
PROOF
<1>1. /\ Loader /\ Apart /\ Main \notin Threads /\ Main # NULL /\ NULL \notin Threads
      /\ Loads(t)'
  BY RunsIs, LoaderAssumption DEF LoaderAssumption, Loads
<1>2. \A u \in Threads \ {t} : pc[u].at \in Condensing \cup Unloading => lock' = lock
  BY <1>1, LockIs
<1>3. LoaderTypes' /\ Graph' /\ MemoryKept(t)
  BY <1>1, <1>2, MemorySame
<1>4. Loader'
  BY <1>1, <1>3, LoaderKept DEF Apart
<1>5. lock = Main => lock' = Main
  BY <1>1
<1>6. pc'[t].at \notin {"allocated", "contextless"}
  BY DEF Loading
<1> QED BY <1>3, <1>4, <1>5, <1>6, WatchSame

(* The graph is about to be condensed.                                     *)
LEMMA HookCondenseKeeps ==
  ASSUME NEW t \in Threads, Runs(t), HookLdrpCondenseGraphRecurse(t)
  PROVE  WatchInv'
PROOF
<1>1. /\ pc[t].at = "idle" /\ lock = NULL /\ lock' = t
      /\ UNCHANGED <<mod, list, nodes, entry, edges, named>> /\ UNCHANGED hooked
  BY DEF HookLdrpCondenseGraphRecurse, At
<1>2. PICK root \in nodes, k \in nodes :
        /\ root # k /\ Loaded(root) /\ Loaded(k)
        /\ dbgprint(t, "CondenseGraphRecurse", {root, k})
        /\ pc' = [pc EXCEPT ![t] = [Idle EXCEPT !.at = "condensing", !.n = k, !.o = root]]
  BY DEF HookLdrpCondenseGraphRecurse
<1>3. LoaderTypes /\ Loader /\ nodes \subseteq Nodes
  BY RunsIs DEF LoaderTypes
<1>4. /\ pc' \in [Threads -> ThreadState]
      /\ \A u \in Threads \ {t} : pc'[u] = pc[u]
      /\ pc'[t].at = "condensing" /\ pc'[t].n = k /\ pc'[t].o = root
  <2>1. PICK r : r = [Idle EXCEPT !.at = "condensing", !.n = k, !.o = root]
    OBVIOUS
  <2>2. r \in ThreadState /\ r.at = "condensing" /\ r.n = k /\ r.o = root
    BY <1>3, <2>1 DEF Idle, ThreadState, Places, Condensing
  <2> QED BY <1>2, <1>3, <2>1, <2>2, StartsIs
<1>5. /\ Events' /\ queue' \in Seq(Event)
      /\ \A u \in Threads \cup {Main} : u # t => (Blocked(u)' <=> Blocked(u))
      /\ Blocked(t)' <=> hooked
  <2>1. PICK x : x = {root, k}
    OBVIOUS
  <2>2. hooked => IsEvent([t |-> t, code |-> "CondenseGraphRecurse", obj |-> x])'
    BY <1>1, <1>4, <2>1 DEF IsEvent
  <2>3. /\ x \in Mods \cup Nodes \cup Ctxs \cup {NULL} \cup SUBSET Nodes
        /\ "CondenseGraphRecurse" \in Codes /\ dbgprint(t, "CondenseGraphRecurse", x)
    BY <1>2, <1>3, <2>1 DEF Codes
  <2> QED BY <1>1, <1>4, <2>2, <2>3, LineIs
<1>6. \A u \in Threads \ {t} : pc[u].at \in Condensing \cup Unloading => lock' = lock
  BY <1>1, <1>3, LockIs, LoaderAssumption DEF LoaderAssumption
<1>7. Loaded(root)' /\ Loaded(k)'
  BY <1>1, <1>2, <1>3, <1>4, <1>5, <1>6, MemorySame
<1>8. Condenses(t)' /\ Unloads(t)'
  <2>1. Loaded(pc[t].o)' /\ Loaded(pc[t].n)'
    BY <1>4, <1>7
  <2> QED BY <1>1, <1>2, <1>4, <2>1 DEF Condenses, Unloads, Condensing, Unloading
<1>9. hooked => ~LosesModules(t)'
  BY <1>4, <1>5 DEF LosesModules
<1>10. pc'[t].at \notin Loading \cup {"failed", "contextless"} \cup Unloading
  BY <1>4 DEF Loading, Unloading
<1> QED BY <1>1, <1>4, <1>5, <1>8, <1>9, <1>10, SameKeeps

(* A node is about to be merged.                                           *)
LEMMA HookMergeKeeps ==
  ASSUME NEW t \in Threads, Runs(t), HookLdrpMergeNodes(t)
  PROVE  WatchInv'
PROOF
<1>1. /\ pc[t].at = "condensing" /\ lock' = lock /\ Goto(t, "merging")
      /\ UNCHANGED <<mod, list, nodes, entry, edges, named>> /\ UNCHANGED hooked
      /\ dbgprint(t, "Other", NULL)
  BY DEF HookLdrpMergeNodes, At
<1>2. LoaderTypes /\ Loader /\ Condenses(t) /\ NodeNames /\ ~Blocked(t)
  BY RunsIs
<1>3. /\ pc' \in [Threads -> ThreadState]
      /\ \A u \in Threads \ {t} : pc'[u] = pc[u]
      /\ pc'[t].at = "merging" /\ pc'[t].n = pc[t].n /\ pc'[t].o = pc[t].o
  BY <1>1, <1>2, GotoIs DEF Places, Condensing
<1>4. /\ Events' /\ queue' \in Seq(Event)
      /\ \A u \in Threads \cup {Main} : u # t => (Blocked(u)' <=> Blocked(u))
  <2>1. IsEvent([t |-> t, code |-> "Other", obj |-> NULL])'
    BY <1>3 DEF IsEvent
  <2>2. "Other" \in Codes
    BY DEF Codes
  <2> QED BY <1>1, <1>3, <2>1, <2>2, LineIs
<1>5. /\ lock = t /\ pc[t].n # pc[t].o /\ Loaded(pc[t].n) /\ Loaded(pc[t].o)
  BY <1>1, <1>2 DEF Condenses, Condensing
<1>6. \A k : Loaded(k) => Loaded(k)'
  BY <1>1, <1>2, <1>3, <1>4, MemorySame
<1>7. Condenses(t)' /\ Unloads(t)'
  <2>1. Loaded(pc[t].o)' /\ Loaded(pc[t].n)'
    <3>1. PICK a, b : a = pc[t].o /\ b = pc[t].n
      OBVIOUS
    <3>2. Loaded(a)' /\ Loaded(b)'
      BY <1>5, <1>6, <3>1
    <3> QED BY <1>3, <3>1, <3>2
  <2> QED BY <1>1, <1>3, <1>5, <2>1 DEF Condenses, Unloads, Condensing, Unloading
<1>8. hooked => name[pc'[t].n] # NULL
  BY <1>1, <1>2, <1>3 DEF NodeNames, LosesModules
<1>9. pc'[t].at \notin Loading \cup {"failed", "contextless"} \cup Unloading
  BY <1>3 DEF Loading, Unloading
<1> QED BY <1>1, <1>3, <1>4, <1>7, <1>8, <1>9, SameKeeps

(* A module is about to be unmapped.                                       *)
LEMMA HookUnmapKeeps ==
  ASSUME NEW t \in Threads, Runs(t), HookLdrpUnmapModule(t)
  PROVE  WatchInv'
PROOF
<1>1. PICK x : x = Head(list[pc[t].n])
  OBVIOUS
<1>2. /\ pc[t].at = "unloading" /\ lock' = lock /\ list[pc[t].n] # <<>>
      /\ pc' = [pc EXCEPT ![t].at = "unmapping", ![t].m = x]
      /\ UNCHANGED <<mod, list, nodes, entry, edges, named>> /\ UNCHANGED hooked
      /\ dbgprint(t, "UnmapModule", x)
  BY <1>1 DEF HookLdrpUnmapModule, At
<1>3. LoaderTypes /\ Loader /\ Unloads(t) /\ NodeNames /\ ~Blocked(t)
  BY RunsIs
<1>4. /\ lock = t /\ pc[t].n \in nodes
      /\ \A y \in ToSet(list[pc[t].n]) :
           ~mod[y].linked /\ mod[y].ctx = NULL /\ mod[y].name # NULL
  BY <1>2, <1>3 DEF Unloads, Unloading
<1>5. x \in Mods
  <2>1. list[pc[t].n] \in Seq(Mods)
    BY <1>3, <1>4 DEF LoaderTypes
  <2> QED BY <1>1, <1>2, <2>1
<1>6. /\ pc' \in [Threads -> ThreadState]
      /\ \A u \in Threads \ {t} : pc'[u] = pc[u]
      /\ pc'[t].at = "unmapping" /\ pc'[t].n = pc[t].n /\ pc'[t].m = x
  <2>1. pc \in [Threads -> ThreadState] /\ pc[t] \in ThreadState
    BY <1>3 DEF LoaderTypes
  <2>2. pc'[t] = [[pc[t] EXCEPT !.at = "unmapping"] EXCEPT !.m = x]
    BY <1>2, <2>1
  <2>3. pc'[t] \in ThreadState /\ pc'[t].at = "unmapping" /\ pc'[t].n = pc[t].n /\ pc'[t].m = x
    BY <1>5, <2>1, <2>2 DEF ThreadState, Places, Unloading
  <2>4. \A u \in Threads \ {t} : pc'[u] = pc[u]
    BY <1>2, <2>1
  <2>5. DOMAIN pc' = Threads /\ pc' = [u \in Threads |-> pc'[u]]
    BY <1>2, <2>1
  <2> QED BY <2>1, <2>3, <2>4, <2>5
<1>7. /\ Events' /\ queue' \in Seq(Event)
      /\ \A u \in Threads \cup {Main} : u # t => (Blocked(u)' <=> Blocked(u))
      /\ Blocked(t)' <=> hooked
  <2>1. hooked => IsEvent([t |-> t, code |-> "UnmapModule", obj |-> x])'
    BY <1>2, <1>6 DEF IsEvent
  <2>2. /\ "UnmapModule" \in Codes
        /\ x \in Mods \cup Nodes \cup Ctxs \cup {NULL} \cup SUBSET Nodes
    BY <1>5 DEF Codes
  <2> HIDE <1>2
  <2> QED BY <1>2, <1>6, <2>1, <2>2, LineIs
<1>8. Condenses(t)' /\ Unloads(t)'
  BY <1>1, <1>2, <1>4, <1>6 DEF Condenses, Unloads, Condensing, Unloading
<1>9. hooked => ~LosesModules(t)'
  BY <1>6, <1>7 DEF LosesModules
<1>10. pc'[t].at \notin Loading \cup {"failed", "contextless"} /\ pc[t].at \in Unloading
  BY <1>2, <1>6 DEF Loading, Unloading
<1>11. UNCHANGED <<mod, list, nodes, entry, edges, named>> /\ UNCHANGED hooked
  BY <1>2
<1> QED BY <1>2, <1>6, <1>7, <1>8, <1>9, <1>10, <1>11, SameKeeps

(* A node whose modules are gone is about to be destroyed.                 *)
LEMMA HookDestroyKeeps ==
  ASSUME NEW t \in Threads, Runs(t), HookLdrpDestroyNode(t)
  PROVE  WatchInv'
PROOF
<1>1. /\ pc[t].at = "unloading" /\ lock' = lock /\ list[pc[t].n] = <<>>
      /\ Goto(t, "destroying") /\ dbgprint(t, "DestroyNode", pc[t].n)
      /\ UNCHANGED <<mod, list, nodes, entry, edges, named>> /\ UNCHANGED hooked
  BY DEF HookLdrpDestroyNode, At
<1>2. LoaderTypes /\ Loader /\ Unloads(t) /\ NodeNames /\ ~Blocked(t)
  BY RunsIs
<1>3. /\ pc' \in [Threads -> ThreadState]
      /\ \A u \in Threads \ {t} : pc'[u] = pc[u]
      /\ pc'[t].at = "destroying" /\ pc'[t].n = pc[t].n
  BY <1>1, <1>2, GotoIs DEF Places, Unloading
<1>4. lock = t /\ pc[t].n \in nodes /\ pc[t].n \in Nodes
  BY <1>1, <1>2 DEF Unloads, Unloading, LoaderTypes
<1>5. /\ Events' /\ queue' \in Seq(Event)
      /\ \A u \in Threads \cup {Main} : u # t => (Blocked(u)' <=> Blocked(u))
      /\ Blocked(t)' <=> hooked
  <2>1. PICK x : x = pc[t].n
    OBVIOUS
  <2>2. hooked => IsEvent([t |-> t, code |-> "DestroyNode", obj |-> x])'
    BY <1>1, <1>3, <2>1 DEF IsEvent
  <2>3. /\ "DestroyNode" \in Codes /\ dbgprint(t, "DestroyNode", x)
        /\ x \in Mods \cup Nodes \cup Ctxs \cup {NULL} \cup SUBSET Nodes
    BY <1>1, <1>4, <2>1 DEF Codes
  <2> QED BY <1>1, <1>3, <2>2, <2>3, LineIs
<1>6. Condenses(t)' /\ Unloads(t)'
  <2>1. ToSet(list'[pc'[t].n]) = {}
    BY <1>1, <1>3, SetOfSeq
  <2> QED BY <1>1, <1>3, <1>4, <2>1 DEF Condenses, Unloads, Condensing, Unloading
<1>7. hooked => name[pc'[t].n] # NULL
  BY <1>1, <1>2, <1>3 DEF NodeNames, LosesModules
<1>8. pc'[t].at \notin Loading \cup {"failed", "contextless"} /\ pc[t].at \in Unloading
  BY <1>1, <1>3 DEF Loading, Unloading
<1> QED BY <1>1, <1>3, <1>5, <1>6, <1>7, <1>8, SameKeeps

(* The graph is condensed.                                                 *)
LEMMA CondenseExitKeeps ==
  ASSUME NEW t \in Threads, Runs(t), CondenseGraphRecurseExit(t)
  PROVE  WatchInv'
PROOF
<1>1. UNCHANGED <<mod, list, nodes, entry, edges, named>> /\ UNCHANGED hooked
  BY DEF CondenseGraphRecurseExit
<1>2. LoaderTypes /\ Loader /\ Condenses(t) /\ ~Blocked(t)
  BY RunsIs
<1>3. ASSUME pc[t].at = "exiting", lock' = lock, Goto(t, "exited"),
             dbgprint(t, "CondenseGraphRecurse", {pc[t].o})
      PROVE  WatchInv'
  <2>1. /\ pc' \in [Threads -> ThreadState]
        /\ \A u \in Threads \ {t} : pc'[u] = pc[u]
        /\ pc'[t].at = "exited" /\ pc'[t].o = pc[t].o
    BY <1>2, <1>3, GotoIs DEF Places, Condensing
  <2>2. lock = t /\ Loaded(pc[t].o) /\ pc[t].o \in Nodes
    BY <1>2, <1>3 DEF Condenses, Condensing, Loaded, LoaderTypes
  <2>3. /\ Events' /\ queue' \in Seq(Event)
        /\ \A u \in Threads \cup {Main} : u # t => (Blocked(u)' <=> Blocked(u))
    <3>1. PICK x : x = {pc[t].o}
      OBVIOUS
    <3>2. hooked => IsEvent([t |-> t, code |-> "CondenseGraphRecurse", obj |-> x])'
      BY <1>1, <2>1, <3>1 DEF IsEvent
    <3>3. /\ "CondenseGraphRecurse" \in Codes /\ dbgprint(t, "CondenseGraphRecurse", x)
          /\ x \in Mods \cup Nodes \cup Ctxs \cup {NULL} \cup SUBSET Nodes
      BY <1>3, <2>2, <3>1 DEF Codes
    <3> QED BY <1>1, <2>1, <3>2, <3>3, LineIs
  <2>4. \A k : Loaded(k) => Loaded(k)'
    BY <1>1, <1>2, <1>3, <2>1, <2>3, MemorySame
  <2>5. Condenses(t)' /\ Unloads(t)'
    <3>1. PICK a : a = pc[t].o
      OBVIOUS
    <3>2. Loaded(a)'
      BY <2>2, <2>4, <3>1
    <3>3. Loaded(pc[t].o)'
      BY <2>1, <3>1, <3>2
    <3> QED BY <1>3, <2>1, <2>2, <3>3 DEF Condenses, Unloads, Condensing, Unloading
  <2>6. pc'[t].at \notin Loading \cup {"failed", "contextless"} \cup Unloading /\ ~LosesModules(t)'
    BY <2>1 DEF Loading, Unloading, LosesModules
  <2> HIDE DEF Runs
  <2> QED BY <1>1, <1>3, <2>1, <2>3, <2>5, <2>6, SameKeeps
<1>4. ASSUME pc[t].at = "exited", lock' = NULL, pc' = [pc EXCEPT ![t] = Idle],
             UNCHANGED queue
      PROVE  WatchInv'
  <2>1. /\ pc' \in [Threads -> ThreadState]
        /\ \A u \in Threads \ {t} : pc'[u] = pc[u]
        /\ pc'[t].at = "idle"
    <3>1. Idle \in ThreadState /\ Idle.at = "idle"
      BY DEF Idle, ThreadState, Places
    <3> QED BY <1>2, <1>4, <3>1, StartsIs
  <2>2. lock = t
    BY <1>2, <1>4, LockIs DEF Condensing
  <2>3. /\ Events' /\ queue' \in Seq(Event)
        /\ \A u \in Threads \cup {Main} : u # t => (Blocked(u)' <=> Blocked(u))
    BY <1>1, <1>4, <2>1, NoLineIs
  <2>4. Condenses(t)' /\ Unloads(t)'
    BY <2>1 DEF Condenses, Unloads, Condensing, Unloading
  <2>5. pc'[t].at \notin Loading \cup {"failed", "contextless"} \cup Unloading /\ ~LosesModules(t)'
    BY <2>1 DEF Loading, Unloading, LosesModules
  <2>6. pc[t].at \notin {"freeing", "unmapping", "merged", "destroying"}
    BY <1>4
  <2> HIDE <1>4
  <2> QED BY <1>1, <2>1, <2>2, <2>3, <2>4, <2>5, <2>6, SameKeeps
<1> QED BY <1>3, <1>4 DEF CondenseGraphRecurseExit, At

(* A line that names nothing the debugger keeps.                           *)
LEMMA PrintOtherKeeps ==
  ASSUME NEW t \in Threads, Runs(t), PrintOther(t)
  PROVE  WatchInv'
PROOF
<1>1. /\ pc[t].at = "idle" /\ lock' = lock /\ pc' = pc /\ Raise(t, "Other", NULL)
      /\ UNCHANGED <<mod, list, nodes, entry, edges, named>> /\ UNCHANGED hooked
  BY DEF PrintOther, At
<1>2. /\ LoaderTypes /\ Loader /\ Condenses(t) /\ Unloads(t) /\ ~Blocked(t) /\ Events
      /\ dbg = "wait" /\ UNCHANGED <<phase, hooked, dbg>>
  BY <1>1, RunsIs
<1>3. /\ Events' /\ queue' \in Seq(Event)
      /\ \A u \in Threads \cup {Main} : u # t => (Blocked(u)' <=> Blocked(u))
  <2>1. IsEvent([t |-> t, code |-> "Other", obj |-> NULL])'
    BY <1>1 DEF IsEvent
  <2>2. "Other" \in Codes
    BY DEF Codes
  <2> QED BY <1>1, <1>2, <2>1, <2>2, RaiseKeeps
<1>4. Condenses(t)' /\ Unloads(t)'
  BY <1>1 DEF Condenses, Unloads, Condensing, Unloading
<1>5. pc'[t].at \notin Loading \cup {"failed", "contextless"} \cup Unloading /\ ~LosesModules(t)'
  BY <1>1 DEF Loading, Unloading, LosesModules
<1>6. pc' \in [Threads -> ThreadState]
  BY <1>1, <1>2 DEF LoaderTypes
<1> QED BY <1>1, <1>3, <1>4, <1>5, <1>6, SameKeeps
-----------------------------------------------------------------------------
(* Loading a module.                                                       *)

(* The module, the node and the context of a load.                         *)
LEMMA LoadsIs ==
  ASSUME Loader, NEW t \in Threads, pc[t].at \in Loading
  PROVE  \E x \in Mods, k \in Nodes :
           /\ x = pc[t].m /\ mod[x] # NULL /\ mod[x] \in ModuleEntry /\ k = mod[x].node
           /\ list[k] = <<x>> /\ pc[t].o \in Ctxs /\ mod[x].ctx = pc[t].o
           /\ entry[pc[t].o] = x
PROOF
<1>1. /\ pc[t].m \in Mods /\ mod[pc[t].m] # NULL
      /\ list[mod[pc[t].m].node] = <<pc[t].m>>
      /\ pc[t].o \in Ctxs /\ mod[pc[t].m].ctx = pc[t].o
      /\ entry[pc[t].o] = pc[t].m
  BY DEF Loader, Loads, Loading
<1>2. mod[pc[t].m] \in ModuleEntry
  BY <1>1 DEF Loader, LoaderTypes
<1>3. mod[pc[t].m].node \in Nodes
  BY <1>2 DEF ModuleEntry
<1> QED BY <1>1, <1>2, <1>3

(* A thread that loads a module touches nothing else.                      *)
LEMMA LoadingAlone ==
  ASSUME Loader, NEW t \in Threads, pc[t].at \in Loading, NEW x \in Mods, x = pc[t].m,
         \A y \in Mods \ {x} : mod'[y] = mod[y],
         mod'[x] # NULL, mod'[x].node = mod[x].node,
         UNCHANGED <<list, nodes, lock>>,
         \A c \in Ctxs \ {pc[t].o} : entry'[c] = entry[c],
         \A u \in Threads \ {t} : pc'[u] = pc[u]
  PROVE  /\ MemoryKept(t)
         /\ \A y \in Mods : mod'[y] # NULL <=> mod[y] # NULL
         /\ \A y \in Mods : mod[y] # NULL => mod'[y].node = mod[y].node
         /\ \A y \in Mods : mod'[y] # NULL => mod'[y].node \in nodes'
         /\ \A k \in Nodes : \A y \in Mods :
              y \in ToSet(list'[k]) <=> mod'[y] # NULL /\ mod'[y].node = k
         /\ \A k \in Nodes : \A i, j \in 1..Len(list'[k]) :
              list'[k][i] = list'[k][j] => i = j
PROOF
<1>1. /\ mod[x] # NULL /\ mod[x].ctx = pc[t].o /\ pc[t].o \in Ctxs
      /\ entry[pc[t].o] = x /\ mod[x].ctx # NULL
  BY LoaderAssumption DEF Loader, Loads, Loading, LoaderAssumption
<1>2. ASSUME NEW u \in Threads \ {t}, pc[u].at \in Loading \cup {"failed", "contextless"}
      PROVE  /\ pc[u].m \in Mods \ {x}
             /\ pc[u].at \notin {"failed", "contextless"} => pc[u].o \in Ctxs \ {pc[t].o}
  <2>1. /\ pc[u].m \in Mods
        /\ pc[u].at \notin {"failed", "contextless"} => pc[u].o \in Ctxs /\ entry[pc[u].o] = pc[u].m
    BY <1>2 DEF Loader, Loads
  <2>2. pc[u].m # x
    BY <1>2 DEF Loader, Apart
  <2> QED BY <1>1, <2>1, <2>2
<1>3. MemoryKept(t)
  BY <1>1, <1>2 DEF MemoryKept
<1>4. /\ \A y \in Mods : mod'[y] # NULL <=> mod[y] # NULL
      /\ \A y \in Mods : mod[y] # NULL => mod'[y].node = mod[y].node
  BY <1>1
<1> QED BY <1>3, <1>4 DEF Loader, Graph

(* The rest of what such a step keeps.                                     *)
LEMMA LoadingKeeps ==
  ASSUME NEW t \in Threads, Runs(t), pc[t].at \in Loading,
         UNCHANGED <<list, nodes, lock, hooked>>, LoaderTypes', Graph', MemoryKept(t),
         \A y \in Mods : mod'[y] # NULL <=> mod[y] # NULL,
         \A c \in Ctxs : entry'[c] # NULL => entry[c] # NULL,
         pc[t].at = "freeing" => entry'[pc[t].o] = NULL,
         \A k \in Nodes : named[k] \subseteq named'[k],
         pc'[t].m = pc[t].m \/ pc'[t].at = "idle",
         pc'[t].at \in {"mapping", "mapped", "idle", "failed"},
         Loads(t)', Events',
         \A u \in Threads \cup {Main} : u # t => (Blocked(u)' <=> Blocked(u)),
         pc'[t].at = "failed" => mod'[pc[t].m].node = mod[pc[t].m].node
  PROVE  WatchInv'
PROOF
<1>1. Loader /\ Apart /\ Loads(t) /\ WatchInv /\ dbg = "wait" /\ ~Blocked(t)
  BY RunsIs DEF Runs
<1>2. /\ pc[t].m \in Mods /\ mod[pc[t].m] # NULL /\ mod[pc[t].m].ctx # NULL
      /\ list[mod[pc[t].m].node] = <<pc[t].m>>
  BY <1>1, LoaderAssumption DEF Loads, Loading, LoaderAssumption
<1>3. Condenses(t)' /\ Unloads(t)'
  BY DEF Condenses, Unloads, Condensing, Unloading
<1>4. \A u \in Threads \ {t} :
        /\ pc[u].at \in Loading \cup {"failed", "contextless"}
        /\ pc'[t].at \in Loading \cup {"failed", "contextless"}
        => pc[u].m # pc'[t].m
  <2>1. pc'[t].at \in Loading \cup {"failed", "contextless"} => pc'[t].m = pc[t].m
    BY DEF Loading
  <2> QED BY <1>1, <2>1 DEF Apart
<1>5. ASSUME NEW u \in Threads \ {t}, pc'[t].at \in {"failed", "contextless"},
             pc[u].at \in Unloading
      PROVE  mod'[pc'[t].m].node # pc[u].n
  <2>1. pc'[t].m = pc[t].m
    BY <1>5
  <2>2. \A y \in ToSet(list[pc[u].n]) : mod[y].ctx = NULL
    BY <1>1, <1>5 DEF Loader, Unloads
  <2>3. pc[t].m \in ToSet(list[mod[pc[t].m].node])
    BY <1>2, SetOfSeq
  <2>4. mod[pc[t].m].node # pc[u].n
    BY <1>2, <2>2, <2>3
  <2> QED BY <1>5, <2>1, <2>4
<1>6. pc'[t].at \notin Unloading
  BY DEF Unloading
<1>7. Loader'
  BY <1>1, <1>3, <1>4, <1>5, <1>6, LoaderKept
<1>8. UNCHANGED <<watchVars, phase, hooked>>
  BY DEF Runs
<1>9. ~LosesModules(t)'
  BY DEF LosesModules
<1>10. /\ pc[t].at \notin {"unmapping", "merged", "destroying"}
       /\ \A k \in nodes \cap nodes' : k \in Nodes
  BY <1>1 DEF Loading, Loader, LoaderTypes
<1>11. lock = Main => lock' = Main
  OBVIOUS
<1>12. \A c \in Ctxs : entry'[c] # NULL =>
         entry[c] # NULL /\ (pc[t].at # "freeing" \/ pc[t].o # c)
  OBVIOUS
<1> HIDE DEF Runs, WatchInv
<1> QED BY <1>1, <1>7, <1>8, <1>9, <1>10, <1>11, <1>12, WatchKept

(* The name of the module is stored, and it is about to be mapped.         *)
LEMMA HookMapKeeps ==
  ASSUME NEW t \in Threads, Runs(t), HookLdrpMapDllWithSectionHandle(t)
  PROVE  WatchInv'
PROOF
<1>1. /\ pc[t].at = "allocated" /\ Goto(t, "mapping")
      /\ dbgprint(t, "MapDllWithSectionHandle", pc[t].o)
      /\ UNCHANGED <<list, nodes, lock, hooked>> /\ UNCHANGED <<entry, edges>>
  BY DEF HookLdrpMapDllWithSectionHandle, At
<1>2. PICK a \in Names :
        /\ mod' = [mod EXCEPT ![pc[t].m].name = a]
        /\ named' = [named EXCEPT ![mod[pc[t].m].node] = @ \cup {a}]
  BY DEF HookLdrpMapDllWithSectionHandle
<1>3. /\ Loader /\ LoaderTypes /\ Graph /\ Loads(t)
  BY RunsIs
<1>4. PICK x \in Mods, k \in Nodes :
        /\ x = pc[t].m /\ mod[x] # NULL /\ mod[x] \in ModuleEntry /\ k = mod[x].node
        /\ list[k] = <<x>> /\ pc[t].o \in Ctxs /\ mod[x].ctx = pc[t].o
        /\ entry[pc[t].o] = x /\ ~mod[x].linked
  <2>1. pc[t].at \in Loading /\ ~mod[pc[t].m].linked
    BY <1>1, <1>3 DEF Loads, Loading
  <2> QED BY <1>3, <2>1, LoadsIs
<1>5. /\ pc' \in [Threads -> ThreadState]
      /\ \A u \in Threads \ {t} : pc'[u] = pc[u]
      /\ pc'[t].at = "mapping" /\ pc'[t].m = x /\ pc'[t].o = pc[t].o
  BY <1>1, <1>3, <1>4, GotoIs DEF Places, Loading
<1>6. /\ mod'[x] \in ModuleEntry /\ mod'[x].name = a /\ mod'[x].node = mod[x].node
      /\ mod'[x].ctx = mod[x].ctx /\ mod'[x].linked = mod[x].linked
      /\ \A y \in Mods \ {x} : mod'[y] = mod[y]
      /\ mod' \in [Mods -> ModuleEntry \cup {NULL}]
  <2>1. mod \in [Mods -> ModuleEntry \cup {NULL}]
    BY <1>3 DEF LoaderTypes
  <2>2. mod'[x] = [mod[x] EXCEPT !.name = a]
    BY <1>2, <1>4, <2>1
  <2>3. /\ mod'[x] \in ModuleEntry /\ mod'[x].name = a /\ mod'[x].node = mod[x].node
        /\ mod'[x].ctx = mod[x].ctx /\ mod'[x].linked = mod[x].linked
    BY <1>4, <2>2 DEF ModuleEntry
  <2>4. \A y \in Mods \ {x} : mod'[y] = mod[y]
    BY <1>2, <1>4, <2>1
  <2>5. mod' \in [Mods -> ModuleEntry \cup {NULL}]
    BY <1>2, <1>4, <2>1, <2>2, <2>3
  <2> QED BY <2>3, <2>4, <2>5
<1>7. mod'[x] # NULL /\ a # NULL /\ pc[t].o # NULL
  BY <1>4, <1>6, LoaderAssumption DEF LoaderAssumption
<1>8. /\ named' \in [Nodes -> SUBSET Names] /\ a \in named'[k]
      /\ \A j \in Nodes : named[j] \subseteq named'[j]
  BY <1>2, <1>3, <1>4 DEF LoaderTypes
<1>9. /\ MemoryKept(t)
      /\ \A y \in Mods : mod'[y] # NULL <=> mod[y] # NULL
      /\ \A y \in Mods : mod[y] # NULL => mod'[y].node = mod[y].node
      /\ \A y \in Mods : mod'[y] # NULL => mod'[y].node \in nodes'
      /\ \A j \in Nodes : \A y \in Mods :
           y \in ToSet(list'[j]) <=> mod'[y] # NULL /\ mod'[y].node = j
      /\ \A h \in Nodes : \A i, j \in 1..Len(list'[h]) :
           list'[h][i] = list'[h][j] => i = j
  <2>1. pc[t].at \in Loading
    BY <1>1 DEF Loading
  <2>2. \A c \in Ctxs \ {pc[t].o} : entry'[c] = entry[c]
    BY <1>1
  <2> HIDE <1>2
  <2> QED BY <1>1, <1>3, <1>4, <1>5, <1>6, <1>7, <2>1, <2>2, LoadingAlone
<1>10. /\ Events' /\ queue' \in Seq(Event)
       /\ \A u \in Threads \cup {Main} : u # t => (Blocked(u)' <=> Blocked(u))
  <2>1. PICK c : c = pc[t].o
    OBVIOUS
  <2>2. hooked => IsEvent([t |-> t, code |-> "MapDllWithSectionHandle", obj |-> c])'
    BY <1>1, <1>5, <2>1 DEF IsEvent
  <2>3. /\ "MapDllWithSectionHandle" \in Codes
        /\ dbgprint(t, "MapDllWithSectionHandle", c)
        /\ c \in Mods \cup Nodes \cup Ctxs \cup {NULL} \cup SUBSET Nodes
    BY <1>1, <1>4, <2>1 DEF Codes
  <2> HIDE <1>2
  <2> QED BY <1>1, <1>5, <2>2, <2>3, LineIs
<1> HIDE <1>2
<1>11. LoaderTypes'
  BY <1>1, <1>3, <1>5, <1>6, <1>8, <1>10 DEF LoaderTypes
<1>12. Graph'
  <2>1. \A y \in Mods : /\ y \in Linked' <=> y \in Linked
                        /\ y \in Linked => mod'[y].node = mod[y].node
    BY <1>4, <1>6, <1>9 DEF Linked
  <2>2. \A d \in edges' : \E y, z \in Linked' : d = <<mod'[y].node, mod'[z].node>>
    <3>1. \A y \in Linked : y \in Mods
      BY DEF Linked
    <3> QED BY <1>1, <1>3, <2>1, <3>1 DEF Graph
  <2>3. \A y \in Mods : mod'[y] # NULL =>
          /\ mod'[y].linked /\ mod'[y].ctx = NULL => mod'[y].name # NULL
          /\ mod'[y].name # NULL => mod'[y].name \in named'[mod'[y].node]
    <3>1. ASSUME NEW y \in Mods, y # x, mod[y] # NULL
          PROVE  /\ mod[y].linked /\ mod[y].ctx = NULL => mod[y].name # NULL
                 /\ mod[y].name # NULL => mod[y].name \in named'[mod[y].node]
      <4>1. mod[y].node \in Nodes
        BY <1>3, <3>1 DEF Graph, LoaderTypes
      <4> QED BY <1>3, <1>8, <3>1, <4>1 DEF Graph
    <3> QED BY <1>4, <1>6, <1>7, <1>8, <3>1
  <2> QED BY <1>9, <2>2, <2>3 DEF Graph
<1>13. Loads(t)'
  BY <1>1, <1>4, <1>5, <1>6, <1>7 DEF Loads, Loading
<1>14. pc[t].at \in Loading
  BY <1>1 DEF Loading
<1> QED BY <1>1, <1>4, <1>5, <1>8, <1>9, <1>10, <1>11, <1>12, <1>13, <1>14, LoadingKeeps

(* The original maps the module and links it, or fails.                    *)
LEMMA MapKeeps ==
  ASSUME NEW t \in Threads, Runs(t), LdrpMapDllWithSectionHandle(t)
  PROVE  WatchInv'
PROOF
<1>1. /\ pc[t].at = "mapping" /\ Goto(t, "mapped")
      /\ UNCHANGED <<list, nodes, lock, hooked>> /\ UNCHANGED <<entry, named, queue>>
      /\ \/ /\ mod' = [mod EXCEPT ![pc[t].m].linked = TRUE]
            /\ \E deps \in SUBSET {mod[y].node : y \in Linked} :
                 edges' = edges \cup ({mod[pc[t].m].node} \X deps)
         \/ UNCHANGED <<mod, edges>>
  BY DEF LdrpMapDllWithSectionHandle, At
<1>2. /\ Loader /\ LoaderTypes /\ Graph /\ pc[t].at \in Loading
  BY <1>1, RunsIs DEF Loading
<1>3. PICK x \in Mods, k \in Nodes :
        /\ x = pc[t].m /\ mod[x] # NULL /\ mod[x] \in ModuleEntry /\ k = mod[x].node
        /\ list[k] = <<x>> /\ pc[t].o \in Ctxs /\ mod[x].ctx = pc[t].o
        /\ entry[pc[t].o] = x
  BY <1>2, LoadsIs
<1>4. /\ pc' \in [Threads -> ThreadState]
      /\ \A u \in Threads \ {t} : pc'[u] = pc[u]
      /\ pc'[t].at = "mapped" /\ pc'[t].m = x /\ pc'[t].o = pc[t].o
  BY <1>1, <1>2, <1>3, GotoIs DEF Places, Loading
<1>5. /\ mod'[x] \in ModuleEntry /\ mod'[x].name = mod[x].name
      /\ mod'[x].node = mod[x].node /\ mod'[x].ctx = mod[x].ctx
      /\ mod[x].linked => mod'[x].linked
      /\ \A y \in Mods \ {x} : mod'[y] = mod[y]
      /\ mod' \in [Mods -> ModuleEntry \cup {NULL}]
  <2>1. mod \in [Mods -> ModuleEntry \cup {NULL}]
    BY <1>2 DEF LoaderTypes
  <2>2. CASE mod' = [mod EXCEPT ![pc[t].m].linked = TRUE]
    <3>1. mod'[x] = [mod[x] EXCEPT !.linked = TRUE]
      BY <1>3, <2>1, <2>2
    <3>2. /\ mod'[x] \in ModuleEntry /\ mod'[x].name = mod[x].name
          /\ mod'[x].node = mod[x].node /\ mod'[x].ctx = mod[x].ctx /\ mod'[x].linked
      BY <1>3, <3>1 DEF ModuleEntry
    <3>3. \A y \in Mods \ {x} : mod'[y] = mod[y]
      BY <1>3, <2>1, <2>2
    <3>4. mod' \in [Mods -> ModuleEntry \cup {NULL}]
      BY <1>3, <2>1, <2>2, <3>1, <3>2
    <3> QED BY <3>2, <3>3, <3>4
  <2>3. CASE mod' = mod
    BY <1>3, <2>1, <2>3
  <2> QED BY <1>1, <2>2, <2>3
<1>6. mod'[x] # NULL /\ pc[t].o # NULL
  BY <1>3, <1>5, LoaderAssumption DEF LoaderAssumption
<1>7. \A d \in edges' : \E y, z \in Linked' : d = <<mod'[y].node, mod'[z].node>>
  <2>1. \A y \in Linked : y \in Linked' /\ mod'[y].node = mod[y].node
    BY <1>5, <1>6 DEF Linked
  <2>2. \A d \in edges : \E y, z \in Linked' : d = <<mod'[y].node, mod'[z].node>>
    BY <1>2, <2>1 DEF Graph
  <2>3. CASE edges' = edges
    BY <2>2, <2>3, SMTT(30)
  <2>4. ASSUME mod' = [mod EXCEPT ![pc[t].m].linked = TRUE],
               NEW deps \in SUBSET {mod[y].node : y \in Linked},
               edges' = edges \cup ({mod[pc[t].m].node} \X deps),
               NEW d \in edges'
        PROVE  \E y, z \in Linked' : d = <<mod'[y].node, mod'[z].node>>
    <3>1. x \in Linked'
      <4>1. mod \in [Mods -> ModuleEntry \cup {NULL}]
        BY <1>2 DEF LoaderTypes
      <4>2. mod'[x] = [mod[x] EXCEPT !.linked = TRUE]
        BY <1>3, <2>4, <4>1
      <4>3. mod'[x].linked
        BY <1>3, <4>2 DEF ModuleEntry
      <4> QED BY <1>6, <4>3 DEF Linked
    <3>2. CASE d \in edges
      BY <2>2, <3>2
    <3>3. CASE d \in {mod[x].node} \X deps
      <4>1. PICK b \in deps : d = <<mod[x].node, b>>
        BY <3>3
      <4>2. PICK y \in Linked : b = mod[y].node
        OBVIOUS
      <4> QED BY <1>5, <2>1, <3>1, <4>1, <4>2
    <3> QED BY <1>3, <2>4, <3>2, <3>3
  <2> QED BY <1>1, <2>3, <2>4
<1> HIDE <1>1
<1>8. /\ UNCHANGED <<list, nodes, lock, hooked>> /\ UNCHANGED <<entry, named, queue>>
      /\ pc[t].at = "mapping"
  BY <1>1
<1>9. /\ MemoryKept(t)
      /\ \A y \in Mods : mod'[y] # NULL <=> mod[y] # NULL
      /\ \A y \in Mods : mod[y] # NULL => mod'[y].node = mod[y].node
      /\ \A y \in Mods : mod'[y] # NULL => mod'[y].node \in nodes'
      /\ \A j \in Nodes : \A y \in Mods :
           y \in ToSet(list'[j]) <=> mod'[y] # NULL /\ mod'[y].node = j
      /\ \A h \in Nodes : \A i, j \in 1..Len(list'[h]) :
           list'[h][i] = list'[h][j] => i = j
  <2>1. \A c \in Ctxs \ {pc[t].o} : entry'[c] = entry[c]
    BY <1>8
  <2> QED BY <1>2, <1>3, <1>4, <1>5, <1>6, <1>8, <2>1, LoadingAlone
<1>10. /\ Events' /\ queue' \in Seq(Event)
       /\ \A u \in Threads \cup {Main} : u # t => (Blocked(u)' <=> Blocked(u))
  BY <1>4, <1>8, NoLineIs
<1>11. LoaderTypes'
  BY <1>2, <1>4, <1>5, <1>8, <1>10 DEF LoaderTypes
<1>12. Graph'
  <2>1. ASSUME NEW y \in Mods, mod'[y] # NULL
        PROVE  /\ mod'[y].linked /\ mod'[y].ctx = NULL => mod'[y].name # NULL
               /\ mod'[y].name # NULL => mod'[y].name \in named'[mod'[y].node]
    <3>1. CASE y = x
      <4>1. mod[x].name # NULL /\ mod[x] # NULL
        BY <1>2, <1>3, <1>8, <1>9, <2>1, <3>1 DEF Loader, Loads, Loading
      <4>2. mod[x].name \in named[mod[x].node]
        BY <1>2, <1>3, <4>1 DEF Graph
      <4> QED BY <1>5, <1>8, <3>1, <4>1, <4>2
    <3>2. CASE y # x
      BY <1>2, <1>5, <1>8, <2>1, <3>2 DEF Graph
    <3> QED BY <3>1, <3>2
  <2> QED BY <1>7, <1>9, <2>1 DEF Graph
<1>13. Loads(t)'
  <2>1. mod[x].name # NULL
    BY <1>2, <1>3, <1>8 DEF Loader, Loads, Loading
  <2> QED BY <1>3, <1>4, <1>5, <1>6, <1>8, <2>1 DEF Loads, Loading
<1> QED BY <1>2, <1>3, <1>4, <1>8, <1>9, <1>10, <1>11, <1>12, <1>13, LoadingKeeps

(* The context is freed; the load is over, or has failed.                  *)
LEMMA FreeKeeps ==
  ASSUME NEW t \in Threads, Runs(t), LdrpFreeLoadContext(t)
  PROVE  WatchInv'
PROOF
<1>1. /\ pc[t].at = "freeing" /\ entry' = [entry EXCEPT ![pc[t].o] = NULL]
      /\ mod' = [mod EXCEPT ![pc[t].m].ctx = NULL]
      /\ pc' = [pc EXCEPT ![t] = IF mod[pc[t].m].linked THEN Idle
                                 ELSE [pc[t] EXCEPT !.at = "failed", !.o = NULL]]
      /\ UNCHANGED <<list, nodes, lock, hooked>> /\ UNCHANGED <<edges, named, queue>>
  <2>1. pc \in [Threads -> ThreadState]
    BY RunsIs DEF LoaderTypes
  <2> QED BY <2>1 DEF LdrpFreeLoadContext, At
<1>2. /\ Loader /\ LoaderTypes /\ Graph /\ pc[t].at \in Loading
  BY <1>1, RunsIs DEF Loading
<1>3. PICK x \in Mods, k \in Nodes :
        /\ x = pc[t].m /\ mod[x] # NULL /\ mod[x] \in ModuleEntry /\ k = mod[x].node
        /\ list[k] = <<x>> /\ pc[t].o \in Ctxs /\ mod[x].ctx = pc[t].o
        /\ entry[pc[t].o] = x
  BY <1>2, LoadsIs
<1>4. /\ pc' \in [Threads -> ThreadState]
      /\ \A u \in Threads \ {t} : pc'[u] = pc[u]
      /\ pc'[t].at \in {"idle", "failed"}
      /\ pc'[t].at = "failed" => pc'[t].m = x /\ ~mod[x].linked
  <2>1. pc[t] \in ThreadState /\ pc[t].m = x
    BY <1>2, <1>3 DEF LoaderTypes
  <2>2. PICK r : r = IF mod[pc[t].m].linked THEN Idle
                     ELSE [pc[t] EXCEPT !.at = "failed", !.o = NULL]
    OBVIOUS
  <2>3. CASE mod[x].linked
    <3>1. r = Idle
      BY <1>3, <2>2, <2>3
    <3>2. r \in ThreadState /\ r.at = "idle"
      BY <3>1 DEF Idle, ThreadState, Places
    <3> QED BY <1>1, <1>2, <2>2, <3>2, StartsIs
  <2>4. CASE ~mod[x].linked
    <3>1. r = [pc[t] EXCEPT !.at = "failed", !.o = NULL]
      BY <1>3, <2>2, <2>4
    <3>2. r \in ThreadState /\ r.at = "failed" /\ r.m = x
      BY <2>1, <3>1 DEF ThreadState, Places
    <3> QED BY <1>1, <1>2, <2>2, <2>4, <3>2, StartsIs
  <2> QED BY <2>3, <2>4
<1>5. /\ mod'[x] \in ModuleEntry /\ mod'[x].name = mod[x].name
      /\ mod'[x].node = mod[x].node /\ mod'[x].ctx = NULL
      /\ mod'[x].linked = mod[x].linked
      /\ \A y \in Mods \ {x} : mod'[y] = mod[y]
      /\ mod' \in [Mods -> ModuleEntry \cup {NULL}]
  <2>1. mod \in [Mods -> ModuleEntry \cup {NULL}]
    BY <1>2 DEF LoaderTypes
  <2>2. mod'[x] = [mod[x] EXCEPT !.ctx = NULL]
    BY <1>1, <1>3, <2>1
  <2>3. /\ mod'[x] \in ModuleEntry /\ mod'[x].name = mod[x].name
        /\ mod'[x].node = mod[x].node /\ mod'[x].ctx = NULL
        /\ mod'[x].linked = mod[x].linked
    BY <1>3, <2>2 DEF ModuleEntry
  <2>4. \A y \in Mods \ {x} : mod'[y] = mod[y]
    BY <1>1, <1>3, <2>1
  <2>5. mod' \in [Mods -> ModuleEntry \cup {NULL}]
    BY <1>1, <1>3, <2>1, <2>2, <2>3
  <2> QED BY <2>3, <2>4, <2>5
<1>6. mod'[x] # NULL /\ mod[x].name # NULL
  <2>1. mod[x].name # NULL
    BY <1>1, <1>2, <1>3 DEF Loader, Loads, Loading
  <2> QED BY <1>5, <2>1, LoaderAssumption DEF LoaderAssumption
<1>7. /\ entry' \in [Ctxs -> Mods \cup {NULL}] /\ entry'[pc[t].o] = NULL
      /\ \A c \in Ctxs \ {pc[t].o} : entry'[c] = entry[c]
  BY <1>1, <1>2, <1>3 DEF LoaderTypes
<1>8. /\ UNCHANGED <<list, nodes, lock, hooked>> /\ UNCHANGED <<edges, named, queue>>
      /\ pc[t].at = "freeing"
  BY <1>1
<1> HIDE <1>1
<1>9. /\ MemoryKept(t)
      /\ \A y \in Mods : mod'[y] # NULL <=> mod[y] # NULL
      /\ \A y \in Mods : mod[y] # NULL => mod'[y].node = mod[y].node
      /\ \A y \in Mods : mod'[y] # NULL => mod'[y].node \in nodes'
      /\ \A j \in Nodes : \A y \in Mods :
           y \in ToSet(list'[j]) <=> mod'[y] # NULL /\ mod'[y].node = j
      /\ \A h \in Nodes : \A i, j \in 1..Len(list'[h]) :
           list'[h][i] = list'[h][j] => i = j
  BY <1>2, <1>3, <1>4, <1>5, <1>6, <1>7, <1>8, LoadingAlone
<1>10. /\ Events' /\ queue' \in Seq(Event)
       /\ \A u \in Threads \cup {Main} : u # t => (Blocked(u)' <=> Blocked(u))
  BY <1>4, <1>8, NoLineIs
<1>11. LoaderTypes'
  BY <1>2, <1>4, <1>5, <1>7, <1>8, <1>10 DEF LoaderTypes
<1>12. Graph'
  <2>1. \A y \in Linked : y \in Linked' /\ mod'[y].node = mod[y].node
    BY <1>5, <1>6 DEF Linked
  <2>2. \A d \in edges' : \E y, z \in Linked' : d = <<mod'[y].node, mod'[z].node>>
    BY <1>2, <1>8, <2>1 DEF Graph
  <2>3. \A y \in Mods : mod'[y] # NULL =>
          /\ mod'[y].linked /\ mod'[y].ctx = NULL => mod'[y].name # NULL
          /\ mod'[y].name # NULL => mod'[y].name \in named'[mod'[y].node]
    BY <1>2, <1>3, <1>5, <1>6, <1>8 DEF Graph
  <2> QED BY <1>9, <2>2, <2>3 DEF Graph
<1>13. Loads(t)'
  BY <1>3, <1>4, <1>5, <1>6, <1>8 DEF Loads, Loading
<1>14. \A c \in Ctxs : entry'[c] # NULL => entry[c] # NULL
  BY <1>7
<1> QED BY <1>2, <1>3, <1>4, <1>5, <1>7, <1>8, <1>9, <1>10, <1>11, <1>12, <1>13, <1>14,
      LoadingKeeps

(* A module, its node and its context are allocated.                       *)
LEMMA AllocateKeeps ==
  ASSUME NEW t \in Threads, Runs(t), HookLdrpAllocateModuleEntry(t)
  PROVE  WatchInv'
PROOF
<1>1. /\ pc[t].at = "idle" /\ UNCHANGED <<edges, lock, hooked>>
  BY DEF HookLdrpAllocateModuleEntry, At
<1>2. PICK x \in {y \in Mods : mod[y] = NULL}, k \in Nodes \ nodes,
           c \in {d \in Ctxs : entry[d] = NULL} \cup {NULL} :
        /\ mod' = [mod EXCEPT ![x] = NewEntry(k, c)]
        /\ nodes' = nodes \cup {k}
        /\ list' = [list EXCEPT ![k] = <<x>>]
        /\ named' = [named EXCEPT ![k] = {}]
        /\ entry' = [d \in Ctxs |-> IF d = c THEN x ELSE entry[d]]
        /\ pc' = [pc EXCEPT ![t] = [at |-> IF c = NULL THEN "contextless" ELSE "allocated",
                                    m |-> x, n |-> NULL, o |-> c]]
        /\ dbgprint(t, "AllocateModuleEntry", x)
  BY DEF HookLdrpAllocateModuleEntry
<1>2a. PICK at \in {"allocated", "contextless"} :
         at = IF c = NULL THEN "contextless" ELSE "allocated"
  OBVIOUS
<1>2b. /\ x \in Mods /\ k \in Nodes /\ c \in Ctxs \cup {NULL}
       /\ mod[x] = NULL /\ k \notin nodes /\ (c # NULL => entry[c] = NULL)
  OBVIOUS
<1>3. /\ Loader /\ LoaderTypes /\ Graph /\ WatchInv /\ dbg = "wait" /\ ~Blocked(t)
      /\ UNCHANGED <<watchVars, phase, hooked>>
  BY <1>1, RunsIs DEF Runs
<1>4. /\ NULL \notin Ctxs /\ x # NULL /\ NULL \notin ModuleEntry
  BY LoaderAssumption DEF LoaderAssumption
<1>5. /\ pc' \in [Threads -> ThreadState]
      /\ \A u \in Threads \ {t} : pc'[u] = pc[u]
      /\ pc'[t].at = at /\ pc'[t].m = x /\ pc'[t].n = NULL /\ pc'[t].o = c
      /\ at \in {"allocated", "contextless"} /\ (at = "contextless" <=> c = NULL)
  <2>1. PICK r : r = [at |-> IF c = NULL THEN "contextless" ELSE "allocated",
                      m |-> x, n |-> NULL, o |-> c]
    OBVIOUS
  <2>2. at \in {"allocated", "contextless"} /\ (at = "contextless" <=> c = NULL)
    BY <1>2a
  <2>3. r.at = at /\ r.m = x /\ r.n = NULL /\ r.o = c
    BY <1>2a, <2>1
  <2>4. r \in ThreadState
    BY <1>2b, <2>1 DEF ThreadState, Places, Loading
  <2> QED BY <1>2, <1>3, <2>1, <2>2, <2>3, <2>4, StartsIs
<1>6. /\ mod'[x] \in ModuleEntry /\ mod'[x].name = NULL /\ mod'[x].node = k
      /\ mod'[x].ctx = c /\ ~mod'[x].linked /\ mod'[x] # NULL
      /\ \A y \in Mods \ {x} : mod'[y] = mod[y]
      /\ mod' \in [Mods -> ModuleEntry \cup {NULL}]
  <2>1. mod \in [Mods -> ModuleEntry \cup {NULL}]
    BY <1>3 DEF LoaderTypes
  <2>2. mod'[x] = NewEntry(k, c)
    BY <1>2, <2>1
  <2>3. /\ mod'[x] \in ModuleEntry /\ mod'[x].name = NULL /\ mod'[x].node = k
        /\ mod'[x].ctx = c /\ mod'[x].linked = FALSE
    BY <2>2 DEF ModuleEntry, NewEntry
  <2>4. \A y \in Mods \ {x} : mod'[y] = mod[y]
    BY <1>2, <2>1
  <2>5. mod' \in [Mods -> ModuleEntry \cup {NULL}]
    BY <1>2, <2>1, <2>2, <2>3
  <2> QED BY <1>4, <2>3, <2>4, <2>5
<1>7. /\ list' \in [Nodes -> Seq(Mods)] /\ list'[k] = <<x>>
      /\ \A j \in Nodes \ {k} : list'[j] = list[j]
      /\ nodes' \subseteq Nodes
      /\ named' \in [Nodes -> SUBSET Names]
      /\ \A j \in Nodes \ {k} : named'[j] = named[j]
      /\ entry' \in [Ctxs -> Mods \cup {NULL}] /\ (c # NULL => entry'[c] = x)
      /\ \A d \in Ctxs \ {c} : entry'[d] = entry[d]
  BY <1>2, <1>2b, <1>3 DEF LoaderTypes
<1>8. /\ Events' /\ queue' \in Seq(Event)
      /\ \A u \in Threads \cup {Main} : u # t => (Blocked(u)' <=> Blocked(u))
      /\ Blocked(t)' <=> hooked
  <2>1. hooked => IsEvent([t |-> t, code |-> "AllocateModuleEntry", obj |-> x])'
    BY <1>1, <1>5 DEF IsEvent
  <2>2. /\ "AllocateModuleEntry" \in Codes /\ dbgprint(t, "AllocateModuleEntry", x)
        /\ x \in Mods \cup Nodes \cup Ctxs \cup {NULL} \cup SUBSET Nodes
    BY <1>2 DEF Codes
  <2>3. UNCHANGED hooked
    BY <1>1
  <2> HIDE <1>2
  <2> QED BY <1>5, <2>1, <2>2, <2>3, LineIs
<1>9. /\ nodes' = nodes \cup {k} /\ mod[x] = NULL /\ k \notin nodes
      /\ c # NULL => entry[c] = NULL
  BY <1>2, <1>2b
<1> HIDE <1>2
<1>10. LoaderTypes'
  BY <1>5, <1>6, <1>7, <1>8 DEF LoaderTypes
<1>11. Graph'
  <2>1. \A y \in Mods : mod'[y] # NULL => mod'[y].node \in nodes'
    BY <1>3, <1>6, <1>9 DEF Graph
  <2>2. ASSUME NEW j \in Nodes, NEW y \in Mods
        PROVE  y \in ToSet(list'[j]) <=> mod'[y] # NULL /\ mod'[y].node = j
    <3>1. CASE j = k
      <4>1. y \in ToSet(list'[j]) <=> y = x
        <5>1. ToSet(<<x>>) = {x}
          BY SetOfSeq
        <5> QED BY <1>7, <3>1, <5>1
      <4>2. y # x => ~(mod[y] # NULL /\ mod[y].node = k)
        BY <1>3, <1>9 DEF Graph
      <4> QED BY <1>6, <3>1, <4>1, <4>2
    <3>2. CASE j # k
      <4>1. list'[j] = list[j]
        BY <1>7, <3>2
      <4>2. y \in ToSet(list[j]) <=> mod[y] # NULL /\ mod[y].node = j
        BY <1>3 DEF Graph
      <4> QED BY <1>6, <1>9, <3>2, <4>1, <4>2
    <3> QED BY <3>1, <3>2
  <2>3. ASSUME NEW h \in Nodes, NEW i \in 1..Len(list'[h]), NEW j \in 1..Len(list'[h]),
               list'[h][i] = list'[h][j]
        PROVE  i = j
    <3>1. CASE h = k
      <4>1. Len(list'[h]) = 1
        BY <1>7, <3>1, SetOfSeq
      <4> QED BY <4>1
    <3>2. CASE h # k
      BY <1>3, <1>7, <2>3, <3>2 DEF Graph
    <3> QED BY <3>1, <3>2
  <2>4. \A y \in Linked : y \in Linked' /\ mod'[y] = mod[y]
    BY <1>6, <1>9 DEF Linked
  <2>5. \A d \in edges' : \E y, z \in Linked' : d = <<mod'[y].node, mod'[z].node>>
    BY <1>1, <1>3, <2>4 DEF Graph
  <2>6. ASSUME NEW y \in Mods, mod'[y] # NULL
        PROVE  /\ mod'[y].linked /\ mod'[y].ctx = NULL => mod'[y].name # NULL
               /\ mod'[y].name # NULL => mod'[y].name \in named'[mod'[y].node]
    <3>1. CASE y = x
      BY <1>4, <1>6, <3>1
    <3>2. CASE y # x
      <4>1. mod'[y] = mod[y] /\ mod[y].node \in Nodes \ {k}
        BY <1>3, <1>6, <1>9, <2>6, <3>2 DEF Graph, LoaderTypes
      <4> QED BY <1>3, <1>7, <2>6, <4>1 DEF Graph
    <3> QED BY <3>1, <3>2
  <2> QED BY <2>1, <2>2, <2>3, <2>5, <2>6 DEF Graph
<1>12. MemoryKept(t)
  <2>1. ASSUME NEW u \in Threads \ {t}, pc[u].at \in Loading \cup {"failed", "contextless"}
        PROVE  /\ mod'[pc[u].m] = mod[pc[u].m]
               /\ list'[mod[pc[u].m].node] = list[mod[pc[u].m].node]
               /\ pc[u].at \notin {"failed", "contextless"} => entry'[pc[u].o] = entry[pc[u].o]
    <3>1. /\ pc[u].m \in Mods /\ mod[pc[u].m] # NULL
          /\ pc[u].at \notin {"failed", "contextless"} =>
               pc[u].o \in Ctxs /\ entry[pc[u].o] = pc[u].m
      BY <1>3, <2>1 DEF Loader, Loads
    <3>2. mod[pc[u].m].node \in nodes
      BY <1>3, <3>1 DEF Graph
    <3>3. pc[u].at \notin {"failed", "contextless"} => entry[pc[u].o] # NULL
      BY <3>1, LoaderAssumption DEF LoaderAssumption
    <3>4. mod[pc[u].m].node \in Nodes \ {k}
      BY <1>3, <1>9, <3>2 DEF LoaderTypes
    <3>5. pc[u].at \notin {"failed", "contextless"} => pc[u].o \in Ctxs \ {c}
      BY <1>4, <1>9, <3>1, <3>3
    <3>6. pc[u].m \in Mods \ {x}
      BY <1>9, <3>1
    <3> QED BY <1>6, <1>7, <3>4, <3>5, <3>6
  <2>2. /\ \A j \in nodes : list'[j] = list[j]
        /\ \A y \in Mods : mod[y] # NULL => mod'[y] = mod[y]
    BY <1>3, <1>6, <1>7, <1>9 DEF LoaderTypes
  <2> QED BY <1>1, <1>5, <1>9, <2>1, <2>2 DEF MemoryKept
<1>13. Loads(t)' /\ Condenses(t)' /\ Unloads(t)'
  BY <1>5, <1>6, <1>7 DEF Loads, Condenses, Unloads, Loading, Condensing, Unloading
<1>14. Loader'
  <2>1. \A u \in Threads \ {t} : pc[u].at \in Loading \cup {"failed", "contextless"} => pc[u].m # x
    BY <1>3, <1>9 DEF Loader, Loads
  <2>2. pc'[t].at \notin Unloading
    BY <1>5 DEF Unloading
  <2>3. \A u \in Threads \ {t} : pc[u].at \in Unloading => mod'[pc'[t].m].node # pc[u].n
    BY <1>3, <1>5, <1>6, <1>9 DEF Loader, Unloads
  <2> QED BY <1>3, <1>5, <1>10, <1>11, <1>12, <1>13, <2>1, <2>2, <2>3, LoaderKept
<1>15. ~LosesModules(t)'
  BY <1>5 DEF LosesModules
<1>16. \A d \in Ctxs : entry'[d] # NULL =>
         \/ entry[d] # NULL /\ (pc[t].at # "freeing" \/ pc[t].o # d)
         \/ pc'[t].at \in {"allocated", "contextless"} /\ (hooked => Blocked(t)') /\ pc'[t].o = d
  BY <1>1, <1>5, <1>7, <1>8
<1>17. \A y \in Mods : mod'[y] # NULL =>
         \/ mod[y] # NULL /\ (pc[t].at # "unmapping" \/ pc[t].m # y)
         \/ pc'[t].at \in {"allocated", "contextless"} /\ (hooked => Blocked(t)') /\ pc'[t].m = y
  BY <1>1, <1>5, <1>6, <1>8
<1>18. \A j \in nodes' :
         \/ j \in nodes /\ (pc[t].at \notin {"merged", "destroying"} \/ pc[t].n # j)
         \/ /\ pc'[t].at \in {"allocated", "contextless"} /\ (hooked => Blocked(t)')
            /\ mod'[pc'[t].m].node = j
  BY <1>1, <1>5, <1>6, <1>8, <1>9
<1>19. /\ pc'[t].at \notin {"merged", "destroying"}
       /\ \A j \in nodes \ nodes' : hooked => j \in dead
       /\ pc'[t].at \in {"allocated", "contextless"} /\ Blocked(t)'
            => hooked /\ mod'[pc'[t].m].node \notin nodes
       /\ \A j \in nodes \cap nodes' : named[j] \subseteq named'[j]
       /\ lock = Main => lock' = Main
  <2>1. \A j \in nodes \cap nodes' : j \in Nodes \ {k}
    BY <1>3, <1>9 DEF LoaderTypes
  <2> QED BY <1>1, <1>5, <1>6, <1>7, <1>8, <1>9, <2>1
<1> HIDE DEF Runs, WatchInv
<1> QED BY <1>3, <1>8, <1>12, <1>14, <1>15, <1>16, <1>17, <1>18, <1>19, WatchKept
-----------------------------------------------------------------------------
(* Steps under the loader lock that change the graph.                      *)

(* A thread that holds the lock, or takes it, touches only the modules of  *)
(* nodes that no other thread works on.                                    *)
LEMMA LockedAlone ==
  ASSUME Loader, NEW t \in Threads, lock \in {t, NULL}, NEW W,
         \A u \in Threads \ {t} :
           pc[u].at \in Loading \cup {"failed", "contextless"} => mod[pc[u].m].node \notin W,
         \A y \in Mods : mod[y] # NULL /\ mod[y].node \notin W => mod'[y] = mod[y],
         \A j \in Nodes \ W : list'[j] = list[j],
         UNCHANGED entry,
         \A u \in Threads \ {t} : pc'[u] = pc[u]
  PROVE  MemoryKept(t) /\ \A u \in Threads \ {t} : pc[u].at \notin Condensing \cup Unloading
PROOF
<1>1. \A u \in Threads \ {t} : pc[u].at \notin Condensing \cup Unloading
  BY LockIs, LoaderAssumption DEF LoaderAssumption
<1>2. ASSUME NEW u \in Threads \ {t}, pc[u].at \in Loading \cup {"failed", "contextless"}
      PROVE  /\ mod'[pc[u].m] = mod[pc[u].m]
             /\ list'[mod[pc[u].m].node] = list[mod[pc[u].m].node]
  <2>1. pc[u].m \in Mods /\ mod[pc[u].m] # NULL
    BY <1>2 DEF Loader, Loads
  <2>2. mod[pc[u].m].node \in Nodes \ W
    BY <1>2, <2>1 DEF Loader, Graph, LoaderTypes
  <2> QED BY <2>1, <2>2
<1> QED BY <1>1, <1>2 DEF MemoryKept

(* The modules of nodes that other threads load or have failed to load.    *)
LEMMA NotLoaded ==
  ASSUME Loader, NEW u \in Threads, pc[u].at \in Loading \cup {"failed", "contextless"}, NEW k,
         Loaded(k)
  PROVE  mod[pc[u].m].node # k
PROOF
<1>1. /\ pc[u].m \in Mods /\ mod[pc[u].m] # NULL
      /\ mod[pc[u].m].ctx # NULL \/ ~mod[pc[u].m].linked
  BY LoaderAssumption DEF Loader, Loads, LoaderAssumption
<1>2. k \in Nodes /\ \A x \in ToSet(list[k]) : mod[x].linked /\ mod[x].ctx = NULL
  BY LoadedIs DEF Loader, LoaderTypes
<1> QED BY <1>1, <1>2 DEF Loader, Graph

(* A node is unloaded: its modules are unlinked.                           *)
LEMMA UnloadKeeps ==
  ASSUME NEW t \in Threads, Runs(t), LdrpUnloadNode(t)
  PROVE  WatchInv'
PROOF
<1>1. PICK k \in nodes :
        /\ \/ pc[t].at = "idle" /\ Loaded(k)
           \/ pc[t].at = "failed" /\ k = mod[pc[t].m].node
        /\ \A d \in edges : d[2] # k
        /\ mod' = [y \in Mods |-> IF y \in ToSet(list[k])
                                  THEN [mod[y] EXCEPT !.linked = FALSE] ELSE mod[y]]
        /\ edges' = {d \in edges : d[1] # k}
        /\ pc' = [pc EXCEPT ![t] = [Idle EXCEPT !.at = "unloading", !.n = k]]
  BY DEF LdrpUnloadNode, At
<1>2. /\ lock = NULL /\ lock' = t /\ UNCHANGED <<list, nodes, entry, named>>
      /\ UNCHANGED <<hooked, queue>>
  BY DEF LdrpUnloadNode
<1>3. /\ Loader /\ LoaderTypes /\ Graph /\ WatchInv /\ dbg = "wait" /\ ~Blocked(t)
      /\ UNCHANGED <<watchVars, phase, hooked>>
  BY <1>2, RunsIs DEF Runs
<1>4. k \in Nodes /\ Main # NULL /\ t # NULL
  BY <1>3, LoaderAssumption DEF LoaderTypes, LoaderAssumption
<1>5. /\ list[k] # <<>>
      /\ \A y \in ToSet(list[k]) :
           y \in Mods /\ mod[y] # NULL /\ mod[y].ctx = NULL /\ mod[y].name # NULL
  <2>1. CASE pc[t].at = "idle" /\ Loaded(k)
    <3>1. /\ list[k] # <<>>
          /\ \A y \in ToSet(list[k]) : y \in Mods /\ mod[y] # NULL /\ mod[y].ctx = NULL
      BY <1>3, <2>1, LoadedIs
    <3>2. \A y \in ToSet(list[k]) : mod[y].linked
      BY <2>1 DEF Loaded, Linked
    <3> QED BY <1>3, <3>1, <3>2 DEF Graph
  <2>2. CASE pc[t].at = "failed" /\ k = mod[pc[t].m].node
    <3>1. /\ pc[t].m \in Mods /\ mod[pc[t].m] # NULL /\ mod[pc[t].m].ctx = NULL
          /\ list[k] = <<pc[t].m>> /\ mod[pc[t].m].name # NULL
      BY <1>3, <2>2 DEF Loader, Loads
    <3>2. ToSet(<<pc[t].m>>) = {pc[t].m} /\ <<pc[t].m>> # <<>>
      BY SetOfSeq
    <3> QED BY <3>1, <3>2
  <2> QED BY <1>1, <2>1, <2>2
<1>6. ASSUME NEW u \in Threads \ {t}, pc[u].at \in Loading \cup {"failed", "contextless"}
      PROVE  mod[pc[u].m].node # k
  <2>1. CASE Loaded(k)
    BY <1>3, <1>6, <2>1, NotLoaded
  <2>2. CASE pc[t].at = "failed" /\ k = mod[pc[t].m].node
    <3>1. list[k] = <<pc[t].m>> /\ pc[u].m \in Mods /\ mod[pc[u].m] # NULL
      BY <1>3, <1>6, <2>2 DEF Loader, Loads
    <3>2. ToSet(<<pc[t].m>>) = {pc[t].m}
      BY SetOfSeq
    <3>3. pc[u].m # pc[t].m
      BY <1>3, <1>6, <2>2 DEF Loader, Apart
    <3> QED BY <1>3, <1>4, <3>1, <3>2, <3>3 DEF Graph
  <2> QED BY <1>1, <2>1, <2>2
<1>7. /\ pc' \in [Threads -> ThreadState]
      /\ \A u \in Threads \ {t} : pc'[u] = pc[u]
      /\ pc'[t].at = "unloading" /\ pc'[t].n = k
  <2>1. PICK r : r = [Idle EXCEPT !.at = "unloading", !.n = k]
    OBVIOUS
  <2>2. r \in ThreadState /\ r.at = "unloading" /\ r.n = k
    BY <1>4, <2>1 DEF Idle, ThreadState, Places, Unloading
  <2> QED BY <1>1, <1>3, <2>1, <2>2, StartsIs
<1>8. /\ mod' \in [Mods -> ModuleEntry \cup {NULL}]
      /\ \A y \in Mods : y \notin ToSet(list[k]) => mod'[y] = mod[y]
      /\ \A y \in ToSet(list[k]) :
           /\ mod'[y] \in ModuleEntry /\ mod'[y] # NULL /\ ~mod'[y].linked
           /\ mod'[y].node = mod[y].node /\ mod'[y].ctx = mod[y].ctx
           /\ mod'[y].name = mod[y].name
  <2>1. mod \in [Mods -> ModuleEntry \cup {NULL}]
    BY <1>3 DEF LoaderTypes
  <2>2. \A y \in Mods : y \notin ToSet(list[k]) => mod'[y] = mod[y]
    BY <1>1
  <2>3. ASSUME NEW y \in ToSet(list[k])
        PROVE  /\ mod'[y] \in ModuleEntry /\ mod'[y] # NULL /\ ~mod'[y].linked
               /\ mod'[y].node = mod[y].node /\ mod'[y].ctx = mod[y].ctx
               /\ mod'[y].name = mod[y].name
    <3>1. y \in Mods /\ mod[y] \in ModuleEntry
      BY <1>5, <2>1
    <3>2. mod'[y] = [mod[y] EXCEPT !.linked = FALSE]
      BY <1>1, <3>1
    <3>3. /\ mod'[y] \in ModuleEntry /\ mod'[y].linked = FALSE
          /\ mod'[y].node = mod[y].node /\ mod'[y].ctx = mod[y].ctx
          /\ mod'[y].name = mod[y].name
      BY <3>1, <3>2 DEF ModuleEntry
    <3> QED BY <3>3, LoaderAssumption DEF LoaderAssumption
  <2>4. \A y \in Mods : mod'[y] \in ModuleEntry \cup {NULL}
    BY <2>1, <2>2, <2>3
  <2>5. mod' = [y \in Mods |-> mod'[y]]
    BY <1>1
  <2> QED BY <2>2, <2>3, <2>4, <2>5
<1>9. /\ \A d \in edges : d[2] # k
      /\ edges' = {d \in edges : d[1] # k}
  BY <1>1
<1> HIDE <1>1
<1>10. /\ Events' /\ queue' \in Seq(Event)
       /\ \A u \in Threads \cup {Main} : u # t => (Blocked(u)' <=> Blocked(u))
  BY <1>2, <1>7, NoLineIs
<1>11. LoaderTypes'
  BY <1>2, <1>3, <1>7, <1>8, <1>10 DEF LoaderTypes
<1>12. /\ \A y \in Mods : mod'[y] # NULL <=> mod[y] # NULL
       /\ \A y \in Mods : mod[y] # NULL =>
            mod'[y].node = mod[y].node /\ mod'[y].ctx = mod[y].ctx
            /\ mod'[y].name = mod[y].name
  BY <1>5, <1>8
<1>13. Graph'
  <2>1. /\ \A y \in Mods : mod'[y] # NULL => mod'[y].node \in nodes'
        /\ \A j \in Nodes : \A y \in Mods :
             y \in ToSet(list'[j]) <=> mod'[y] # NULL /\ mod'[y].node = j
        /\ \A h \in Nodes : \A i, j \in 1..Len(list'[h]) :
             list'[h][i] = list'[h][j] => i = j
    BY <1>2, <1>3, <1>12 DEF Graph
  <2>2. ASSUME NEW d \in edges'
        PROVE  \E y, z \in Linked' : d = <<mod'[y].node, mod'[z].node>>
    <3>1. d \in edges /\ d[1] # k /\ d[2] # k
      BY <1>9
    <3>2. PICK y \in Linked, z \in Linked : d = <<mod[y].node, mod[z].node>>
      BY <1>3, <3>1 DEF Graph
    <3>3. /\ y \in Mods /\ z \in Mods /\ mod[y] # NULL /\ mod[z] # NULL
          /\ mod[y].node # k /\ mod[z].node # k
      BY <3>1, <3>2 DEF Linked
    <3>4. y \notin ToSet(list[k]) /\ z \notin ToSet(list[k])
      BY <1>3, <1>4, <3>3 DEF Graph
    <3>5. mod'[y] = mod[y] /\ mod'[z] = mod[z]
      BY <1>8, <3>3, <3>4
    <3>6. y \in Linked' /\ z \in Linked'
      BY <3>2, <3>5 DEF Linked
    <3> QED BY <3>2, <3>5, <3>6
  <2>3. ASSUME NEW y \in Mods, mod'[y] # NULL
        PROVE  /\ mod'[y].linked /\ mod'[y].ctx = NULL => mod'[y].name # NULL
               /\ mod'[y].name # NULL => mod'[y].name \in named'[mod'[y].node]
    <3>1. mod[y].name # NULL => mod[y].name \in named[mod[y].node]
      BY <1>3, <1>12, <2>3 DEF Graph
    <3>2. mod'[y].name = mod[y].name /\ mod'[y].node = mod[y].node
      BY <1>12, <2>3
    <3>3. mod'[y].linked => mod'[y] = mod[y]
      BY <1>8
    <3>4. mod'[y].linked /\ mod'[y].ctx = NULL => mod'[y].name # NULL
      BY <1>3, <2>3, <3>3 DEF Graph
    <3>5. UNCHANGED named
      BY <1>2
    <3> QED BY <3>1, <3>2, <3>4, <3>5
  <2> QED BY <2>1, <2>2, <2>3 DEF Graph
<1>14. MemoryKept(t) /\ \A u \in Threads \ {t} : pc[u].at \notin Condensing \cup Unloading
  <2>1. \A y \in Mods : mod[y] # NULL /\ mod[y].node \notin {k} => mod'[y] = mod[y]
    BY <1>3, <1>4, <1>8 DEF Graph
  <2>2. /\ \A j \in Nodes \ {k} : list'[j] = list[j]
        /\ UNCHANGED entry /\ lock \in {t, NULL}
        /\ \A u \in Threads \ {t} :
             pc[u].at \in Loading \cup {"failed", "contextless"} => mod[pc[u].m].node \notin {k}
    BY <1>2, <1>6
  <2> QED BY <1>3, <1>7, <2>1, <2>2, LockedAlone
<1>15. Loads(t)' /\ Condenses(t)' /\ Unloads(t)'
  <2>1. \A y \in ToSet(list'[k]) :
          ~mod'[y].linked /\ mod'[y].ctx = NULL /\ mod'[y].name # NULL
    BY <1>2, <1>5, <1>8
  <2>2. k \in nodes'
    BY <1>2
  <2> QED BY <1>2, <1>7, <2>1, <2>2
         DEF Loads, Condenses, Unloads, Loading, Condensing, Unloading
<1>16. Loader'
  <2>1. pc'[t].at \notin Loading \cup {"failed", "contextless"}
    BY <1>7 DEF Loading
  <2> QED BY <1>3, <1>6, <1>7, <1>11, <1>13, <1>14, <1>15, <2>1, LoaderKept
<1>17. ~LosesModules(t)'
  BY <1>2, <1>5, <1>7 DEF LosesModules
<1>18. /\ pc[t].at \notin {"freeing", "unmapping", "merged", "destroying"}
       /\ pc'[t].at \notin {"allocated", "contextless", "merged", "destroying"}
  BY <1>1, <1>7
<1>19. /\ \A d \in Ctxs : entry'[d] # NULL =>
            entry[d] # NULL /\ (pc[t].at # "freeing" \/ pc[t].o # d)
       /\ \A y \in Mods : mod'[y] # NULL =>
            mod[y] # NULL /\ (pc[t].at # "unmapping" \/ pc[t].m # y)
       /\ \A j \in nodes' :
            j \in nodes /\ (pc[t].at \notin {"merged", "destroying"} \/ pc[t].n # j)
       /\ \A j \in nodes \ nodes' : hooked => j \in dead
       /\ \A j \in nodes \cap nodes' : named[j] \subseteq named'[j]
       /\ lock = Main => lock' = Main
  BY <1>2, <1>4, <1>12, <1>18
<1> HIDE DEF Runs, WatchInv
<1> QED BY <1>3, <1>10, <1>14, <1>16, <1>17, <1>18, <1>19, WatchKept

(* A module is unmapped: its entry is gone.                                *)
LEMMA UnmapKeeps ==
  ASSUME NEW t \in Threads, Runs(t), LdrpUnmapModule(t)
  PROVE  WatchInv'
PROOF
<1>1. PICK x, k : x = pc[t].m /\ k = pc[t].n
  OBVIOUS
<1>2. /\ pc[t].at = "unmapping" /\ Goto(t, "unloading")
      /\ mod' = [mod EXCEPT ![x] = NULL] /\ list' = [list EXCEPT ![k] = Tail(list[k])]
      /\ UNCHANGED <<nodes, entry, edges, named>> /\ UNCHANGED <<lock, hooked, queue>>
  <2>1. pc[t].n \in nodes /\ list \in [Nodes -> Seq(Mods)] /\ nodes \subseteq Nodes
    BY RunsIs DEF LdrpUnmapModule, At, Unloads, Unloading, LoaderTypes
  <2> QED BY <1>1, <2>1 DEF LdrpUnmapModule, At
<1>3. /\ Loader /\ LoaderTypes /\ Graph /\ WatchInv /\ dbg = "wait" /\ ~Blocked(t)
      /\ UNCHANGED <<watchVars, phase, hooked>> /\ NodeNames
  BY <1>2, RunsIs DEF Runs
<1>4. /\ lock = t /\ k \in nodes /\ k \in Nodes /\ list[k] # <<>> /\ x = Head(list[k])
      /\ \A y \in ToSet(list[k]) :
           ~mod[y].linked /\ mod[y].ctx = NULL /\ mod[y].name # NULL
  BY <1>1, <1>2, <1>3 DEF Loader, Unloads, Unloading, LoaderTypes
<1>5. /\ Tail(list[k]) \in Seq(Mods)
      /\ ToSet(Tail(list[k])) = ToSet(list[k]) \ {x}
      /\ \A i, j \in 1..Len(Tail(list[k])) : Tail(list[k])[i] = Tail(list[k])[j] => i = j
      /\ x \in ToSet(list[k]) /\ x \in Mods
  <2>1. PICK s, q : s = list[k] /\ q = Tail(s)
    OBVIOUS
  <2>2. s \in Seq(Mods) /\ s # <<>> /\ Once(s)
    BY <1>3, <1>4, <2>1 DEF LoaderTypes, Graph, Once
  <2>3. q \in Seq(Mods) /\ ToSet(q) = ToSet(s) \ {Head(s)} /\ Once(q)
    BY <2>1, <2>2, SetOfTail
  <2>4. x \in ToSet(s) /\ ToSet(s) \subseteq Mods
    BY <1>4, <2>1, <2>2, SetOfSeq
  <2> QED BY <1>4, <2>1, <2>3, <2>4 DEF Once
<1>6. /\ mod' \in [Mods -> ModuleEntry \cup {NULL}] /\ mod'[x] = NULL
      /\ \A y \in Mods \ {x} : mod'[y] = mod[y]
      /\ list' \in [Nodes -> Seq(Mods)] /\ list'[k] = Tail(list[k])
      /\ \A j \in Nodes \ {k} : list'[j] = list[j]
  BY <1>2, <1>3, <1>4, <1>5 DEF LoaderTypes
<1>7. /\ pc' \in [Threads -> ThreadState]
      /\ \A u \in Threads \ {t} : pc'[u] = pc[u]
      /\ pc'[t].at = "unloading" /\ pc'[t].n = k
  BY <1>1, <1>2, <1>3, GotoIs DEF Places, Unloading
<1>8. /\ Events' /\ queue' \in Seq(Event)
      /\ \A u \in Threads \cup {Main} : u # t => (Blocked(u)' <=> Blocked(u))
  BY <1>2, <1>7, NoLineIs
<1>9. /\ pc[t].at = "unmapping" /\ UNCHANGED <<nodes, entry, edges, named>>
      /\ UNCHANGED <<lock, hooked, queue>>
  BY <1>2
<1> HIDE <1>2
<1>10. LoaderTypes'
  BY <1>3, <1>6, <1>7, <1>8, <1>9 DEF LoaderTypes
<1>11. mod[x] # NULL /\ mod[x].node = k /\ ~mod[x].linked
  BY <1>3, <1>4, <1>5 DEF Graph
<1>12. Graph'
  <2>1. /\ \A y \in Mods : mod'[y] # NULL => mod'[y].node \in nodes'
    BY <1>3, <1>6, <1>9 DEF Graph
  <2>2. ASSUME NEW j \in Nodes, NEW y \in Mods
        PROVE  y \in ToSet(list'[j]) <=> mod'[y] # NULL /\ mod'[y].node = j
    <3>1. y \in ToSet(list[j]) <=> mod[y] # NULL /\ mod[y].node = j
      BY <1>3 DEF Graph
    <3>2. CASE j = k
      BY <1>5, <1>6, <3>1, <3>2
    <3>3. CASE j # k
      BY <1>6, <1>11, <3>1, <3>3
    <3> QED BY <3>2, <3>3
  <2>3. ASSUME NEW h \in Nodes, NEW i \in 1..Len(list'[h]), NEW j \in 1..Len(list'[h]),
               list'[h][i] = list'[h][j]
        PROVE  i = j
    <3>1. CASE h = k
      BY <1>5, <1>6, <2>3, <3>1
    <3>2. CASE h # k
      BY <1>3, <1>6, <2>3, <3>2 DEF Graph
    <3> QED BY <3>1, <3>2
  <2>4. \A y \in Linked : y \in Linked' /\ mod'[y] = mod[y]
    BY <1>6, <1>11 DEF Linked
  <2>5. \A d \in edges' : \E y, z \in Linked' : d = <<mod'[y].node, mod'[z].node>>
    BY <1>3, <1>9, <2>4 DEF Graph
  <2>6. \A y \in Mods : mod'[y] # NULL =>
          /\ mod'[y].linked /\ mod'[y].ctx = NULL => mod'[y].name # NULL
          /\ mod'[y].name # NULL => mod'[y].name \in named'[mod'[y].node]
    BY <1>3, <1>6, <1>9 DEF Graph
  <2> QED BY <2>1, <2>2, <2>3, <2>5, <2>6 DEF Graph
<1>13. ASSUME NEW u \in Threads \ {t}, pc[u].at \in Loading \cup {"failed", "contextless"}
       PROVE  mod[pc[u].m].node # k
  <2>1. CASE pc[u].at \in {"failed", "contextless"}
    BY <1>1, <1>3, <1>9, <2>1 DEF Loader, Apart, Unloading
  <2>2. CASE pc[u].at \notin {"failed", "contextless"}
    <3>1. pc[u].m \in Mods /\ mod[pc[u].m] # NULL /\ mod[pc[u].m].ctx # NULL
      BY <1>3, <1>13, <2>2, LoaderAssumption DEF Loader, Loads, LoaderAssumption
    <3> QED BY <1>3, <1>4, <3>1 DEF Graph
  <2> QED BY <2>1, <2>2
<1>14. MemoryKept(t) /\ \A u \in Threads \ {t} : pc[u].at \notin Condensing \cup Unloading
  <2>1. \A y \in Mods : mod[y] # NULL /\ mod[y].node \notin {k} => mod'[y] = mod[y]
    BY <1>6, <1>11
  <2>2. /\ \A j \in Nodes \ {k} : list'[j] = list[j]
        /\ UNCHANGED entry /\ lock \in {t, NULL}
        /\ \A u \in Threads \ {t} :
             pc[u].at \in Loading \cup {"failed", "contextless"} => mod[pc[u].m].node \notin {k}
    BY <1>4, <1>6, <1>9, <1>13
  <2> QED BY <1>3, <1>7, <2>1, <2>2, LockedAlone
<1>15. Loads(t)' /\ Condenses(t)' /\ Unloads(t)'
  <2>1. \A y \in ToSet(list'[k]) :
          ~mod'[y].linked /\ mod'[y].ctx = NULL /\ mod'[y].name # NULL
    <3>1. \A y \in ToSet(list'[k]) : y \in ToSet(list[k]) /\ y \in Mods \ {x}
      <4>1. ToSet(list[k]) \subseteq Mods
        BY <1>3, <1>4, SetOfSeq DEF LoaderTypes
      <4> QED BY <1>5, <1>6, <4>1
    <3> QED BY <1>4, <1>6, <3>1
  <2>2. k \in nodes' /\ lock' = t
    BY <1>4, <1>9
  <2> QED BY <1>7, <2>1, <2>2
         DEF Loads, Condenses, Unloads, Loading, Condensing, Unloading
<1>16. Loader'
  <2>1. pc'[t].at \notin Loading \cup {"failed", "contextless"}
    BY <1>7 DEF Loading
  <2> QED BY <1>3, <1>7, <1>10, <1>12, <1>13, <1>14, <1>15, <2>1, LoaderKept
<1>17. hooked => name[pc'[t].n] # NULL
  BY <1>1, <1>3, <1>7, <1>9 DEF NodeNames, LosesModules
<1>18. pc'[t].at \notin {"allocated", "contextless", "merged", "destroying"}
  BY <1>7
<1>19. /\ \A d \in Ctxs : entry'[d] # NULL =>
            entry[d] # NULL /\ (pc[t].at # "freeing" \/ pc[t].o # d)
       /\ \A y \in Mods : mod'[y] # NULL =>
            mod[y] # NULL /\ (pc[t].at # "unmapping" \/ pc[t].m # y)
       /\ \A j \in nodes' :
            j \in nodes /\ (pc[t].at \notin {"merged", "destroying"} \/ pc[t].n # j)
       /\ \A j \in nodes \ nodes' : hooked => j \in dead
       /\ \A j \in nodes \cap nodes' : named[j] \subseteq named'[j]
       /\ lock = Main => lock' = Main
  BY <1>1, <1>6, <1>9
<1> HIDE DEF Runs, WatchInv
<1> QED BY <1>3, <1>8, <1>14, <1>16, <1>17, <1>18, <1>19, WatchKept

(* A node is freed.                                                        *)
LEMMA DestroyKeeps ==
  ASSUME NEW t \in Threads, Runs(t), LdrpDestroyNode(t)
  PROVE  WatchInv'
PROOF
<1>1. PICK k : k = pc[t].n
  OBVIOUS
<1>2. /\ nodes' = nodes \ {k} /\ UNCHANGED <<mod, list, entry, edges, named>>
      /\ UNCHANGED hooked
      /\ \/ /\ pc[t].at = "merged" /\ dbgprint(t, "MergeNodesExit", NULL)
            /\ Goto(t, "exiting") /\ UNCHANGED lock
         \/ /\ pc[t].at = "destroying" /\ pc' = [pc EXCEPT ![t] = Idle]
            /\ lock' = NULL /\ UNCHANGED queue
  BY <1>1 DEF LdrpDestroyNode, At
<1>3. /\ Loader /\ LoaderTypes /\ Graph /\ WatchInv /\ dbg = "wait" /\ ~Blocked(t)
      /\ UNCHANGED <<watchVars, phase, hooked>> /\ DeadOrNew
      /\ Condenses(t) /\ Unloads(t)
  BY <1>2, RunsIs DEF Runs
<1>4. /\ lock = t /\ k \in nodes /\ k \in Nodes /\ list[k] = <<>>
      /\ pc[t].at = "merged" => Loaded(pc[t].o)
  BY <1>1, <1>2, <1>3
     DEF Condenses, Condensing, Unloads, Unloading, LoaderTypes
<1>5. /\ pc' \in [Threads -> ThreadState] /\ \A u \in Threads \ {t} : pc'[u] = pc[u]
      /\ pc'[t].at \in {"exiting", "idle"}
      /\ pc'[t].at = "exiting" => pc'[t].o = pc[t].o /\ pc[t].at = "merged" /\ lock' = lock
  <2>1. CASE pc[t].at = "merged" /\ Goto(t, "exiting") /\ UNCHANGED lock
    BY <1>3, <2>1, GotoIs DEF Places, Condensing
  <2>2. CASE pc' = [pc EXCEPT ![t] = Idle]
    <3>1. Idle \in ThreadState /\ Idle.at = "idle"
      BY DEF Idle, ThreadState, Places
    <3> QED BY <1>3, <2>2, <3>1, StartsIs
  <2> QED BY <1>2, <2>1, <2>2
<1>6. /\ Events' /\ queue' \in Seq(Event)
      /\ \A u \in Threads \cup {Main} : u # t => (Blocked(u)' <=> Blocked(u))
  <2>1. UNCHANGED hooked
    BY <1>2
  <2>2. CASE pc[t].at = "merged" /\ dbgprint(t, "MergeNodesExit", NULL) /\ Goto(t, "exiting")
    <3>1. hooked => IsEvent([t |-> t, code |-> "MergeNodesExit", obj |-> NULL])'
      <4>1. pc'[t].at = "exiting"
        BY <1>3, <2>2, GotoIs DEF Places, Condensing
      <4> QED BY <2>1, <4>1 DEF IsEvent
    <3>2. "MergeNodesExit" \in Codes
      BY DEF Codes
    <3>3. dbgprint(t, "MergeNodesExit", NULL)
      BY <2>2
    <3> HIDE <1>2, <2>2
    <3> QED BY <1>5, <2>1, <3>1, <3>2, <3>3, LineIs
  <2>3. CASE UNCHANGED queue
    <3>1. UNCHANGED <<hooked, queue>>
      BY <2>1, <2>3
    <3> QED BY <1>5, <3>1, NoLineIs
  <2> QED BY <1>2, <2>2, <2>3
<1>7. /\ nodes' = nodes \ {k} /\ UNCHANGED <<mod, list, entry, edges, named>>
      /\ UNCHANGED hooked /\ pc[t].at \in {"merged", "destroying"}
  BY <1>2
<1> HIDE <1>2
<1>8. LoaderTypes'
  BY <1>3, <1>5, <1>6, <1>7 DEF LoaderTypes
<1>9. \A y \in Mods : mod[y] # NULL => mod[y].node # k
  <2>1. ToSet(list[k]) = {}
    BY <1>4, SetOfSeq
  <2> QED BY <1>3, <1>4, <2>1 DEF Graph
<1>10. Graph'
  BY <1>3, <1>7, <1>9 DEF Graph, Linked
<1>11. MemoryKept(t) /\ \A u \in Threads \ {t} : pc[u].at \notin Condensing \cup Unloading
  <2>1. lock \in {t, NULL} /\ UNCHANGED entry
    BY <1>4, <1>7
  <2>2. /\ \A u \in Threads \ {t} :
             pc[u].at \in Loading \cup {"failed", "contextless"} => mod[pc[u].m].node \notin {k}
        /\ \A y \in Mods : mod[y] # NULL /\ mod[y].node \notin {k} => mod'[y] = mod[y]
        /\ \A j \in Nodes \ {k} : list'[j] = list[j]
    BY <1>3, <1>7, <1>9 DEF Loader, Loads
  <2> QED BY <1>3, <1>5, <2>1, <2>2, LockedAlone
<1>12. Loads(t)' /\ Unloads(t)'
  BY <1>5 DEF Loads, Unloads, Loading, Unloading
<1>13. Condenses(t)'
  <2> SUFFICES ASSUME pc'[t].at = "exiting" PROVE Condenses(t)'
    BY <1>5 DEF Condenses, Condensing
  <2>1. PICK root : root = pc[t].o
    OBVIOUS
  <2>2. Loaded(root) /\ root \in nodes /\ list[root] # <<>>
    BY <1>4, <1>5, <2>1 DEF Loaded
  <2>3. root \in nodes' /\ UNCHANGED <<mod, list>>
    BY <1>4, <1>7, <2>2
  <2>4. Loaded(root)'
    BY <2>2, <2>3 DEF Loaded, Linked
  <2>5. pc'[t].o = root /\ lock' = t
    BY <1>4, <1>5, <2>1
  <2>6. Loaded(pc[t].o)'
    BY <2>4, <2>5
  <2> QED BY <2>5, <2>6 DEF Condenses
<1>14. Loader'
  <2>1. pc'[t].at \notin Loading \cup {"failed", "contextless"} \cup Unloading
    BY <1>5 DEF Loading, Unloading
  <2> QED BY <1>3, <1>5, <1>8, <1>10, <1>11, <1>12, <1>13, <2>1, LoaderKept
<1>15. ~LosesModules(t)' /\ pc'[t].at \notin {"allocated", "contextless", "merged", "destroying"}
  BY <1>5 DEF LosesModules
<1>16. hooked => k \in dead
  BY <1>1, <1>3, <1>7 DEF DeadOrNew, Frees
<1>17. /\ \A d \in Ctxs : entry'[d] # NULL =>
            entry[d] # NULL /\ (pc[t].at # "freeing" \/ pc[t].o # d)
       /\ \A y \in Mods : mod'[y] # NULL =>
            mod[y] # NULL /\ (pc[t].at # "unmapping" \/ pc[t].m # y)
       /\ \A j \in nodes' :
            j \in nodes /\ (pc[t].at \notin {"merged", "destroying"} \/ pc[t].n # j)
       /\ \A j \in nodes \ nodes' : hooked => j \in dead
       /\ \A j \in nodes \cap nodes' : named[j] \subseteq named'[j]
       /\ lock = Main => lock' = Main
  BY <1>1, <1>4, <1>7, <1>16, LoaderAssumption DEF LoaderAssumption
<1> HIDE DEF Runs, WatchInv
<1> QED BY <1>3, <1>6, <1>11, <1>14, <1>15, <1>17, WatchKept

(* A node is merged into the root: its modules and edges move there.       *)
LEMMA MergeKeeps ==
  ASSUME NEW t \in Threads, Runs(t), LdrpMergeNodes(t)
  PROVE  WatchInv'
PROOF
<1>1. PICK k, root : k = pc[t].n /\ root = pc[t].o
  OBVIOUS
<1> DEFINE To(x) == IF x = k THEN root ELSE x
<1>2. /\ pc[t].at = "merging" /\ Goto(t, "merged") /\ dbgprint(t, "DestroyNode", k)
      /\ mod' = [y \in Mods |-> IF mod[y] # NULL /\ mod[y].node = k
                                THEN [mod[y] EXCEPT !.node = root] ELSE mod[y]]
      /\ list' = [list EXCEPT ![root] = @ \o list[k], ![k] = <<>>]
      /\ named' = [named EXCEPT ![root] = @ \cup named[k]]
      /\ edges' = {d \in {<<To(b[1]), To(b[2])>> : b \in edges} : d[1] # d[2]}
      /\ UNCHANGED <<nodes, entry>> /\ UNCHANGED <<lock, hooked>>
  BY <1>1 DEF LdrpMergeNodes, At
<1>3. /\ Loader /\ LoaderTypes /\ Graph /\ WatchInv /\ dbg = "wait" /\ ~Blocked(t)
      /\ UNCHANGED <<watchVars, phase, hooked>> /\ NodeNames /\ Condenses(t)
  BY <1>2, RunsIs DEF Runs
<1>4. /\ lock = t /\ Loaded(k) /\ Loaded(root) /\ k # root /\ Main # t
  BY <1>1, <1>2, <1>3, LoaderAssumption DEF Condenses, Condensing, LoaderAssumption
<1>5. /\ k \in nodes \ {NtdllNode} /\ list[k] # <<>>
      /\ \A y \in ToSet(list[k]) :
           y \in Mods /\ mod[y] # NULL /\ mod[y].linked /\ mod[y].ctx = NULL
      /\ root \in nodes \ {NtdllNode} /\ list[root] # <<>>
      /\ \A y \in ToSet(list[root]) :
           y \in Mods /\ mod[y] # NULL /\ mod[y].linked /\ mod[y].ctx = NULL
      /\ k \in Nodes /\ root \in Nodes
  BY <1>3, <1>4, LoadedIs DEF LoaderTypes
<1>6. /\ pc' \in [Threads -> ThreadState]
      /\ \A u \in Threads \ {t} : pc'[u] = pc[u]
      /\ pc'[t].at = "merged" /\ pc'[t].n = k /\ pc'[t].o = root
  BY <1>1, <1>2, <1>3, GotoIs DEF Places, Condensing
<1>7. PICK q : q = list[root] \o list[k]
  OBVIOUS
<1>8. q \in Seq(Mods) /\ ToSet(q) = ToSet(list[root]) \cup ToSet(list[k]) /\ Once(q)
  <2>1. PICK s, r : s = list[root] /\ r = list[k]
    OBVIOUS
  <2>2. s \in Seq(Mods) /\ r \in Seq(Mods) /\ Once(s) /\ Once(r)
    BY <1>3, <1>5, <2>1 DEF LoaderTypes, Graph, Once
  <2>3. \A x \in ToSet(s) : x \notin ToSet(r)
    BY <1>3, <1>4, <1>5, <2>1 DEF Graph
  <2>4. q = s \o r
    BY <1>7, <2>1
  <2>5. q \in Seq(Mods) /\ ToSet(q) = ToSet(s) \cup ToSet(r) /\ Once(q)
    <3>1. q \in Seq(Mods)
      BY <2>2, <2>3, <2>4, SetOfConcat
    <3>2. Once(q)
      BY <2>2, <2>3, <2>4, SetOfConcat
    <3>3. \A x : x \in ToSet(q) <=> x \in ToSet(s) \/ x \in ToSet(r)
      BY <2>2, <2>3, <2>4, SetOfConcat
    <3> QED BY <3>1, <3>2, <3>3
  <2> QED BY <2>1, <2>5
<1>9. /\ list' \in [Nodes -> Seq(Mods)] /\ list'[root] = q /\ list'[k] = <<>>
      /\ \A j \in Nodes \ {k, root} : list'[j] = list[j]
  <2>1. list \in [Nodes -> Seq(Mods)] /\ <<>> \in Seq(Mods)
    BY <1>3 DEF LoaderTypes
  <2>2. list' = [[list EXCEPT ![root] = q] EXCEPT ![k] = <<>>]
    BY <1>2, <1>5, <1>7, <2>1
  <2> QED BY <1>4, <1>5, <1>8, <2>1, <2>2
<1>10. /\ mod' \in [Mods -> ModuleEntry \cup {NULL}]
       /\ \A y \in Mods : ~(mod[y] # NULL /\ mod[y].node = k) => mod'[y] = mod[y]
       /\ \A y \in Mods : mod[y] # NULL /\ mod[y].node = k =>
            /\ mod'[y] # NULL /\ mod'[y].node = root /\ mod'[y].ctx = mod[y].ctx
            /\ mod'[y].name = mod[y].name /\ mod'[y].linked = mod[y].linked
  <2>1. mod \in [Mods -> ModuleEntry \cup {NULL}]
    BY <1>3 DEF LoaderTypes
  <2>2. \A y \in Mods : ~(mod[y] # NULL /\ mod[y].node = k) => mod'[y] = mod[y]
    BY <1>2
  <2>3. ASSUME NEW y \in Mods, mod[y] # NULL, mod[y].node = k
        PROVE  /\ mod'[y] # NULL /\ mod'[y].node = root /\ mod'[y].ctx = mod[y].ctx
               /\ mod'[y].name = mod[y].name /\ mod'[y].linked = mod[y].linked
               /\ mod'[y] \in ModuleEntry
    <3>1. mod[y] \in ModuleEntry
      BY <2>1, <2>3
    <3>2. mod'[y] = [mod[y] EXCEPT !.node = root]
      BY <1>2, <2>3
    <3>3. /\ mod'[y].node = root /\ mod'[y].ctx = mod[y].ctx
          /\ mod'[y].name = mod[y].name /\ mod'[y].linked = mod[y].linked
          /\ mod'[y] \in ModuleEntry
      BY <1>5, <3>1, <3>2 DEF ModuleEntry
    <3> QED BY <3>3, LoaderAssumption DEF LoaderAssumption
  <2>4. \A y \in Mods : mod'[y] \in ModuleEntry \cup {NULL}
    BY <2>1, <2>2, <2>3
  <2>5. mod' = [y \in Mods |-> mod'[y]]
    BY <1>2
  <2> QED BY <2>2, <2>3, <2>4, <2>5
<1>11. /\ named' \in [Nodes -> SUBSET Names] /\ named'[root] = named[root] \cup named[k]
       /\ \A j \in Nodes : named[j] \subseteq named'[j]
  BY <1>2, <1>3, <1>5 DEF LoaderTypes
<1>12. ASSUME NEW d \in edges'
       PROVE  \E b \in edges : d = <<To(b[1]), To(b[2])>>
  BY <1>2
<1>13. /\ Events' /\ queue' \in Seq(Event)
       /\ \A u \in Threads \cup {Main} : u # t => (Blocked(u)' <=> Blocked(u))
       /\ Blocked(t)' <=> hooked
  <2>1. hooked => IsEvent([t |-> t, code |-> "DestroyNode", obj |-> k])'
    BY <1>2, <1>6 DEF IsEvent
  <2>2. /\ "DestroyNode" \in Codes /\ dbgprint(t, "DestroyNode", k) /\ UNCHANGED hooked
        /\ k \in Mods \cup Nodes \cup Ctxs \cup {NULL} \cup SUBSET Nodes
    BY <1>2, <1>5 DEF Codes
  <2> HIDE <1>2
  <2> QED BY <1>6, <2>1, <2>2, LineIs
<1>14. /\ UNCHANGED <<nodes, entry>> /\ UNCHANGED <<lock, hooked>> /\ pc[t].at = "merging"
  BY <1>2
<1> HIDE <1>2
<1>15. LoaderTypes'
  BY <1>3, <1>6, <1>9, <1>10, <1>11, <1>13, <1>14 DEF LoaderTypes
<1>16. /\ \A y \in Mods : mod'[y] # NULL <=> mod[y] # NULL
       /\ \A y \in Mods : mod[y] # NULL =>
            /\ mod'[y].node = To(mod[y].node) /\ mod'[y].ctx = mod[y].ctx
            /\ mod'[y].name = mod[y].name /\ mod'[y].linked = mod[y].linked
  BY <1>10
<1>17. Graph'
  <2>1. \A y \in Mods : mod'[y] # NULL => mod'[y].node \in nodes'
    BY <1>3, <1>5, <1>14, <1>16 DEF Graph
  <2>2. ASSUME NEW j \in Nodes, NEW y \in Mods
        PROVE  y \in ToSet(list'[j]) <=> mod'[y] # NULL /\ mod'[y].node = j
    <3>1. \A h \in Nodes : y \in ToSet(list[h]) <=> mod[y] # NULL /\ mod[y].node = h
      BY <1>3 DEF Graph
    <3>2. CASE j = k
      <4>1. ToSet(list'[j]) = {}
        BY <1>9, <3>2, SetOfSeq
      <4> QED BY <1>4, <1>16, <3>2, <4>1
    <3>3. CASE j = root
      BY <1>4, <1>5, <1>8, <1>9, <1>16, <3>1, <3>3
    <3>4. CASE j \notin {k, root}
      BY <1>9, <1>16, <3>1, <3>4
    <3> QED BY <3>2, <3>3, <3>4
  <2>3. ASSUME NEW h \in Nodes, NEW i \in 1..Len(list'[h]), NEW j \in 1..Len(list'[h]),
               list'[h][i] = list'[h][j]
        PROVE  i = j
    <3>1. CASE h = k
      <4>1. Len(list'[h]) = 0
        BY <1>9, <3>1
      <4> QED BY <4>1
    <3>2. CASE h = root
      BY <1>8, <1>9, <2>3, <3>2 DEF Once
    <3>3. CASE h \notin {k, root}
      BY <1>3, <1>9, <2>3, <3>3 DEF Graph
    <3> QED BY <3>1, <3>2, <3>3
  <2>4. \A y \in Linked : y \in Linked' /\ mod'[y].node = To(mod[y].node)
    BY <1>16 DEF Linked
  <2>5. ASSUME NEW d \in edges'
        PROVE  \E y, z \in Linked' : d = <<mod'[y].node, mod'[z].node>>
    <3>1. PICK b \in edges : d = <<To(b[1]), To(b[2])>>
      BY <1>12
    <3>2. PICK y \in Linked, z \in Linked : b = <<mod[y].node, mod[z].node>>
      BY <1>3 DEF Graph
    <3>3. b[1] = mod[y].node /\ b[2] = mod[z].node
      BY <3>2
    <3>4. /\ y \in Linked' /\ mod'[y].node = To(b[1])
          /\ z \in Linked' /\ mod'[z].node = To(b[2])
      BY <2>4, <3>3
    <3> QED BY <3>1, <3>4
  <2>6. ASSUME NEW y \in Mods, mod'[y] # NULL
        PROVE  /\ mod'[y].linked /\ mod'[y].ctx = NULL => mod'[y].name # NULL
               /\ mod'[y].name # NULL => mod'[y].name \in named'[mod'[y].node]
    <3>1. /\ mod[y] # NULL /\ mod[y].linked /\ mod[y].ctx = NULL => mod[y].name # NULL
          /\ mod[y].name # NULL => mod[y].name \in named[mod[y].node]
          /\ mod[y].node \in Nodes
      BY <1>3, <1>16, <2>6 DEF Graph, LoaderTypes
    <3>2. CASE mod[y].node = k
      BY <1>11, <1>16, <2>6, <3>1, <3>2
    <3>3. CASE mod[y].node # k
      BY <1>11, <1>16, <2>6, <3>1, <3>3
    <3> QED BY <3>2, <3>3
  <2> QED BY <2>1, <2>2, <2>3, <2>5, <2>6 DEF Graph
<1>18. MemoryKept(t) /\ \A u \in Threads \ {t} : pc[u].at \notin Condensing \cup Unloading
  <2>1. \A u \in Threads \ {t} :
          pc[u].at \in Loading \cup {"failed", "contextless"} => mod[pc[u].m].node \notin {k, root}
    BY <1>3, <1>4, NotLoaded
  <2>2. /\ \A y \in Mods : mod[y] # NULL /\ mod[y].node \notin {k, root} => mod'[y] = mod[y]
        /\ UNCHANGED entry /\ lock \in {t, NULL}
    BY <1>4, <1>10, <1>14
  <2> QED BY <1>3, <1>6, <1>9, <2>1, <2>2, LockedAlone
<1>19. Loads(t)' /\ Unloads(t)'
  BY <1>6 DEF Loads, Unloads, Loading, Unloading
<1>20. Condenses(t)'
  <2>1. root \in nodes' \ {NtdllNode} /\ list'[root] # <<>>
    <3>1. ToSet(list'[root]) # {} /\ list'[root] \in Seq(Mods)
      <4>1. ToSet(list[root]) # {}
        BY <1>3, <1>5, SetOfSeq DEF LoaderTypes
      <4> QED BY <1>8, <1>9, <4>1
    <3> QED BY <1>5, <1>14, <3>1, SetOfSeq
  <2>2. ASSUME NEW y \in ToSet(list'[root]) PROVE y \in Linked' /\ mod'[y].ctx = NULL
    <3>1. y \in Mods /\ mod[y] # NULL /\ mod[y].linked /\ mod[y].ctx = NULL
      BY <1>5, <1>8, <1>9
    <3> QED BY <1>16, <3>1 DEF Linked
  <2>3. Loaded(root)'
    BY <2>1, <2>2 DEF Loaded
  <2>4. Loaded(pc[t].o)'
    BY <1>6, <2>3
  <2>5. lock' = t /\ k \in nodes'
    BY <1>4, <1>5, <1>14
  <2> QED BY <1>6, <1>9, <2>4, <2>5 DEF Condenses
<1>21. Loader'
  <2>1. pc'[t].at \notin Loading \cup {"failed", "contextless"} \cup Unloading
    BY <1>6 DEF Loading, Unloading
  <2> QED BY <1>3, <1>6, <1>15, <1>17, <1>18, <1>19, <1>20, <2>1, LoaderKept
<1>22. hooked => name[pc'[t].n] # NULL
  BY <1>1, <1>3, <1>6, <1>14 DEF NodeNames, LosesModules
<1>23. pc'[t].at \notin {"allocated", "contextless"} /\ (hooked => Blocked(t)')
  BY <1>6, <1>13
<1>24. /\ \A d \in Ctxs : entry'[d] # NULL =>
            entry[d] # NULL /\ (pc[t].at # "freeing" \/ pc[t].o # d)
       /\ \A y \in Mods : mod'[y] # NULL =>
            mod[y] # NULL /\ (pc[t].at # "unmapping" \/ pc[t].m # y)
       /\ \A j \in nodes' :
            j \in nodes /\ (pc[t].at \notin {"merged", "destroying"} \/ pc[t].n # j)
       /\ \A j \in nodes \ nodes' : hooked => j \in dead
       /\ \A j \in nodes \cap nodes' : named[j] \subseteq named'[j]
       /\ lock = Main => lock' = Main
  <2>1. nodes \subseteq Nodes
    BY <1>3 DEF LoaderTypes
  <2> QED BY <1>4, <1>11, <1>14, <1>16, <2>1
<1> HIDE DEF Runs, WatchInv
<1> QED BY <1>3, <1>13, <1>18, <1>21, <1>22, <1>23, <1>24, WatchKept

(* Every step of a loader thread.                                          *)
LEMMA LoaderStepKeeps ==
  ASSUME WatchInv, NEW t \in Threads, LoaderStep(t)
  PROVE  WatchInv'
PROOF
<1>1. Runs(t)
  <2>1. ~Blocked(t)
    BY DEF LoaderStep, LoaderNext, HookLdrpAllocateModuleEntry,
           HookLdrpMapDllWithSectionHandle, LdrpMapDllWithSectionHandle,
           HookLdrpFreeLoadContext, LdrpFreeLoadContext, HookLdrpCondenseGraphRecurse,
           HookLdrpMergeNodes, LdrpMergeNodes, LdrpUnloadNode, HookLdrpUnmapModule,
           LdrpUnmapModule, HookLdrpDestroyNode, LdrpDestroyNode,
           CondenseGraphRecurseExit, PrintOther, At
  <2> HIDE DEF WatchInv
  <2> QED BY <2>1, SMTT(40) DEF Runs, LoaderStep
<1> HIDE DEF WatchInv, Runs
<1> QED BY <1>1, AllocateKeeps, HookMapKeeps, MapKeeps, HookFreeKeeps, FreeKeeps,
           HookCondenseKeeps, HookMergeKeeps, MergeKeeps, UnloadKeeps, HookUnmapKeeps,
           UnmapKeeps, HookDestroyKeeps, DestroyKeeps, CondenseExitKeeps, PrintOtherKeeps
        DEF LoaderStep, LoaderNext
-----------------------------------------------------------------------------
(* The first state, and the steps of the main thread.                      *)

(* The process starts with ntdll alone, and the debugger with nothing.     *)
LEMMA InitIs == WatchInit => WatchInv
PROOF
<1> SUFFICES ASSUME WatchInit PROVE WatchInv
  OBVIOUS
<1> USE DEF WatchInit, LoaderInit
<1>1. /\ Ntdll \in Mods /\ NtdllNode \in Nodes /\ NtdllName \in Names
      /\ NULL \notin ModuleEntry /\ NULL # NtdllName /\ NULL \notin Nodes
  BY LoaderAssumption DEF LoaderAssumption
<1>2. PICK r : r = [NewEntry(NtdllNode, NULL) EXCEPT !.name = NtdllName, !.linked = TRUE]
  OBVIOUS
<1>3. /\ r \in ModuleEntry /\ r.node = NtdllNode /\ r.ctx = NULL /\ r.name = NtdllName
      /\ r.linked = TRUE /\ r # NULL
  <2>1. /\ r \in ModuleEntry /\ r.node = NtdllNode /\ r.ctx = NULL /\ r.name = NtdllName
        /\ r.linked = TRUE
    BY <1>1, <1>2 DEF NewEntry, ModuleEntry
  <2> QED BY <1>1, <2>1
<1>4. /\ mod = [x \in Mods |-> IF x = Ntdll THEN r ELSE NULL]
  BY <1>2
<1>5. /\ Idle \in ThreadState /\ Idle.at = "idle"
  BY DEF Idle, ThreadState, Places
<1>6. LoaderTypes
  <2>1. list \in [Nodes -> Seq(Mods)]
    BY <1>1
  <2>2. mod \in [Mods -> ModuleEntry \cup {NULL}]
    BY <1>3, <1>4
  <2>3. queue \in Seq(Event)
    OBVIOUS
  <2>4. /\ nodes \subseteq Nodes /\ entry \in [Ctxs -> Mods \cup {NULL}]
        /\ named \in [Nodes -> SUBSET Names] /\ pc \in [Threads -> ThreadState]
    BY <1>1, <1>5
  <2> QED BY <2>1, <2>2, <2>3, <2>4 DEF LoaderTypes
<1>7. Graph
  <2>1. /\ mod[Ntdll] = r /\ \A x \in Mods : x # Ntdll => mod[x] = NULL
        /\ \A x \in Mods : mod[x] # NULL => x = Ntdll
    BY <1>1, <1>3, <1>4
  <2>2. /\ list[NtdllNode] = <<Ntdll>> /\ \A j \in Nodes : j # NtdllNode => list[j] = <<>>
        /\ NtdllNode \in nodes /\ named[NtdllNode] = {NtdllName} /\ edges = {}
    BY <1>1
  <2> HIDE DEF WatchInit, LoaderInit
  <2>3. \A x \in Mods : mod[x] # NULL => mod[x].node \in nodes
    BY <1>3, <2>1, <2>2
  <2>4. ASSUME NEW j \in Nodes, NEW x \in Mods
        PROVE  x \in ToSet(list[j]) <=> mod[x] # NULL /\ mod[x].node = j
    <3>1. ToSet(<<Ntdll>>) = {Ntdll} /\ ToSet(<<>>) = {}
      BY SetOfSeq
    <3>2. CASE j = NtdllNode
      BY <1>3, <2>1, <2>2, <3>1, <3>2
    <3>3. CASE j # NtdllNode
      <4>1. ToSet(list[j]) = {}
        BY <2>2, <3>1, <3>3
      <4> QED BY <1>3, <2>1, <3>3, <4>1
    <3> QED BY <3>2, <3>3
  <2>5. ASSUME NEW h \in Nodes, NEW i \in 1..Len(list[h]), NEW j \in 1..Len(list[h])
        PROVE  i = j
    <3>1. CASE h = NtdllNode
      <4>1. Len(list[h]) = 1
        BY <2>2, <3>1, SetOfSeq
      <4> QED BY <4>1
    <3>2. CASE h # NtdllNode
      <4>1. Len(list[h]) = 0
        BY <2>2, <3>2
      <4> QED BY <4>1
    <3> QED BY <3>1, <3>2
  <2>6. \A x \in Mods : mod[x] # NULL =>
          /\ mod[x].linked /\ mod[x].ctx = NULL => mod[x].name # NULL
          /\ mod[x].name # NULL => mod[x].name \in named[mod[x].node]
    BY <1>1, <1>3, <2>1, <2>2
  <2> QED BY <2>2, <2>3, <2>4, <2>5, <2>6 DEF Graph
<1>8. \A t \in Threads : pc[t].at = "idle"
  BY <1>5
<1>9. Loader
  BY <1>6, <1>7, <1>8
     DEF Loader, Apart, Loads, Condenses, Unloads, Loading, Condensing, Unloading
<1>10. WatchTypeOK
  <2>1. offsets \in 0 .. HookTargets
    BY WatchAssumption DEF WatchAssumption
  <2>2. name \in [Nodes -> Names \cup {NULL, Garbage, DeadName}]
    OBVIOUS
  <2>3. scheduled \in BOOLEAN /\ hooked \in BOOLEAN
    OBVIOUS
  <2>4. dbg \in {"start", "wait"} /\ symbols = "none" /\ dead = {} /\ known = {}
    OBVIOUS
  <2> HIDE DEF WatchInit, LoaderInit
  <2> QED BY <2>1, <2>2, <2>3, <2>4 DEF WatchTypeOK
<1>11. Events
  <2>1. Len(queue) = 0
    OBVIOUS
  <2> QED BY <2>1 DEF Events
<1>12. MainThread
  BY DEF MainThread
<1>13. DeadOrNew /\ Cache
  <2>1. \A t \in Threads : ~Announced(t)
    BY <1>8 DEF Announced
  <2> QED BY <2>1 DEF DeadOrNew, Cache
<1>14. NodeNames
  BY DEF NodeNames
<1> QED BY <1>9, <1>10, <1>11, <1>12, <1>13, <1>14 DEF WatchInv

(* The memory and the loader threads are as they were; the lock changes    *)
(* hands only when no loader thread holds it.                              *)
LEMMA LoaderSame ==
  ASSUME Loader, UNCHANGED mainVars, queue' \in Seq(Event),
         lock' = lock \/ lock \in {Main, NULL}
  PROVE  Loader' /\ \A k : Loaded(k)' <=> Loaded(k)
PROOF
<1>1. UNCHANGED <<mod, list, nodes, entry, edges, named, pc>>
  BY DEF mainVars
<1>2. \A k : Loaded(k)' <=> Loaded(k)
  BY <1>1 DEF Loaded, Linked
<1>3. LoaderTypes' /\ Graph' /\ Apart'
  <2>1. LoaderTypes'
    BY <1>1 DEF Loader, LoaderTypes
  <2>2. Graph'
    BY <1>1 DEF Loader, Graph, Linked
  <2>3. Apart'
    BY <1>1 DEF Loader, Apart
  <2> QED BY <2>1, <2>2, <2>3
<1>4. ASSUME NEW t \in Threads PROVE Loads(t)' /\ Condenses(t)' /\ Unloads(t)'
  <2>1. Loads(t)'
    BY <1>1 DEF Loader, Loads
  <2>2. pc[t].at \in Condensing \cup Unloading => lock' = lock
    BY LockIs, LoaderAssumption DEF LoaderAssumption
  <2>3. Condenses(t)'
    <3>1. PICK a, b : a = pc[t].o /\ b = pc[t].n
      OBVIOUS
    <3>2. (Loaded(a)' <=> Loaded(a)) /\ (Loaded(b)' <=> Loaded(b))
      BY <1>2
    <3>3. /\ Loaded(pc[t].o)' <=> Loaded(pc[t].o)
          /\ Loaded(pc[t].n)' <=> Loaded(pc[t].n)
      BY <1>1, <3>1, <3>2
    <3> QED BY <1>1, <2>2, <3>3 DEF Loader, Condenses
  <2>4. Unloads(t)'
    BY <1>1, <2>2 DEF Loader, Unloads
  <2> QED BY <2>1, <2>3, <2>4
<1> QED BY <1>2, <1>3, <1>4 DEF Loader

(* The main thread raises an event.                                        *)
LEMMA MainRaiseKeeps ==
  ASSUME WatchInv, ~Blocked(Main), UNCHANGED mainVars, UNCHANGED hooked,
         UNCHANGED <<scheduled, dead, known, name, symbols, offsets>>,
         dbg \in {"wait", "start"}, dbg' = "wait", lock' = lock \/ lock \in {Main, NULL},
         NEW c \in Codes, Raise(Main, c, NULL),
         IsEvent([t |-> Main, code |-> c, obj |-> NULL])',
         phase' \in {"created", "kernelbase", "arch", "offsets", "broke", "exited"},
         phase' \in {"arch", "offsets"} => lock' = Main /\ ~hooked,
         hooked => phase' \in {"broke", "exited"},
         AtBreakpoint => phase' = "exited"
  PROVE  WatchInv'
PROOF
<1> USE DEF WatchInv
<1>0. UNCHANGED <<mod, list, nodes, entry, edges, named, pc>>
  BY DEF mainVars
<1>1. PICK q : q = [t |-> Main, code |-> c, obj |-> NULL]
  OBVIOUS
<1>2. q \in Event /\ q.t = Main /\ queue' = Append(queue, q) /\ IsEvent(q)'
  BY <1>1 DEF Event, Raise
<1>3. DOMAIN queue = 1..Len(queue) /\ \A i \in 1..Len(queue) : queue[i].t # Main
  BY DEF Blocked, Loader, LoaderTypes
<1>4. /\ queue' \in Seq(Event)
      /\ \A u : Blocked(u)' <=> Blocked(u) \/ u = Main
      /\ \A i, j \in 1..Len(queue') : queue'[i].t = queue'[j].t => i = j
      /\ \A i \in 1..Len(queue') :
           queue'[i] = q \/ \E j \in 1..Len(queue) : queue'[i] = queue[j]
  <2>1. LoaderTypes /\ \A i, j \in 1..Len(queue) : queue[i].t = queue[j].t => i = j
    BY DEF Loader, Events
  <2>2. ~Blocked(q.t)
    BY <1>2
  <2> QED BY <1>2, <2>1, <2>2, RaiseIs
<1>5. ASSUME NEW r, IsEvent(r), r.t # Main PROVE IsEvent(r)'
  BY <1>0, <1>5 DEF IsEvent
<1>6. Events'
  <2>1. ASSUME NEW i \in 1..Len(queue') PROVE IsEvent(queue[i])'
    <3>1. PICK r : r = queue'[i]
      OBVIOUS
    <3>2. IsEvent(r)'
      BY <1>2, <1>3, <1>4, <1>5, <3>1 DEF Events
    <3> QED BY <3>1, <3>2
  <2> QED BY <1>4, <2>1 DEF Events
<1>7. Loader'
  BY <1>4, LoaderSame
<1>8. \A t \in Threads : Blocked(t)' <=> Blocked(t)
  BY <1>4, LoaderAssumption DEF LoaderAssumption
<1>9. Blocked(Main)'
  BY <1>4
<1> HIDE <1>4
<1>10. WatchTypeOK'
  BY DEF WatchTypeOK
<1>11. MainThread'
  BY <1>9 DEF MainThread
<1>12. \A t \in Threads : /\ Announced(t)' <=> Announced(t)
                          /\ Frees(t)' <=> Frees(t)
                          /\ LosesModules(t)' <=> LosesModules(t)
  BY <1>0, <1>8 DEF Announced, Frees, LosesModules
<1>13. DeadOrNew'
  BY <1>0, <1>8, <1>12 DEF DeadOrNew
<1>14. Cache'
  BY <1>0, <1>9, <1>12 DEF Cache, AtBreakpoint
<1>15. NodeNames'
  BY <1>0, <1>12 DEF NodeNames
<1> QED BY <1>6, <1>7, <1>10, <1>11, <1>13, <1>14, <1>15

(* The steps of the main thread: KERNELBASE.dll, OnProcessAttach,          *)
(* EnableDetours, the breakpoint and the end.                              *)
LEMMA MainKeeps ==
  ASSUME WatchInv,
         MapKernelBase \/ OnProcessAttach \/ EnableDetours \/ DebuggerBreak \/ ExitProcess
  PROVE  WatchInv'
PROOF
<1>1. dbg = "wait" /\ ~Blocked(Main) /\ UNCHANGED mainVars /\ UNCHANGED watchVars
  BY DEF MapKernelBase, OnProcessAttach, EnableDetours, DebuggerBreak, ExitProcess, Step
<1>2. UNCHANGED <<scheduled, dead, known, name, symbols, offsets>> /\ dbg' = "wait"
  BY <1>1 DEF watchVars
<1>3. MainThread
  BY DEF WatchInv
<1>4. {"LoadDll", "Other", "TargetOffsets", "Breakpoint", "ExitProcess"} \subseteq Codes
  BY DEF Codes
<1>5. CASE MapKernelBase
  <2>1. /\ phase = "created" /\ phase' = "kernelbase" /\ Raise(Main, "LoadDll", NULL)
        /\ lock' = lock /\ UNCHANGED hooked
    BY <1>5 DEF MapKernelBase, Step
  <2>2. IsEvent([t |-> Main, code |-> "LoadDll", obj |-> NULL])'
    BY <2>1 DEF IsEvent
  <2>3. ~hooked /\ ~AtBreakpoint
    BY <1>3, <2>1 DEF MainThread, AtBreakpoint
  <2>4. "LoadDll" \in Codes
    BY <1>4
  <2> HIDE DEF WatchInv
  <2> QED BY <1>1, <1>2, <2>1, <2>2, <2>3, <2>4, MainRaiseKeeps
<1>6. CASE OnProcessAttach
  <2>1. UNCHANGED hooked
    BY <1>6 DEF OnProcessAttach
  <2>2. ASSUME phase = "kernelbase", phase' = "arch", lock = NULL, lock' = Main,
               Raise(Main, "Other", NULL)
        PROVE  WatchInv'
    <3>1. IsEvent([t |-> Main, code |-> "Other", obj |-> NULL])'
      BY <2>2 DEF IsEvent
    <3>2. ~hooked /\ ~AtBreakpoint
      BY <1>3, <2>2 DEF MainThread, AtBreakpoint
    <3>3. "Other" \in Codes
      BY <1>4
    <3> HIDE DEF WatchInv
    <3> QED BY <1>1, <1>2, <2>1, <2>2, <3>1, <3>2, <3>3, MainRaiseKeeps
  <2>3. ASSUME phase = "arch", phase' = "offsets", UNCHANGED lock,
               Raise(Main, "TargetOffsets", NULL)
        PROVE  WatchInv'
    <3>1. IsEvent([t |-> Main, code |-> "TargetOffsets", obj |-> NULL])'
      BY <2>3 DEF IsEvent
    <3>2. ~hooked /\ ~AtBreakpoint /\ lock = Main
      BY <1>3, <2>3 DEF MainThread, AtBreakpoint
    <3>3. "TargetOffsets" \in Codes
      BY <1>4
    <3> HIDE DEF WatchInv
    <3> QED BY <1>1, <1>2, <2>1, <2>3, <3>1, <3>2, <3>3, MainRaiseKeeps
  <2> QED BY <1>6, <2>2, <2>3 DEF OnProcessAttach, Step
<1>7. CASE DebuggerBreak
  <2>1. /\ phase \in {"attached", "kernelbase"} /\ phase' = "broke"
        /\ Raise(Main, "Breakpoint", NULL) /\ lock' = lock /\ UNCHANGED hooked
    BY <1>7 DEF DebuggerBreak, Step
  <2>2. IsEvent([t |-> Main, code |-> "Breakpoint", obj |-> NULL])'
    BY <2>1 DEF IsEvent
  <2>3. ~AtBreakpoint
    BY <2>1 DEF AtBreakpoint
  <2>4. "Breakpoint" \in Codes
    BY <1>4
  <2> HIDE DEF WatchInv
  <2> QED BY <1>1, <1>2, <2>1, <2>2, <2>3, <2>4, MainRaiseKeeps
<1>8. CASE ExitProcess
  <2>1. /\ phase = "broke" /\ phase' = "exited"
        /\ Raise(Main, "ExitProcess", NULL) /\ lock' = lock /\ UNCHANGED hooked
    BY <1>8 DEF ExitProcess, Step
  <2>2. IsEvent([t |-> Main, code |-> "ExitProcess", obj |-> NULL])'
    BY <2>1 DEF IsEvent
  <2>3. "ExitProcess" \in Codes
    BY <1>4
  <2> HIDE DEF WatchInv
  <2> QED BY <1>1, <1>2, <2>1, <2>2, <2>3, MainRaiseKeeps
<1>9. CASE EnableDetours
  <2> USE DEF WatchInv
  <2>1. /\ phase = "offsets" /\ phase' = "attached" /\ lock' = NULL /\ hooked' = TRUE
        /\ UNCHANGED queue
    BY <1>9 DEF EnableDetours, Step
  <2>2. lock = Main /\ offsets = HookTargets /\ ~hooked /\ ~AtBreakpoint
    BY <1>1, <1>3, <2>1 DEF MainThread, AtBreakpoint
  <2>3. UNCHANGED <<mod, list, nodes, entry, edges, named, pc>>
    BY <1>1 DEF mainVars
  <2>4. Loader'
    <3>1. Loader /\ queue' \in Seq(Event)
      BY <2>1 DEF Loader, LoaderTypes
    <3> QED BY <1>1, <2>2, <3>1, LoaderSame
  <2>5. \A t \in Threads : pc[t].at \notin Condensing \cup Unloading
    BY <2>2, LockIs, LoaderAssumption DEF LoaderAssumption
  <2>6. \A u : Blocked(u)' <=> Blocked(u)
    BY <2>1 DEF Blocked
  <2>7. Events'
    <3>1. DOMAIN queue = 1..Len(queue) /\ \A i \in 1..Len(queue) : queue[i].t # Main
      BY <1>1 DEF Blocked, Loader, LoaderTypes
    <3>2. ASSUME NEW r, IsEvent(r), r.t # Main PROVE IsEvent(r)'
      BY <2>1, <2>3, <3>2 DEF IsEvent
    <3>3. ASSUME NEW i \in 1..Len(queue) PROVE IsEvent(queue[i])'
      <4>1. PICK r : r = queue[i]
        OBVIOUS
      <4>2. IsEvent(r)'
        BY <3>1, <3>2, <4>1 DEF Events
      <4> QED BY <2>1, <4>1, <4>2
    <3> QED BY <1>1, <1>2, <2>1, <3>3 DEF Events
  <2>8. WatchTypeOK' /\ MainThread'
    BY <1>2, <2>1, <2>2 DEF WatchTypeOK, MainThread
  <2>9. \A t \in Threads : ~Frees(t)' /\ ~LosesModules(t)'
    BY <2>3, <2>5 DEF Frees, LosesModules, Condensing, Unloading
  <2>10. DeadOrNew'
    <3>1. dead' = {}
      BY <1>2, <2>2 DEF DeadOrNew
    <3> QED BY <2>9, <3>1 DEF DeadOrNew
  <2>11. Cache'
    <3>1. known' = {}
      BY <1>2, <2>2 DEF Cache
    <3> QED BY <2>1, <3>1 DEF Cache
  <2>12. NodeNames'
    BY <1>2, <2>2, <2>9 DEF NodeNames
  <2> QED BY <2>4, <2>7, <2>8, <2>10, <2>11, <2>12
<1> QED BY <1>5, <1>6, <1>7, <1>8, <1>9

(* The process is created, or could not be.                                *)
LEMMA CreateKeeps ==
  ASSUME WatchInv, DebugThread
  PROVE  WatchInv'
PROOF
<1>1. /\ dbg = "start" /\ UNCHANGED mainVars /\ UNCHANGED <<lock, hooked>>
      /\ UNCHANGED <<scheduled, dead, known, name, symbols, offsets>>
      /\ \/ dbg' = "wait" /\ phase' = "created" /\ Raise(Main, "CreateProcess", NULL)
         \/ dbg' = "spin" /\ UNCHANGED <<phase, queue>>
  BY DEF DebugThread
<1>2. phase = "new" /\ queue = <<>> /\ ~hooked
  BY <1>1 DEF WatchInv, MainThread
<1>3. ~Blocked(Main) /\ ~AtBreakpoint
  BY <1>2 DEF Blocked, AtBreakpoint
<1>4. ASSUME dbg' = "wait", phase' = "created", Raise(Main, "CreateProcess", NULL)
      PROVE  WatchInv'
  <2>1. IsEvent([t |-> Main, code |-> "CreateProcess", obj |-> NULL])'
    BY <1>4 DEF IsEvent
  <2>2. "CreateProcess" \in Codes
    BY DEF Codes
  <2> HIDE DEF WatchInv
  <2> QED BY <1>1, <1>2, <1>3, <1>4, <2>1, <2>2, MainRaiseKeeps
<1>5. ASSUME dbg' = "spin", UNCHANGED <<phase, queue>>
      PROVE  WatchInv'
  <2> USE DEF WatchInv
  <2>1. UNCHANGED <<mod, list, nodes, entry, edges, named, pc>>
    BY <1>1 DEF mainVars
  <2>2. Loader'
    <3>1. Loader /\ queue' \in Seq(Event)
      BY <1>5 DEF Loader, LoaderTypes
    <3> QED BY <1>1, <3>1, LoaderSame
  <2>3. \A u : Blocked(u)' <=> Blocked(u)
    BY <1>5 DEF Blocked
  <2>4. Events'
    <3>1. Len(queue') = 0
      BY <1>2, <1>5
    <3> QED BY <1>5, <3>1 DEF Events
  <2>5. WatchTypeOK' /\ MainThread'
    BY <1>1, <1>2, <1>5 DEF WatchTypeOK, MainThread
  <2>6. \A t \in Threads : /\ Announced(t)' <=> Announced(t)
                           /\ Frees(t)' <=> Frees(t)
                           /\ LosesModules(t)' <=> LosesModules(t)
    BY <2>1, <2>3 DEF Announced, Frees, LosesModules
  <2>7. DeadOrNew'
    BY <1>1, <2>1, <2>3, <2>6 DEF DeadOrNew
  <2>8. Cache'
    BY <1>1, <1>2, <1>3, <1>5, <2>1, <2>6 DEF Cache, AtBreakpoint
  <2>9. NodeNames'
    BY <1>1, <2>1, <2>6 DEF NodeNames
  <2> QED BY <2>2, <2>4, <2>5, <2>7, <2>8, <2>9
<1> QED BY <1>1, <1>4, <1>5
-----------------------------------------------------------------------------
(* What the debugger reads.                                                *)

(* The module a thread loads or fails to load is in no other's hands.      *)
LEMMA AnnouncedIs ==
  ASSUME Loader, NEW u \in Threads, pc[u].at \in Loading \cup {"contextless"}
  PROVE  /\ pc[u].m \in Mods /\ mod[pc[u].m] # NULL /\ mod[pc[u].m].node \in nodes
         /\ list[mod[pc[u].m].node] = <<pc[u].m>>
         /\ ToSet(list[mod[pc[u].m].node]) = {pc[u].m}
         /\ pc[u].at \in Loading =>
              /\ mod[pc[u].m].ctx # NULL /\ mod[pc[u].m].ctx = pc[u].o
              /\ pc[u].o \in Ctxs /\ entry[pc[u].o] = pc[u].m
              /\ \A w \in Threads : pc[w].at \in Loading /\ pc[w].o = pc[u].o => w = u
         /\ pc[u].at = "contextless" =>
              /\ pc[u].o = NULL
              /\ \A w \in Threads : pc[w].at \in Unloading =>
                                      mod[pc[u].m].node # pc[w].n
         /\ pc[u].at \in {"allocated", "mapping", "contextless"} => ~mod[pc[u].m].linked
         /\ \A w \in Threads :
              pc[w].at \in Loading \cup {"contextless"} /\ pc[w].m = pc[u].m => w = u
PROOF
<1> USE DEF Loader
<1>1. /\ pc[u].m \in Mods /\ mod[pc[u].m] # NULL
      /\ list[mod[pc[u].m].node] = <<pc[u].m>>
      /\ pc[u].at \in Loading =>
           /\ mod[pc[u].m].ctx # NULL /\ mod[pc[u].m].ctx = pc[u].o
           /\ pc[u].o \in Ctxs /\ entry[pc[u].o] = pc[u].m
      /\ pc[u].at = "contextless" => pc[u].o = NULL
      /\ pc[u].at \in {"allocated", "mapping", "contextless"} => ~mod[pc[u].m].linked
  BY LoaderAssumption DEF Loads, Loading, LoaderAssumption
<1>2. mod[pc[u].m].node \in nodes
  BY <1>1 DEF Graph
<1>3. ToSet(<<pc[u].m>>) = {pc[u].m}
  BY SetOfSeq
<1>4. /\ \A w \in Threads :
           pc[w].at \in Loading \cup {"contextless"} /\ pc[w].m = pc[u].m => w = u
      /\ pc[u].at = "contextless" =>
           \A w \in Threads : pc[w].at \in Unloading => mod[pc[u].m].node # pc[w].n
  BY DEF Apart
<1>5. \A w \in Threads : pc[w].at \in Loading => entry[pc[w].o] = pc[w].m
  BY DEF Loads, Loading
<1>6. pc[u].at \in Loading =>
        \A w \in Threads : pc[w].at \in Loading /\ pc[w].o = pc[u].o => w = u
  BY <1>1, <1>4, <1>5
<1> QED BY <1>1, <1>2, <1>3, <1>4, <1>6

(* Nothing in the load order list is dead, nor the nodes the graph dump    *)
(* reaches from there, nor any node whose modules are all loaded.          *)
LEMMA GraphAlive ==
  ASSUME WatchInv
  PROVE  /\ \A x \in Linked : x \notin dead /\ mod[x] # NULL /\ x \in Mods
         /\ \A k \in GraphNodes \cup Neighbours :
              /\ k \in nodes /\ k \notin dead
              /\ \A u \in Threads : Announced(u) => mod[pc[u].m].node # k
         /\ \A k : Loaded(k) =>
              /\ k \in nodes /\ k \notin dead
              /\ \A u \in Threads : Announced(u) => mod[pc[u].m].node # k
PROOF
<1> USE DEF WatchInv
<1>1. Loader /\ Graph /\ LoaderTypes
  BY DEF Loader
<1>2. \A u \in Threads : Announced(u) =>
        /\ pc[u].at \in Loading \cup {"contextless"}
        /\ pc[u].at \in {"allocated", "contextless"}
  BY DEF Announced, Loading
<1>3. ASSUME NEW x \in Linked PROVE x \notin dead /\ mod[x] # NULL /\ x \in Mods
  <2>1. x \in Mods /\ mod[x] # NULL /\ mod[x].linked
    BY DEF Linked
  <2>2. ASSUME x \in dead PROVE FALSE
    <3>1. PICK u \in Threads : /\ pc[u].m = x
                               /\ Announced(u) \/ (pc[u].at = "unmapping" /\ ~Blocked(u))
      BY <2>1, <2>2 DEF DeadOrNew
    <3>2. ~Announced(u)
      BY <1>1, <1>2, <2>1, <3>1, AnnouncedIs
    <3>3. pc[u].at = "unmapping"
      BY <3>1, <3>2
    <3>4. /\ pc[u].n \in nodes /\ list[pc[u].n] # <<>> /\ x = Head(list[pc[u].n])
          /\ \A y \in ToSet(list[pc[u].n]) : ~mod[y].linked
      BY <3>1, <3>3 DEF Loader, Unloads, Unloading
    <3>5. x \in ToSet(list[pc[u].n])
      BY <1>1, <3>4, SetOfSeq DEF LoaderTypes
    <3> QED BY <2>1, <3>4, <3>5
  <2> QED BY <2>1, <2>2
<1>4. ASSUME NEW x \in Linked
      PROVE  /\ mod[x].node \in nodes /\ mod[x].node \notin dead
             /\ \A u \in Threads : Announced(u) => mod[pc[u].m].node # mod[x].node
  <2>1. x \in Mods /\ mod[x] # NULL /\ mod[x].linked
    BY DEF Linked
  <2>2. PICK k \in nodes : k = mod[x].node
    BY <1>1, <2>1 DEF Graph
  <2>3. k \in Nodes /\ x \in ToSet(list[k])
    BY <1>1, <2>1, <2>2 DEF Graph, LoaderTypes
  <2>4. ASSUME NEW u \in Threads, Announced(u), mod[pc[u].m].node = k PROVE FALSE
    <3>1. ToSet(list[mod[pc[u].m].node]) = {pc[u].m} /\ ~mod[pc[u].m].linked
      BY <1>1, <1>2, <2>4, AnnouncedIs
    <3> QED BY <2>1, <2>3, <2>4, <3>1
  <2>5. ASSUME k \in dead PROVE FALSE
    <3>1. PICK u \in Threads : \/ Announced(u) /\ mod[pc[u].m].node = k
                               \/ Frees(u) /\ pc[u].n = k
      BY <2>5 DEF DeadOrNew
    <3>2. Frees(u) /\ pc[u].n = k
      BY <2>4, <3>1
    <3>3. list[k] = <<>>
      BY <3>2 DEF Loader, Frees, Condenses, Condensing, Unloads, Unloading
    <3> QED BY <2>3, <3>3, SetOfSeq
  <2> QED BY <2>2, <2>4, <2>5
<1>5. \A k \in GraphNodes \cup Neighbours : \E x \in Linked : k = mod[x].node
  <2>1. \A k \in GraphNodes : \E x \in Linked : k = mod[x].node
    BY DEF GraphNodes
  <2>2. ASSUME NEW k \in Neighbours PROVE \E x \in Linked : k = mod[x].node
    <3>1. PICK j : <<k, j>> \in edges \/ <<j, k>> \in edges
      BY DEF Neighbours
    <3>2. CASE <<k, j>> \in edges
      <4>1. PICK y \in Linked, z \in Linked : <<k, j>> = <<mod[y].node, mod[z].node>>
        BY <1>1, <3>2 DEF Graph
      <4> QED BY <4>1
    <3>3. CASE <<j, k>> \in edges
      <4>1. PICK y \in Linked, z \in Linked : <<j, k>> = <<mod[y].node, mod[z].node>>
        BY <1>1, <3>3 DEF Graph
      <4> QED BY <4>1
    <3> QED BY <3>1, <3>2, <3>3
  <2> QED BY <2>1, <2>2
<1>6. ASSUME NEW k, Loaded(k) PROVE \E x \in Linked : k = mod[x].node
  <2>1. /\ k \in nodes /\ list[k] # <<>>
        /\ \A y \in ToSet(list[k]) :
                y \in Mods /\ mod[y] # NULL /\ mod[y].linked /\ mod[y].ctx = NULL
    BY <1>1, <1>6, LoadedIs
  <2>2. PICK y : y \in ToSet(list[k])
    <3>1. k \in Nodes /\ list[k] \in Seq(Mods)
      BY <1>1, <2>1 DEF LoaderTypes
    <3> QED BY <2>1, <3>1, SetOfSeq
  <2>3. y \in Linked /\ mod[y].node = k
    BY <1>1, <2>1, <2>2 DEF Linked, Graph, LoaderTypes
  <2> QED BY <2>3
<1> QED BY <1>3, <1>4, <1>5, <1>6

(* The event at the head of the queue is the one its thread waits for.     *)
LEMMA FirstIs ==
  ASSUME WatchInv, queue # <<>>
  PROVE  /\ e = queue[1] /\ e \in Event /\ e.t \in Threads \cup {Main} /\ e.code \in Codes
         /\ 1 \in 1..Len(queue) /\ IsEvent(e) /\ Blocked(e.t)
PROOF
<1>1. /\ queue \in Seq(Event) /\ \A i \in 1..Len(queue) : IsEvent(queue[i])
  BY DEF WatchInv, Loader, LoaderTypes, Events
<1>2. e = queue[1] /\ 1 \in 1..Len(queue) /\ 1 \in DOMAIN queue /\ queue[1] \in Event
  BY <1>1 DEF e
<1>3. queue[1].t \in Threads \cup {Main} /\ queue[1].code \in Codes
  BY <1>2 DEF Event
<1>4. IsEvent(queue[1])
  BY <1>1, <1>2
<1>5. Blocked(queue[1].t)
  BY <1>2 DEF Blocked
<1> QED BY <1>2, <1>3, <1>4, <1>5

(* The line of a load: its context, module and node are in memory and not  *)
(* dead, as the thread that loads them waits for the line.                 *)
LEMMA LoadLine ==
  ASSUME WatchInv, queue # <<>>,
         e.code \in {"MapDllWithSectionHandle", "FreeLoadContext"}
  PROVE  \E t \in Threads, x \in Mods, k \in nodes :
           /\ t = e.t /\ hooked /\ e.obj = pc[t].o /\ Blocked(t)
           /\ pc[t].at = IF e.code = "FreeLoadContext" THEN "freeing" ELSE "mapping"
           /\ e.obj \in Ctxs /\ entry[e.obj] = x /\ x = pc[t].m /\ mod[x] # NULL
           /\ k = mod[x].node /\ list[k] = <<x>>
           /\ e.obj \notin dead /\ x \notin dead /\ k \notin dead
           /\ \A u \in Threads : Announced(u) => mod[pc[u].m].node # k
PROOF
<1> USE DEF WatchInv
<1>1. PICK t : t = e.t
  OBVIOUS
<1>2. IsEvent(e) /\ Blocked(t)
  BY <1>1, FirstIs
<1>3. /\ t \in Threads /\ hooked /\ e.obj = pc[t].o
      /\ pc[t].at = IF e.code = "FreeLoadContext" THEN "freeing" ELSE "mapping"
      /\ pc[t].at \in Loading
  BY <1>1, <1>2 DEF IsEvent, Loading
<1>4. PICK x, k : x = pc[t].m /\ k = mod[x].node
  OBVIOUS
<1>5. /\ x \in Mods /\ mod[x] # NULL /\ k \in nodes /\ mod[x].ctx # NULL
      /\ pc[t].o \in Ctxs /\ entry[pc[t].o] = x /\ list[k] = <<x>> /\ ToSet(list[k]) = {x}
      /\ \A w \in Threads :
           pc[w].at \in Loading \cup {"contextless"} /\ pc[w].m = x => w = t
      /\ \A w \in Threads : pc[w].at \in Loading /\ pc[w].o = pc[t].o => w = t
  BY <1>3, <1>4, AnnouncedIs
<1>6. \A u \in Threads : Announced(u) => pc[u].at \in Loading \cup {"contextless"} /\ u # t
  BY <1>3 DEF Announced, Loading
<1>7. pc[t].o \notin dead
  <2> SUFFICES ASSUME pc[t].o \in dead PROVE FALSE
    OBVIOUS
  <2>1. entry[pc[t].o] # NULL
    BY <1>5, LoaderAssumption DEF LoaderAssumption
  <2>2. PICK u \in Threads : /\ pc[u].o = pc[t].o
                             /\ Announced(u) \/ (pc[u].at = "freeing" /\ ~Blocked(u))
    BY <1>5, <2>1 DEF DeadOrNew
  <2>3. pc[u].at \in Loading
    <3>1. pc[u].at # "contextless"
      BY <1>5, <2>2, AnnouncedIs, LoaderAssumption DEF LoaderAssumption
    <3> QED BY <1>6, <2>2, <3>1 DEF Loading
  <2>4. u = t
    BY <1>5, <2>2, <2>3
  <2> QED BY <1>2, <1>6, <2>2, <2>4
<1>8. x \notin dead
  <2> SUFFICES ASSUME x \in dead PROVE FALSE
    OBVIOUS
  <2>1. PICK u \in Threads : /\ pc[u].m = x
                             /\ Announced(u) \/ (pc[u].at = "unmapping" /\ ~Blocked(u))
    BY <1>5 DEF DeadOrNew
  <2>2. CASE Announced(u)
    BY <1>5, <1>6, <2>1, <2>2
  <2>3. CASE pc[u].at = "unmapping"
    <3>1. /\ pc[u].n \in nodes /\ list[pc[u].n] # <<>> /\ x = Head(list[pc[u].n])
          /\ \A y \in ToSet(list[pc[u].n]) : mod[y].ctx = NULL
      BY <2>1, <2>3 DEF Loader, Unloads, Unloading
    <3>2. x \in ToSet(list[pc[u].n])
      BY <3>1, SetOfSeq DEF Loader, LoaderTypes
    <3> QED BY <1>5, <3>1, <3>2
  <2> QED BY <2>1, <2>2, <2>3
<1>9. ASSUME NEW u \in Threads, Announced(u) PROVE mod[pc[u].m].node # k
  <2>1. ToSet(list[mod[pc[u].m].node]) = {pc[u].m}
    BY <1>6, <1>9, AnnouncedIs
  <2> QED BY <1>5, <1>6, <1>9, <2>1
<1>10. k \notin dead
  <2> SUFFICES ASSUME k \in dead PROVE FALSE
    OBVIOUS
  <2>1. PICK u \in Threads : \/ Announced(u) /\ mod[pc[u].m].node = k
                             \/ Frees(u) /\ pc[u].n = k
    BY <1>5 DEF DeadOrNew
  <2>2. Frees(u) /\ pc[u].n = k
    BY <1>9, <2>1
  <2>3. list[k] = <<>>
    BY <2>2 DEF Loader, Frees, Condenses, Condensing, Unloads, Unloading
  <2> QED BY <1>5, <2>3, SetOfSeq
<1> QED BY <1>1, <1>2, <1>3, <1>4, <1>5, <1>7, <1>8, <1>9, <1>10

(* The line of a module that is unmapped.                                  *)
LEMMA UnmapLine ==
  ASSUME WatchInv, queue # <<>>, e.code = "UnmapModule"
  PROVE  \E t \in Threads, x \in Mods, k \in nodes :
           /\ t = e.t /\ hooked /\ e.obj = x /\ x = pc[t].m /\ k = pc[t].n /\ Blocked(t)
           /\ pc[t].at = "unmapping" /\ mod[x] # NULL /\ mod[x].node = k
           /\ ~mod[x].linked /\ mod[x].ctx = NULL /\ mod[x].name # NULL
           /\ x \notin dead /\ k \notin dead
           /\ \A u \in Threads : Announced(u) => mod[pc[u].m].node # k
PROOF
<1> USE DEF WatchInv
<1>1. PICK t, x, k : t = e.t /\ x = pc[t].m /\ k = pc[t].n
  OBVIOUS
<1>2. IsEvent(e) /\ Blocked(t)
  BY <1>1, FirstIs
<1>3. t \in Threads /\ hooked /\ e.obj = x /\ pc[t].at = "unmapping"
  BY <1>1, <1>2 DEF IsEvent
<1>4. /\ k \in nodes /\ k \in Nodes /\ list[k] # <<>> /\ x = Head(list[k]) /\ lock = t
      /\ \A y \in ToSet(list[k]) :
           ~mod[y].linked /\ mod[y].ctx = NULL /\ mod[y].name # NULL
  BY <1>1, <1>3 DEF Loader, Unloads, Unloading, LoaderTypes
<1>5. x \in Mods /\ x \in ToSet(list[k]) /\ mod[x] # NULL /\ mod[x].node = k
  <2>1. list[k] \in Seq(Mods)
    BY <1>4 DEF Loader, LoaderTypes
  <2>2. x \in Mods /\ x \in ToSet(list[k])
    BY <1>4, <2>1, SetOfSeq
  <2> QED BY <1>4, <2>2 DEF Loader, Graph
<1>6. ASSUME NEW u \in Threads, Announced(u)
      PROVE  pc[u].m # x /\ mod[pc[u].m].node # k
  <2>1. pc[u].at \in Loading \cup {"contextless"}
    BY <1>6 DEF Announced, Loading
  <2>2. CASE pc[u].at \in Loading
    <3>1. ToSet(list[mod[pc[u].m].node]) = {pc[u].m} /\ mod[pc[u].m].ctx # NULL
      BY <2>2, AnnouncedIs
    <3> QED BY <1>4, <1>5, <3>1
  <2>3. CASE pc[u].at = "contextless"
    <3>1. mod[pc[u].m].node # k
      BY <1>1, <1>3, <2>3, AnnouncedIs DEF Unloading
    <3> QED BY <1>5, <3>1
  <2> QED BY <2>1, <2>2, <2>3
<1>7. x \notin dead
  <2> SUFFICES ASSUME x \in dead PROVE FALSE
    OBVIOUS
  <2>1. PICK u \in Threads : /\ pc[u].m = x
                             /\ Announced(u) \/ (pc[u].at = "unmapping" /\ ~Blocked(u))
    BY <1>5 DEF DeadOrNew
  <2>2. pc[u].at \in Unloading /\ ~Blocked(u)
    BY <1>6, <2>1 DEF Unloading
  <2>3. lock = u
    BY <2>2, LockIs
  <2> QED BY <1>2, <1>4, <2>2, <2>3
<1>8. k \notin dead
  <2> SUFFICES ASSUME k \in dead PROVE FALSE
    OBVIOUS
  <2>1. PICK u \in Threads : \/ Announced(u) /\ mod[pc[u].m].node = k
                             \/ Frees(u) /\ pc[u].n = k
    BY <1>4 DEF DeadOrNew
  <2>2. Frees(u) /\ pc[u].n = k
    BY <1>6, <2>1
  <2>3. list[k] = <<>>
    BY <2>2 DEF Loader, Frees, Condenses, Condensing, Unloads, Unloading
  <2> QED BY <1>4, <2>3
<1> QED BY <1>1, <1>2, <1>3, <1>4, <1>5, <1>6, <1>7, <1>8

(* The line of a node that is destroyed: it has a name, though its modules *)
(* are gone.                                                               *)
LEMMA DestroyLine ==
  ASSUME WatchInv, queue # <<>>, e.code = "DestroyNode"
  PROVE  \E t \in Threads, k \in nodes :
           /\ t = e.t /\ hooked /\ e.obj = k /\ k = pc[t].n /\ Blocked(t)
           /\ pc[t].at \in {"merged", "destroying"} /\ k \in Nodes
           /\ list[k] = <<>> /\ name[k] # NULL /\ name[k] \in named[k] /\ k \notin dead
PROOF
<1> USE DEF WatchInv
<1>1. PICK t, k : t = e.t /\ k = pc[t].n
  OBVIOUS
<1>2. IsEvent(e) /\ Blocked(t)
  BY <1>1, FirstIs
<1>3. t \in Threads /\ hooked /\ e.obj = k /\ pc[t].at \in {"merged", "destroying"}
  BY <1>1, <1>2 DEF IsEvent
<1>4. k \in nodes /\ k \in Nodes /\ list[k] = <<>>
  BY <1>1, <1>3
     DEF Loader, Condenses, Condensing, Unloads, Unloading, LoaderTypes
<1>5. name[k] # NULL
  BY <1>1, <1>2, <1>3 DEF NodeNames, LosesModules
<1>6. name[k] \in named[k] /\ k \notin dead
  BY <1>4, <1>5 DEF NodeNames
<1> QED BY <1>1, <1>2, <1>3, <1>4, <1>5, <1>6

(* The line of nodes that are condensed.                                   *)
LEMMA CondenseLine ==
  ASSUME WatchInv, queue # <<>>, e.code = "CondenseGraphRecurse"
  PROVE  \E t \in Threads :
           /\ t = e.t /\ hooked /\ Blocked(t) /\ pc[t].at \in {"condensing", "exited"}
           /\ e.obj \subseteq nodes /\ \A k \in e.obj : Loaded(k)
           /\ pc[t].at = "condensing" => pc[t].n \in e.obj
PROOF
<1> USE DEF WatchInv
<1>1. PICK t : t = e.t
  OBVIOUS
<1>2. IsEvent(e) /\ Blocked(t)
  BY <1>1, FirstIs
<1>3. /\ t \in Threads /\ hooked
      /\ \/ pc[t].at = "condensing" /\ e.obj = {pc[t].o, pc[t].n}
         \/ pc[t].at = "exited" /\ e.obj = {pc[t].o}
  BY <1>1, <1>2 DEF IsEvent
<1>4. /\ Loaded(pc[t].o) /\ (pc[t].at = "condensing" => Loaded(pc[t].n))
  BY <1>3 DEF Loader, Condenses, Condensing
<1>5. \A k \in e.obj : Loaded(k)
  BY <1>3, <1>4
<1>6. e.obj \subseteq nodes
  BY <1>5 DEF Loaded
<1> QED BY <1>1, <1>2, <1>3, <1>5, <1>6

(* The breakpoint: what the graph no longer reaches is still in memory.    *)
LEMMA BreakpointLine ==
  ASSUME WatchInv, queue # <<>>, dbg = "wait", e.code = "Breakpoint"
  PROVE  /\ e.t = Main /\ phase = "broke" /\ DanglingNodes \subseteq nodes \ dead
         /\ \A u \in Threads : Announced(u) => mod[pc[u].m].node \notin DanglingNodes
         /\ ~hooked => DanglingNodes = {}
PROOF
<1> USE DEF WatchInv
<1>1. IsEvent(e) /\ Blocked(e.t)
  BY FirstIs
<1>2. e.t = Main /\ phase = "broke"
  BY <1>1 DEF IsEvent
<1>3. ~AtBreakpoint
  BY <1>1, <1>2 DEF AtBreakpoint
<1>4. ~hooked => known = {}
  BY <1>3 DEF Cache
<1>5. hooked => known \subseteq nodes \cup dead
  BY DEF Cache
<1>6. hooked \in BOOLEAN
  BY DEF WatchTypeOK
<1>7. \A u \in Threads : Announced(u) => mod[pc[u].m].node \notin known \ dead
  BY DEF Cache
<1> QED BY <1>2, <1>4, <1>5, <1>6, <1>7 DEF DanglingNodes

(* A node in memory has its root module in memory.                         *)
LEMMA NamedAlive ==
  ASSUME Loader, NEW ns, ns \subseteq nodes \ dead
  PROVE  NameReads(ns) \subseteq Live \ dead /\ NamesRead(ns) \subseteq Live \ dead
PROOF
<1>1. ASSUME NEW k \in nodes, list[k] # <<>>, Head(list[k]) \notin dead
      PROVE  Head(list[k]) \in Live \ dead
  <2>1. k \in Nodes /\ list[k] \in Seq(Mods)
    BY DEF Loader, LoaderTypes
  <2>2. Head(list[k]) \in Mods /\ Head(list[k]) \in ToSet(list[k])
    BY <1>1, <2>1, SetOfSeq
  <2>3. mod[Head(list[k])] # NULL
    BY <2>1, <2>2 DEF Loader, Graph
  <2> QED BY <1>1, <2>2, <2>3 DEF Live
<1>2. nodes \subseteq Live
  BY DEF Live
<1>3. ASSUME NEW xs, xs \subseteq nodes \ dead PROVE NameReads(xs) \subseteq Live \ dead
  BY <1>1, <1>2, <1>3 DEF NameReads
<1>4. NamesRead(ns) \subseteq Live \ dead
  <2>1. {n \in ns : name[n] = NULL} \subseteq nodes \ dead
    OBVIOUS
  <2> QED BY <1>3, <2>1 DEF NamesRead
<1> QED BY <1>3, <1>4

(* So what a handler reads is in memory and not dead.                      *)
LEMMA ReadsLive ==
  ASSUME WatchInv, dbg = "wait", queue # <<>>
  PROVE  Reads(e) \subseteq Live \ dead
PROOF
<1> Loader
  BY DEF WatchInv
<1>1. CASE e.code = "DestroyNode"
  <2>1. {n \in {e.obj} : name[n] = NULL} = {}
    BY <1>1, DestroyLine
  <2>2. NamesRead({e.obj}) \subseteq Live \ dead
    BY <2>1, NamedAlive DEF NamesRead
  <2> QED BY <1>1, <2>2 DEF Reads
<1>2. CASE e.code = "MapDllWithSectionHandle"
  <2>1. /\ e.obj \in Live \ dead /\ entry[e.obj] \in Live \ dead
        /\ mod[entry[e.obj]].node \in nodes \ dead
    <3>1. PICK x \in Mods, k \in nodes :
            /\ e.obj \in Ctxs /\ entry[e.obj] = x /\ mod[x] # NULL /\ k = mod[x].node
            /\ e.obj \notin dead /\ x \notin dead /\ k \notin dead
      BY <1>2, LoadLine
    <3>2. entry[e.obj] # NULL
      BY <3>1, LoaderAssumption DEF LoaderAssumption
    <3> QED BY <3>1, <3>2 DEF Live
  <2>2. NameReads({mod[entry[e.obj]].node}) \subseteq Live \ dead
    BY <2>1, NamedAlive
  <2> QED BY <1>2, <2>1, <2>2 DEF Reads
<1>3. CASE e.code = "FreeLoadContext"
  <2>1. e.obj \in Live \ dead
    <3>1. PICK x \in Mods : e.obj \in Ctxs /\ entry[e.obj] = x /\ e.obj \notin dead
      BY <1>3, LoadLine
    <3>2. entry[e.obj] # NULL
      BY <3>1, LoaderAssumption DEF LoaderAssumption
    <3> QED BY <3>1, <3>2 DEF Live
  <2> QED BY <1>3, <2>1 DEF Reads
<1>4. CASE e.code = "UnmapModule"
  <2>1. e.obj \in Live \ dead
    BY <1>4, UnmapLine DEF Live
  <2> QED BY <1>4, <2>1 DEF Reads
<1>5. CASE e.code = "CondenseGraphRecurse"
  <2>1. e.obj \subseteq nodes \ dead
    BY <1>5, CondenseLine, GraphAlive
  <2>2. NamesRead(e.obj) \subseteq Live \ dead
    BY <2>1, NamedAlive
  <2> QED BY <1>5, <2>2 DEF Reads
<1>6. Linked \cup GraphNodes \cup Neighbours \subseteq Live \ dead
  BY GraphAlive DEF Live
<1>7. CASE e.code = "MergeNodesExit"
  <2>1. Neighbours \subseteq nodes \ dead
    BY GraphAlive
  <2>2. NamesRead(Neighbours) \subseteq Live \ dead
    BY <2>1, NamedAlive
  <2> QED BY <1>6, <1>7, <2>2 DEF Reads
<1>8. CASE e.code = "Breakpoint"
  <2>1. DanglingNodes \subseteq nodes \ dead
    BY <1>8, BreakpointLine
  <2>2. NamesRead(DanglingNodes) \subseteq Live \ dead
    BY <2>1, NamedAlive
  <2> QED BY <1>6, <1>8, <2>2 DEF Reads
<1>9. CASE e.code \notin {"DestroyNode", "MapDllWithSectionHandle", "FreeLoadContext",
                          "UnmapModule", "CondenseGraphRecurse", "MergeNodesExit",
                          "Breakpoint"}
  BY <1>9 DEF Reads
<1> QED BY <1>1, <1>2, <1>3, <1>4, <1>5, <1>7, <1>8, <1>9

(* Nor does LoadSymbols after it.                                          *)
LEMMA ReadsAlive == WatchInv => HandlersReadLiveMemory
PROOF
<1> SUFFICES ASSUME WatchInv, dbg = "wait", queue # <<>>
             PROVE  /\ Reads(e) \subseteq Live \ dead
                    /\ Linked \cap (dead \cup Dies(e)) = {}
  BY DEF HandlersReadLiveMemory
<1>1. Reads(e) \subseteq Live \ dead
  BY ReadsLive
<1>2. Linked \cap dead = {}
  BY GraphAlive
<1>3. Linked \cap Dies(e) = {}
  <2>1. Linked \subseteq Mods
    BY DEF Linked
  <2>2. CASE e.code = "DestroyNode"
    <3>1. e.obj \in Nodes
      BY <2>2, DestroyLine
    <3> QED BY <2>1, <2>2, <3>1, LoaderAssumption DEF Dies, LoaderAssumption
  <2>3. CASE e.code = "FreeLoadContext"
    <3>1. e.obj \in Ctxs
      BY <2>3, LoadLine
    <3> QED BY <2>1, <2>3, <3>1, LoaderAssumption DEF Dies, LoaderAssumption
  <2>4. CASE e.code = "UnmapModule"
    <3>1. ~mod[e.obj].linked
      BY <2>4, UnmapLine
    <3> QED BY <2>4, <3>1 DEF Dies, Linked
  <2>5. CASE e.code \notin {"DestroyNode", "FreeLoadContext", "UnmapModule"}
    BY <2>5 DEF Dies
  <2> QED BY <2>2, <2>3, <2>4, <2>5
<1> QED BY <1>1, <1>2, <1>3

(* And the names it shows are current.                                     *)
LEMMA NamesCurrent == WatchInv => NamesAreCurrent
PROOF
<1> SUFFICES ASSUME WatchInv PROVE NamesAreCurrent
  OBVIOUS
<1>1. \A k \in nodes \ dead : name[k] # NULL => name[k] \in named[k]
  BY DEF WatchInv, NodeNames, Loader, LoaderTypes
<1>2. ASSUME queue # <<>>, e.code = "DestroyNode"
      PROVE  RootModuleName(e.obj) \in named[e.obj]
  BY <1>2, DestroyLine DEF RootModuleName
<1> QED BY <1>1, <1>2 DEF NamesAreCurrent
-----------------------------------------------------------------------------
(* Handling an event.                                                      *)

\* The event at the head is handled, and the debugger waits for the next.
Pops ==
  /\ WatchInv /\ dbg \in {"wait", "key"} /\ queue # <<>> /\ ContinueDebugEvent
  /\ UNCHANGED mainVars /\ UNCHANGED <<lock, hooked, phase>>
  /\ dbg' \in {"wait", "done"}
  /\ e.code = "TargetOffsets" => offsets' = HookTargets
  /\ e.code # "TargetOffsets" => offsets' = offsets
  /\ e.code = "AllocateModuleEntry" => mod[e.obj].ctx # NULL

(* Its thread runs on; the others wait as before.                          *)
LEMMA PopKeeps ==
  ASSUME Pops
  PROVE  /\ Loader' /\ Events' /\ MainThread'
         /\ \A u : Blocked(u)' <=> Blocked(u) /\ u # e.t
         /\ AtBreakpoint => AtBreakpoint'
         /\ UNCHANGED <<mod, list, nodes, entry, edges, named, pc>> /\ UNCHANGED hooked
PROOF
<1> USE DEF Pops, WatchInv
<1>1. UNCHANGED <<mod, list, nodes, entry, edges, named, pc>> /\ UNCHANGED hooked
  BY DEF mainVars
<1>2. e = queue[1] /\ IsEvent(e) /\ Blocked(e.t) /\ e.t \in Threads \cup {Main}
  BY FirstIs
<1>3. /\ queue' \in Seq(Event)
      /\ \A u : Blocked(u)' <=> Blocked(u) /\ u # queue[1].t
      /\ \A i, j \in 1..Len(queue') : queue'[i].t = queue'[j].t => i = j
      /\ \A i \in 1..Len(queue') :
           \E j \in 1..Len(queue) : queue'[i] = queue[j] /\ queue[j].t # queue[1].t
  <2>1. /\ LoaderTypes /\ queue' = Tail(queue)
        /\ \A i, j \in 1..Len(queue) : queue[i].t = queue[j].t => i = j
    BY DEF Loader, Events, ContinueDebugEvent
  <2> QED BY <2>1, PopIs
<1>4. \A u : Blocked(u)' <=> Blocked(u) /\ u # e.t
  BY <1>2, <1>3
<1>5. Loader'
  BY <1>3, LoaderSame
<1>6. Events'
  <2>1. ASSUME NEW r, IsEvent(r) PROVE IsEvent(r)'
    BY <1>1, <2>1 DEF IsEvent
  <2>2. ASSUME NEW i \in 1..Len(queue') PROVE IsEvent(queue[i])'
    <3>1. PICK r : r = queue'[i]
      OBVIOUS
    <3>2. IsEvent(r)'
      BY <1>3, <2>1, <3>1 DEF Events
    <3> QED BY <3>1, <3>2
  <2>3. dbg' # "key"
    OBVIOUS
  <2> QED BY <1>3, <2>2, <2>3 DEF Events
<1>7. MainThread'
  <2>1. phase = "offsets" /\ ~Blocked(Main)' => offsets' = HookTargets
    <3>1. CASE Blocked(Main)
      <4>1. e.t = Main /\ phase = "offsets" => e.code = "TargetOffsets"
        BY <1>2, LoaderAssumption DEF IsEvent, LoaderAssumption
      <4> QED BY <1>4, <3>1, <4>1
    <3>2. CASE ~Blocked(Main)
      BY <3>2 DEF MainThread
    <3> QED BY <3>1, <3>2
  <2>2. hooked => offsets' = HookTargets
    BY DEF MainThread
  <2>3. dbg' # "start"
    OBVIOUS
  <2> QED BY <1>1, <2>1, <2>2, <2>3 DEF MainThread
<1>8. AtBreakpoint => AtBreakpoint'
  <2>1. dbg = "key" => e.t = Main
    BY <1>2 DEF Events, IsEvent
  <2> QED BY <1>4, <2>1 DEF AtBreakpoint
<1> QED BY <1>1, <1>4, <1>5, <1>6, <1>7, <1>8

\* What a handler may do to the cache: mark dead what the line says is about
\* to end, revive what it says is new, and forget only the name of a node
\* that is destroyed.
DeadRight(t) ==
  /\ \A y \in dead' \ dead :
       /\ t \in Threads /\ hooked
       /\ \/ pc[t].at = "freeing" /\ y = pc[t].o
          \/ pc[t].at = "unmapping" /\ y = pc[t].m
          \/ pc[t].at \in {"merged", "destroying"} /\ y = pc[t].n
  /\ \A y \in dead \ dead' :
       t \in Threads /\ pc[t].at = "allocated" /\ y \in {pc[t].m, pc[t].o, mod[pc[t].m].node}
  /\ t \in Threads /\ pc[t].at = "allocated" =>
       {pc[t].m, pc[t].o, mod[pc[t].m].node} \cap dead' = {}
  /\ t \in Threads /\ hooked /\ pc[t].at \in {"merged", "destroying"} => pc[t].n \in dead'

KnownRight(t) ==
  /\ hooked => known' \subseteq nodes \cup dead'
  /\ ~hooked => known' = known
  /\ \A u \in Threads : u # t /\ Announced(u) => mod[pc[u].m].node \notin known' \ dead'

NamesRight(t) ==
  /\ \A k \in Nodes : name'[k] # NULL =>
       hooked /\ k \in nodes \ dead' /\ name'[k] \in named[k]
  /\ \A k \in Nodes : name[k] # NULL /\ name'[k] = NULL =>
       t \in Threads /\ pc[t].at \in {"merged", "destroying"} /\ pc[t].n = k
  /\ t \in Threads /\ hooked /\ pc[t].at \in {"condensing", "unmapping"} =>
       name'[pc[t].n] # NULL

(* That is enough.                                                         *)
LEMMA HandledKeeps ==
  ASSUME Pops, WatchTypeOK', NEW t, t = e.t, DeadRight(t), KnownRight(t), NamesRight(t)
  PROVE  WatchInv'
PROOF
<1>1. /\ Loader' /\ Events' /\ MainThread' /\ (AtBreakpoint => AtBreakpoint')
      /\ \A u : Blocked(u)' <=> Blocked(u) /\ u # t
      /\ UNCHANGED <<mod, list, nodes, entry, edges, named, pc>> /\ UNCHANGED hooked
  BY PopKeeps
<1>2. Blocked(t) /\ Loader /\ LoaderTypes /\ DeadOrNew /\ Cache /\ NodeNames /\ MainThread
  BY FirstIs DEF Pops, WatchInv, Loader
<1>3. \A u \in Threads : /\ Announced(u)' <=> Announced(u) /\ u # t
                         /\ Frees(u)' <=>
                              Frees(u) \/ (pc[u].at \in {"merged", "destroying"} /\ u = t)
  BY <1>1 DEF Announced, Frees
<1>4. ASSUME NEW u \in Threads
      PROVE  /\ pc[u].m \in Mods \cup {NULL} /\ pc[u].n \in Nodes \cup {NULL}
             /\ pc[u].at \in {"allocated", "freeing"} => pc[u].o \in Ctxs
             /\ pc[u].at \in {"merged", "destroying"} => pc[u].n \in nodes /\ list[pc[u].n] = <<>>
             /\ pc[u].at = "unmapping" => pc[u].m \in Mods
             /\ pc[u].at = "allocated" => list[mod[pc[u].m].node] # <<>> /\ pc[u].m \in Mods
             /\ pc[u].at = "allocated" => mod[pc[u].m].node \in Nodes
  <2>1. pc[u].m \in Mods \cup {NULL} /\ pc[u].n \in Nodes \cup {NULL}
    BY <1>2, ThreadIs
  <2>2. /\ pc[u].at \in {"allocated", "freeing"} => pc[u].o \in Ctxs
        /\ pc[u].at = "allocated" =>
             mod[pc[u].m].node \in Nodes /\ pc[u].m \in Mods
             /\ list[mod[pc[u].m].node] = <<pc[u].m>>
    BY <1>2, AnnouncedIs DEF Loading, LoaderTypes
  <2>3. <<pc[u].m>> # <<>>
    BY SetOfSeq
  <2>4. /\ pc[u].at \in {"merged", "destroying"} => pc[u].n \in nodes /\ list[pc[u].n] = <<>>
        /\ pc[u].at = "unmapping" =>
             /\ pc[u].n \in nodes /\ list[pc[u].n] # <<>> /\ pc[u].m = Head(list[pc[u].n])
    BY <1>2 DEF Loader, Condenses, Condensing, Unloads, Unloading
  <2>5. pc[u].at = "unmapping" => pc[u].m \in Mods
    BY <1>2, <2>4 DEF LoaderTypes
  <2> QED BY <2>1, <2>2, <2>3, <2>4, <2>5
<1>4a. t \in Threads => pc[t].at # "contextless"
  <2> SUFFICES ASSUME t \in Threads, pc[t].at = "contextless" PROVE FALSE
    OBVIOUS
  <2>1. IsEvent(e)
    BY FirstIs DEF Pops
  <2>2. e.code = "AllocateModuleEntry" /\ e.obj = pc[t].m
    BY <2>1, LoaderAssumption DEF IsEvent, LoaderAssumption
  <2>3. mod[pc[t].m].ctx = NULL
    BY <1>2 DEF Loader, Loads
  <2> QED BY <2>2, <2>3 DEF Pops
<1>5. /\ Mods \cap Nodes = {} /\ Mods \cap Ctxs = {} /\ Nodes \cap Ctxs = {}
      /\ NULL \notin Mods \cup Nodes \cup Ctxs
  BY LoaderAssumption DEF LoaderAssumption
<1>6. DeadOrNew'
  <2>1. dead' # {} => hooked
    BY <1>2 DEF DeadOrNew, DeadRight
  <2>2. ASSUME NEW c \in Ctxs \cap dead', entry[c] # NULL
        PROVE  \E u \in Threads :
                 /\ pc[u].o = c
                 /\ Announced(u)' \/ (pc[u].at = "freeing" /\ ~Blocked(u)')
    <3>1. CASE c \in dead
      <4>1. PICK u \in Threads :
              /\ pc[u].o = c
              /\ Announced(u) \/ (pc[u].at = "freeing" /\ ~Blocked(u))
        BY <1>2, <2>2, <3>1 DEF DeadOrNew
      <4>2. u = t => ~Announced(u)
        BY <1>4a, <2>2, <4>1 DEF DeadRight, Announced
      <4> QED BY <1>1, <1>3, <4>1, <4>2
    <3>2. CASE c \notin dead
      <4>1. t \in Threads /\ pc[t].at = "freeing" /\ c = pc[t].o
        BY <1>4, <1>5, <2>2, <3>2 DEF DeadRight
      <4> QED BY <1>1, <4>1
    <3> QED BY <3>1, <3>2
  <2>3. ASSUME NEW x \in Mods \cap dead', mod[x] # NULL
        PROVE  \E u \in Threads :
                 /\ pc[u].m = x
                 /\ Announced(u)' \/ (pc[u].at = "unmapping" /\ ~Blocked(u)')
    <3>1. CASE x \in dead
      <4>1. PICK u \in Threads :
              /\ pc[u].m = x
              /\ Announced(u) \/ (pc[u].at = "unmapping" /\ ~Blocked(u))
        BY <1>2, <2>3, <3>1 DEF DeadOrNew
      <4>2. u = t => ~Announced(u)
        BY <1>4a, <2>3, <4>1 DEF DeadRight, Announced
      <4> QED BY <1>1, <1>3, <4>1, <4>2
    <3>2. CASE x \notin dead
      <4>1. t \in Threads /\ pc[t].at = "unmapping" /\ x = pc[t].m
        BY <1>4, <1>5, <2>3, <3>2 DEF DeadRight
      <4> QED BY <1>1, <4>1
    <3> QED BY <3>1, <3>2
  <2>4. ASSUME NEW k \in nodes \cap dead'
        PROVE  \E u \in Threads : \/ Announced(u)' /\ mod[pc[u].m].node = k
                                  \/ Frees(u)' /\ pc[u].n = k
    <3>1. CASE k \in dead
      <4>1. PICK u \in Threads : \/ Announced(u) /\ mod[pc[u].m].node = k
                                 \/ Frees(u) /\ pc[u].n = k
        BY <1>2, <2>4, <3>1 DEF DeadOrNew
      <4>2. u = t /\ Announced(u) => mod[pc[u].m].node # k
        BY <1>4a, <2>4 DEF DeadRight, Announced
      <4> QED BY <1>3, <4>1, <4>2
    <3>2. CASE k \notin dead
      <4>0. k \in Nodes
        BY <1>2 DEF LoaderTypes
      <4>1. t \in Threads /\ pc[t].at \in {"merged", "destroying"} /\ k = pc[t].n
        BY <1>4, <1>5, <2>4, <3>2, <4>0 DEF DeadRight
      <4> QED BY <1>3, <4>1
    <3> QED BY <3>1, <3>2
  <2>5. ASSUME NEW u \in Threads, hooked, Frees(u)'
        PROVE  pc[u].n \in dead'
    <3>1. CASE u = t
      BY <1>1, <2>5, <3>1 DEF DeadRight, Frees
    <3>2. CASE u # t
      <4>1. Frees(u) /\ pc[u].n \in dead
        BY <1>2, <1>3, <2>5, <3>2 DEF DeadOrNew
      <4>2. pc[u].n \in Nodes /\ list[pc[u].n] = <<>>
        BY <1>2, <1>4, <4>1 DEF Frees, LoaderTypes
      <4>3. ASSUME pc[u].n \notin dead' PROVE FALSE
        <5>1. /\ t \in Threads /\ pc[t].at = "allocated"
              /\ pc[u].n \in {pc[t].m, pc[t].o, mod[pc[t].m].node}
          BY <4>1, <4>3 DEF DeadRight
        <5>2. pc[u].n = mod[pc[t].m].node
          BY <1>4, <1>5, <4>2, <5>1
        <5> QED BY <1>4, <4>2, <5>1, <5>2
      <4> QED BY <4>3
    <3> QED BY <3>1, <3>2
  <2> QED BY <1>1, <2>1, <2>2, <2>3, <2>4, <2>5 DEF DeadOrNew
<1>7. Cache'
  <2>1. hooked => known' \subseteq nodes \cup dead'
    BY DEF KnownRight
  <2>2. ~hooked /\ ~AtBreakpoint' => known' = {}
    BY <1>1, <1>2 DEF Cache, KnownRight
  <2>3. ASSUME NEW u \in Threads, Announced(u)' PROVE mod[pc[u].m].node \notin known' \ dead'
    BY <1>3, <2>3 DEF KnownRight
  <2> QED BY <1>1, <2>1, <2>2, <2>3 DEF Cache
<1>8. NodeNames'
  <2>1. ASSUME NEW k \in Nodes, name'[k] # NULL
        PROVE  hooked /\ k \in nodes \ dead' /\ name'[k] \in named[k]
    BY <2>1 DEF NamesRight
  <2>2. ASSUME NEW u \in Threads, hooked, LosesModules(u)' PROVE name'[pc[u].n] # NULL
    <3>1. CASE u = t /\ pc[u].at \in {"condensing", "unmapping"}
      BY <2>2, <3>1 DEF NamesRight
    <3>2. CASE ~(u = t /\ pc[u].at \in {"condensing", "unmapping"})
      <4>1. LosesModules(u) /\ (u = t => pc[u].at \in {"merging", "unloading"})
        BY <1>1, <2>2, <3>2 DEF LosesModules
      <4>2. name[pc[u].n] # NULL
        BY <1>2, <2>2, <4>1 DEF NodeNames
      <4>3. lock = u
        BY <1>2, <4>1, LockIs DEF LosesModules, Condensing, Unloading
      <4>4. t \in Threads /\ pc[t].at \in {"merged", "destroying"} => lock = t
        BY <1>2, LockIs DEF Condensing, Unloading
      <4>5. pc[u].n \in Nodes
        BY <1>2, <4>1 DEF LosesModules, Loader, Condenses, Unloads, Condensing,
                          Unloading, Loaded, LoaderTypes
      <4>6. ~(t \in Threads /\ pc[t].at \in {"merged", "destroying"})
        BY <4>1, <4>3, <4>4
      <4> QED BY <4>2, <4>5, <4>6 DEF NamesRight
    <3> QED BY <3>1, <3>2
  <2> QED BY <1>1, <2>1, <2>2 DEF NodeNames
<1> QED BY <1>1, <1>6, <1>7, <1>8 DEF WatchInv

(* After a line the modules of the load order list are read again: none of *)
(* them is dead.                                                           *)
LEMMA SymbolsRead ==
  ASSUME WatchInv, dbg = "wait", NEW d1, LoadSymbols(d1),
         \A y \in d1 \ dead : y \notin Mods \/ ~mod[y].linked
  PROVE  /\ ContinueDebugEvent /\ dbg' = "wait" /\ symbols' \in {"none", "ok", "failed"}
         /\ symbols' # "none"
PROOF
<1>1. Linked \cap d1 = {}
  BY GraphAlive DEF Linked
<1>2. symbols \in {"none", "ok", "failed"}
  BY DEF WatchInv, WatchTypeOK
<1>3. /\ symbols' \in IF symbols = "none" THEN {"ok", "failed"} ELSE {symbols}
      /\ ContinueDebugEvent /\ UNCHANGED dbg
  BY <1>1 DEF LoadSymbols
<1> QED BY <1>2, <1>3

\* The handler of a line, which neither throws nor stops.
LineDone(code, d1, k1) ==
  /\ dbg = "wait" /\ queue # <<>> /\ e.code = code /\ WatchInv
  /\ dead' = d1 /\ known' = k1
  /\ LoadSymbols(d1) /\ UNCHANGED <<scheduled, offsets>>
  /\ UNCHANGED mainVars /\ UNCHANGED <<lock, hooked, phase>>

(* The effect of a line on the rest.                                       *)
LEMMA LineDoneIs ==
  ASSUME NEW code, NEW d1, NEW k1, LineDone(code, d1, k1),
         \A y \in d1 \ dead : y \notin Mods \/ ~mod[y].linked,
         code \notin {"TargetOffsets", "AllocateModuleEntry"} \/
           (code = "AllocateModuleEntry" /\ mod[e.obj].ctx # NULL),
         d1 \subseteq Mods \cup Nodes \cup Ctxs, k1 \subseteq Nodes,
         name' \in [Nodes -> Names \cup {NULL, Garbage, DeadName}]
  PROVE  Pops /\ WatchTypeOK'
PROOF
<1>1. /\ dbg = "wait" /\ queue # <<>> /\ e.code = code /\ WatchInv
      /\ dead' = d1 /\ known' = k1 /\ LoadSymbols(d1) /\ UNCHANGED <<scheduled, offsets>>
      /\ UNCHANGED mainVars /\ UNCHANGED <<lock, hooked, phase>>
  BY DEF LineDone
<1>2. /\ ContinueDebugEvent /\ dbg' = "wait" /\ symbols' \in {"none", "ok", "failed"}
  BY <1>1, SymbolsRead
<1>3. Pops
  BY <1>1, <1>2 DEF Pops
<1>4. WatchTypeOK
  BY <1>1 DEF WatchInv
<1>5. WatchTypeOK'
  BY <1>1, <1>2, <1>4 DEF WatchTypeOK
<1> QED BY <1>3, <1>5

(* Nothing a line is about throws.                                         *)
LEMMA NeverThrows ==
  ASSUME WatchInv, dbg = "wait", queue # <<>>
  PROVE  ~Throws
PROOF
<1>1. Reads(e) \subseteq Live \ dead
  BY ReadsAlive DEF HandlersReadLiveMemory
<1> QED BY <1>1 DEF Throws

(* The debugger ends, or waits for a key, with the event at the head of    *)
(* the queue and the process stopped.                                      *)
LEMMA HoldKeeps ==
  ASSUME WatchInv, dbg = "wait", UNCHANGED processVars,
         UNCHANGED <<queue, dead, symbols, scheduled>>,
         dbg' \in {"exited", "key"},
         dbg' = "key" => queue # <<>> /\ queue[1].code = "Breakpoint",
         offsets' \in 0..HookTargets,
         offsets' = offsets \/ (phase = "offsets" /\ Blocked(Main)),
         known' \subseteq Nodes, hooked => known' \subseteq nodes \cup dead,
         ~hooked /\ ~AtBreakpoint' => known' = {},
         \A u \in Threads : Announced(u) => mod[pc[u].m].node \notin known' \ dead,
         name' \in [Nodes -> Names \cup {NULL, Garbage, DeadName}],
         \A k \in Nodes : name[k] # NULL => name'[k] # NULL,
         \A k \in Nodes : name'[k] # NULL =>
              hooked /\ k \in nodes \ dead /\ name'[k] \in named[k]
  PROVE  WatchInv'
PROOF
<1> USE DEF WatchInv
<1>1. /\ UNCHANGED <<mod, list, nodes, entry, edges, named, pc>> /\ UNCHANGED mainVars
      /\ UNCHANGED <<lock, hooked, phase>>
  BY DEF mainVars, processVars
<1>2. Loader'
  <2>1. Loader /\ queue' \in Seq(Event)
    BY DEF Loader, LoaderTypes
  <2> QED BY <1>1, <2>1, LoaderSame
<1>3. \A u : Blocked(u)' <=> Blocked(u)
  BY DEF Blocked
<1>4. Events'
  <2>1. ASSUME NEW r, IsEvent(r) PROVE IsEvent(r)'
    BY <1>1, <2>1 DEF IsEvent
  <2>2. ASSUME NEW i \in 1..Len(queue') PROVE IsEvent(queue[i])'
    <3>1. PICK r : r = queue'[i]
      OBVIOUS
    <3>2. IsEvent(r)'
      BY <2>1, <3>1 DEF Events
    <3> QED BY <3>1, <3>2
  <2> QED BY <2>2 DEF Events
<1>5. WatchTypeOK'
  BY <1>1 DEF WatchTypeOK
<1>6. MainThread'
  <2>1. phase = "offsets" /\ ~Blocked(Main)' => offsets' = HookTargets
    BY <1>3 DEF MainThread
  <2>2. hooked => offsets' = HookTargets
    BY DEF MainThread
  <2> QED BY <1>1, <2>1, <2>2 DEF MainThread
<1>7. \A t \in Threads : /\ Announced(t)' <=> Announced(t)
                         /\ Frees(t)' <=> Frees(t)
                         /\ LosesModules(t)' <=> LosesModules(t)
  BY <1>1, <1>3 DEF Announced, Frees, LosesModules
<1>8. DeadOrNew'
  BY <1>1, <1>3, <1>7 DEF DeadOrNew
<1>9. Cache'
  BY <1>1, <1>7 DEF Cache
<1>10. NodeNames'
  <2>1. ASSUME NEW u \in Threads, hooked, LosesModules(u) PROVE name'[pc[u].n] # NULL
    <3>1. name[pc[u].n] # NULL
      BY <2>1 DEF NodeNames
    <3>2. pc[u].n \in Nodes
      BY <2>1 DEF LosesModules, Loader, Condenses, Unloads, Condensing, Unloading, Loaded,
                  LoaderTypes
    <3> QED BY <3>1, <3>2
  <2> QED BY <1>1, <1>7, <2>1 DEF NodeNames
<1> QED BY <1>2, <1>4, <1>5, <1>6, <1>8, <1>9, <1>10

(* An exception: the debugger ends before ContinueDebugEvent.              *)
LEMMA StopKeeps ==
  ASSUME WatchInv, dbg = "wait", UNCHANGED processVars, DebugFacilityOnDebugException,
         offsets' \in 0..HookTargets,
         offsets' = offsets \/ (phase = "offsets" /\ Blocked(Main))
  PROVE  WatchInv'
PROOF
<1>1. /\ dbg' = "exited" /\ UNCHANGED <<queue, dead, symbols, scheduled>>
      /\ UNCHANGED <<known, name>>
  BY DEF DebugFacilityOnDebugException
<1>2. WatchTypeOK /\ Cache /\ NodeNames
  BY DEF WatchInv
<1>3. AtBreakpoint => AtBreakpoint'
  BY <1>1 DEF AtBreakpoint, processVars, Blocked
<1>4. /\ known' \subseteq Nodes
      /\ hooked => known' \subseteq nodes \cup dead
      /\ ~hooked /\ ~AtBreakpoint' => known' = {}
      /\ \A u \in Threads : Announced(u) => mod[pc[u].m].node \notin known' \ dead
  BY <1>1, <1>2, <1>3 DEF WatchTypeOK, Cache
<1>5. /\ name' \in [Nodes -> Names \cup {NULL, Garbage, DeadName}]
      /\ \A k \in Nodes : name[k] # NULL => name'[k] # NULL
      /\ \A k \in Nodes : name'[k] # NULL =>
              hooked /\ k \in nodes \ dead /\ name'[k] \in named[k]
  BY <1>1, <1>2 DEF WatchTypeOK, NodeNames
<1> HIDE DEF WatchInv
<1> QED BY <1>1, <1>4, <1>5, HoldKeeps

(* A module without a load context stops the debugger.                     *)
LEMMA ContextlessLineKeeps ==
  ASSUME WatchInv, ProcessAllocateModuleEntryLine, mod[e.obj].ctx = NULL
  PROVE  WatchInv'
PROOF
<1>1. dbg = "wait" /\ UNCHANGED processVars /\ DebugFacilityOnDebugException
      /\ offsets' = offsets
  BY DEF ProcessAllocateModuleEntryLine, Handles
<1>2. offsets' \in 0..HookTargets
  BY <1>1 DEF WatchInv, WatchTypeOK
<1> HIDE DEF WatchInv
<1> QED BY <1>1, <1>2, StopKeeps

(* A new module, node and context: none of them is dead any more.          *)
LEMMA AllocateLineKeeps ==
  ASSUME WatchInv, ProcessAllocateModuleEntryLine, mod[e.obj].ctx # NULL
  PROVE  WatchInv'
PROOF
<1>0. mod[e.obj].ctx # NULL
  OBVIOUS
<1>1. PICK t, x : t = e.t /\ x = e.obj
  OBVIOUS
<1>2. /\ LineDone("AllocateModuleEntry", dead \ {x, mod[x].node, mod[x].ctx},
                  known \cup {mod[x].node})
      /\ UNCHANGED name
  <2>1. dbg = "wait" /\ queue # <<>>
    BY DEF ProcessAllocateModuleEntryLine, Line, Handles
  <2>2. ~Throws
    BY <2>1, NeverThrows
  <2>3. Line("AllocateModuleEntry", dead \ {x, mod[x].node, mod[x].ctx},
             known \cup {mod[x].node}, UNCHANGED name)
    BY <1>0, <1>1 DEF ProcessAllocateModuleEntryLine
  <2> QED BY <2>2, <2>3 DEF Line, LineDone, Handles, processVars
<1>3. dbg = "wait" /\ queue # <<>> /\ e.code = "AllocateModuleEntry"
  BY <1>2 DEF LineDone
<1>4. IsEvent(e) /\ Blocked(t)
  BY <1>1, <1>3, FirstIs
<1>6. /\ Loader /\ LoaderTypes /\ WatchTypeOK /\ DeadOrNew /\ Cache /\ NodeNames
  BY DEF WatchInv, Loader
<1>5. t \in Threads /\ hooked /\ pc[t].at = "allocated" /\ x = pc[t].m
  <2>1. /\ t \in Threads /\ hooked /\ x = pc[t].m
        /\ pc[t].at \in {"allocated", "contextless"}
    BY <1>1, <1>3, <1>4 DEF IsEvent
  <2>2. pc[t].at = "contextless" => mod[pc[t].m].ctx = NULL
    BY <1>6, <2>1 DEF Loader, Loads
  <2> QED BY <1>0, <1>1, <2>1, <2>2
<1>7. PICK k : k = mod[x].node
  OBVIOUS
<1>8. /\ x \in Mods /\ k \in nodes /\ k \in Nodes /\ mod[x].ctx = pc[t].o
      /\ list[k] = <<x>> /\ ToSet(list[k]) = {x}
      /\ \A w \in Threads :
           pc[w].at \in Loading \cup {"contextless"} /\ pc[w].m = x => w = t
  <2>1. pc[t].at \in Loading
    BY <1>5 DEF Loading
  <2> QED BY <1>5, <1>6, <1>7, <2>1, AnnouncedIs DEF LoaderTypes
<1>9. Pops /\ WatchTypeOK'
  <2>1. PICK d1, k1 : d1 = dead \ {x, mod[x].node, mod[x].ctx} /\ k1 = known \cup {mod[x].node}
    OBVIOUS
  <2>2. /\ d1 \subseteq Mods \cup Nodes \cup Ctxs /\ k1 \subseteq Nodes
        /\ name' \in [Nodes -> Names \cup {NULL, Garbage, DeadName}]
        /\ \A y \in d1 \ dead : y \notin Mods \/ ~mod[y].linked
        /\ mod[e.obj].ctx # NULL
    BY <1>1, <1>2, <1>6, <1>7, <1>8, <2>1, <1>0 DEF WatchTypeOK
  <2>3. LineDone("AllocateModuleEntry", d1, k1)
    BY <1>2, <2>1
  <2> QED BY <2>2, <2>3, LineDoneIs
<1>10. /\ dead' = dead \ {x, k, pc[t].o} /\ known' = known \cup {k} /\ name' = name
  BY <1>2, <1>7, <1>8 DEF LineDone
<1>11. DeadRight(t)
  BY <1>5, <1>7, <1>10 DEF DeadRight
<1>12. KnownRight(t)
  <2>1. ASSUME NEW u \in Threads, u # t, Announced(u)
        PROVE  mod[pc[u].m].node \notin known' \ dead'
    <3>1. pc[u].at \in Loading \cup {"contextless"}
      BY <2>1 DEF Announced, Loading
    <3>2. /\ mod[pc[u].m].node \in nodes /\ ToSet(list[mod[pc[u].m].node]) = {pc[u].m}
          /\ pc[u].m \in Mods
      BY <1>6, <3>1, AnnouncedIs
    <3>3. mod[pc[u].m].node # k
      BY <1>8, <2>1, <3>1, <3>2
    <3>4. mod[pc[u].m].node \notin {x, pc[t].o}
      <4>1. mod[pc[u].m].node \in Nodes /\ pc[t].o \in Ctxs
        <5>1. pc[t].at \in Loading
          BY <1>5 DEF Loading
        <5> QED BY <1>5, <1>6, <3>2, <5>1, AnnouncedIs DEF LoaderTypes
      <4> QED BY <1>8, <4>1, LoaderAssumption DEF LoaderAssumption
    <3>5. mod[pc[u].m].node \notin known \ dead
      BY <1>6, <2>1 DEF Cache
    <3> QED BY <1>10, <3>3, <3>4, <3>5
  <2>2. known' \subseteq nodes \cup dead'
    <3>1. known \subseteq nodes \cup dead /\ known \subseteq Nodes
      BY <1>5, <1>6 DEF Cache, WatchTypeOK
    <3>2. Nodes \cap {x, pc[t].o} = {}
      <4>1. pc[t].o \in Ctxs
        <5>1. pc[t].at \in Loading
          BY <1>5 DEF Loading
        <5> QED BY <1>5, <1>6, <5>1, AnnouncedIs
      <4> QED BY <1>8, <4>1, LoaderAssumption DEF LoaderAssumption
    <3> QED BY <1>8, <1>10, <3>1, <3>2
  <2> QED BY <1>5, <2>1, <2>2 DEF KnownRight
<1>13. NamesRight(t)
  BY <1>5, <1>6, <1>10 DEF NamesRight, NodeNames
<1> QED BY <1>1, <1>9, <1>11, <1>12, <1>13, HandledKeeps

(* A node is destroyed: it is dead and has no name.                        *)
LEMMA DestroyLineKeeps ==
  ASSUME WatchInv, ProcessDestroyNodeLine
  PROVE  WatchInv'
PROOF
<1>1. dbg = "wait" /\ queue # <<>> /\ e.code = "DestroyNode"
  BY DEF ProcessDestroyNodeLine, Line, Handles
<1>2. PICK t \in Threads, k \in nodes :
           /\ t = e.t /\ hooked /\ e.obj = k /\ k = pc[t].n /\ Blocked(t)
           /\ pc[t].at \in {"merged", "destroying"} /\ k \in Nodes
           /\ list[k] = <<>> /\ name[k] # NULL /\ name[k] \in named[k] /\ k \notin dead
  BY <1>1, DestroyLine
<1>3. /\ LineDone("DestroyNode", dead \cup {k}, known \cup {k})
      /\ name' = [name EXCEPT ![k] = NULL]
  <2>1. ~Throws
    BY <1>1, NeverThrows
  <2> QED BY <1>1, <1>2, <2>1 DEF ProcessDestroyNodeLine, Line, LineDone, Handles, processVars
<1>4. /\ LoaderTypes /\ WatchTypeOK /\ DeadOrNew /\ Cache /\ NodeNames
  BY DEF WatchInv, Loader
<1>5. k \notin Mods
  BY <1>2, LoaderAssumption DEF LoaderAssumption
<1>6. /\ name' \in [Nodes -> Names \cup {NULL, Garbage, DeadName}] /\ name'[k] = NULL
      /\ \A j \in Nodes \ {k} : name'[j] = name[j]
  BY <1>2, <1>3, <1>4 DEF WatchTypeOK
<1>7. Pops /\ WatchTypeOK'
  <2>1. PICK d1, k1 : d1 = dead \cup {k} /\ k1 = known \cup {k}
    OBVIOUS
  <2>2. /\ d1 \subseteq Mods \cup Nodes \cup Ctxs /\ k1 \subseteq Nodes
        /\ \A y \in d1 \ dead : y \notin Mods \/ ~mod[y].linked
        /\ "DestroyNode" \notin {"TargetOffsets", "AllocateModuleEntry"}
    BY <1>2, <1>4, <1>5, <2>1 DEF WatchTypeOK
  <2>3. LineDone("DestroyNode", d1, k1)
    BY <1>3, <2>1
  <2> QED BY <1>6, <2>2, <2>3, LineDoneIs
<1>8. dead' = dead \cup {k} /\ known' = known \cup {k}
  BY <1>3 DEF LineDone
<1>9. DeadRight(t)
  BY <1>2, <1>8 DEF DeadRight
<1>10. KnownRight(t)
  BY <1>2, <1>4, <1>8 DEF KnownRight, Cache
<1>11. NamesRight(t)
  <2>1. ASSUME NEW j \in Nodes, name'[j] # NULL
        PROVE  hooked /\ j \in nodes \ dead' /\ name'[j] \in named[j]
    BY <1>4, <1>6, <1>8, <2>1 DEF NodeNames
  <2> QED BY <1>2, <1>6, <2>1 DEF NamesRight
<1> QED BY <1>2, <1>7, <1>9, <1>10, <1>11, HandledKeeps

(* A context is freed.                                                     *)
LEMMA FreeLineKeeps ==
  ASSUME WatchInv, ProcessFreeLoadContextLine
  PROVE  WatchInv'
PROOF
<1>1. dbg = "wait" /\ queue # <<>> /\ e.code = "FreeLoadContext"
  BY DEF ProcessFreeLoadContextLine, Line, Handles
<1>2. PICK t \in Threads :
        /\ t = e.t /\ hooked /\ e.obj = pc[t].o /\ pc[t].at = "freeing" /\ e.obj \in Ctxs
  BY <1>1, LoadLine
<1>3. PICK c : c = e.obj
  OBVIOUS
<1>4. LineDone("FreeLoadContext", dead \cup {c}, known) /\ UNCHANGED name
  <2>1. ~Throws
    BY <1>1, NeverThrows
  <2> QED BY <1>1, <1>3, <2>1
         DEF ProcessFreeLoadContextLine, Line, LineDone, Handles, processVars
<1>5. /\ LoaderTypes /\ WatchTypeOK /\ DeadOrNew /\ Cache /\ NodeNames
  BY DEF WatchInv, Loader
<1>6. c \notin Mods /\ c \notin Nodes /\ c \in Ctxs
  BY <1>2, <1>3, LoaderAssumption DEF LoaderAssumption
<1>7. Pops /\ WatchTypeOK'
  <2>1. PICK d1, k1 : d1 = dead \cup {c} /\ k1 = known
    OBVIOUS
  <2>2. /\ d1 \subseteq Mods \cup Nodes \cup Ctxs /\ k1 \subseteq Nodes
        /\ \A y \in d1 \ dead : y \notin Mods \/ ~mod[y].linked
        /\ name' \in [Nodes -> Names \cup {NULL, Garbage, DeadName}]
        /\ "FreeLoadContext" \notin {"TargetOffsets", "AllocateModuleEntry"}
    BY <1>4, <1>5, <1>6, <2>1 DEF WatchTypeOK
  <2>3. LineDone("FreeLoadContext", d1, k1)
    BY <1>4, <2>1
  <2> QED BY <2>2, <2>3, LineDoneIs
<1>8. dead' = dead \cup {c} /\ known' = known /\ name' = name
  BY <1>4 DEF LineDone
<1>9. DeadRight(t)
  BY <1>2, <1>3, <1>8 DEF DeadRight
<1>10. KnownRight(t)
  BY <1>2, <1>5, <1>8 DEF KnownRight, Cache
<1>11. NamesRight(t)
  BY <1>2, <1>5, <1>6, <1>8 DEF NamesRight, NodeNames
<1> QED BY <1>2, <1>7, <1>9, <1>10, <1>11, HandledKeeps

(* A module is about to be mapped: its name becomes that of the node.      *)
LEMMA MapLineKeeps ==
  ASSUME WatchInv, ProcessMapDllWithSectionHandleLine
  PROVE  WatchInv'
PROOF
<1>1. dbg = "wait" /\ queue # <<>> /\ e.code = "MapDllWithSectionHandle"
  BY DEF ProcessMapDllWithSectionHandleLine, Line, Handles
<1>2. PICK t \in Threads, x \in Mods, k \in nodes :
           /\ t = e.t /\ hooked /\ pc[t].at = "mapping" /\ entry[e.obj] = x /\ x = pc[t].m
           /\ mod[x] # NULL /\ k = mod[x].node /\ list[k] = <<x>>
           /\ x \notin dead /\ k \notin dead
           /\ \A u \in Threads : Announced(u) => mod[pc[u].m].node # k
  BY <1>1, LoadLine, SMTT(30)
<1>3. /\ LineDone("MapDllWithSectionHandle", dead, known \cup {k})
      /\ name' = [name EXCEPT ![k] = RootName(k)]
  <2>1. ~Throws
    BY <1>1, NeverThrows
  <2> QED BY <1>1, <1>2, <2>1
         DEF ProcessMapDllWithSectionHandleLine, Line, LineDone, Handles, processVars
<1>4. /\ LoaderTypes /\ Graph /\ WatchTypeOK /\ DeadOrNew /\ Cache /\ NodeNames /\ Loads(t)
  BY DEF WatchInv, Loader
<1>5. k \in Nodes /\ mod[x].name # NULL /\ mod[x].name \in named[k] /\ mod[x].name \in Names
  <2>1. k \in Nodes /\ mod[x].name # NULL
    BY <1>2, <1>4 DEF Loads, Loading, LoaderTypes
  <2>2. mod[x].name \in named[k]
    BY <1>2, <1>4, <2>1 DEF Graph
  <2> QED BY <1>4, <2>1, <2>2 DEF LoaderTypes
<1>6. RootName(k) = mod[x].name
  <2>1. list[k] # <<>> /\ Head(list[k]) = x
    BY <1>2, SetOfSeq
  <2> QED BY <1>2, <2>1 DEF RootName, BaseDllName
<1>7. /\ name' \in [Nodes -> Names \cup {NULL, Garbage, DeadName}] /\ name'[k] = mod[x].name
      /\ \A j \in Nodes \ {k} : name'[j] = name[j]
  BY <1>3, <1>4, <1>5, <1>6 DEF WatchTypeOK
<1>8. Pops /\ WatchTypeOK'
  <2>1. PICK d1, k1 : d1 = dead /\ k1 = known \cup {k}
    OBVIOUS
  <2>2. /\ d1 \subseteq Mods \cup Nodes \cup Ctxs /\ k1 \subseteq Nodes
        /\ \A y \in d1 \ dead : y \notin Mods \/ ~mod[y].linked
        /\ "MapDllWithSectionHandle" \notin {"TargetOffsets", "AllocateModuleEntry"}
    BY <1>4, <1>5, <2>1 DEF WatchTypeOK
  <2>3. LineDone("MapDllWithSectionHandle", d1, k1)
    BY <1>3, <2>1
  <2> QED BY <1>7, <2>2, <2>3, LineDoneIs
<1>9. dead' = dead /\ known' = known \cup {k}
  BY <1>3 DEF LineDone
<1>10. DeadRight(t)
  BY <1>2, <1>9 DEF DeadRight
<1>11. KnownRight(t)
  BY <1>2, <1>4, <1>9, ZenonT(40) DEF KnownRight, Cache
<1>12. NamesRight(t)
  <2>1. ASSUME NEW j \in Nodes, name'[j] # NULL
        PROVE  hooked /\ j \in nodes \ dead' /\ name'[j] \in named[j]
    <3>1. CASE j = k
      BY <1>2, <1>5, <1>7, <1>9, <3>1
    <3>2. CASE j # k
      BY <1>4, <1>7, <1>9, <2>1, <3>2 DEF NodeNames
    <3> QED BY <3>1, <3>2, SMTT(30)
  <2> QED BY <1>2, <1>5, <1>7, <2>1 DEF NamesRight
<1> QED BY <1>2, <1>8, <1>10, <1>11, <1>12, HandledKeeps

(* A module is about to be unmapped: its node keeps a name.                *)
LEMMA UnmapLineKeeps ==
  ASSUME WatchInv, ProcessUnmapModuleLine
  PROVE  WatchInv'
PROOF
<1>1. dbg = "wait" /\ queue # <<>> /\ e.code = "UnmapModule"
  BY DEF ProcessUnmapModuleLine, Line, Handles
<1>2. PICK t \in Threads, x \in Mods, k \in nodes :
           /\ t = e.t /\ hooked /\ e.obj = x /\ x = pc[t].m /\ k = pc[t].n /\ Blocked(t)
           /\ pc[t].at = "unmapping" /\ mod[x] # NULL /\ mod[x].node = k
           /\ ~mod[x].linked /\ mod[x].ctx = NULL /\ mod[x].name # NULL
           /\ x \notin dead /\ k \notin dead
           /\ \A u \in Threads : Announced(u) => mod[pc[u].m].node # k
  BY <1>1, UnmapLine
<1>3. /\ LineDone("UnmapModule", dead \cup {x}, known \cup {k})
      /\ name' = [name EXCEPT ![k] = IF @ = NULL THEN BaseDllName(x) ELSE @]
  <2>1. ~Throws
    BY <1>1, NeverThrows
  <2> QED BY <1>1, <1>2, <2>1
         DEF ProcessUnmapModuleLine, Line, LineDone, Handles, processVars
<1>4. /\ LoaderTypes /\ Graph /\ WatchTypeOK /\ DeadOrNew /\ Cache /\ NodeNames
  BY DEF WatchInv, Loader
<1>5. k \in Nodes /\ mod[x].name # NULL /\ mod[x].name \in named[k] /\ mod[x].name \in Names
  <2>1. k \in Nodes /\ mod[x].name # NULL
    BY <1>2, <1>4 DEF LoaderTypes
  <2>2. mod[x].name \in named[k]
    BY <1>2, <1>4, <2>1 DEF Graph
  <2> QED BY <1>4, <2>1, <2>2 DEF LoaderTypes
<1>6. BaseDllName(x) = mod[x].name /\ x \notin Nodes
  BY <1>2, LoaderAssumption DEF BaseDllName, LoaderAssumption
<1>7. /\ name' \in [Nodes -> Names \cup {NULL, Garbage, DeadName}]
      /\ name'[k] = IF name[k] = NULL THEN mod[x].name ELSE name[k]
      /\ \A j \in Nodes \ {k} : name'[j] = name[j]
  BY <1>3, <1>4, <1>5, <1>6 DEF WatchTypeOK
<1>8. Pops /\ WatchTypeOK'
  <2>1. PICK d1, k1 : d1 = dead \cup {x} /\ k1 = known \cup {k}
    OBVIOUS
  <2>2. /\ d1 \subseteq Mods \cup Nodes \cup Ctxs /\ k1 \subseteq Nodes
        /\ \A y \in d1 \ dead : y \notin Mods \/ ~mod[y].linked
        /\ "UnmapModule" \notin {"TargetOffsets", "AllocateModuleEntry"}
    BY <1>2, <1>4, <1>5, <2>1 DEF WatchTypeOK
  <2>3. LineDone("UnmapModule", d1, k1)
    BY <1>3, <2>1
  <2> QED BY <1>7, <2>2, <2>3, LineDoneIs
<1>9. dead' = dead \cup {x} /\ known' = known \cup {k}
  BY <1>3 DEF LineDone
<1>10. DeadRight(t)
  BY <1>2, <1>9 DEF DeadRight
<1>11. KnownRight(t)
  BY <1>2, <1>4, <1>9 DEF KnownRight, Cache
<1>12. NamesRight(t)
  <2>1. ASSUME NEW j \in Nodes, name'[j] # NULL
        PROVE  hooked /\ j \in nodes \ dead' /\ name'[j] \in named[j]
    <3>1. CASE j = k
      BY <1>2, <1>4, <1>5, <1>6, <1>7, <1>9, <3>1 DEF NodeNames
    <3>2. CASE j # k
      BY <1>4, <1>6, <1>7, <1>9, <2>1, <3>2 DEF NodeNames
    <3> HIDE DEF WatchInv
    <3> QED BY <3>1, <3>2, SMTT(30)
  <2>2. \A j \in Nodes : name[j] # NULL => name'[j] # NULL
    BY <1>7
  <2> QED BY <1>2, <1>5, <1>7, <2>1, <2>2 DEF NamesRight
<1> QED BY <1>2, <1>8, <1>10, <1>11, <1>12, HandledKeeps

(* The name of the first module of a node.                                 *)
LEMMA RootNameIs ==
  ASSUME WatchInv, NEW k \in nodes, list[k] # <<>>, Head(list[k]) \notin dead
  PROVE  /\ RootName(k) = NULL \/ RootName(k) \in named[k]
         /\ RootName(k) \in Names \cup {NULL}
         /\ mod[Head(list[k])].linked /\ mod[Head(list[k])].ctx = NULL => RootName(k) # NULL
PROOF
<1>1. LoaderTypes /\ Graph /\ k \in Nodes
  BY DEF WatchInv, Loader, LoaderTypes
<1>2. PICK x : x = Head(list[k])
  OBVIOUS
<1>3. x \in Mods /\ x \in ToSet(list[k])
  <2>1. list[k] \in Seq(Mods)
    BY <1>1 DEF LoaderTypes
  <2> QED BY <1>2, <2>1, SetOfSeq
<1>4. mod[x] # NULL /\ mod[x].node = k /\ mod[x] \in ModuleEntry
  BY <1>1, <1>3 DEF Graph, LoaderTypes
<1>5. RootName(k) = mod[x].name
  BY <1>2, <1>4 DEF RootName, BaseDllName
<1>6. mod[x].name \in Names \cup {NULL}
  BY <1>4 DEF ModuleEntry
<1> QED BY <1>1, <1>2, <1>3, <1>4, <1>5, <1>6 DEF Graph

(* The names of a set of nodes are looked at, each of them of a node that  *)
(* has a name or whose first module is there.                              *)
LEMMA NamedIs ==
  ASSUME WatchInv, NEW ns, ns \subseteq nodes \ dead, Named(ns), hooked \/ ns = {},
         \A k \in ns : name[k] = NULL => list[k] # <<>> /\ Head(list[k]) \notin dead
  PROVE  /\ name' \in [Nodes -> Names \cup {NULL, Garbage, DeadName}]
         /\ \A k \in Nodes : name[k] # NULL => name'[k] # NULL
         /\ \A k \in Nodes : name'[k] # NULL =>
              hooked /\ k \in nodes \ dead /\ name'[k] \in named[k]
         /\ \A k \in ns :
              /\ name[k] = NULL
              /\ mod[Head(list[k])].linked /\ mod[Head(list[k])].ctx = NULL
              => name'[k] # NULL
PROOF
<1>1. /\ name \in [Nodes -> Names \cup {NULL, Garbage, DeadName}] /\ nodes \subseteq Nodes
      /\ NodeNames
  BY DEF WatchInv, WatchTypeOK, Loader, LoaderTypes
<1>2. name' = [n \in Nodes |-> IF n \in ns THEN RootModuleName(n) ELSE name[n]]
  BY DEF Named
<1>3. \A k \in Nodes : name[k] # NULL => name'[k] = name[k]
  BY <1>2 DEF RootModuleName
<1>4. \A k \in Nodes : k \notin ns => name'[k] = name[k]
  BY <1>2
<1>5. ASSUME NEW k \in ns, name[k] = NULL
      PROVE  /\ name'[k] = NULL \/ name'[k] \in named[k]
             /\ name'[k] \in Names \cup {NULL}
             /\ mod[Head(list[k])].linked /\ mod[Head(list[k])].ctx = NULL
                  => name'[k] # NULL
  <2>1. name'[k] = RootName(k) /\ k \in nodes
    BY <1>1, <1>2, <1>5 DEF RootModuleName
  <2>2. list[k] # <<>> /\ Head(list[k]) \notin dead
    BY <1>5
  <2>3. /\ RootName(k) = NULL \/ RootName(k) \in named[k]
        /\ RootName(k) \in Names \cup {NULL}
        /\ mod[Head(list[k])].linked /\ mod[Head(list[k])].ctx = NULL
             => RootName(k) # NULL
    BY <2>1, <2>2, RootNameIs
  <2> QED BY <2>1, <2>3
<1>6. \A k \in Nodes : name'[k] \in Names \cup {NULL, Garbage, DeadName}
  BY <1>1, <1>3, <1>4, <1>5
<1>7. name' = [n \in Nodes |-> name'[n]]
  BY <1>2
<1>8. name' \in [Nodes -> Names \cup {NULL, Garbage, DeadName}]
  BY <1>6, <1>7
<1>9. ASSUME NEW k \in Nodes, name'[k] # NULL
      PROVE  hooked /\ k \in nodes \ dead /\ name'[k] \in named[k]
  <2>1. CASE name[k] # NULL
    BY <1>1, <1>3, <2>1 DEF NodeNames
  <2>2. CASE name[k] = NULL
    <3>1. k \in ns
      BY <1>4, <1>9, <2>2
    <3> QED BY <1>5, <1>9, <2>2, <3>1
  <2> QED BY <2>1, <2>2
<1> QED BY <1>3, <1>5, <1>8, <1>9

(* The first module of a node of the graph is not dead.                    *)
LEMMA HeadAlive ==
  ASSUME WatchInv, NEW y \in Linked, NEW k, k = mod[y].node
  PROVE  k \in nodes /\ list[k] # <<>> /\ Head(list[k]) \notin dead
PROOF
<1> USE DEF WatchInv
<1>1. /\ Loader /\ LoaderTypes /\ Graph /\ y \in Mods /\ mod[y] # NULL /\ mod[y].linked
  BY DEF Loader, Linked
<1>2. k \in nodes /\ k \in Nodes /\ y \in ToSet(list[k]) /\ list[k] \in Seq(Mods)
  BY <1>1 DEF Graph, LoaderTypes
<1>3. PICK x : x = Head(list[k])
  OBVIOUS
<1>4. list[k] # <<>> /\ x \in ToSet(list[k]) /\ x \in Mods
  BY <1>2, <1>3, SetOfSeq
<1>5. mod[x] # NULL /\ mod[x].node = k
  BY <1>1, <1>2, <1>4 DEF Graph
<1>6. ASSUME x \in dead PROVE FALSE
  <2>1. PICK u \in Threads : /\ pc[u].m = x
                             /\ Announced(u) \/ (pc[u].at = "unmapping" /\ ~Blocked(u))
    BY <1>4, <1>5, <1>6 DEF DeadOrNew
  <2>2. CASE Announced(u)
    <3>1. /\ pc[u].at \in Loading \cup {"contextless"}
          /\ pc[u].at \in {"allocated", "contextless"}
      BY <2>2 DEF Announced, Loading
    <3>2. ToSet(list[mod[pc[u].m].node]) = {pc[u].m} /\ ~mod[pc[u].m].linked
      BY <1>1, <3>1, AnnouncedIs
    <3> QED BY <1>1, <1>2, <1>5, <2>1, <3>2
  <2>3. CASE pc[u].at = "unmapping"
    <3>1. /\ pc[u].n \in nodes /\ list[pc[u].n] # <<>> /\ x = Head(list[pc[u].n])
          /\ \A z \in ToSet(list[pc[u].n]) : ~mod[z].linked
      BY <2>1, <2>3 DEF Loader, Unloads, Unloading
    <3>2. pc[u].n \in Nodes /\ list[pc[u].n] \in Seq(Mods)
      BY <1>1, <3>1 DEF LoaderTypes
    <3>3. x \in ToSet(list[pc[u].n])
      BY <3>1, <3>2, SetOfSeq
    <3>4. pc[u].n = k
      BY <1>1, <1>4, <1>5, <3>2, <3>3 DEF Graph
    <3> QED BY <1>1, <1>2, <3>1, <3>4
  <2> QED BY <2>1, <2>2, <2>3
<1> QED BY <1>2, <1>3, <1>4, <1>6

(* Nodes are condensed: all of them have a name from now on.               *)
LEMMA CondenseLineKeeps ==
  ASSUME WatchInv, ProcessCondenseGraphRecurseAnyLine
  PROVE  WatchInv'
PROOF
<1>1. dbg = "wait" /\ queue # <<>> /\ e.code = "CondenseGraphRecurse"
  BY DEF ProcessCondenseGraphRecurseAnyLine, Line, Handles
<1>2. PICK ns : ns = e.obj
  OBVIOUS
<1>3. PICK t \in Threads :
           /\ t = e.t /\ hooked /\ Blocked(t) /\ pc[t].at \in {"condensing", "exited"}
           /\ ns \subseteq nodes /\ \A k \in ns : Loaded(k)
           /\ pc[t].at = "condensing" => pc[t].n \in ns
  BY <1>1, <1>2, CondenseLine
<1>4. LineDone("CondenseGraphRecurse", dead, known \cup ns) /\ Named(ns)
  <2>1. ~Throws
    BY <1>1, NeverThrows
  <2> QED BY <1>1, <1>2, <2>1
         DEF ProcessCondenseGraphRecurseAnyLine, Line, LineDone, Handles, processVars
<1>5. /\ LoaderTypes /\ WatchTypeOK /\ DeadOrNew /\ Cache /\ NodeNames /\ nodes \subseteq Nodes
  BY DEF WatchInv, Loader, LoaderTypes
<1>6. ASSUME NEW k \in ns
      PROVE  /\ k \notin dead /\ list[k] # <<>> /\ Head(list[k]) \notin dead
             /\ mod[Head(list[k])].linked /\ mod[Head(list[k])].ctx = NULL
             /\ \A u \in Threads : Announced(u) => mod[pc[u].m].node # k
  <2>1. Loaded(k) /\ k \in Nodes
    BY <1>3, <1>5
  <2>2. /\ list[k] # <<>>
        /\ \A y \in ToSet(list[k]) :
                y \in Mods /\ mod[y] # NULL /\ mod[y].linked /\ mod[y].ctx = NULL
    BY <1>5, <2>1, LoadedIs
  <2>3. Head(list[k]) \in ToSet(list[k])
    BY <1>5, <2>1, <2>2, SetOfSeq DEF LoaderTypes
  <2>4. Head(list[k]) \in Linked
    BY <2>2, <2>3 DEF Linked
  <2> QED BY <2>1, <2>2, <2>3, <2>4, GraphAlive
<1>7. /\ name' \in [Nodes -> Names \cup {NULL, Garbage, DeadName}]
      /\ \A k \in Nodes : name[k] # NULL => name'[k] # NULL
      /\ \A k \in Nodes : name'[k] # NULL =>
              hooked /\ k \in nodes \ dead /\ name'[k] \in named[k]
      /\ \A k \in ns :
              /\ name[k] = NULL
              /\ mod[Head(list[k])].linked /\ mod[Head(list[k])].ctx = NULL
              => name'[k] # NULL
  <2>1. ns \subseteq nodes \ dead
    BY <1>3, <1>6
  <2> QED BY <1>3, <1>4, <1>6, <2>1, NamedIs
<1>8. Pops /\ WatchTypeOK'
  <2>1. PICK d1, k1 : d1 = dead /\ k1 = known \cup ns
    OBVIOUS
  <2>2. /\ d1 \subseteq Mods \cup Nodes \cup Ctxs /\ k1 \subseteq Nodes
        /\ \A y \in d1 \ dead : y \notin Mods \/ ~mod[y].linked
        /\ "CondenseGraphRecurse" \notin {"TargetOffsets", "AllocateModuleEntry"}
    BY <1>3, <1>5, <2>1 DEF WatchTypeOK
  <2>3. LineDone("CondenseGraphRecurse", d1, k1)
    BY <1>4, <2>1
  <2> QED BY <1>7, <2>2, <2>3, LineDoneIs
<1>9. dead' = dead /\ known' = known \cup ns
  BY <1>4 DEF LineDone
<1>10. DeadRight(t)
  BY <1>3, <1>9 DEF DeadRight
<1>11. KnownRight(t)
  BY <1>3, <1>5, <1>6, <1>9 DEF KnownRight, Cache
<1>12. NamesRight(t)
  BY <1>3, <1>5, <1>6, <1>7, <1>9 DEF NamesRight
<1> QED BY <1>3, <1>8, <1>10, <1>11, <1>12, HandledKeeps

(* The graph is dumped after a merge.                                      *)
LEMMA MergeLineKeeps ==
  ASSUME WatchInv, ProcessMergeNodesExitLine
  PROVE  WatchInv'
PROOF
<1>1. dbg = "wait" /\ queue # <<>> /\ e.code = "MergeNodesExit"
  BY DEF ProcessMergeNodesExitLine, Line, Handles
<1>2. PICK t, ns, ks : t = e.t /\ ns = Neighbours /\ ks = GraphNodes \cup Neighbours
  OBVIOUS
<1>3. t \in Threads /\ hooked /\ pc[t].at = "exiting"
  <2>1. IsEvent(e)
    BY <1>1, FirstIs
  <2> QED BY <1>1, <1>2, <2>1 DEF IsEvent
<1>4. LineDone("MergeNodesExit", dead, known \cup ks) /\ Named(ns)
  <2>1. ~Throws
    BY <1>1, NeverThrows
  <2>2. known \cup GraphNodes \cup Neighbours = known \cup ks
    BY <1>2
  <2> QED BY <1>1, <1>2, <2>1, <2>2
         DEF ProcessMergeNodesExitLine, Line, LineDone, Handles, processVars
<1>5. /\ LoaderTypes /\ WatchTypeOK /\ DeadOrNew /\ Cache /\ NodeNames /\ nodes \subseteq Nodes
      /\ Graph
  BY DEF WatchInv, Loader, LoaderTypes
<1>6. \A k \in ks : /\ k \in nodes /\ k \notin dead
                    /\ \A u \in Threads : Announced(u) => mod[pc[u].m].node # k
  BY <1>2, GraphAlive
<1>7. ASSUME NEW k \in ns PROVE list[k] # <<>> /\ Head(list[k]) \notin dead
  <2>1. PICK j : <<k, j>> \in edges \/ <<j, k>> \in edges
    BY <1>2 DEF Neighbours
  <2>2. PICK y \in Linked : k = mod[y].node
    <3>1. CASE <<k, j>> \in edges
      <4>1. PICK y \in Linked, z \in Linked : <<k, j>> = <<mod[y].node, mod[z].node>>
        BY <1>5, <3>1 DEF Graph
      <4> QED BY <4>1
    <3>2. CASE <<j, k>> \in edges
      <4>1. PICK y \in Linked, z \in Linked : <<j, k>> = <<mod[y].node, mod[z].node>>
        BY <1>5, <3>2 DEF Graph
      <4> QED BY <4>1
    <3> QED BY <2>1, <3>1, <3>2
  <2> QED BY <2>2, HeadAlive
<1>8. /\ name' \in [Nodes -> Names \cup {NULL, Garbage, DeadName}]
      /\ \A k \in Nodes : name[k] # NULL => name'[k] # NULL
      /\ \A k \in Nodes : name'[k] # NULL =>
              hooked /\ k \in nodes \ dead /\ name'[k] \in named[k]
  <2>1. ns \subseteq nodes \ dead
    BY <1>2, <1>6
  <2> QED BY <1>3, <1>4, <1>7, <2>1, NamedIs
<1>9. Pops /\ WatchTypeOK'
  <2>1. PICK d1, k1 : d1 = dead /\ k1 = known \cup ks
    OBVIOUS
  <2>2. /\ d1 \subseteq Mods \cup Nodes \cup Ctxs /\ k1 \subseteq Nodes
        /\ \A y \in d1 \ dead : y \notin Mods \/ ~mod[y].linked
        /\ "MergeNodesExit" \notin {"TargetOffsets", "AllocateModuleEntry"}
    BY <1>5, <1>6, <2>1 DEF WatchTypeOK
  <2>3. LineDone("MergeNodesExit", d1, k1)
    BY <1>4, <2>1
  <2> QED BY <1>8, <2>2, <2>3, LineDoneIs
<1>10. dead' = dead /\ known' = known \cup ks
  BY <1>4 DEF LineDone
<1>11. DeadRight(t)
  BY <1>3, <1>10 DEF DeadRight
<1>12. KnownRight(t)
  BY <1>3, <1>5, <1>6, <1>10 DEF KnownRight, Cache
<1>13. NamesRight(t)
  BY <1>3, <1>8, <1>10 DEF NamesRight
<1> QED BY <1>2, <1>9, <1>11, <1>12, <1>13, HandledKeeps

(* Lines and events that leave the cache alone.                            *)
LEMMA QuietHandled ==
  ASSUME Pops, WatchTypeOK', UNCHANGED <<dead, known, name>>,
         e.code \in {"CreateProcess", "LoadDll", "Other", "TargetOffsets", "Breakpoint",
                     "ExitProcess"}
  PROVE  WatchInv'
PROOF
<1>1. WatchInv /\ queue # <<>>
  BY DEF Pops
<1>2. PICK t : t = e.t
  OBVIOUS
<1>3. t \in Threads => pc[t].at \in {"idle", "merging"}
  <2>1. IsEvent(e)
    BY <1>1, FirstIs
  <2> QED BY <1>2, <2>1, LoaderAssumption DEF IsEvent, LoaderAssumption
<1>4. Cache /\ NodeNames
  BY <1>1 DEF WatchInv
<1>5. DeadRight(t)
  BY <1>3 DEF DeadRight
<1>6. KnownRight(t)
  BY <1>4 DEF KnownRight, Cache
<1>7. NamesRight(t)
  BY <1>3, <1>4 DEF NamesRight, NodeNames
<1> HIDE DEF Pops
<1> QED BY <1>2, <1>5, <1>6, <1>7, HandledKeeps

(* Events other than lines, and the key that ends the wait at a            *)
(* breakpoint.                                                             *)
LEMMA EventKeeps ==
  ASSUME WatchInv,
         \/ OnProcessCreated \/ OnExitProcess \/ ReadKey
         \/ FacilityOnProcessModuleLoad /\ ~DebugFacilityOnDebugException
  PROVE  WatchInv'
PROOF
<1>1. /\ dbg \in {"wait", "key"} /\ ContinueDebugEvent
      /\ UNCHANGED processVars /\ UNCHANGED <<dead, known, name, symbols, offsets>>
      /\ dbg' \in {"wait", "done"} /\ scheduled' \in {scheduled, TRUE, FALSE}
  BY DEF OnProcessCreated, FacilityOnProcessModuleLoad, OnExitProcess, ReadKey, Handles,
         watchVars
<1>2. queue # <<>> /\ e.code \in {"CreateProcess", "LoadDll", "Breakpoint", "ExitProcess"}
  <2>1. CASE ReadKey
    <3>1. queue # <<>> /\ queue[1].code = "Breakpoint"
      BY <2>1 DEF ReadKey, WatchInv, Events
    <3>2. e = queue[1]
      BY <3>1, FirstIs
    <3> QED BY <3>1, <3>2
  <2>2. CASE OnProcessCreated \/ FacilityOnProcessModuleLoad \/ OnExitProcess
    BY <2>2 DEF OnProcessCreated, FacilityOnProcessModuleLoad, OnExitProcess, Handles
  <2> QED BY <2>1, <2>2
<1>3. Pops
  BY <1>1, <1>2 DEF Pops, processVars
<1>4. WatchTypeOK'
  BY <1>1 DEF WatchInv, WatchTypeOK, processVars
<1> HIDE DEF Pops, WatchInv
<1> QED BY <1>1, <1>2, <1>3, <1>4, QuietHandled

(* The hook DLL is not there.                                              *)
LEMMA NoHookKeeps ==
  ASSUME WatchInv, FacilityOnProcessModuleLoad, DebugFacilityOnDebugException
  PROVE  WatchInv'
PROOF
<1>1. dbg = "wait" /\ UNCHANGED processVars /\ offsets' = offsets
  BY DEF FacilityOnProcessModuleLoad, Handles
<1>2. offsets' \in 0..HookTargets
  BY <1>1 DEF WatchInv, WatchTypeOK
<1> HIDE DEF WatchInv
<1> QED BY <1>1, <1>2, StopKeeps

(* A line that names nothing the debugger keeps.                           *)
LEMMA OtherLineKeeps ==
  ASSUME WatchInv, OtherLine
  PROVE  WatchInv'
PROOF
<1>1. dbg = "wait" /\ queue # <<>> /\ e.code = "Other"
  BY DEF OtherLine, Line, Handles
<1>2. LineDone("Other", dead, known) /\ UNCHANGED name
  <2>1. ~Throws
    BY <1>1, NeverThrows
  <2> QED BY <1>1, <2>1 DEF OtherLine, Line, LineDone, Handles, processVars
<1>3. WatchTypeOK
  BY DEF WatchInv
<1>4. Pops /\ WatchTypeOK'
  <2>1. PICK d1, k1 : d1 = dead /\ k1 = known
    OBVIOUS
  <2>2. /\ d1 \subseteq Mods \cup Nodes \cup Ctxs /\ k1 \subseteq Nodes
        /\ \A y \in d1 \ dead : y \notin Mods \/ ~mod[y].linked
        /\ name' \in [Nodes -> Names \cup {NULL, Garbage, DeadName}]
        /\ "Other" \notin {"TargetOffsets", "AllocateModuleEntry"}
    BY <1>2, <1>3, <2>1 DEF WatchTypeOK
  <2>3. LineDone("Other", d1, k1)
    BY <1>2, <2>1
  <2> QED BY <2>2, <2>3, LineDoneIs
<1>5. UNCHANGED <<dead, known, name>>
  BY <1>2 DEF LineDone
<1> HIDE DEF Pops
<1> QED BY <1>1, <1>4, <1>5, QuietHandled

(* The offsets are written, all of them or the debugger ends.              *)
LEMMA OffsetsLineKeeps ==
  ASSUME WatchInv, ProcessTargetOffsetsLine
  PROVE  WatchInv'
PROOF
<1>1. dbg = "wait" /\ queue # <<>> /\ e.code = "TargetOffsets" /\ UNCHANGED processVars
  BY DEF ProcessTargetOffsetsLine, Handles
<1>2. e.t = Main /\ phase = "offsets" /\ Blocked(Main)
  <2>1. IsEvent(e) /\ Blocked(e.t)
    BY <1>1, FirstIs
  <2> QED BY <1>1, <2>1 DEF IsEvent
<1>3. offsets' \in 0..HookTargets /\ HookTargets \in Nat
  BY WatchAssumption DEF ProcessTargetOffsetsLine, WatchAssumption
<1>4. CASE offsets' < HookTargets
  <2>1. DebugFacilityOnDebugException
    BY <1>4 DEF ProcessTargetOffsetsLine
  <2> HIDE DEF WatchInv
  <2> QED BY <1>1, <1>2, <1>3, <2>1, StopKeeps
<1>5. CASE ~(offsets' < HookTargets)
  <2>1. LoadSymbols(dead) /\ UNCHANGED <<dead, known, name>> /\ UNCHANGED scheduled
    BY <1>5 DEF ProcessTargetOffsetsLine
  <2>2. offsets' = HookTargets
    BY <1>3, <1>5
  <2>3. ContinueDebugEvent /\ dbg' = "wait" /\ symbols' \in {"none", "ok", "failed"}
    <3>1. \A y \in dead \ dead : y \notin Mods \/ ~mod[y].linked
      OBVIOUS
    <3> HIDE DEF WatchInv
    <3> QED BY <1>1, <2>1, <3>1, SymbolsRead
  <2>4. Pops
    BY <1>1, <2>2, <2>3 DEF Pops, processVars
  <2>5. WatchTypeOK'
    BY <1>1, <1>3, <2>1, <2>3 DEF WatchInv, WatchTypeOK, processVars
  <2> HIDE DEF WatchInv, Pops
  <2> QED BY <1>1, <2>1, <2>4, <2>5, QuietHandled
<1> QED BY <1>4, <1>5
-----------------------------------------------------------------------------
(* Nodes without modules.                                                  *)

\* The thread that emptied a node, and has not freed it yet.
Empties(t) == pc[t].at \in {"merged", "unloading", "destroying"}

\* A node without modules is about to be destroyed.
EmptyNodes ==
  \A k \in nodes : list[k] = <<>> => \E t \in Threads : Empties(t) /\ pc[t].n = k

(* A step of one thread, which empties no node but its own.                *)
LEMMA EmptyKept ==
  ASSUME EmptyNodes, NEW t \in Threads, \A u \in Threads \ {t} : pc'[u] = pc[u],
         \A k \in nodes' : list'[k] = <<>> =>
           \/ k \in nodes /\ list[k] = <<>>
           \/ Empties(t)' /\ pc'[t].n = k,
         Empties(t) /\ pc[t].n \in nodes' /\ list'[pc[t].n] = <<>> =>
           Empties(t)' /\ pc'[t].n = pc[t].n
  PROVE  EmptyNodes'
PROOF
<1>1. SUFFICES ASSUME NEW k \in nodes', list'[k] = <<>>
               PROVE  \E u \in Threads : Empties(u)' /\ pc'[u].n = k
  BY DEF EmptyNodes
<1>2. CASE Empties(t)' /\ pc'[t].n = k
  BY <1>2
<1>3. CASE k \in nodes /\ list[k] = <<>>
  <2>1. PICK u \in Threads : Empties(u) /\ pc[u].n = k
    BY <1>3 DEF EmptyNodes
  <2>2. CASE u = t
    BY <1>1, <2>1, <2>2
  <2>3. CASE u # t
    BY <2>1, <2>3 DEF Empties
  <2> QED BY <2>2, <2>3
<1> QED BY <1>1, <1>2, <1>3

(* Most steps leave the lists alone.                                       *)
LEMMA EmptySame ==
  ASSUME EmptyNodes, LoaderTypes, NEW t \in Threads, UNCHANGED <<list, nodes>>,
         NEW s, pc' = [pc EXCEPT ![t] = s],
         Empties(t) => list[pc[t].n] # <<>> \/ (s.at = "destroying" /\ s.n = pc[t].n)
  PROVE  EmptyNodes'
PROOF
<1>1. pc'[t] = s /\ \A u \in Threads \ {t} : pc'[u] = pc[u]
  BY DEF LoaderTypes
<1>2. Empties(t) /\ list'[pc[t].n] = <<>> => Empties(t)' /\ pc'[t].n = pc[t].n
  BY <1>1 DEF Empties
<1> QED BY <1>1, <1>2, EmptyKept

(* A new node has the new module; a merged one is emptied by its thread.   *)
LEMMA EmptyAllocated ==
  ASSUME EmptyNodes, LoaderTypes, NEW t \in Threads, HookLdrpAllocateModuleEntry(t)
  PROVE  EmptyNodes'
PROOF
<1>1. PICK x \in {y \in Mods : mod[y] = NULL}, k \in Nodes \ nodes,
           c \in {d \in Ctxs : entry[d] = NULL} \cup {NULL} :
        /\ mod' = [mod EXCEPT ![x] = NewEntry(k, c)]
        /\ nodes' = nodes \cup {k}
        /\ list' = [list EXCEPT ![k] = <<x>>]
        /\ named' = [named EXCEPT ![k] = {}]
        /\ entry' = [d \in Ctxs |-> IF d = c THEN x ELSE entry[d]]
        /\ pc' = [pc EXCEPT ![t] = [at |-> IF c = NULL THEN "contextless" ELSE "allocated",
                                    m |-> x, n |-> NULL, o |-> c]]
        /\ dbgprint(t, "AllocateModuleEntry", x)
  BY DEF HookLdrpAllocateModuleEntry
<1>2. \A u \in Threads \ {t} : pc'[u] = pc[u]
  BY <1>1 DEF LoaderTypes
<1>3. <<x>> # <<>>
  BY SetOfSeq
<1>4. \A j \in nodes' : list'[j] = <<>> => j \in nodes /\ list[j] = <<>>
  BY <1>1, <1>3 DEF LoaderTypes
<1>5. ~Empties(t)
  BY DEF HookLdrpAllocateModuleEntry, At, Empties
<1> HIDE <1>1
<1> QED BY <1>2, <1>4, <1>5, EmptyKept

LEMMA EmptyMerged ==
  ASSUME EmptyNodes, Loader, NEW t \in Threads, LdrpMergeNodes(t)
  PROVE  EmptyNodes'
PROOF
<1>1. PICK k, root : k = pc[t].n /\ root = pc[t].o
  OBVIOUS
<1>2. /\ list' = [list EXCEPT ![root] = @ \o list[k], ![k] = <<>>] /\ UNCHANGED nodes
      /\ pc[t].at = "merging" /\ Goto(t, "merged")
  BY <1>1 DEF LdrpMergeNodes, At
<1>3. LoaderTypes /\ Loaded(root) /\ Loaded(k) /\ k # root
  BY <1>1, <1>2 DEF Loader, Condenses, Condensing
<1>4. root \in Nodes /\ k \in Nodes /\ list[root] # <<>> /\ nodes \subseteq Nodes
  BY <1>3 DEF Loaded, LoaderTypes
<1>5. /\ \A u \in Threads \ {t} : pc'[u] = pc[u]
      /\ pc'[t].at = "merged" /\ pc'[t].n = k
  BY <1>1, <1>2, <1>3, GotoIs DEF Places, Condensing
<1>6. list[root] \o list[k] # <<>>
  <2>1. list[root] \in Seq(Mods) /\ list[k] \in Seq(Mods)
    BY <1>3, <1>4 DEF LoaderTypes
  <2>2. Len(list[root] \o list[k]) = Len(list[root]) + Len(list[k]) /\ Len(list[root]) > 0
    BY <1>4, <2>1
  <2>3. Len(<<>>) = 0 /\ Len(list[k]) \in Nat /\ Len(list[root]) \in Nat
    BY <2>1
  <2> QED BY <2>2, <2>3
<1>7. /\ list'[root] = list[root] \o list[k]
      /\ \A j \in Nodes : j # root /\ j # k => list'[j] = list[j]
  BY <1>2, <1>3, <1>4 DEF LoaderTypes
<1>8. \A j \in nodes' : list'[j] = <<>> =>
        \/ j \in nodes /\ list[j] = <<>>
        \/ Empties(t)' /\ pc'[t].n = j
  BY <1>2, <1>4, <1>5, <1>6, <1>7 DEF Empties
<1>9. ~Empties(t)
  BY <1>2 DEF Empties
<1> HIDE <1>2
<1> QED BY <1>5, <1>8, <1>9, EmptyKept

(* The last module of a node goes; the node itself goes.                   *)
LEMMA EmptyUnmapped ==
  ASSUME EmptyNodes, LoaderTypes, NEW t \in Threads, LdrpUnmapModule(t)
  PROVE  EmptyNodes'
PROOF
<1>1. /\ list' = [list EXCEPT ![pc[t].n] = Tail(@)] /\ UNCHANGED nodes
      /\ pc[t].at = "unmapping" /\ Goto(t, "unloading")
  BY DEF LdrpUnmapModule, At
<1>2. /\ \A u \in Threads \ {t} : pc'[u] = pc[u]
      /\ pc'[t].at = "unloading" /\ pc'[t].n = pc[t].n
  BY <1>1, GotoIs DEF Places, Unloading
<1>3. \A j \in Nodes : j # pc[t].n => list'[j] = list[j]
  BY <1>1 DEF LoaderTypes
<1>4. \A j \in nodes' : list'[j] = <<>> =>
        \/ j \in nodes /\ list[j] = <<>>
        \/ Empties(t)' /\ pc'[t].n = j
  BY <1>1, <1>2, <1>3 DEF Empties, LoaderTypes
<1>5. ~Empties(t)
  BY <1>1 DEF Empties
<1> HIDE <1>1
<1> QED BY <1>2, <1>4, <1>5, EmptyKept

LEMMA EmptyDestroyed ==
  ASSUME EmptyNodes, LoaderTypes, NEW t \in Threads, LdrpDestroyNode(t)
  PROVE  EmptyNodes'
PROOF
<1>1. nodes' = nodes \ {pc[t].n} /\ UNCHANGED list
  BY DEF LdrpDestroyNode
<1>2. \A u \in Threads \ {t} : pc'[u] = pc[u]
  BY DEF LdrpDestroyNode, Goto, LoaderTypes
<1> QED BY <1>1, <1>2, EmptyKept

(* All steps of a thread.                                                  *)
LEMMA EmptyStep ==
  ASSUME WatchInv, EmptyNodes, NEW t \in Threads, LoaderStep(t)
  PROVE  EmptyNodes'
PROOF
<1>1. Loader /\ LoaderTypes /\ LoaderNext(t)
  BY DEF WatchInv, Loader, LoaderStep
<1>2. ASSUME NEW a, Goto(t, a), UNCHANGED <<list, nodes>>,
             Empties(t) => list[pc[t].n] # <<>> \/ a = "destroying"
      PROVE  EmptyNodes'
  <2>1. PICK s : s = [pc[t] EXCEPT !.at = a]
    OBVIOUS
  <2>2. pc[t] \in ThreadState
    BY <1>1 DEF LoaderTypes
  <2>3. s.at = a /\ s.n = pc[t].n
    BY <2>1, <2>2 DEF ThreadState
  <2>4. pc' = [pc EXCEPT ![t] = s]
    BY <1>2, <2>1 DEF Goto
  <2> QED BY <1>1, <1>2, <2>3, <2>4, EmptySame
<1>3. CASE \/ HookLdrpMapDllWithSectionHandle(t) \/ LdrpMapDllWithSectionHandle(t)
           \/ HookLdrpFreeLoadContext(t) \/ HookLdrpMergeNodes(t)
           \/ HookLdrpDestroyNode(t)
  <2>1. /\ UNCHANGED <<list, nodes>>
        /\ \/ /\ pc[t].at \in {"allocated", "mapping", "mapped", "condensing"}
              /\ \E a : Goto(t, a)
           \/ Goto(t, "destroying")
    BY <1>3 DEF HookLdrpMapDllWithSectionHandle, LdrpMapDllWithSectionHandle,
                HookLdrpFreeLoadContext, HookLdrpMergeNodes, HookLdrpDestroyNode, At
  <2> QED BY <1>2, <2>1 DEF Empties
<1>4. CASE LdrpFreeLoadContext(t)
  <2>1. /\ UNCHANGED <<list, nodes>> /\ ~Empties(t)
        /\ \E s : pc' = [pc EXCEPT ![t] = s]
    BY <1>4 DEF LdrpFreeLoadContext, At, Empties
  <2> QED BY <1>1, <2>1, EmptySame
<1>5. CASE HookLdrpCondenseGraphRecurse(t) \/ LdrpUnloadNode(t)
  <2>1. UNCHANGED <<list, nodes>> /\ pc[t].at \in {"idle", "failed"}
    <3>1. CASE HookLdrpCondenseGraphRecurse(t)
      BY <3>1 DEF HookLdrpCondenseGraphRecurse, At
    <3>2. CASE LdrpUnloadNode(t)
      BY <3>2 DEF LdrpUnloadNode, At
    <3> QED BY <1>5, <3>1, <3>2
  <2>2. \/ \E k, root \in nodes :
             pc' = [pc EXCEPT ![t] = [Idle EXCEPT !.at = "condensing", !.n = k, !.o = root]]
        \/ \E k \in nodes : pc' = [pc EXCEPT ![t] = [Idle EXCEPT !.at = "unloading", !.n = k]]
    BY <1>5, Zenon DEF HookLdrpCondenseGraphRecurse, LdrpUnloadNode
  <2>3. \E s : pc' = [pc EXCEPT ![t] = s]
    BY <2>2, Zenon
  <2> QED BY <1>1, <2>1, <2>3, EmptySame DEF Empties
<1>6. CASE HookLdrpUnmapModule(t)
  <2>1. /\ UNCHANGED <<list, nodes>> /\ list[pc[t].n] # <<>>
        /\ \E s : pc' = [pc EXCEPT ![t] = s]
    BY <1>6 DEF HookLdrpUnmapModule, At
  <2> QED BY <1>1, <2>1, EmptySame
<1>7. CASE CondenseGraphRecurseExit(t)
  <2>1. UNCHANGED <<list, nodes>> /\ ~Empties(t)
    BY <1>7 DEF CondenseGraphRecurseExit, At, Empties
  <2>2. \/ Goto(t, "exited")
        \/ pc' = [pc EXCEPT ![t] = Idle]
    BY <1>7 DEF CondenseGraphRecurseExit
  <2> QED BY <1>1, <1>2, <2>1, <2>2, EmptySame
<1>8. CASE PrintOther(t)
  BY <1>8 DEF PrintOther, EmptyNodes, Empties
<1> QED BY <1>1, <1>3, <1>4, <1>5, <1>6, <1>7, <1>8, EmptyAllocated, EmptyMerged,
           EmptyUnmapped, EmptyDestroyed DEF LoaderNext

(* Every node the debugger still knows at a breakpoint has a name, or its  *)
(* first module is there to be read.                                       *)
LEMMA DanglingNamed ==
  ASSUME WatchInv, EmptyNodes, hooked, NEW k \in nodes \ dead, name[k] = NULL,
         \A u \in Threads : Announced(u) => mod[pc[u].m].node # k
  PROVE  list[k] # <<>> /\ Head(list[k]) \notin dead
PROOF
<1>1. Loader /\ LoaderTypes /\ Graph /\ DeadOrNew /\ NodeNames /\ k \in Nodes
  BY DEF WatchInv, Loader, LoaderTypes
<1>2. ASSUME list[k] = <<>> PROVE FALSE
  <2>1. PICK u \in Threads : Empties(u) /\ pc[u].n = k
    BY <1>2 DEF EmptyNodes
  <2>2. LosesModules(u) \/ Frees(u)
    BY <1>2, <2>1 DEF Empties, LosesModules, Frees
  <2> QED BY <1>1, <2>1, <2>2 DEF NodeNames, DeadOrNew
<1>3. PICK x : x = Head(list[k])
  OBVIOUS
<1>4. x \in ToSet(list[k]) /\ x \in Mods
  <2>1. list[k] \in Seq(Mods)
    BY <1>1 DEF LoaderTypes
  <2> QED BY <1>2, <1>3, <2>1, SetOfSeq
<1>5. mod[x] # NULL /\ mod[x].node = k
  BY <1>1, <1>4 DEF Graph
<1>6. ASSUME x \in dead PROVE FALSE
  <2>1. PICK u \in Threads : /\ pc[u].m = x
                             /\ Announced(u) \/ (pc[u].at = "unmapping" /\ ~Blocked(u))
    BY <1>1, <1>4, <1>5, <1>6 DEF DeadOrNew
  <2>2. CASE Announced(u)
    BY <1>5, <2>1, <2>2
  <2>3. CASE pc[u].at = "unmapping" /\ ~Blocked(u)
    <3>1. pc[u].n \in nodes /\ list[pc[u].n] # <<>> /\ x = Head(list[pc[u].n])
      BY <1>1, <2>1, <2>3 DEF Loader, Unloads, Unloading
    <3>2. pc[u].n \in Nodes /\ list[pc[u].n] \in Seq(Mods)
      BY <1>1, <3>1 DEF LoaderTypes
    <3>3. x \in ToSet(list[pc[u].n])
      BY <3>1, <3>2, SetOfSeq
    <3>4. pc[u].n = k
      BY <1>1, <1>4, <1>5, <3>2, <3>3 DEF Graph
    <3>5. name[pc[u].n] # NULL
      BY <1>1, <2>3 DEF NodeNames, LosesModules
    <3> QED BY <3>4, <3>5
  <2> QED BY <2>1, <2>2, <2>3
<1> QED BY <1>2, <1>3, <1>6

(* The graph is looked at, at a breakpoint, when there are symbols.        *)
LEMMA BreakpointKeeps ==
  ASSUME WatchInv, EmptyNodes, FacilityOnProcessBreakpoint
  PROVE  WatchInv'
PROOF
<1>1. /\ dbg = "wait" /\ queue # <<>> /\ e.code = "Breakpoint"
      /\ UNCHANGED processVars /\ UNCHANGED offsets
  BY DEF FacilityOnProcessBreakpoint, Handles
<1>2. PICK ns, ks : ns = DanglingNodes /\ ks = GraphNodes \cup Neighbours
  OBVIOUS
<1>3. /\ phase = "broke" /\ ns \subseteq nodes \ dead
      /\ \A u \in Threads : Announced(u) => mod[pc[u].m].node \notin ns
      /\ ~hooked => ns = {}
  BY <1>1, <1>2, BreakpointLine
<1>4. e = queue[1] /\ phase' = "broke"
  BY <1>1, <1>3, FirstIs DEF processVars
<1>5. /\ LoaderTypes /\ WatchTypeOK /\ Cache /\ NodeNames /\ nodes \subseteq Nodes
      /\ offsets \in 0..HookTargets /\ hooked \in BOOLEAN
  BY DEF WatchInv, Loader, LoaderTypes, WatchTypeOK
<1>6. offsets' \in 0..HookTargets /\ offsets' = offsets
  BY <1>1, <1>5
<1>7. CASE DebugFacilityOnDebugException
  <2> HIDE DEF WatchInv
  <2> QED BY <1>1, <1>6, <1>7, StopKeeps
<1>8. CASE /\ dbg' = "key" /\ known' = known \cup GraphNodes \cup Neighbours
           /\ Named(DanglingNodes) /\ UNCHANGED <<queue, dead, symbols, scheduled>>
  <2>1. \A k \in ks : /\ k \in nodes /\ k \notin dead
                      /\ \A u \in Threads : Announced(u) => mod[pc[u].m].node # k
    BY <1>2, GraphAlive
  <2>2. known' = known \cup ks /\ Named(ns)
    BY <1>2, <1>8
  <2>3. \A k \in ns : name[k] = NULL => list[k] # <<>> /\ Head(list[k]) \notin dead
    BY <1>3, DanglingNamed
  <2>4. hooked \/ ns = {}
    BY <1>3, <1>5
  <2>5. /\ name' \in [Nodes -> Names \cup {NULL, Garbage, DeadName}]
        /\ \A k \in Nodes : name[k] # NULL => name'[k] # NULL
        /\ \A k \in Nodes : name'[k] # NULL =>
              hooked /\ k \in nodes \ dead /\ name'[k] \in named[k]
    BY <1>3, <2>2, <2>3, <2>4, NamedIs
  <2>6. AtBreakpoint'
    BY <1>4, <1>8 DEF AtBreakpoint
  <2>7. /\ known' \subseteq Nodes
        /\ hooked => known' \subseteq nodes \cup dead
        /\ ~hooked /\ ~AtBreakpoint' => known' = {}
        /\ \A u \in Threads : Announced(u) => mod[pc[u].m].node \notin known' \ dead
    BY <1>5, <2>1, <2>2, <2>6 DEF WatchTypeOK, Cache
  <2>8. /\ UNCHANGED <<queue, dead, symbols, scheduled>>
        /\ dbg' \in {"exited", "key"}
        /\ dbg' = "key" => queue # <<>> /\ queue[1].code = "Breakpoint"
    BY <1>1, <1>4, <1>8
  <2> HIDE DEF WatchInv
  <2> QED BY <1>1, <1>6, <2>5, <2>7, <2>8, HoldKeeps
<1>9. CASE dbg' = "key" /\ UNCHANGED <<queue, dead, known, name, symbols, scheduled>>
  <2>1. AtBreakpoint'
    BY <1>4, <1>9 DEF AtBreakpoint
  <2>2. /\ known' \subseteq Nodes
        /\ hooked => known' \subseteq nodes \cup dead
        /\ ~hooked /\ ~AtBreakpoint' => known' = {}
        /\ \A u \in Threads : Announced(u) => mod[pc[u].m].node \notin known' \ dead
    BY <1>5, <1>9, <2>1 DEF WatchTypeOK, Cache
  <2>3. /\ name' \in [Nodes -> Names \cup {NULL, Garbage, DeadName}]
        /\ \A k \in Nodes : name[k] # NULL => name'[k] # NULL
        /\ \A k \in Nodes : name'[k] # NULL =>
              hooked /\ k \in nodes \ dead /\ name'[k] \in named[k]
    BY <1>5, <1>9 DEF WatchTypeOK, NodeNames
  <2>4. /\ UNCHANGED <<queue, dead, symbols, scheduled>>
        /\ dbg' \in {"exited", "key"}
        /\ dbg' = "key" => queue # <<>> /\ queue[1].code = "Breakpoint"
    BY <1>1, <1>4, <1>9
  <2> HIDE DEF WatchInv
  <2> QED BY <1>1, <1>6, <2>2, <2>3, <2>4, HoldKeeps
<1> QED BY <1>7, <1>8, <1>9 DEF FacilityOnProcessBreakpoint
-----------------------------------------------------------------------------
(* The theorems.                                                           *)

\* The whole inductive invariant.
DebuggerInv == WatchInv /\ EmptyNodes

(* The steps that are not a loader thread's leave the lists alone.         *)
LEMMA EmptyUnchanged ==
  ASSUME EmptyNodes, UNCHANGED mainVars
  PROVE  EmptyNodes'
PROOF
  BY DEF EmptyNodes, Empties, mainVars

(* Only the loader's threads change the memory of the process.             *)
LEMMA MemoryUnchanged ==
  ASSUME Next, ~\E t \in Threads : LoaderStep(t)
  PROVE  UNCHANGED mainVars
PROOF
<1>1. CASE HandleEvent
  BY <1>1 DEF HandleEvent, OnProcessCreated, FacilityOnProcessModuleLoad,
     ProcessTargetOffsetsLine, ProcessAllocateModuleEntryLine, ProcessDestroyNodeLine,
     ProcessMapDllWithSectionHandleLine, ProcessFreeLoadContextLine,
     ProcessUnmapModuleLine, ProcessCondenseGraphRecurseAnyLine,
     ProcessMergeNodesExitLine, OtherLine, FacilityOnProcessBreakpoint, OnExitProcess,
     Line, processVars
<1>2. CASE \/ DebugThread \/ ReadKey \/ MapKernelBase \/ OnProcessAttach
           \/ EnableDetours \/ DebuggerBreak \/ ExitProcess
  BY <1>2 DEF DebugThread, ReadKey, MapKernelBase, OnProcessAttach, EnableDetours,
     DebuggerBreak, ExitProcess, processVars
<1> QED BY <1>1, <1>2 DEF Next

(* A step that changes nothing.                                            *)
LEMMA WatchStutters ==
  ASSUME DebuggerInv, UNCHANGED vars
  PROVE  DebuggerInv'
PROOF
<1> USE DEF DebuggerInv, WatchInv
<1>1. /\ UNCHANGED <<mod, list, nodes, entry, edges, named, pc>> /\ UNCHANGED mainVars
      /\ UNCHANGED <<lock, queue, hooked, phase>>
      /\ UNCHANGED <<dbg, scheduled, dead, known, name, symbols, offsets>>
  BY DEF vars, loaderVars, watchVars, mainVars
<1>2. Loader'
  <2>1. Loader /\ queue' \in Seq(Event)
    BY <1>1 DEF Loader, LoaderTypes
  <2> QED BY <1>1, <2>1, LoaderSame
<1>3. \A u : Blocked(u)' <=> Blocked(u)
  BY <1>1 DEF Blocked
<1>4. Events'
  BY <1>1 DEF Events, IsEvent
<1>5. WatchTypeOK' /\ MainThread' /\ (AtBreakpoint' <=> AtBreakpoint)
  BY <1>1, <1>3 DEF WatchTypeOK, MainThread, AtBreakpoint
<1>6. \A t \in Threads : /\ Announced(t)' <=> Announced(t)
                         /\ Frees(t)' <=> Frees(t)
                         /\ LosesModules(t)' <=> LosesModules(t)
  BY <1>1, <1>3 DEF Announced, Frees, LosesModules
<1>7. DeadOrNew' /\ Cache' /\ NodeNames'
  BY <1>1, <1>3, <1>5, <1>6 DEF DeadOrNew, Cache, NodeNames
<1>8. EmptyNodes'
  BY <1>1, EmptyUnchanged
<1> QED BY <1>2, <1>4, <1>5, <1>7, <1>8

(* Every step keeps the invariant.                                         *)
LEMMA WatchNext ==
  ASSUME DebuggerInv, [Next]_vars
  PROVE  DebuggerInv'
PROOF
<1>1. WatchInv /\ EmptyNodes
  BY DEF DebuggerInv
<1>2. CASE \E t \in Threads : LoaderStep(t)
  <2>1. PICK t \in Threads : LoaderStep(t)
    BY <1>2
  <2> HIDE DEF WatchInv, EmptyNodes
  <2> QED BY <1>1, <2>1, LoaderStepKeeps, EmptyStep DEF DebuggerInv
<1>3. CASE Next /\ ~\E t \in Threads : LoaderStep(t)
  <2>1. EmptyNodes'
    BY <1>1, <1>3, MemoryUnchanged, EmptyUnchanged
  <2>2. \/ DebugThread \/ HandleEvent \/ ReadKey
        \/ MapKernelBase \/ OnProcessAttach \/ EnableDetours \/ DebuggerBreak \/ ExitProcess
    BY <1>3 DEF Next
  <2>3. FacilityOnProcessModuleLoad => WatchInv'
    BY <1>1, EventKeeps, NoHookKeeps
  <2>4. ProcessAllocateModuleEntryLine => WatchInv'
    BY <1>1, AllocateLineKeeps, ContextlessLineKeeps
  <2>5. WatchInv'
    BY <1>1, <2>2, <2>3, <2>4, CreateKeeps, MainKeeps, EventKeeps, OffsetsLineKeeps,
       DestroyLineKeeps, MapLineKeeps, FreeLineKeeps, UnmapLineKeeps,
       CondenseLineKeeps, MergeLineKeeps, OtherLineKeeps, BreakpointKeeps
    DEF HandleEvent
  <2> QED BY <2>1, <2>5 DEF DebuggerInv
<1> QED BY <1>2, <1>3, WatchStutters

(* The invariant of the debugger and the process it watches: who holds     *)
(* which structure of the loader, which event each thread waits for, and   *)
(* how the dead marks, the cached nodes and their names follow the memory. *)
THEOREM WatchInvariance == Spec => []DebuggerInv
PROOF
<1>1. WatchInit => DebuggerInv
  <2>1. WatchInit => EmptyNodes
    <3>1. <<Ntdll>> # <<>> /\ NtdllNode \in Nodes
      BY SetOfSeq, LoaderAssumption DEF LoaderAssumption
    <3> QED BY <3>1 DEF WatchInit, LoaderInit, EmptyNodes
  <2> QED BY <2>1, InitIs DEF DebuggerInv
<1> QED BY <1>1, WatchNext, PTL DEF Spec

(* The debugger's variables keep their types; no write of                  *)
(* ProcessTargetOffsetsLine goes past the end of TargetOffsets.            *)
THEOREM WatchTypeCorrect == Spec => []WatchTypeOK
PROOF
<1>1. DebuggerInv => WatchTypeOK
  BY DEF DebuggerInv, WatchInv
<1> QED BY <1>1, WatchInvariance, PTL

(* No handler reads a structure that is marked dead or freed, for any      *)
(* number of loader threads and however they reuse addresses:              *)
(* RemoteStruct.AssertNotDead never throws.                                *)
THEOREM ReadsAreLive == Spec => []HandlersReadLiveMemory
PROOF
<1>1. DebuggerInv => HandlersReadLiveMemory
  BY ReadsAlive DEF DebuggerInv
<1> QED BY <1>1, WatchInvariance, PTL

(* The name kept for a node is one its modules had since the node was      *)
(* allocated, and a node that dies still has one to print.                 *)
THEOREM NamesStayCurrent == Spec => []NamesAreCurrent
PROOF
<1>1. DebuggerInv => NamesAreCurrent
  BY NamesCurrent DEF DebuggerInv
<1> QED BY <1>1, WatchInvariance, PTL

(* EnableDetours runs only after the debugger wrote every offset.          *)
THEOREM OffsetsFirst == Spec => []OffsetsBeforeHooks
PROOF
<1>1. DebuggerInv => OffsetsBeforeHooks
  BY DEF DebuggerInv, WatchInv, MainThread, OffsetsBeforeHooks
<1> QED BY <1>1, WatchInvariance, PTL
=============================================================================
