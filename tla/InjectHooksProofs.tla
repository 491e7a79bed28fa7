-------------------------- MODULE InjectHooksProofs --------------------------
(***************************************************************************)
(* What NtDllMain promises (LoaderWatch.Inject), for any number of hooks   *)
(* on any pages and any place of the trampolines.                          *)
(*                                                                         *)
(* The library keeps its own invariant whoever calls it; the one of the    *)
(* hook DLL adds which hooks the transaction of EnableDetours or           *)
(* DisableDetours has named so far, and what their pointers are between    *)
(* the two.                                                                *)
(***************************************************************************)
EXTENDS InjectHooks, DetoursProofs

\* Nothing is detoured and no trampoline memory is held.
Untouched ==
  /\ phase = "idle" /\ regions = <<>>
  /\ \A h \in Hooks : ptr[h] = NULL

\* The hooks that come before the next one are named in the transaction.
NamedSoFar ==
  \A i \in 1..Len(Order) : i < next =>
    \E k \in 1..Len(ops) : ops[k].hook = Order[i]

\* Inside EnableDetours (remove is FALSE) and DisableDetours (TRUE).
InTransaction(remove) ==
  /\ ~NDEBUG /\ ~failed /\ next > 0
  /\ phase \in {"open", "apply", "finish"}
  /\ \A k \in 1..Len(ops) : ops[k].remove <=> remove
  /\ phase # "finish" => NamedSoFar
  /\ phase # "open" => next > Len(Order)
  /\ phase = "finish" => \A h \in Hooks : ptr[h] = NULL <=> remove

\* Where NtDllMain can be.
DllPhases ==
  /\ dll \in {"out", "enabling", "on", "disabling", "off", "aborted"}
  /\ NDEBUG \in BOOLEAN /\ next \in Nat
  /\ NDEBUG => dll \in {"out", "on", "off"}
  /\ NDEBUG \/ dll \in {"out", "off"} => Untouched
  /\ dll = "enabling" => InTransaction(FALSE)
  /\ dll = "disabling" => InTransaction(TRUE)
  /\ dll = "on" /\ ~NDEBUG => phase = "idle" /\ \A h \in Hooks : ptr[h] # NULL

\* A commit that detached something looks for regions to release.
Releases ==
  /\ Hooks = {} => regions = <<>>
  /\ dll = "disabling" /\ phase = "finish" => freed \/ ops # <<>> \/ Hooks = {}

HooksInv == DetoursInv /\ DllPhases /\ Releases
-----------------------------------------------------------------------------
(* Steps of the library as NtDllMain makes them.                           *)

(* The hook that is next.                                                  *)
LEMMA NextHook ==
  ASSUME DllPhases, dll \in {"enabling", "disabling"}, next <= Len(Order)
  PROVE  next \in 1..Len(Order) /\ Order[next] \in Hooks
PROOF
<1>1. next \in Nat /\ next > 0
  BY DEF DllPhases, InTransaction
<1>2. Order \in Seq(Hooks)
  BY HooksAssumption DEF HooksAssumption
<1>3. next \in 1..Len(Order)
  <2> DEFINE n == Len(Order)
  <2>1. n \in Nat /\ next <= n
    BY <1>2
  <2> HIDE DEF n
  <2>2. next \in 1..n
    BY <1>1, <2>1
  <2> QED BY <2>2 DEF n
<1> QED BY <1>2, <1>3

(* The positions of the hooks.                                             *)
LEMMA OrderIs ==
  /\ Len(Order) \in Nat
  /\ \A h \in Hooks : \E i \in 1..Len(Order) : Order[i] = h
PROOF
  BY HooksAssumption DEF HooksAssumption, ToSet

(* A step of NtDllMain changes the library through its calls only.         *)
LEMMA LibraryKept ==
  ASSUME HooksInv, [HooksNext]_allVars
  PROVE  DetoursInv'
PROOF
<1> USE DEF HooksInv
<1>1. CASE UNCHANGED vars
  BY <1>1, StutterPreserves
<1>2. ASSUME NEW t \in Threads, NEW from, NEW to,
             BeginDetours(t, from, to) \/ CommitDetours(t, from, to)
      PROVE  DetoursInv'
  BY <1>2, CallPreserves, EndPreserves DEF BeginDetours, CommitDetours
<1>3. ASSUME NEW t \in Threads, AttachNext(t) \/ DetachNext(t)
      PROVE  DetoursInv'
  <2>1. CASE AttachNext(t)
    BY <2>1, NextHook, CallPreserves DEF AttachNext
  <2>2. CASE DetachNext(t)
    BY <2>2, NextHook, CallPreserves DEF DetachNext
  <2> QED BY <1>3, <2>1, <2>2
<1> QED BY <1>1, <1>2, <1>3 DEF HooksNext, EnableDetours, DisableDetours,
      ReleaseEnable, ReleaseDisable, allVars

(* BeginDetours starts a transaction that names nothing.                   *)
LEMMA BeginHooks ==
  ASSUME HooksInv, NEW t \in Threads, NEW from, NEW to, BeginDetours(t, from, to),
         ~failed', NEW remove \in BOOLEAN
  PROVE  InTransaction(remove)' /\ phase' = "open" /\ regions' = regions
PROOF
<1>1. /\ ~NDEBUG' /\ phase' = "open" /\ ops' = <<>> /\ next' = 1 /\ regions' = regions
  BY DEF BeginDetours, AssertNoError, DetourTransactionBegin
<1>2. Len(ops') = 0
  BY <1>1
<1>3. \A i \in 1..Len(Order) : ~(i < 1)
  BY OrderIs
<1> QED BY <1>1, <1>2, <1>3 DEF InTransaction, NamedSoFar

(* A call that names the next hook.                                        *)
LEMMA NameHook ==
  ASSUME HooksInv, NEW t \in Threads, NEW remove \in BOOLEAN,
         InTransaction(remove), next \in 1..Len(Order), NEW x,
         Collecting(t, Order[next]), Push(remove, Order[next], x),
         next' = next + 1, NDEBUG' = NDEBUG
  PROVE  InTransaction(remove)'
PROOF
<1> DEFINE e == [remove |-> remove, hook |-> Order[next], at |-> x,
                 perm |-> perm[PageOf[Order[next]]]]
<1>1. /\ ops' = <<e>> \o ops /\ phase = "open" /\ phase' = "open"
      /\ ~failed' /\ next' > 0 /\ ~NDEBUG'
  BY DEF Push, Collecting, InTransaction, HooksInv, DllPhases
<1>2. e.remove = remove /\ e.hook = Order[next]
  OBVIOUS
<1> HIDE DEF e
<1>3. /\ ops \in Seq(ToSet(ops) \cup {e}) /\ e \in ToSet(ops) \cup {e}
  <2>1. ops \in Seq(Operation)
    BY DEF HooksInv, DetoursInv, TypeOK
  <2>2. DOMAIN ops = 1..Len(ops) /\ Len(ops) \in Nat
    BY <2>1
  <2> QED BY <2>1, <2>2 DEF ToSet
<1>4. PICK u : u = ops'
  OBVIOUS
<1>5. /\ u[1] = e /\ Len(u) = Len(ops) + 1
      /\ \A k \in 1..Len(ops) : k + 1 \in 1..Len(u) /\ u[k + 1] = ops[k]
      /\ \A k \in 1..Len(u) : k = 1 \/ (k - 1 \in 1..Len(ops) /\ u[k] = ops[k - 1])
  BY <1>1, <1>3, <1>4, Prepended
<1>6. \A k \in 1..Len(u) : u[k].remove <=> remove
  BY <1>2, <1>5 DEF InTransaction
<1>7. ASSUME NEW i \in 1..Len(Order), i < next + 1
      PROVE  \E k \in 1..Len(u) : u[k].hook = Order[i]
  <2>1. CASE i = next
    <3>1. 1 \in 1..Len(u)
      BY <1>5, OpsTyped DEF HooksInv
    <3> QED BY <1>2, <1>5, <2>1, <3>1
  <2>2. CASE i < next
    <3>1. PICK k \in 1..Len(ops) : ops[k].hook = Order[i]
      BY <1>1, <2>2 DEF InTransaction, NamedSoFar
    <3> QED BY <1>5, <3>1
  <2>3. i = next \/ i < next
    BY <1>7 DEF HooksInv, DllPhases
  <2> QED BY <2>1, <2>2, <2>3
<1>8. NamedSoFar'
  <2>1. \A i \in 1..Len(Order) : i < next' =>
          \E k \in 1..Len(ops') : ops'[k].hook = Order[i]
    BY <1>4, <1>7
  <2> QED BY <2>1 DEF NamedSoFar
<1> QED BY <1>1, <1>4, <1>6, <1>8 DEF InTransaction

(* The regions without trampolines in use are all released.                *)
LEMMA RegionsGo ==
  ASSUME DetoursInv, FreeUnusedRegions, \A r \in ToSet(regions) : RegionEmpty(r)
  PROVE  regions' = <<>>
PROOF
<1>1. PICK u : u = regions'
  OBVIOUS
<1>2. u \in Seq(Regions) /\ ToSet(u) = {}
  BY <1>1, FreeUnusedIs
<1>3. DOMAIN u = 1..Len(u) /\ Len(u) \in Nat
  BY <1>2
<1>4. Len(u) = 0
  <2>1. DOMAIN u = {}
    BY <1>2, Zenon DEF ToSet
  <2> QED BY <1>3, <2>1
<1> QED BY <1>1, <1>2, <1>4

(* The commit begins.                                                      *)
LEMMA DecideHooks ==
  ASSUME HooksInv, NEW t \in Threads, NEW remove \in BOOLEAN,
         InTransaction(remove), next > Len(Order), DetourTransactionCommit(t),
         UNCHANGED hookVars
  PROVE  InTransaction(remove)' /\ phase' = "apply" /\ regions' = regions
PROOF
<1>1. /\ phase = "open" /\ phase' = "apply" /\ ~failed' /\ regions' = regions
      /\ next' = next /\ ops' = ops /\ ~NDEBUG'
  BY DEF DetourTransactionCommit, InTransaction, hookVars, memVars
<1>2. NamedSoFar'
  BY <1>1 DEF InTransaction, NamedSoFar
<1> QED BY <1>1, <1>2 DEF InTransaction

(* The commit goes on, and ends with all hooks attached or all detached.   *)
LEMMA EndHooks ==
  ASSUME HooksInv, DetoursInv', NEW remove \in BOOLEAN,
         InTransaction(remove), next > Len(Order), EndStep,
         UNCHANGED <<NDEBUG, next>>,
         remove /\ phase = "finish" => freed \/ ops # <<>> \/ Hooks = {}
  PROVE  /\ phase' # "idle" => InTransaction(remove)'
         /\ phase' = "idle" => \A h \in Hooks : ptr'[h] = NULL <=> remove
         /\ phase' = "idle" /\ remove => regions' = <<>>
         /\ remove /\ phase' = "finish" => freed' \/ ops' # <<>> \/ Hooks = {}
         /\ Hooks = {} => regions' = <<>>
PROOF
<1>1. /\ ~NDEBUG' /\ ~failed /\ phase \in {"open", "apply", "finish"}
      /\ next' = next /\ next > 0 /\ DetoursInv
      /\ \A k \in 1..Len(ops) : ops[k].remove <=> remove
  BY DEF InTransaction, HooksInv
<1>2. \A i \in 1..Len(Order) : i < next
  <2>1. Len(Order) \in Nat /\ next \in Nat
    BY OrderIs DEF HooksInv, DllPhases
  <2> QED BY <2>1
<1>3. CASE ApplyOperation
  <2>1. /\ phase = "apply" /\ ops' = ops /\ ~failed' /\ regions' = regions
        /\ phase' \in {"apply", "finish"}
    BY <1>1, <1>3 DEF ApplyOperation, memVars
  <2>2. NamedSoFar /\ NamedSoFar'
    BY <1>1, <2>1 DEF InTransaction, NamedSoFar
  <2>3. ASSUME NEW h \in Hooks
        PROVE  \E k \in 1..Len(ops) : ops[k].hook = h
    BY <1>2, <2>2, OrderIs DEF NamedSoFar
  <2>4. ASSUME phase' = "finish", NEW h \in Hooks
        PROVE  ptr'[h] = NULL <=> remove
    <3>1. PICK k \in 1..Len(ops) : ops[k].hook = h
      BY <2>3
    <3>2. ops'[k] = ops[k] /\ k \in 1..Len(ops') /\ Applied(k)'
      BY <2>1, <2>4 DEF Applied
    <3>3. ptr'[h] = IF ops[k].remove THEN NULL ELSE ops[k].at
      BY <3>1, <3>2 DEF DetoursInv, OpsApplied
    <3>4. ops[k].at # NULL
      BY <1>1, OpsTyped, ConstantsAre
    <3> QED BY <1>1, <3>3, <3>4
  <2>5. ops # <<>> \/ Hooks = {}
    BY <2>3
  <2>6. Hooks = {} => regions' = <<>>
    BY <2>1 DEF HooksInv, Releases
  <2>7. InTransaction(remove)'
    BY <1>1, <2>1, <2>2, <2>4 DEF InTransaction
  <2> QED BY <2>1, <2>5, <2>6, <2>7
<1>4. CASE phase = "finish" /\ PopOperation(TRUE)
  <2>1. /\ phase' = "finish" /\ ~failed' /\ ptr' = ptr /\ regions' = regions
        /\ ops # <<>> /\ ops' = Tail(ops)
        /\ freed' = (freed \/ (TRUE /\ Head(ops).remove))
    BY <1>1, <1>4 DEF PopOperation
  <2>2. ops \in Seq(Operation)
    BY <1>1 DEF DetoursInv, TypeOK
  <2>3. PICK u : u = ops'
    OBVIOUS
  <2>4. /\ Head(ops) = ops[1] /\ 1 \in 1..Len(ops)
        /\ \A i \in 1..Len(u) : i + 1 \in 1..Len(ops) /\ u[i] = ops[i + 1]
    BY <2>1, <2>2, <2>3, TailIs
  <2>5. remove => freed'
    BY <1>1, <2>1, <2>4
  <2>6. \A k \in 1..Len(u) : u[k].remove <=> remove
    BY <1>1, <2>4
  <2>7. InTransaction(remove)'
    BY <1>1, <1>4, <2>1, <2>3, <2>6 DEF InTransaction
  <2> QED BY <2>1, <2>5, <2>7 DEF HooksInv, Releases
<1>5. CASE phase = "finish" /\ EndTransaction(TRUE)
  <2>1. /\ phase' = "idle" /\ ptr' = ptr /\ ops = <<>>
        /\ IF freed THEN FreeUnusedRegions ELSE regions' = regions
    BY <1>5 DEF EndTransaction, codeVars
  <2>2. \A h \in Hooks : ptr'[h] = NULL <=> remove
    BY <1>5, <2>1 DEF InTransaction
  <2>3. ASSUME Hooks = {} \/ remove
        PROVE  \A r \in ToSet(regions) : RegionEmpty(r)
    <3>1. \A h \in Hooks : ptr[h] = NULL
      BY <2>1, <2>2, <2>3
    <3>2. \A x \in Trampolines : tramp[x] = Blank
      <4>1. Len(ops) = 0
        BY <2>1
      <4>2. \A x \in Trampolines : x # NULL
        BY ConstantsAre
      <4> QED BY <1>1, <3>1, <4>1, <4>2 DEF DetoursInv, TrampolinesServe
    <3>3. \A r \in ToSet(regions) : r \in Regions
      BY <1>1 DEF DetoursInv, TypeOK, ToSet
    <3> QED BY <3>2, <3>3 DEF RegionEmpty, Trampolines
  <2>4. CASE freed
    BY <1>1, <2>1, <2>2, <2>3, <2>4, RegionsGo
  <2>5. CASE ~freed
    BY <1>5, <2>1, <2>2, <2>5 DEF HooksInv, Releases
  <2> QED BY <2>4, <2>5
<1> QED BY <1>1, <1>3, <1>4, <1>5 DEF EndStep
-----------------------------------------------------------------------------
(* The invariant.                                                          *)

(* Before the DLL is attached to the process.                              *)
LEMMA HooksInitially == HooksInit => HooksInv
PROOF
<1>1. HooksInit => DetoursInv
  BY DetoursInitially DEF HooksInit
<1>2. HooksInit => DllPhases /\ Releases
  BY DEF HooksInit, Init, DllPhases, Releases, Untouched
<1> QED BY <1>1, <1>2 DEF HooksInv

(* Nothing but a call that attaches a hook maps a region.                  *)
LEMMA RegionsFromHooks ==
  ASSUME HooksInv, NEW t \in Threads, AttachNext(t) \/ DetachNext(t)
  PROVE  Hooks # {}
PROOF
  BY NextHook DEF HooksInv, AttachNext, DetachNext

(* OnProcessAttach preserves the invariant.                                *)
LEMMA EnableStep ==
  ASSUME HooksInv, NEW t \in Threads, EnableDetours(t), DetoursInv'
  PROVE  HooksInv'
PROOF
<1> USE DEF HooksInv
<1>1. CASE ReleaseEnable
  BY <1>1 DEF ReleaseEnable, DllPhases, Releases, Untouched, vars, txVars,
       memVars, codeVars
<1>2. CASE BeginDetours(t, "out", "enabling")
  <2>1. /\ dll' = IF failed' THEN "aborted" ELSE "enabling"
        /\ NDEBUG' = NDEBUG /\ ~NDEBUG /\ next' = 1 /\ regions' = regions
    BY <1>2 DEF BeginDetours, AssertNoError, DetourTransactionBegin
  <2>2. ~failed' => InTransaction(FALSE)'
    BY <1>2, BeginHooks
  <2>3. DllPhases'
    BY <2>1, <2>2 DEF DllPhases
  <2>4. Releases'
    BY <2>1 DEF Releases
  <2> QED BY <2>3, <2>4
<1>3. CASE AttachNext(t)
  <2>1. /\ dll = "enabling" /\ InTransaction(FALSE) /\ Hooks # {}
        /\ next \in 1..Len(Order) /\ next' = next + 1 /\ NDEBUG' = NDEBUG
        /\ ~NDEBUG /\ dll' = IF failed' THEN "aborted" ELSE "enabling"
        /\ DetourAttach(t, Order[next])
    BY <1>3, NextHook, RegionsFromHooks
      DEF AttachNext, DllPhases, AssertNoError, InTransaction
  <2>2. \/ failed'
        \/ \E x \in Trampolines : Push(FALSE, Order[next], x)
    BY <2>1 DEF DetourAttach, OperationFails
  <2>3. ~failed' => InTransaction(FALSE)'
    <3>1. Collecting(t, Order[next])
      BY <2>1 DEF DetourAttach
    <3> QED BY <2>1, <2>2, <3>1, NameHook
  <2>4. next' \in Nat
    BY <2>1 DEF DllPhases
  <2>5. DllPhases'
    BY <2>1, <2>3, <2>4 DEF DllPhases
  <2>6. Releases'
    BY <2>1 DEF Releases
  <2> QED BY <2>5, <2>6
<1>4. CASE CommitDetours(t, "enabling", "on")
  <2>1. /\ dll = "enabling" /\ InTransaction(FALSE) /\ next > Len(Order)
        /\ NDEBUG' = NDEBUG /\ ~NDEBUG /\ next' = next
    BY <1>4 DEF CommitDetours, DllPhases, InTransaction, hookVars
  <2>2. CASE DetourTransactionCommit(t) /\ UNCHANGED hookVars
    <3>1. InTransaction(FALSE)' /\ phase' = "apply" /\ regions' = regions
      BY <2>1, <2>2, DecideHooks
    <3>2. dll' = dll
      BY <2>2 DEF hookVars
    <3>3. DllPhases'
      BY <2>1, <3>1, <3>2 DEF DllPhases
    <3>4. Releases'
      BY <3>1, <3>2 DEF Releases
    <3> QED BY <3>3, <3>4
  <2>3. CASE EndStep /\ dll' = IF phase' = "idle" THEN "on" ELSE "enabling"
    <3>1. /\ phase' # "idle" => InTransaction(FALSE)'
          /\ phase' = "idle" => \A h \in Hooks : ptr'[h] # NULL
          /\ Hooks = {} => regions' = <<>>
      BY <2>1, <2>3, EndHooks
    <3>2. DllPhases'
      BY <2>1, <2>3, <3>1 DEF DllPhases
    <3>3. Releases'
      BY <2>3, <3>1 DEF Releases
    <3> QED BY <3>2, <3>3
  <2> QED BY <1>4, <2>2, <2>3 DEF CommitDetours
<1> QED BY <1>1, <1>2, <1>3, <1>4 DEF EnableDetours

(* OnProcessDetach preserves the invariant.                                *)
LEMMA DisableStep ==
  ASSUME HooksInv, NEW t \in Threads, DisableDetours(t), DetoursInv'
  PROVE  HooksInv'
PROOF
<1> USE DEF HooksInv
<1>1. CASE ReleaseDisable
  BY <1>1 DEF ReleaseDisable, DllPhases, Releases, Untouched, vars, txVars,
       memVars, codeVars
<1>2. CASE BeginDetours(t, "on", "disabling")
  <2>1. /\ dll' = IF failed' THEN "aborted" ELSE "disabling"
        /\ NDEBUG' = NDEBUG /\ ~NDEBUG /\ next' = 1 /\ regions' = regions
        /\ phase' = "open"
    BY <1>2 DEF BeginDetours, AssertNoError, DetourTransactionBegin
  <2>2. ~failed' => InTransaction(TRUE)'
    BY <1>2, BeginHooks
  <2>3. DllPhases'
    BY <2>1, <2>2 DEF DllPhases
  <2>4. Releases'
    BY <2>1 DEF Releases
  <2> QED BY <2>3, <2>4
<1>3. CASE DetachNext(t)
  <2>1. /\ dll = "disabling" /\ InTransaction(TRUE) /\ Hooks # {}
        /\ next \in 1..Len(Order) /\ next' = next + 1 /\ NDEBUG' = NDEBUG
        /\ ~NDEBUG /\ dll' = IF failed' THEN "aborted" ELSE "disabling"
        /\ DetourDetach(t, Order[next])
    BY <1>3, NextHook, RegionsFromHooks
      DEF DetachNext, DllPhases, AssertNoError, InTransaction
  <2>2. /\ failed' \/ Push(TRUE, Order[next], ptr[Order[next]])
        /\ Collecting(t, Order[next]) /\ phase' = "open"
    BY <2>1 DEF DetourDetach, OperationFails, Push, Collecting
  <2>3. ~failed' => InTransaction(TRUE)'
    <3>1. PICK x : x = ptr[Order[next]]
      OBVIOUS
    <3> QED BY <2>1, <2>2, <3>1, NameHook
  <2>4. next' \in Nat
    BY <2>1 DEF DllPhases
  <2>5. DllPhases'
    BY <2>1, <2>3, <2>4 DEF DllPhases
  <2>6. Releases'
    BY <2>1, <2>2 DEF Releases
  <2> QED BY <2>5, <2>6
<1>4. CASE CommitDetours(t, "disabling", "off")
  <2>1. /\ dll = "disabling" /\ InTransaction(TRUE) /\ next > Len(Order)
        /\ NDEBUG' = NDEBUG /\ ~NDEBUG /\ next' = next
    BY <1>4 DEF CommitDetours, DllPhases, InTransaction, hookVars
  <2>2. CASE DetourTransactionCommit(t) /\ UNCHANGED hookVars
    <3>1. InTransaction(TRUE)' /\ phase' = "apply" /\ regions' = regions
      BY <2>1, <2>2, DecideHooks
    <3>2. dll' = dll
      BY <2>2 DEF hookVars
    <3>3. DllPhases'
      BY <2>1, <3>1, <3>2 DEF DllPhases
    <3>4. Releases'
      BY <3>1, <3>2 DEF Releases
    <3> QED BY <3>3, <3>4
  <2>3. CASE EndStep /\ dll' = IF phase' = "idle" THEN "off" ELSE "disabling"
    <3>1. phase = "finish" => freed \/ ops # <<>> \/ Hooks = {}
      BY <2>1 DEF Releases
    <3>2. /\ phase' # "idle" => InTransaction(TRUE)'
          /\ phase' = "idle" => (\A h \in Hooks : ptr'[h] = NULL) /\ regions' = <<>>
          /\ phase' = "finish" => freed' \/ ops' # <<>> \/ Hooks = {}
          /\ Hooks = {} => regions' = <<>>
      BY <2>1, <2>3, <3>1, EndHooks DEF CommitDetours
    <3>3. DllPhases'
      BY <2>1, <2>3, <3>2 DEF DllPhases, Untouched
    <3>4. Releases'
      BY <3>2 DEF Releases
    <3> QED BY <3>3, <3>4
  <2> QED BY <1>4, <2>2, <2>3 DEF CommitDetours
<1> QED BY <1>1, <1>2, <1>3, <1>4 DEF DisableDetours

(* The invariant of the hook DLL and the library under it.                 *)
THEOREM HooksInvariance == HooksSpec => []HooksInv
PROOF
<1>1. ASSUME HooksInv, [HooksNext]_allVars PROVE HooksInv'
  <2>1. DetoursInv'
    BY <1>1, LibraryKept
  <2>2. CASE HooksNext
    BY <1>1, <2>1, <2>2, EnableStep, DisableStep DEF HooksNext
  <2>3. CASE UNCHANGED allVars
    <3>1. UNCHANGED <<NDEBUG, dll, next, phase, failed, ops, freed, regions, ptr>>
      BY <2>3 DEF allVars, vars, txVars, memVars, codeVars, hookVars
    <3>2. DllPhases' /\ Releases'
      BY <1>1, <3>1 DEF HooksInv, DllPhases, Releases, Untouched, InTransaction,
           NamedSoFar
    <3> QED BY <2>1, <3>2 DEF HooksInv
  <2> QED BY <1>1, <2>2, <2>3
<1>2. HooksInv /\ [HooksNext]_allVars => HooksInv'
  BY <1>1
<1> QED BY <1>2, HooksInitially, PTL DEF HooksSpec

(* In a build with asserts every target is detoured when OnProcessAttach   *)
(* is over.                                                                *)
THEOREM AssertBuildsHook == HooksSpec => []AssertsHook
PROOF
<1>1. HooksInv => AssertsHook
  BY DEF HooksInv, DetoursInv, DllPhases, AssertsHook, Hooked
<1> QED BY <1>1, HooksInvariance, PTL

(* After OnProcessDetach nothing of the DLL is left: no jump, no pointer   *)
(* and no region of trampolines.                                           *)
THEOREM DetachLeavesNothing == HooksSpec => []NothingLeft
PROOF
<1>1. HooksInv => NothingLeft
  BY DEF HooksInv, DetoursInv, DllPhases, Untouched, NothingLeft
<1> QED BY <1>1, HooksInvariance, PTL
=============================================================================
