------------------------------- MODULE Detours -------------------------------
(***************************************************************************)
(* The Detours library as the hook DLL is linked with it: the regions of   *)
(* trampolines and their free lists, and the transactions in which detours *)
(* are attached and detached.                                              *)
(*                                                                         *)
(* A hook is a target function, the detour for it and the pointer variable *)
(* through which the detour calls the original.  Targets are distinct, and *)
(* each lies on one page; a client attaches a hook that is not attached,   *)
(* detaches one that is, and names it once per transaction.  Calls with a  *)
(* NULL argument, and a detour that is its own target (DetourAttachEx then *)
(* adds no operation and returns NO_ERROR), are not made: the DLL gives    *)
(* each target a function of its own as the detour.                        *)
(***************************************************************************)
EXTENDS Integers, Sequences, FiniteSets, SequencesExt

CONSTANTS
  Threads,      \* threads that call the library
  Hooks,        \* the functions to detour
  Regions,      \* places where VirtualAlloc may find DETOUR_REGION_SIZE bytes
  PerRegion,    \* DETOUR_TRAMPOLINES_PER_REGION
  Near,         \* pairs <<hook, region>> within the reach of a jump
  PageOf,       \* the page of code that holds each target
  NULL

Pages == {PageOf[h] : h \in Hooks}
Slots == 0..(PerRegion - 1)
Trampolines == Regions \X Slots

ASSUME DetoursAssumption ==
  /\ IsFiniteSet(Hooks) /\ PerRegion \in Nat /\ PerRegion > 2
  /\ Near \subseteq Hooks \X Regions
  /\ DOMAIN PageOf = Hooks
  /\ NULL \notin Threads \cup Regions \cup Hooks \cup Trampolines

VARIABLES
  owner,     \* s_nPendingThreadId
  phase,     \* what the owner is doing: nothing, collecting, committing ...
  failed,    \* s_nPendingError is an error
  ops,       \* s_pPendingOperations, newest first
  cursor,    \* the operation that a commit applies next
  freed,     \* the local of DetourTransactionCommitEx
  regions,   \* s_pRegions, newest first
  default,   \* s_pRegion
  free,      \* the pFree list of every region
  tramp,     \* what each trampoline is for: a hook and the bytes it replaced
  rw,        \* the regions whose pages are writable
  code,      \* first bytes of each target: NULL (its own) or a jump
  ptr,       \* the pointer variables: NULL (the target) or a trampoline
  perm       \* protection of the code pages

txVars == <<owner, phase, failed, ops, cursor, freed>>
memVars == <<regions, default, free, tramp, rw>>
codeVars == <<code, ptr, perm>>
vars == <<txVars, memVars, codeVars>>

\* A trampoline that is free or was never used: pbRemain stays in its region.
Blank == [hook |-> NULL, restore |-> NULL]

Operation == [remove : BOOLEAN, hook : Hooks, at : Trampolines,
              perm : {"RX", "RWX"}]

Init ==
  /\ owner = NULL /\ phase = "idle" /\ failed = FALSE
  /\ ops = <<>> /\ cursor = 1 /\ freed = FALSE
  /\ regions = <<>> /\ default = NULL
  /\ free = [r \in Regions |-> <<>>]
  /\ tramp = [x \in Trampolines |-> Blank]
  /\ rw = {}
  /\ code = [h \in Hooks |-> NULL]
  /\ ptr = [h \in Hooks |-> NULL]
  /\ perm = [p \in Pages |-> "RX"]

-----------------------------------------------------------------------------
(***************************************************************************)
(* Trampoline memory.                                                      *)
(***************************************************************************)

\* Mutant: the indices of the new region are off by one.
NewFreeOffByOne == [k \in 1..(PerRegion - 2) |-> k + 2]

\* The free list of a new region: the loop stops before index 1.
NewFree == [k \in 1..(PerRegion - 2) |-> k + 1]

HasFree(h, r) == free[r] # <<>> /\ <<h, r>> \in Near

\* The region that detour_alloc_trampoline finds without allocating: the
\* default one (the newest, if there is none) or the first that has a block.
FoundRegion(h) ==
  LET d == IF default = NULL /\ regions # <<>> THEN Head(regions) ELSE default
      usable == {k \in DOMAIN regions : HasFree(h, regions[k])}
  IN  IF d # NULL /\ HasFree(h, d) THEN d
      ELSE IF usable = {} THEN NULL
      ELSE regions[CHOOSE k \in usable : \A j \in usable : k <= j]

UseRegion(r) ==
  /\ default' = r
  /\ UNCHANGED <<regions, rw>>

\* A new region goes to the front of the list; its pages are writable.
NewRegion(h, r) ==
  /\ r \in Regions \ ToSet(regions)
  /\ <<h, r>> \in Near
  /\ regions' = <<r>> \o regions
  /\ default' = r
  /\ rw' = rw \cup {r}

\* x is taken off the free list of its region and filled in for h.
AllocTrampoline(h, x) ==
  /\ tramp' = [tramp EXCEPT ![x] = [hook |-> h, restore |-> code[h]]]
  /\ IF FoundRegion(h) # NULL
     THEN /\ x[1] = FoundRegion(h)
          /\ UseRegion(x[1])
          /\ x[2] = Head(free[x[1]])
          /\ free' = [free EXCEPT ![x[1]] = Tail(@)]
     ELSE /\ NewRegion(h, x[1])
          /\ x[2] = Head(NewFree)
          /\ free' = [free EXCEPT ![x[1]] = Tail(NewFree)]

\* An attempt that gives its trampoline back, or found no memory at all.
AllocInVain(h) ==
  /\ UNCHANGED tramp
  /\ IF FoundRegion(h) # NULL
     THEN UseRegion(FoundRegion(h)) /\ UNCHANGED free
     ELSE \/ /\ default' = NULL
             /\ UNCHANGED <<regions, rw, free>>
          \/ \E r \in Regions : /\ NewRegion(h, r)
                                /\ free' = [free EXCEPT ![r] = NewFree]

\* Mutant: the head of the free list is not remembered.
FreeForgets(x) ==
  /\ tramp' = [tramp EXCEPT ![x] = Blank]
  /\ free' = [free EXCEPT ![x[1]] = <<x[2]>>]

\* detour_free_trampoline
FreeTrampoline(x) ==
  /\ tramp' = [tramp EXCEPT ![x] = Blank]
  /\ free' = [free EXCEPT ![x[1]] = <<x[2]>> \o @]

\* Mutant: a region counts as empty when nothing is left on its free list.
EmptyByFreeList(r) == Len(free[r]) = 1

RegionEmpty(r) == \A s \in Slots : tramp[<<r, s>>] = Blank

\* The positions K from the first to the last.
InOrder(K) ==
  {s \in [1..Cardinality(K) -> K] : \A i, j \in DOMAIN s : i < j => s[i] < s[j]}

\* detour_free_unused_trampoline_regions: the others stay, in their order.
FreeUnusedRegions ==
  /\ \E kept \in InOrder({k \in DOMAIN regions : ~RegionEmpty(regions[k])}) :
       regions' = [i \in DOMAIN kept |-> regions[kept[i]]]
  /\ default' = IF regions' = regions THEN default ELSE NULL
  /\ free' = [r \in Regions |-> IF r \in ToSet(regions') THEN free[r] ELSE <<>>]

-----------------------------------------------------------------------------
(***************************************************************************)
(* Transactions.                                                           *)
(***************************************************************************)

\* Mutant: only the pages of the default region are made writable.
BeginDefaultOnly(t) ==
  /\ owner = NULL
  /\ owner' = t /\ phase' = "open" /\ failed' = FALSE
  /\ ops' = <<>> /\ freed' = FALSE
  /\ rw' = {default} \ {NULL}
  /\ UNCHANGED <<cursor, regions, default, free, tramp, codeVars>>

\* One thread gets the transaction; the pages of the regions become writable,
\* or some of them do and the transaction has failed before it began.
DetourTransactionBegin(t) ==
  /\ owner = NULL
  /\ owner' = t /\ phase' = "open"
  /\ ops' = <<>> /\ freed' = FALSE
  /\ \/ /\ failed' = FALSE
        /\ rw' = ToSet(regions)
     \/ /\ failed' = TRUE
        /\ \E n \in 0..(Len(regions) - 1) :
             rw' = rw \cup {regions[k] : k \in 1..n}
  /\ UNCHANGED <<cursor, regions, default, free, tramp, codeVars>>

\* The operations of the transaction may only be named by its owner, and are
\* ignored once one of them has failed.
Collecting(t, h) ==
  /\ owner = t /\ phase = "open" /\ ~failed
  /\ \A k \in DOMAIN ops : ops[k].hook # h

\* The new operation and the protection it found on the page of its target.
Push(remove, h, x) ==
  /\ ops' = <<[remove |-> remove, hook |-> h, at |-> x,
               perm |-> perm[PageOf[h]]]>> \o ops
  /\ perm' = [perm EXCEPT ![PageOf[h]] = "RWX"]
  /\ UNCHANGED <<owner, phase, failed, cursor, freed, code, ptr>>

OperationFails ==
  /\ failed' = TRUE
  /\ UNCHANGED <<owner, phase, ops, cursor, freed, codeVars>>

DetourAttach(t, h) ==
  /\ Collecting(t, h)
  /\ ptr[h] = NULL
  /\ \/ \E x \in Trampolines : AllocTrampoline(h, x) /\ Push(FALSE, h, x)
     \/ AllocInVain(h) /\ OperationFails
     \/ UNCHANGED memVars /\ OperationFails

DetourDetach(t, h) ==
  /\ Collecting(t, h)
  /\ ptr[h] # NULL
  /\ \/ Push(TRUE, h, ptr[h])
     \/ OperationFails
  /\ UNCHANGED memVars

\* Mutant: an operation that failed does not stop the others.
CommitAnyway(t) ==
  /\ owner = t /\ phase = "open"
  /\ phase' = "apply"
  /\ cursor' = 1
  /\ UNCHANGED <<owner, failed, ops, freed, memVars, codeVars>>

\* DetourTransactionCommitEx of a transaction that has not failed begins to
\* apply its operations, of one that has failed aborts it.
DetourTransactionCommit(t) ==
  /\ owner = t /\ phase = "open"
  /\ phase' = IF failed THEN "abort" ELSE "apply"
  /\ cursor' = 1
  /\ UNCHANGED <<owner, failed, ops, freed, memVars, codeVars>>

DetourTransactionAbort(t) ==
  /\ owner = t /\ phase = "open"
  /\ phase' = "abort"
  /\ UNCHANGED <<owner, failed, ops, cursor, freed, memVars, codeVars>>

\* Mutant: the pointer of a detached hook keeps leading to its trampoline.
ApplyKeepsPointer ==
  /\ phase = "apply"
  /\ IF cursor \in DOMAIN ops
     THEN LET o == ops[cursor] IN
          /\ code' = [code EXCEPT ![o.hook] =
                        IF o.remove THEN tramp[o.at].restore ELSE o.at]
          /\ ptr' = [ptr EXCEPT ![o.hook] = o.at]
          /\ cursor' = cursor + 1
          /\ UNCHANGED <<phase, perm>>
     ELSE phase' = "finish" /\ UNCHANGED <<cursor, codeVars>>
  /\ UNCHANGED <<owner, failed, ops, freed, memVars>>

\* The loop that inserts or removes each detour, one operation per step.
ApplyOperation ==
  /\ phase = "apply"
  /\ IF cursor \in DOMAIN ops
     THEN LET o == ops[cursor] IN
          /\ code' = [code EXCEPT ![o.hook] =
                        IF o.remove THEN tramp[o.at].restore ELSE o.at]
          /\ ptr' = [ptr EXCEPT ![o.hook] = IF o.remove THEN NULL ELSE o.at]
          /\ cursor' = cursor + 1
          /\ UNCHANGED <<phase, perm>>
     ELSE phase' = "finish" /\ UNCHANGED <<cursor, codeVars>>
  /\ UNCHANGED <<owner, failed, ops, freed, memVars>>

\* Mutant: operations are taken off the list oldest first.
PopOldest(done) ==
  LET o == ops[Len(ops)] IN
  /\ ops # <<>>
  /\ perm' = [perm EXCEPT ![PageOf[o.hook]] = o.perm]
  /\ ops' = SubSeq(ops, 1, Len(ops) - 1)
  /\ IF o.remove = done THEN FreeTrampoline(o.at) ELSE UNCHANGED <<tramp, free>>
  /\ freed' = (freed \/ (done /\ o.remove))
  /\ UNCHANGED <<owner, phase, failed, cursor, regions, default, rw, code, ptr>>

\* The loop that restores the protection of each target and deletes the
\* operations: a commit frees the trampolines that are no longer needed, an
\* abort the ones that never were.
PopOperation(done) ==
  LET o == Head(ops) IN
  /\ ops # <<>>
  /\ perm' = [perm EXCEPT ![PageOf[o.hook]] = o.perm]
  /\ ops' = Tail(ops)
  /\ IF o.remove = done THEN FreeTrampoline(o.at) ELSE UNCHANGED <<tramp, free>>
  /\ freed' = (freed \/ (done /\ o.remove))
  /\ UNCHANGED <<owner, phase, failed, cursor, regions, default, rw, code, ptr>>

\* Unused regions go, the others become executable, the thread is released.
EndTransaction(done) ==
  /\ ops = <<>>
  /\ IF done /\ freed THEN FreeUnusedRegions
     ELSE UNCHANGED <<regions, default, free>>
  /\ rw' = {}
  /\ owner' = NULL /\ phase' = "idle" /\ cursor' = 1
  /\ UNCHANGED <<failed, ops, freed, tramp, codeVars>>

\* What a commit or an abort still has to do.
EndStep ==
  \/ ApplyOperation
  \/ phase = "finish" /\ (PopOperation(TRUE) \/ EndTransaction(TRUE))
  \/ phase = "abort" /\ (PopOperation(FALSE) \/ EndTransaction(FALSE))

Next ==
  \/ \E t \in Threads :
       \/ DetourTransactionBegin(t)
       \/ \E h \in Hooks : DetourAttach(t, h) \/ DetourDetach(t, h)
       \/ DetourTransactionCommit(t)
       \/ DetourTransactionAbort(t)
  \/ EndStep

Spec == Init /\ [][Next]_vars

-----------------------------------------------------------------------------
TypeOK ==
  /\ owner \in Threads \cup {NULL}
  /\ phase \in {"idle", "open", "apply", "finish", "abort"}
  /\ failed \in BOOLEAN /\ freed \in BOOLEAN
  /\ ops \in Seq(Operation)
  /\ cursor \in 1..(Cardinality(Hooks) + 1)
  /\ regions \in Seq(Regions) /\ rw \subseteq Regions
  /\ default \in Regions \cup {NULL}
  /\ free \in [Regions -> Seq(Slots)]
  /\ tramp \in [Trampolines -> [hook : Hooks \cup {NULL},
                                restore : Trampolines \cup {NULL}]]
  /\ code \in [Hooks -> Trampolines \cup {NULL}]
  /\ ptr \in [Hooks -> Trampolines \cup {NULL}]
  /\ perm \in [Pages -> {"RX", "RWX"}]

\* The hooks a trampoline serves, or will serve when the transaction commits.
Users(x) == {h \in Hooks : ptr[h] = x} \cup
            {ops[k].hook : k \in {j \in DOMAIN ops :
                                    ~ops[j].remove /\ ops[j].at = x}}

\* The trampoline that a commit is about to free has no user any more.
BeingFreed(x) == \E k \in DOMAIN ops : ops[k].remove /\ ops[k].at = x

Occurrences(x) == {k \in DOMAIN free[x[1]] : free[x[1]][k] = x[2]}

\* Every trampoline of every region that the allocator gives out is either on
\* its free list, once, and blank, or serves one hook: none is lost, freed
\* twice or given out twice, through any mix of attach, detach, failure,
\* commit and abort.
TrampolinesAccounted ==
  \A r \in ToSet(regions) : \A s \in 2..(PerRegion - 1) :
    LET x == <<r, s>> IN
    \/ /\ Cardinality(Occurrences(x)) = 1
       /\ tramp[x] = Blank /\ Users(x) = {}
    \/ /\ Occurrences(x) = {}
       /\ \/ Users(x) = {tramp[x].hook}
          \/ Users(x) = {} /\ BeingFreed(x)

\* A jump at a target, and a pointer that a detour calls through, lead to a
\* trampoline of a region that is still mapped, filled in for that target and
\* holding the target's own first bytes; and s_pRegion is still mapped.
NoDanglingJump ==
  /\ default \in ToSet(regions) \cup {NULL}
  /\ \A h \in Hooks : \A x \in {code[h], ptr[h]} \ {NULL} :
       /\ x[1] \in ToSet(regions)
       /\ tramp[x] = [hook |-> h, restore |-> NULL]

\* When no transaction is pending no code page and no trampoline page is
\* writable, although targets share pages and every operation saves the
\* protection it finds: the list is undone newest first.
PagesRestored ==
  owner = NULL => rw = {} /\ \A p \in Pages : perm[p] = "RX"

\* Until it is undone, every operation's target page and trampoline page can
\* be written, so neither loop of a commit faults.
PagesWritable ==
  \A k \in DOMAIN ops : /\ perm[PageOf[ops[k].hook]] = "RWX"
                        /\ ops[k].at[1] \in rw

\* Outside the loop of a commit a target is detoured exactly when its pointer
\* leads to the trampoline: a detour never calls a target that calls it back.
PointersMatchCode == phase # "apply" => code = ptr

\* An operation that failed stops the transaction: no target is patched and
\* no pointer changed until the next one.
FailedChangesNothing == [][failed => UNCHANGED <<code, ptr>>]_vars
=============================================================================
