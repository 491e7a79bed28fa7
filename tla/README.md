# LoaderWatch: a TLA+ verification project

LoaderWatch shows what the Windows loader does inside a process. A kernel driver
injects a DLL into the process that is being watched, the DLL detours nine
internal functions of `ntdll.dll` and prints what they do as debug output, and a
debugger attached to the process reads that output and the loader's own data
structures. This directory models the parts of that chain where order,
concurrency and failure decide whether it works: the driver with its callbacks
and APCs, the Detours transactions, the hook DLL that uses them, the debugger
that follows the loader through its lines, and the locks and queues of the phlib
library under the symbol and stack code.

## Inventory

| Component | State | Operations | Hard behaviour |
|---|---|---|---|
| injection driver (`LoaderWatch.Inject.Driver/main.c`) | `InitializedFlags`, registered callbacks, device and link | `DriverEntry`, `DriverDestroy`, `SioctlDeviceControl`, `InjRegistryCallback` | registration in steps, each of which can fail, while callbacks already run; unload with APCs pending |
| injection library (`LoaderWatch.Inject.Driver.Library/injlib.c`) | `InjInfoListHead` and the `INJ_INJECTION_INFO` blocks | create-process and load-image callbacks, `InjInject`, kernel and user APCs | callbacks of several threads on one unlocked block; reused process identifiers; partial failure of an injection |
| hook DLL (`LoaderWatch.Inject/dllmain.cpp`) | hook targets, `True*` pointers | `EnableDetours`, `DisableDetours` in `NtDllMain`; nine hooks | all calls of the library sit in `assert` |
| Detours (`LoaderWatch.Inject/detours.cpp`) | pending transaction, trampoline regions and free lists, page protections | begin, attach, detach, commit, abort | operations that fail half way, targets that share a page, regions that are released |
| debugger loop (`LoaderWatch.Library/Facility.cs`) | processes, modules with symbols, breakpoints | one handler per debug event | handlers that throw; the offsets handshake with the DLL |
| remote structures (`RemoteStruct.cs`, `Ldr*.cs`, `PebLdr.cs`) | cached copies of loader structures, `Dead` flag | refresh, death, revival at the same address | stale copies, address reuse |
| list walkers (`ListEntry.cs`, `SingleListEntry.cs`, `LdrCircularSingleLinkedList.cs`) | none | enumerate a list in the target | termination on circular lists, empty lists |
| command line (`LoaderWatch.CLI/Program.cs`) | the graph it prints | handlers of debug output | order of messages |
| native helper (`LoaderWatch.Library.Native`) | device handle, stack provider | INJECT request, stack walk | none of its own beyond the request |
| driver installer | service, ETW session | install, remove, trace | failure between its steps |
| phlib (`queuedlock.c`, `workqueue.c`, `ref.c`, `sync.c`), vendored | the word of a lock and its wait blocks, work items and worker threads, objects to free | acquire and release, queue, wait, delete, deferred deletion | lock-free code on several threads, timeouts, deletion while in use |
| phnt, MemorySharp, NativeDebug, fmt, the Detours disassembler, the rest of phlib | vendored | | |

How they interact: the command line starts a process and asks the native helper
to send the control code INJECT, with a process identifier, a DLL path and two
flags, to the driver. The driver finds the info that its create-process callback
made for the process and stores the path. A later load-image callback (through a
kernel-mode APC), or the registry callback when the process opens the one key the
driver waits for, maps a section with the path and queues a user-mode APC whose
routine is `LdrLoadDll`. The DLL that this loads prints the address of its table
of offsets, the debugger fills the table in, and the DLL attaches its hooks.

What makes each part correct:

* driver: an info is linked once, belongs to one living process, is freed once,
  and no APC outlives the info it points to while the driver is loaded; a process
  is injected with the right `LdrLoadDll`; a load that fails and an unload leave
  nothing behind;
* callbacks that overlap: what a request asked for (suppress, the path) is what
  the callbacks act on; an injection that fails half way leaves nothing mapped, and
  one that succeeds is delivered; a thread injects its process once;
* Detours: no jump and no pointer into memory that was released, no trampoline
  lost or used twice, page protections as they were, a failed transaction changes
  no code;
* hook DLL: all hooks or none, and nothing left when it detaches;
* debugger: a structure is never read after its death or after the process freed
  it, the name shown for a node is not that of an earlier one at its address, the
  offsets are complete before the hooks use them;
* phlib: the queued lock is a reader-writer lock that loses no wake-up and touches
  no block of a thread that has gone on; queued items run, a queue can be deleted
  and is not used afterwards.

## Modules

| Module | What it is |
|---|---|
| `InjDriver` | driver and injection library, with threads that overlap in the callbacks, together with the processes and the APC delivery around them |
| `InjTracking` | the promise about one process: untracked, tracked, armed, attempted, forgotten. `InjDriver` implements it under the mapping `Status` |
| `InjDriverProofs` | the inductive invariant of `InjDriver` and the theorems that follow from it |
| `InjPromiseProofs` | what `InjDriver` promises about `LdrLoadDll` and about paths, and that it implements `InjTracking` |
| `InjRace` | the same callbacks on one info, load by load and store by store, on several threads, with `InjInject` taken apart |
| `InjRaceProofs` | its inductive invariant and safety properties |
| `Detours` | transactions and trampoline memory |
| `DetoursProofs` | its inductive invariant and safety properties |
| `InjectHooks` | `NtDllMain`; extends `Detours` and composes with it: each of its steps is a call of the library |
| `InjectHooksProofs` | its invariant, on top of the one of `Detours` |
| `LoaderHooks` | the threads of the process: the nine hooks around the loader's own functions, and the lines they print |
| `Watch` | the debugger; extends `LoaderHooks` and composes with it through the queue of debug events |
| `WatchProofs` | the inductive invariant of both and the properties of the debugger |
| `RWLock` | what a reader-writer lock promises |
| `QueuedLock` | the queued lock of phlib, one interlocked operation at a time; implements `RWLock` under the mapping `Holds` |
| `QueuedLockProofs` | its inductive invariant, its safety properties and the refinement |
| `WorkQueue` | the work queue of phlib with its worker threads and its deletion |
| `WorkQueueProofs` | its inductive invariant and `NotUsedAfterDelete` |
| `DeferDelete` | the deferred deletion of objects; extends `WorkQueue`: its work item runs on the global queue |
| `MC*` | values of the constants for TLC |

The operators named "Mutant" are plausible bugs, used to show that each property
can fail; no specification uses them.

### InjDriver

`stage` is the position in `DriverEntryImpl` ("unloaded", "device", "link",
"settings", "lib", "create", "image", "loaded") or in `DriverDestroy` ("d_cm" ...
"d_device"); `flags` is `InitializedFlags` and `registered` what the kernel really
holds. Between two stages processes are created, map images, open keys and exit,
and the callbacks registered so far run. Each action of `DriverEntryImpl` may fail
instead, which is the call of `DriverDestroy` in `DriverEntry`; `InjInitialize`
alone cannot fail.

`list` is the linked list head first; `infoPool` and `pathPool` are the blocks
that are allocated, so a leak is a block in the pool that nothing refers to and a
double free an owner too many. `rec` holds the fields of `INJ_INJECTION_INFO`.
What a freed block holds is not tracked, it is set to `ZeroInfo`.

A callback that injects is several steps of its thread, as the code tests
`IsInjected` and sets it apart: `InjLoadImageNotifyRoutine` (checks, and queueing
the kernel-mode APC) and `CallbackMark`; `InjRegistryCallback` (checks),
`RegistryInject` and `CallbackMark`. `at` is where a thread is between them and
`held` the info it found and goes by, which another thread or an image of the
process may have changed meanwhile. Each access to the list is one step, and
`InjInject` is one step with two outcomes: an APC is queued or not. What it does in
between belongs to `InjRace`.

`kapc` and `uapc` are the pending APCs of each thread, `injected` the processes in
which one has been delivered. `DestroyDevice` ends with the image of the driver
gone: a thread with an APC pending becomes `stale`, and delivering that APC, or
going by an info that was freed, sets `bugcheck`.

Assumed of the kernel, which is not in the repository:

* callbacks of threads, of one process or of several, overlap as they like, and
  revoking a callback waits for the ones under way;
* an APC is delivered to a thread that is in no callback; the pending kernel-mode
  APCs of a process have been delivered, and its user-mode ones are discarded,
  before its exit is notified; an identifier is reused only after that;
* the pool does not give out a freed block that a callback still goes by: such a
  use is seen as one of freed memory and not as one of another process's info;
* requests reach the device only when `DriverEntry` has returned, and
  `DriverUnload` is called only when no handle is open: an INJECT happens at stage
  "loaded";
* the ntdll.dll of a process (both, under Wow64) and the Wow64 DLLs are mapped in
  the order of `LoadOrder`, before user code can open a key.

Abstracted: process and path contents, the bytes of the thunk, the walk over the
export table (the address it finds is named by the ntdll.dll it comes from), the
ARM64 names among the system DLLs, and `IoCompleteRequest` results: a refused
request changes nothing and is no step. A request is one step, which `InjRace`
drops.

### InjRace

One process past its start, whose system DLLs are mapped. Each thread is in user
code, in the load-image callback (`i_...`) or in the registry callback (`r_...`);
each client is in `SioctlDeviceControl`. A step is one load or store of the info.
Stores become visible in program order, as on x86 and x64. `path` has the two
members of the UNICODE_STRING apart, because `RtlInitUnicodeString` stores them
apart and the copies of injlib.c:654 and 771 read them apart.

`ipc` is where a thread is in `InjInject`, called by the registry callback or by
the kernel-mode APC (`i_apc`). The section is created, mapped, the path is copied,
the section is mapped again without write access, the APC is queued, and
`KeTestAlertThread` makes it deliverable; each step has the failures of the code,
and where each of them leaves the view is part of it. `InjInject` ignores what
`InjpInject` returns (injlib.c:1133), so it alerts the thread also after a failure
there. `views` counts the views a thread has left mapped, `uapc` its queued
user-mode APCs, `pending` is its `UserApcPending`. The thunkless method is the one
without the second mapping and the unmap.

### Detours and InjectHooks

`ops` is the list of pending operations, newest first, as the code links it;
`code` and `ptr` are the first bytes of each target and the pointer variable of
the hook; `tramp` is what a trampoline holds, `free` the free lists, `rw` and
`perm` the protections of trampoline and code pages. Every failure of a call
(memory, protection, disassembly) is an alternative of its action. The loops of a
commit and of an abort take one step per operation.

Left out: suspended threads (the DLL passes only its own thread, which
`DetourUpdateThread` ignores), `DetourSetIgnoreTooSmall` and
`DetourSetRetainRegions`, which the DLL never calls, and what the copied
instructions are; and the calls that the DLL never makes: with a null argument, and
with a detour that is its own target (detours.cpp:1962), which add no operation.
Each target is taken to lie on one page, though the protection of `cbTarget` bytes
(detours.cpp:1802, 2210) may reach into a second one. Assumed of the client, as the
DLL behaves: targets are distinct, and a hook is named once in a transaction.
`PerRegion = 4` stands for the few
hundred trampolines of a region: two of the four are usable, so that regions
fill up, and are allocated and released, within three or four hooks.

`InjectHooks` runs the calls of `EnableDetours` and `DisableDetours` one by one.
`NDEBUG` is chosen at the start: an assert that fails ends the process, and in a
Release build the calls inside the asserts do not exist.

### LoaderHooks and Watch

`mod`, `nodes`, `entry`, `list` and `edges` are the memory of the process: module
entries, graph nodes, load contexts, the modules of a node, the dependencies.
`named` remembers which names the modules of a node have had, for the property
about names only. A hook is the part of it that runs up to its print; the original
function is a step of its own before or after it, as in the code, and a thread
that printed waits (`Blocked`) until the debugger has continued its event. `queue`
holds the events in the order in which the threads raised them.

`dbg` is the state of `DebugThread`, `phase` that of the main thread, which maps
KERNELBASE.dll, runs `OnProcessAttach` if the driver accepted the request, stops
in the loader's breakpoint and exits. `dead`, `known`, `name`, `symbols` and
`offsets` are what the debugger keeps or has written. The process stands still
while an event is handled, so a handler is one step: `Reads(e)` is the set of
structures whose memory it touches, the root modules that name a node included,
`Throws` the exception of `AssertNotDead` in one of them, and `Line` the frame of
`FacilityOnProcessDebugOutput`, with the walk of `LoadSymbols` over the linked
modules at its end (`Dies` is what the handler marks dead before that walk). An
exception ends the debugger before the event is continued, so the process never
runs on with the offsets half written. Two of them have other causes than a dead
structure: a module that was allocated without a load context (`contextless`),
whose null `LoadContext` Program.cs:87 goes through, and no copy of the hook DLL
beside the program (Program.cs:304).

Assumed of the loader, which is not in the repository: a module is unlinked from
the load order list, and its edges removed, before it is unmapped; all modules of
a node are unmapped before the node is destroyed, or moved to another node by a
merge; condensing, unloading and the attach of the DLL hold the loader lock; each
load context comes with one entry, an entry without one is not loaded any further by
its thread, and the name of the module is known when it is
mapped. Loads that fail earlier are left out, and so are damaged lists: a walk
yields the entries of its list.

### QueuedLock

`Value` is the word of the lock as a record: its flags with the count of shared
owners, or with the pointer to the first wait block. `blk` holds the wait blocks
by the thread whose stack they are on, `val` the value a thread compares with and
`cur` the block a waker is about to wake. A step is one interlocked operation, or
one walk along the chain, during which others can only push in front of it. Both
forms of the exclusive release are there, the inlined one in two steps.
`PhTryAcquireQueuedLockExclusive` is the first step of
`PhAcquireQueuedLockExclusive`. The spin count is nondeterministic, the keyed
event a rendezvous. Condition variables and wake events use the same blocks and
are not modelled.

### WorkQueue and DeferDelete

A critical section of `QueueLock` is one step, as the queued lock justifies; so is
one of `StateLock`, except for the one that starts a thread, which runs before
`CurrentThreads` counts it. `BusyCount`, `CurrentThreads` and `Terminating` are
read without a lock where the code does, and each in a step of its own: `seen` is
the `BusyCount` that line 203 read and has not compared yet. A wait times out only while the semaphore
is 0. `pc` is where a thread is in a call, a worker included: the function of an
item may queue another item. `PhDeleteWorkQueue` takes four steps; a new queue may
be initialized in the same memory afterwards. `Items` bounds the items in use, and
stands for the free list from which they are taken again.

Two branches of the worker's loop have no step of their own: more threads than
`MaximumThreads` cannot exist, because the number is checked under `StateLock` and
the maximum never changes, and a signal without an item occurs only when the queue
is being deleted.

In `DeferDelete` the read of the list head and the push are two steps, and the
work item flushes the list as it runs; the queue has the parameters of
`PhGetGlobalWorkQueue`.

## Runs

| Run | Instance | What it shows |
|---|---|---|
| `driver` | 2 processes, native, protected or not, one with 2 threads and one with 1; 2 infos, 2 paths; thunkless, as the x64 build (191,876 states) | the list, the pools, the APCs and the registrations stay consistent through loading, failing to load, unloading and loading again; the machine stops for two named reasons only (`StopsOnlyIfStaleOrMissed`); a path is freed with its info (`PathsFreedWithInfos`); the driver implements `InjTracking`; `IInv` holds |
| `driver_thunkless` | 1 process with 2 threads, native or Wow64, thunkless | the APC calls the native `LdrLoadDll` although two ntdll.dll are mapped (`RightLdrLoadDll`) |
| `driver_thunk` | the same with the thunk method on Windows 7 | the APC calls the `LdrLoadDll` of the matching ntdll.dll |
| `race` | 2 threads, 2 requests, thunk method (120,304 states) | a request to suppress is obeyed by the load-image callback; what is copied of the path was stored by a request; an injection that fails leaves no view mapped and one that succeeds is deliverable; a thread injects its process at most once |
| `race_twice` | 2 threads, 1 request | two threads both inject, see Findings |
| `detours` | 2 threads, 3 hooks on 2 pages, 2 regions, one out of reach of one hook | the seven properties of trampolines, pages and code |
| `hooks` | 4 hooks, 3 regions, both builds | a build with asserts hooks all or ends the process; nothing is left after detaching |
| `hooks_release` | the same | a Release build hooks nothing, see Findings |
| `watch` | 2 loader threads, 2 addresses for each structure besides ntdll's, 2 names, 9 offsets | handlers read only live structures that are not marked dead; names are those of the current node; no hook before the last offset; no write past the table |
| `queued_lock` | 3 threads, both modes | the lock implements `RWLock`; no wake-up is lost; no pointer to a block that is gone is followed; the assertions of the code hold |
| `work_queue` | 2 callers, 3 workers of which 2 may be counted, 2 items, `MinimumThreads` 1 | nobody uses a deleted queue; items run; deleting ends |
| `defer_delete` | 2 callers, the global queue (0, 3), 2 objects | an object is left without a work item, see Findings |

Bounds. Two processes and two infos are what it takes for a reused identifier, a
list of more than one entry, an unlink in front of another entry, and a failed
allocation next to a successful one; two paths for a buffer that is replaced. Two
threads of one process overlap in every pair of callbacks, and leave another
process with one. Which ntdll.dll is called depends on one process and its images
only, and not on the others, which share the list, so these runs have one process
and may afford Wow64. APCs need no bound: a thread marks the process before it can
inject again, so there are at most as many injections as threads. Symmetry over identifiers, infos and paths is used for
safety only, never in a run with a liveness property.

In `watch`, two addresses of each kind besides those of ntdll.dll let two loads
overlap, a merge happen, and every address be reused, and two threads let one free
what the other then allocates. In `queued_lock`, three threads give a chain of two
blocks behind an owner, or one behind two shared owners; a chain that is walked
while several shared owners leave needs a fourth, with which the run takes longer
than is practical, and has not been checked. In `work_queue`, the third worker is
the thread that is started while an old one has not left yet. Nothing else is
bounded.

The thunk method of `driver_thunk` is one the library accepts in `INJ_SETTINGS` on
every architecture; the driver's own x64 build chooses the thunkless one and its
x86 and ARM64 builds the thunk one. The Windows 7 postponement exists only in that
combination.

Deadlock is not checked where the system may stop: after a bugcheck, and after the
end of the process in the hook DLL and in the debugger. In `work_queue` a thread
in `PhWaitForWorkQueue` waits for ever when no worker could be created for the item
it waits for. A driver that is loaded and idle can always go on, and so can the
threads of `InjRace`, the clients of `Detours` and, which is part of what
`queued_lock` shows, the threads that use the lock.

Fairness is assumed in `work_queue` only. What else would have to end (an unload, an
injection, `NtDllMain`) is straight-line code or delivery by the kernel, of which
fairness would say all there is to say. `WorkQueue!FairSpec` assumes that a call of the queue and the loop of a worker run
on: critical sections are short, and the wait for the semaphore ends by a signal
or by `NoWorkTimeout`, which is finite in the program's use. The function of an
item returns (strong fairness, since it may use the queue any number of times
before); nobody is assumed to queue, wait or delete.

## Findings

* `InjectedOnce` (`race_twice`): `IsInjected` is tested and set without a lock, so
  two threads of a process both inject it. `OncePerThread` is what does hold.
* `AllHooked` (`hooks_release`): `EnableDetours` makes all its calls inside
  `assert`, and the Release configurations define `NDEBUG`.

* `ObjectsHaveWork` (`defer_delete`): `PhpDeferDeleteObject` looks at the head of
  the list of objects to free and pushes in a second call (ref.c:564, 565). If the
  work item takes the list in between, the object is pushed on an empty list and
  no work item is queued; every later push finds a list that is not empty, so from
  then on nothing is freed.

Noted while modelling, and part of the models without a run of their own:

* the create-process callback is registered before the load-image callback
  (main.c:574, 583). A process that maps ntdll.dll in between is `missed`: its info
  has no `LdrLoadDll` address, against the assert of injlib.c:739, and keeps its
  info if it is protected, against injlib.c:1213; the registry callback injects it
  all the same. `RightLdrLoadDll` and `ProtectedNotInjected` except it;
* in such a process, if it is protected and armed, the protection check of one
  thread's load-image callback frees the info (injlib.c:1225) while the registry
  callback of another still goes by it: `StopsOnlyIfStaleOrMissed` has this as one
  of its two exceptions. The other is an unload with an APC pending (main.c:202);
* two INJECT requests for one process can be mixed up by a copy of the path: the
  buffer of one, the length of the other (injlib.c:654, 771; the thunk method reads
  the length once more for its APC, line 691). `PathCopiedWhole` allows it;
* both callbacks set `IsInjected` whatever the injection returned (injlib.c:1369);
* the loop that fills the free list of a new region (detours.cpp:1352) stops one
  short of its comment: two trampolines are never used;
* a second INJECT request loses the buffer of the first (`PathsFreedWithInfos`
  excepts it), and a failed thunkless injection leaves its view mapped;
* `INJECT` carries an `IndirectInjection` flag that no line stores, so the
  registry callback (main.c:453) always injects at once and never through an APC;
* `LdrpAllocateModuleEntry` may be called without a load context: the hook prints
  it as (null), and the debugger ends with an exception at Program.cs:87;
* exceptions of the process other than breakpoints are continued with
  `DBG_CONTINUE`, so the process never sees them;
* when `CreateProcess` fails, `DebugThread` prints so and enters its loop, which
  then never ends;
* with `MinimumThreads` 0, as in the global work queue, `ItemsRun` fails: the last
  worker's wait times out, an item arrives and finds the worker still counted, and
  the worker ends. The item runs when another one is queued;
* `PhWaitForWorkQueue` returns while the last items are still being executed, and
  one emptied list wakes one of several waiters.

## Proofs

Each theorem holds for every value of the constants that satisfies the named
assumption of the module, and each inductive invariant but that of the queued lock
(it quantifies over all numbers, which TLC cannot) was checked by TLC on the
instance of the component's run before it was proved. An invariant is proved with
one lemma per action (or per group of actions that disturb the same parts), and
the properties follow from `Spec => []Inv` by propositional temporal logic.

### InjDriver: `InjDriverProofs`, `InjPromiseProofs`

Assumed: the null pointer is no block, and the settings are of their types
(`DriverAssumption`); nor is it a process, or the address of `LdrLoadDll`
(`NullAssumption`).

`InjDriverProofs` has `Invariance`, `Spec => []IInv`, and from it `TypeCorrect`,
`InfosLinkedOnce` (`NoInfoLost`), `PathsOwnedOnce` (`NoPathShared`),
`ApcContextsLinked` (`ApcsPointToInfos`). None of them is inductive alone:

* the info a callback goes by must be that of its process, or gone in the one way
  that the code has, when it is marked or injected steps later (`HeldInfosOwned`),
  and its callback must still be registered, so that the list is not freed below it;
* a process that is gone has no thread in a callback and no APC (`NothingUnderWay`),
  so an exit leaves no context behind; a protected one has none at all, so its info
  may be freed at any time;
* the list must answer for a process with *its* info: `OneInfoPerProcess` and
  `InfosOfLivingProcesses`. Without them an identifier that is reused would find
  the entry of another lifetime;
* an exit without its callback would leave an entry behind, so `RegistrationInv`
  ties the callbacks to the stage of `DriverEntryImpl` or `DriverDestroy`: the
  create-process callback is there whenever entries can be made, and the list is
  empty when it is registered;
* `BlocksInUse` gives a new entry a clean block, and makes every injected info one
  that has a path.

The proof has one lemma per action (`EntryStep`, `DestroyStep`, `IoctlStep`,
`CreateStep`, `ExitStep`, `LoadImageStep`, `OpenKeyStep`, `RegistryInjectStep`,
`MarkStep`, `DeliverStep`) and is split along the state (`IInvParts`): `ListInv` is
about the list and its blocks, `ThreadOK` about what one thread holds and has
pending, `FrameInv` about the stages and the processes. The list operations
(`CreateKeepsList`, `RemoveKeepsList`, ...) are proved once and cited by the
actions that use them.

`InjPromiseProofs` builds on it. `LdrInv` says of each process what its info has
noted (`InfoSound`): only DLLs that are mapped; that a protected process with an
info has not mapped its native ntdll.dll, nor has any process while only the
create-process callback is registered, unless it is `missed`; and that an info not
yet injected knows the `LdrLoadDll` of the wanted ntdll.dll once that is mapped.
With the order in which the two ntdll.dll are mapped (`ProcessSound`), what a
callback is about to inject and what is pending for a thread call the right
routine, and a thread of a protected process has none (`ThreadSound`):
`RightLdrLoadDll` (`CallsRightLdrLoadDll`), `ProtectedNotInjected`
(`ProtectedAreSpared`) and `StopsOnlyIfStaleOrMissed` (`StopsOnlyForStaleOrMissed`)
follow. `UnloadedMeansGone` (`NothingLeftBehind`) follows from `IInv`.
`PathsFreedWithInfos` is an action property, proved action by action
(`PathsGoWithInfos`). The refinement of `InjTracking` (`Refinement`) is proved the
same way: `Status` is untracked at first, and every step of the driver is a step
of the promise about one process or leaves the status of all alone.

### InjRace: `InjRaceProofs`

Assumed (`RaceAssumption`): the null pointer is no request, and the method is one of
the two. For any number of threads and requests, `RaceInv` adds to the types: a
callback is past its look at the path only when `PathAllocated` is set
(`PastPathCheck`); when every request asks to suppress, none announces its path
before `Suppress` is stored, so no callback gets past its look at the flag
(`SuppressStored`); both members of the path are those of some request once one has
announced it (`PathStored`); a thread that made an injection marks the process
before it looks at the mark again (`MarkedByInjector`); and a thread has one view
more than it has injections exactly while its section is mapped and no APC is
queued (`InjectorSound`). `SuppressionHolds` (`SuppressionRespected`),
`PathCopiedWhole` (`CopiesStoredPath`), `OncePerThread` (`InjectsOncePerThread`),
`ThunkViewsMatchApcs` (`ThunkUndoesFailures`) and `QueuedApcPending`
(`QueuedApcsDeliverable`) follow.

### Detours and InjectHooks: `DetoursProofs`, `InjectHooksProofs`

Assumed: the hooks are finitely many, each target is on one page and a region has
more than its two unused trampolines (`DetoursAssumption`); `Order` names each hook
once, as the calls of `EnableDetours` do (`HooksAssumption`).

`DetoursInv` says, at every step of a transaction: the phase agrees with the owner
and the cursor (`Phases`); a hook is named once in the operations (`OpsOnce`); the
trampolines that are filled in are those of the pointers and of the operations, each
for its hook and in a region (`TrampolinesServe`); the pointer of a hook being
attached or detached is what the operation leaves or found, by whether it was
carried out (`OpsApplied`); pointers match the code; a free list holds the blank
trampolines of its region once (`Allocator`); the regions are writable while there
is something to undo (`RegionsWritable`); and the protections that operations on one
page found are a stack (`PermsStacked`). `TrampolinesAccounted` (`TrampolinesKept`),
`NoDanglingJump` (`NeverDangling`), `PointersMatchCode` (`PointersAreCode`),
`PagesWritable` (`PagesStayWritable`) and `PagesRestored` (`PagesAreRestored`)
follow, and the action property `FailedChangesNothing` (`FailureIsHarmless`). The
loops over the free list of a new region and over the regions to release are
operators on sequences; what they return is proved from their definitions, and
needs no recursion.

`HooksInv` adds what `NtDllMain` has done, in a transaction of its own whose
operations are those named so far (`DllPhases`), and that a commit that detached
something releases regions (`Releases`): so a build with asserts either hooks all
nine or ends (`AssertsHook`, theorem `AssertBuildsHook`), and nothing is left after
detaching (`NothingLeft`, theorem `DetachLeavesNothing`).

### LoaderHooks and Watch: `WatchProofs`

Assumed (`LoaderAssumption`): modules, nodes and contexts are told apart (the
debugger caches structures by kind), none is null, and the main thread is none of
the loader threads.

`DebuggerInv` has the loader's side (`Loader`: what each thread at each place has
announced and still owns, that graph, list and entries agree), the queue
(`Events`: its thread waits for each, and has no other in it), the
handshake (`MainThread`), and the debugger's side:

* `DeadOrNew`: a structure that is marked dead and still in memory is about to be
  freed by a thread whose line was handled, or is new at a reused address and the
  line that announces it is still in the queue. So no handler reads a dead one;
* `Cache`: a node the debugger knows is in memory or dead, and the node of a module
  that was announced is not known yet;
* `NodeNames`: a name in use is one that the modules of the node have had, and a
  thread that is about to take modules from a node has had it named. Names are
  taken before modules go: the line is handled while the module is still mapped;
* `EmptyNodes`: a node without modules is about to be destroyed by the thread that
  emptied it. Without it the walk at the breakpoint could find a node it cannot
  name.

`HandlersReadLiveMemory` (`ReadsAreLive`), `NamesAreCurrent` (`NamesStayCurrent`)
and `OffsetsBeforeHooks` (`OffsetsFirst`) follow.

### WorkQueue: `WorkQueueProofs`

Assumed (`WorkQueueAssumption`): finitely many workers, which are none of the
callers, and limits that are numbers, `MaximumThreads` positive.

`WorkQueueInv` counts: the users of the rundown are the workers that have not left
(`UsersCounted`), `CurrentThreads` is the number of those in their loop but for one
that was started and is not counted yet (`ThreadsCounted`, `HeldToCount`). A worker
is in a call only for the item it executes (`CallsFromItems`), a waiting thread is
in the list of the condition variable once (`WaitersQueued`), the queue is deleted
when no thread of the program uses it (`OwnedByDeleter`), and new users are refused
before the wait for the old ones begins (`RundownOrder`). So nobody uses a deleted
queue (`NotUsedAfterDelete`, theorem `WorkQueueGone`).

### QueuedLock: `QueuedLockProofs`

Assumed (`QueuedLockAssumption`): finitely many threads, at least one; `NULL` is
neither a thread nor one of the two modes.

None of the properties is inductive: a thread that walks the chain is safe because
of how the chain was built, by pushes long before. The invariant `QueuedLockInv`
therefore says that the state has a `Shape`: there are tickets, drawn in the order
of the pushes, such that

* the chain is the tickets `lo..hi`, oldest first, and `Value.block` is the block
  of `hi`; ticket `k` is the newest with a Last pointer, those after it have none
  and a Next pointer to the one before, those before it a Previous pointer to the
  one after (`Chain`). Next pointers older than `k` are not trusted: once the
  waiters at the end have been woken they may dangle, and no walk follows them
  unless shared owners are left, while which nobody is woken (`Intact`);
* a thread that wakes others has the tickets `a[t]..b[t]`, linked by Previous and
  ended by NULL, oldest first (`Wakers`);
* these, with those of the chain, are all the tickets in use, and no two threads
  have the same one to wake (`Tickets`); each is that of one thread whose call has
  not returned, and which sleeps exactly when its block does not spin any more
  (`Members`);
* at most one thread traverses, the Traversing bit says so, and it starts at a
  ticket in `k..hi` (`Traversers`); the value a releaser goes by is old at most in
  what it does not use (`Releasers`);
* the owned bit and the shared counts, in the word or in the oldest block, count
  the owners (`Owners`, `Counted`);
* when the lock is free, has waiters and nobody traverses, somebody will see to
  them: a waker, a releaser whose compare-and-swap will succeed, or a thread that
  is about to try the lock itself (`SeenTo`).

`Tickets` are existentially quantified rather than a history variable: the model
stays as it is, and each step lemma names the tickets after the step (a push draws
`hi + 1`, a wake-up gives up `a[t]`, taking the chain moves `lo` past `hi`).

`QueuedLockInvariance` is `Spec => []QueuedLockInv`, one lemma per action. From it
follow `AssertsHold` (`QueuedLockAsserts`), `BlocksLive` (`QueuedLockBlocks`: no
pointer to a block on the stack of a thread that has returned is followed),
`NoLostWakeup` (`QueuedLockWakes`: `SeenTo`, the lowest ticket and the count of
owners leave nobody to sleep) and the refinement `ImplementsRWLock`
(`QueuedLockRefines`: every step is a step of `RWLock` under `Holds` or leaves it
alone).

`Walk` chooses the sequence of blocks up to the first one with a Last pointer.
`WalkIs` shows that along the tickets there is one such sequence, of no more blocks
than threads, and that it is the one the loop of `PhpFindLastQueuedWaitBlock` goes
through; no RECURSIVE operator is needed.

### Only model-checked

* Liveness (`ItemsRun`, `DeleteEnds`): fairness and ENABLED are out of the prover's
  reach.
* What the runs of Findings show, which are counterexamples.

## Not modelled

* The vendored code that the program only calls: fmt, phnt, MemorySharp,
  NativeDebug, the disassembler and the image tools of Detours, and most of phlib.
  It is well over nine tenths of the lines of the repository, which is why the
  share of lines these modules translate is small; it consists of declarations,
  tables, wrappers of Windows calls and containers, and keeps no state on which the
  behaviour of LoaderWatch depends. What of it is concurrent and used, the queued
  lock, the work queue and the deferred deletion, is modelled.
* Of phlib's synchronisation: condition variables and wake events, the barrier,
  event, init-once and fast lock. A rundown is one step in `WorkQueue`.
* The native helper sends one request and walks one stack; its outcomes are choices
  of `Watch`. The installer is a sequence of calls of the service control manager
  and the trace session, whose state is Windows' own.
* `InsertTailList` and `RemoveEntryList` of the driver run without a lock; the list
  is a sequence in `InjDriver`, so damage to its links is not seen, nor is a request
  that holds an info while its process exits.
* Argument parsing, registry setup and the layout of the output.

PROJECT.json lists every component with its reason, and under "hazards" the ones no
property covers.

## Plan

Done, in this order: `InjDriver` and `InjTracking`, the proof of `IInv`, `InjRace`,
`Detours`, `InjectHooks`, `LoaderHooks` and `Watch`, `QueuedLock` and `RWLock`,
`WorkQueue` and `DeferDelete`; then the proofs about `InjDriver`'s promises,
`InjRace`, `WorkQueue`, `Detours`, `InjectHooks`, `Watch` and `QueuedLock`.

Next:

1. A module with the links of the driver's list as state.
