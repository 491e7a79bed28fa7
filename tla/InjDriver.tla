----------------------------- MODULE InjDriver ------------------------------
(***************************************************************************)
(* The LoaderWatch injection driver: DriverEntry and DriverDestroy with    *)
(* the order in which they register and revoke the kernel callbacks, the   *)
(* list of INJ_INJECTION_INFO entries, the create-process, load-image and  *)
(* registry callbacks, the INJECT control code, and the asynchronous       *)
(* procedure calls (APCs) through which a process is injected.             *)
(*                                                                         *)
(* A callback that injects is several steps, since threads of one process  *)
(* run it at a time: it tests IsInjected in one and sets it in another.    *)
(* An access to the list is one step, and so is InjInject, which module    *)
(* InjRace takes apart, with the loads and stores of one info.             *)
(***************************************************************************)
EXTENDS Integers, Sequences, FiniteSets, SequencesExt

CONSTANTS
  Pids,             \* process identifiers; reused after a process is gone
  Threads,          \* the threads those processes may have
  ProcessOf,        \* the process of each thread
  Infos,            \* addresses the pool may give an INJ_INJECTION_INFO
  Paths,            \* addresses the pool may give a DLL path buffer
  Kinds,            \* the processes there may be: records [wow64, prot]
  NULL,             \* the null pointer
  Method,           \* INJ_SETTINGS.Method of the build
  SupportsWow64,    \* INJ_CONFIG_SUPPORTS_WOW64 is defined
  InjIsWindows7     \* set by InjInitialize from the OS version

ASSUME DriverAssumption ==
  /\ NULL \notin Infos
  /\ NULL \notin Paths
  /\ ProcessOf \in [Threads -> Pids]
  /\ Method \in {"Thunk", "Thunkless"}
  /\ SupportsWow64 \in BOOLEAN
  /\ InjIsWindows7 \in BOOLEAN
  /\ Kinds \subseteq [wow64 : BOOLEAN, prot : BOOLEAN]

(***************************************************************************)
(* INJ_SYSTEM_DLL, restricted to the flags of the x86 and x64 builds.      *)
(* "kernel32" stands for the four kernel32/user32 names of the Windows 7   *)
(* postponement and "other" for an image none of the tables names.         *)
(***************************************************************************)
NtdllFlags == {"system32_ntdll", "syswow64_ntdll"}

\* A zeroed field of an info is told from a process and from an address.
ASSUME NullAssumption == NULL \notin Pids \cup NtdllFlags

SystemDlls == NtdllFlags \cup {"wow64", "wow64win", "wow64cpu"}
Images == SystemDlls \cup {"kernel32", "other"}

VARIABLES
  stage,        \* how far DriverEntryImpl, or DriverDestroy, has come
  flags,        \* InitializedFlags
  registered,   \* the callbacks the kernel holds for this driver
  device,       \* which of the device object and its symbolic link exist
  list,         \* InjInfoListHead: the linked entries, head first
  infoPool,     \* allocated INJ_INJECTION_INFO blocks
  pathPool,     \* allocated DLL path buffers
  rec,          \* contents of the INJ_INJECTION_INFO blocks
  proc,         \* the processes of the machine
  at,           \* where each thread is in a callback
  held,         \* the info that the callback of each thread has found
  kapc,         \* kernel-mode APCs pending for each thread: their contexts
  uapc,         \* user-mode APCs pending for each thread
  injected,     \* the processes in which an injected DLL was loaded
  stale,        \* threads with an APC whose driver image was unloaded
  bugcheck      \* the machine stopped on an access to freed memory

driverVars == <<stage, flags, registered, device>>
listVars   == <<list, infoPool, pathPool, rec>>
threadVars == <<at, held>>
apcVars    == <<kapc, uapc, injected, stale, bugcheck>>
vars == <<driverVars, listVars, proc, threadVars, apcVars>>

Callbacks == {"create", "image", "cm"}
EntryStages == {"unloaded", "device", "link", "settings", "lib", "create",
                "image", "loaded"}
DestroyStages == {"d_cm", "d_image", "d_create", "d_lib", "d_device"}

\* A thread is in the load-image callback before the mark, or in the registry
\* callback before the injection or before the mark; or it is in neither.
ThreadPoints == {"user", "i_mark", "r_inject", "r_mark"}

ThreadsOf(p) == {t \in Threads : ProcessOf[t] = p}

InfoRec == [ProcessId : Pids \cup {NULL}, LoadedDlls : SUBSET SystemDlls,
            IsInjected : BOOLEAN, PathAllocated : BOOLEAN,
            Suppress : BOOLEAN, Indirect : BOOLEAN,
            LdrLoadDll : NtdllFlags \cup {NULL},
            Path : Paths \cup {NULL}]

\* What RtlZeroMemory leaves in an INJ_INJECTION_INFO.
ZeroInfo == [ProcessId |-> NULL, LoadedDlls |-> {}, IsInjected |-> FALSE,
             PathAllocated |-> FALSE, Suppress |-> FALSE, Indirect |-> FALSE,
             LdrLoadDll |-> NULL, Path |-> NULL]

\* images: the system DLLs mapped so far; missed: the native ntdll.dll was
\* mapped while the driver had no load-image callback registered.
ProcessRec == [alive : BOOLEAN, wow64 : BOOLEAN, prot : BOOLEAN,
               images : SUBSET SystemDlls, missed : BOOLEAN]

NoProcess == [alive |-> FALSE, wow64 |-> FALSE, prot |-> FALSE,
              images |-> {}, missed |-> FALSE]

UserApc == [routine : NtdllFlags \cup {NULL}, path : Paths \cup {NULL}]

\* The input buffer of IOCTL_LOADERWATCHDEBUG_INJECT.
InjectData == [ProcessId : Pids, Suppress : BOOLEAN, Indirect : BOOLEAN]

Init ==
  /\ stage = "unloaded"
  /\ flags = {} /\ registered = {} /\ device = {}
  /\ list = <<>>
  /\ infoPool = {} /\ pathPool = {}
  /\ rec = [i \in Infos |-> ZeroInfo]
  /\ proc = [p \in Pids |-> NoProcess]
  /\ at = [t \in Threads |-> "user"]
  /\ held = [t \in Threads |-> NULL]
  /\ kapc = [t \in Threads |-> <<>>]
  /\ uapc = [t \in Threads |-> <<>>]
  /\ injected = {}
  /\ stale = {}
  /\ bugcheck = FALSE

-----------------------------------------------------------------------------
(***************************************************************************)
(* The list of injection infos.                                            *)
(***************************************************************************)

\* Positions of the list whose entry belongs to process p, and the first one.
Matches(p) == {k \in DOMAIN list : rec[list[k]].ProcessId = p}
FirstMatch(p) == CHOOSE k \in Matches(p) : \A j \in Matches(p) : k <= j

InjFindInjectionInfo(p) ==
  IF Matches(p) = {} THEN NULL ELSE list[FirstMatch(p)]

\* The blocks that a callback goes by.
HeldInfos == {held[t] : t \in Threads} \ {NULL}

\* One entry, allocated, zeroed, filled in and linked at the tail; or the
\* allocation fails and nothing happens.  The pool does not give a freed block
\* out again while a callback holds it, so that its use is always seen.
InjCreateInjectionInfo(p) ==
  \/ UNCHANGED listVars
  \/ \E i \in Infos \ (infoPool \cup HeldInfos) :
       /\ infoPool' = infoPool \cup {i}
       /\ rec' = [rec EXCEPT ![i] = [ZeroInfo EXCEPT !.ProcessId = p]]
       /\ list' = Append(list, i)
       /\ UNCHANGED pathPool

\* Mutant: the path of the info is not freed with it.
RemoveKeepsPath(p) ==
  LET i == InjFindInjectionInfo(p) IN
  IF i = NULL THEN UNCHANGED listVars
  ELSE /\ list' = RemoveAt(list, FirstMatch(p))
       /\ infoPool' = infoPool \ {i}
       /\ rec' = [rec EXCEPT ![i] = ZeroInfo]
       /\ UNCHANGED pathPool

\* Unlinks the entry and frees its path, if it has one, and the entry.  What
\* a freed block holds is not tracked: it is ZeroInfo.
InjRemoveInjectionInfoByProcessId(p) ==
  LET i == InjFindInjectionInfo(p) IN
  IF i = NULL THEN UNCHANGED listVars
  ELSE /\ list' = RemoveAt(list, FirstMatch(p))
       /\ infoPool' = infoPool \ {i}
       /\ pathPool' = IF rec[i].PathAllocated
                      THEN pathPool \ {rec[i].Path} ELSE pathPool
       /\ rec' = [rec EXCEPT ![i] = ZeroInfo]

\* Frees every entry and its path; the list head keeps its links.
InjDestroy ==
  LET entries == {list[k] : k \in DOMAIN list} IN
  /\ infoPool' = infoPool \ entries
  /\ pathPool' = pathPool \
                   {rec[i].Path : i \in {j \in entries : rec[j].PathAllocated}}
  /\ rec' = [i \in Infos |-> IF i \in entries THEN ZeroInfo ELSE rec[i]]
  /\ UNCHANGED list

-----------------------------------------------------------------------------
(***************************************************************************)
(* DriverEntryImpl registers, DriverDestroy revokes in reverse order what  *)
(* InitializedFlags records.  Other processors run callbacks in between.   *)
(***************************************************************************)

\* A step of DriverEntryImpl that fails: DriverEntry calls DriverDestroy.
EntryFails(from) ==
  /\ stage = from
  /\ stage' = "d_cm"
  /\ UNCHANGED <<flags, registered, device, listVars, proc, threadVars, apcVars>>

\* IoCreateDevice and IoCreateSymbolicLink.
CreateDeviceAndLink ==
  \/ /\ stage = "unloaded"
     /\ stage' = "device"
     /\ device' = {"device"}
     /\ UNCHANGED <<flags, registered, listVars, proc, threadVars, apcVars>>
  \/ /\ stage = "device"
     /\ stage' = "link"
     /\ device' = device \cup {"link"}
     /\ UNCHANGED <<flags, registered, listVars, proc, threadVars, apcVars>>

InjCreateSettings ==
  /\ stage = "link"
  /\ stage' = "settings"
  /\ UNCHANGED <<flags, registered, device, listVars, proc, threadVars, apcVars>>

\* Empties the list head; it cannot fail.
InjInitialize ==
  /\ stage = "settings"
  /\ stage' = "lib"
  /\ list' = <<>>
  /\ flags' = flags \cup {"lib"}
  /\ UNCHANGED <<registered, device, infoPool, pathPool, rec, proc, threadVars, apcVars>>

\* Mutant: the flag of the registration is forgotten.
RegisterWithoutFlag(from, to, callback) ==
  /\ stage = from
  /\ stage' = to
  /\ registered' = registered \cup {callback}
  /\ UNCHANGED <<flags, device, listVars, proc, threadVars, apcVars>>

\* A registration that succeeds, and the flag set right after it.
Register(from, to, callback) ==
  /\ stage = from
  /\ stage' = to
  /\ registered' = registered \cup {callback}
  /\ flags' = flags \cup {callback}
  /\ UNCHANGED <<device, listVars, proc, threadVars, apcVars>>

DriverEntryImpl ==
  \/ CreateDeviceAndLink
  \/ InjCreateSettings
  \/ InjInitialize
  \/ Register("lib", "create", "create")
  \/ Register("create", "image", "image")
  \/ Register("image", "loaded", "cm")
  \/ \E from \in EntryStages \ {"settings", "loaded"} : EntryFails(from)

\* The I/O manager calls DriverUnload.
DriverUnload ==
  /\ stage = "loaded"
  /\ stage' = "d_cm"
  /\ UNCHANGED <<flags, registered, device, listVars, proc, threadVars, apcVars>>

\* The points of a thread inside a callback.
InCallback(callback) ==
  CASE callback = "image" -> {"i_mark"}
    [] callback = "cm" -> {"r_inject", "r_mark"}
    [] OTHER -> {}

\* A callback is revoked once no thread is in it any more.
Unregister(from, to, callback) ==
  /\ stage = from
  /\ \A t \in Threads : at[t] \notin InCallback(callback)
  /\ stage' = to
  /\ registered' = IF callback \in flags THEN registered \ {callback}
                   ELSE registered
  /\ UNCHANGED <<flags, device, listVars, proc, threadVars, apcVars>>

DestroyLib ==
  /\ stage = "d_lib"
  /\ stage' = "d_device"
  /\ IF "lib" \in flags THEN InjDestroy ELSE UNCHANGED listVars
  /\ UNCHANGED <<flags, registered, device, proc, threadVars, apcVars>>

\* Deletes the link and the device; the image and its globals then go away,
\* and with them the routines of the APCs that are still queued.
DestroyDevice ==
  /\ stage = "d_device"
  /\ stage' = "unloaded"
  /\ device' = {}
  /\ flags' = {}
  /\ list' = <<>>
  /\ stale' = stale \cup {t \in Threads : kapc[t] # <<>> \/ uapc[t] # <<>>}
  /\ UNCHANGED <<registered, infoPool, pathPool, rec, proc, threadVars, kapc,
                 uapc, injected, bugcheck>>

\* Mutant: InjDestroy runs before the create-process callback is revoked.
DestroyLibTooEarly ==
  \/ Unregister("d_cm", "d_image", "cm")
  \/ Unregister("d_image", "d_create", "image")
  \/ /\ stage = "d_create"
     /\ stage' = "d_lib"
     /\ IF "lib" \in flags THEN InjDestroy ELSE UNCHANGED listVars
     /\ UNCHANGED <<flags, registered, device, proc, threadVars, apcVars>>
  \/ Unregister("d_lib", "d_device", "create")
  \/ DestroyDevice

DriverDestroy ==
  \/ Unregister("d_cm", "d_image", "cm")
  \/ Unregister("d_image", "d_create", "image")
  \/ Unregister("d_create", "d_lib", "create")
  \/ DestroyLib
  \/ DestroyDevice

-----------------------------------------------------------------------------
(***************************************************************************)
(* The injection itself, in the context of the process it is about.        *)
(***************************************************************************)

RequiredDlls(p) ==
  IF SupportsWow64 /\ proc[p].wow64
  THEN SystemDlls ELSE {"system32_ntdll"}

InjCanInject(p, i) == RequiredDlls(p) \subseteq rec[i].LoadedDlls

\* Maps a section with the path into the process and queues the user-mode APC
\* that loads the DLL, deliverable as soon as the thread returns to user mode;
\* or a step of that fails and no APC is queued.
InjInject(t, i) ==
  \/ uapc' = [uapc EXCEPT ![t] =
                Append(@, [routine |-> rec[i].LdrLoadDll, path |-> rec[i].Path])]
  \/ UNCHANGED uapc

\* Queues the kernel-mode APC that calls InjInject; the allocation or the
\* insertion may fail.
QueueInjectApc(t, i) ==
  \/ kapc' = [kapc EXCEPT ![t] = Append(@, i)]
  \/ UNCHANGED kapc

MarkInjected(i) ==
  /\ rec' = [rec EXCEPT ![i].IsInjected = TRUE]
  /\ UNCHANGED <<list, infoPool, pathPool>>

\* Mutant: the address of the last ntdll.dll wins, whatever the method.
RecordLastNtdll(i, img) ==
  /\ rec' = [rec EXCEPT
       ![i].LoadedDlls = @ \cup ({img} \cap SystemDlls),
       ![i].LdrLoadDll = IF img \in NtdllFlags THEN img ELSE @]
  /\ UNCHANGED <<list, infoPool, pathPool>>

\* Mutant: only the native ntdll.dll is looked at, whatever the method.
RecordNativeNtdll(i, img) ==
  /\ rec' = [rec EXCEPT
       ![i].LoadedDlls = @ \cup ({img} \cap SystemDlls),
       ![i].LdrLoadDll = IF img = "system32_ntdll" THEN img ELSE @]
  /\ UNCHANGED <<list, infoPool, pathPool>>

\* Notes a system DLL, and the LdrLoadDll address of the ntdll.dll that the
\* injection method uses.
RecordSystemDll(i, img) ==
  /\ rec' = [rec EXCEPT
       ![i].LoadedDlls = @ \cup ({img} \cap SystemDlls),
       ![i].LdrLoadDll = IF \/ img = "system32_ntdll"
                            \/ img = "syswow64_ntdll" /\ Method # "Thunkless"
                         THEN img ELSE @]
  /\ UNCHANGED <<list, infoPool, pathPool>>

Postponed(p, img) ==
  /\ SupportsWow64 /\ InjIsWindows7 /\ Method = "Thunk"
  /\ proc[p].wow64
  /\ img = "kernel32"

\* The callback of thread t goes on at the given point with info i.
HoldAt(t, point, i) ==
  /\ at' = [at EXCEPT ![t] = point]
  /\ held' = [held EXCEPT ![t] = i]

Bugcheck ==
  /\ bugcheck' = TRUE
  /\ UNCHANGED <<driverVars, listVars, proc, threadVars, kapc, uapc, injected,
                 stale>>

\* The checks that end the load-image callback before it queues its APC.
HoldsBack(p, i, img) ==
  Postponed(p, img) \/ ~rec[i].PathAllocated \/ rec[i].Suppress

\* Mutant: the info is freed as soon as a later image shows it was used.
FreeInfoOnceInjected(t, img) ==
  LET p == ProcessOf[t]  i == InjFindInjectionInfo(p) IN
  IF i # NULL /\ rec[i].IsInjected
  THEN InjRemoveInjectionInfoByProcessId(p) /\ UNCHANGED <<threadVars, kapc>>
  ELSE IF i = NULL THEN UNCHANGED <<listVars, threadVars, kapc>>
  ELSE IF ~InjCanInject(p, i)
  THEN RecordSystemDll(i, img) /\ UNCHANGED <<threadVars, kapc>>
  ELSE /\ UNCHANGED listVars
       /\ IF HoldsBack(p, i, img) THEN UNCHANGED <<threadVars, kapc>>
          ELSE QueueInjectApc(t, i) /\ HoldAt(t, "i_mark", i)

\* Mutant: protected processes are not told apart.
IgnoreProtection(t, img) ==
  LET p == ProcessOf[t]  i == InjFindInjectionInfo(p) IN
  IF i = NULL \/ rec[i].IsInjected THEN UNCHANGED <<listVars, threadVars, kapc>>
  ELSE IF ~InjCanInject(p, i)
  THEN RecordSystemDll(i, img) /\ UNCHANGED <<threadVars, kapc>>
  ELSE /\ UNCHANGED listVars
       /\ IF HoldsBack(p, i, img) THEN UNCHANGED <<threadVars, kapc>>
          ELSE QueueInjectApc(t, i) /\ HoldAt(t, "i_mark", i)

\* Up to the mark: the process is not injected, protected, not ready, held
\* back, or the APC is queued and the callback goes on to set IsInjected.
InjLoadImageNotifyRoutine(t, img) ==
  LET p == ProcessOf[t]  i == InjFindInjectionInfo(p) IN
  IF i = NULL \/ rec[i].IsInjected
  THEN UNCHANGED <<listVars, threadVars, kapc>>
  ELSE \/ /\ proc[p].prot
          /\ InjRemoveInjectionInfoByProcessId(p)
          /\ UNCHANGED <<threadVars, kapc>>
       \/ /\ ~proc[p].prot /\ ~InjCanInject(p, i)
          /\ RecordSystemDll(i, img)
          /\ UNCHANGED <<threadVars, kapc>>
       \/ /\ ~proc[p].prot /\ InjCanInject(p, i) /\ HoldsBack(p, i, img)
          /\ UNCHANGED <<listVars, threadVars, kapc>>
       \/ /\ ~proc[p].prot /\ InjCanInject(p, i) /\ ~HoldsBack(p, i, img)
          /\ QueueInjectApc(t, i)
          /\ HoldAt(t, "i_mark", i)
          /\ UNCHANGED listVars

\* Mutant: the registry callback does not look at PathAllocated.
InjectUnarmed(t) ==
  LET i == InjFindInjectionInfo(ProcessOf[t]) IN
  /\ i # NULL /\ ~rec[i].IsInjected
  /\ HoldAt(t, "r_inject", i)
  /\ UNCHANGED <<driverVars, listVars, proc, apcVars>>

\* Up to the injection.  The key that is opened is RegFilterTargetKey; any
\* other key, and a process that is not armed or injected, changes nothing.
InjRegistryCallback(t) ==
  LET i == InjFindInjectionInfo(ProcessOf[t]) IN
  /\ i # NULL
  /\ rec[i].PathAllocated
  /\ ~rec[i].IsInjected
  /\ HoldAt(t, "r_inject", i)
  /\ UNCHANGED <<driverVars, listVars, proc, apcVars>>

\* The registry callback injects, at once or through an APC.
RegistryInject(t) ==
  /\ at[t] = "r_inject"
  /\ IF held[t] \notin infoPool THEN Bugcheck
     ELSE /\ HoldAt(t, "r_mark", held[t])
          /\ IF rec[held[t]].Indirect
             THEN QueueInjectApc(t, held[t]) /\ UNCHANGED uapc
             ELSE InjInject(t, held[t]) /\ UNCHANGED kapc
          /\ UNCHANGED <<driverVars, listVars, proc, injected, stale, bugcheck>>

\* Both callbacks end by setting IsInjected, whatever was queued.
CallbackMark(t) ==
  /\ at[t] \in {"i_mark", "r_mark"}
  /\ IF held[t] \notin infoPool THEN Bugcheck
     ELSE /\ MarkInjected(held[t])
          /\ HoldAt(t, "user", NULL)
          /\ UNCHANGED <<driverVars, proc, apcVars>>

\* Mutant: the path is announced before its buffer is known to exist.
AnnounceBeforeAllocation(data, path) ==
  LET i == InjFindInjectionInfo(data.ProcessId) IN
  /\ stage = "loaded"
  /\ i # NULL
  /\ ~rec[i].IsInjected
  /\ pathPool' = pathPool \cup {path}
  /\ rec' = [rec EXCEPT ![i].Path = path, ![i].Suppress = data.Suppress,
                        ![i].PathAllocated = TRUE]
  /\ UNCHANGED <<driverVars, list, infoPool, proc, threadVars, apcVars>>

\* A request that finds no info, finds it injected or finds no memory is
\* answered with an error and changes nothing.
SioctlDeviceControl(data, path) ==
  LET i == InjFindInjectionInfo(data.ProcessId) IN
  /\ stage = "loaded"
  /\ i # NULL
  /\ ~rec[i].IsInjected
  /\ path \notin pathPool
  /\ pathPool' = pathPool \cup {path}
  /\ rec' = [rec EXCEPT ![i].Path = path, ![i].Suppress = data.Suppress,
                        ![i].PathAllocated = TRUE]
  /\ UNCHANGED <<driverVars, list, infoPool, proc, threadVars, apcVars>>

-----------------------------------------------------------------------------
(***************************************************************************)
(* The kernel around the driver.                                           *)
(***************************************************************************)

ProcessCreate(p) ==
  /\ ~proc[p].alive
  /\ \E k \in Kinds :
       proc' = [proc EXCEPT ![p] = [NoProcess EXCEPT !.alive = TRUE,
                                      !.wow64 = k.wow64, !.prot = k.prot]]
  /\ IF "create" \in registered THEN InjCreateInjectionInfo(p)
     ELSE UNCHANGED listVars
  /\ UNCHANGED <<driverVars, threadVars, apcVars>>

\* The last thread of a process exits: none is in a callback, the kernel-mode
\* APCs have run and the user-mode ones are discarded.
ProcessExit(p) ==
  /\ proc[p].alive
  /\ \A t \in ThreadsOf(p) : at[t] = "user" /\ kapc[t] = <<>>
  /\ IF "create" \in registered THEN InjRemoveInjectionInfoByProcessId(p)
     ELSE UNCHANGED listVars
  /\ proc' = [proc EXCEPT ![p] = NoProcess]
  /\ uapc' = [t \in Threads |-> IF ProcessOf[t] = p THEN <<>> ELSE uapc[t]]
  /\ injected' = injected \ {p}
  /\ stale' = stale \ ThreadsOf(p)
  /\ UNCHANGED <<driverVars, threadVars, kapc, bugcheck>>

\* The order in which a starting process maps the system DLLs.
LoadOrder == <<"system32_ntdll", "syswow64_ntdll", "wow64", "wow64win",
               "wow64cpu">>

MayMap(p, img) ==
  \/ img = "other"
  \/ img = "kernel32" /\ RequiredDlls(p) \subseteq proc[p].images
  \/ /\ img \in RequiredDlls(p) \ proc[p].images
     /\ \A j, k \in DOMAIN LoadOrder :
          (LoadOrder[k] = img /\ j < k) => LoadOrder[j] \in proc[p].images

LoadImage(t, img) ==
  LET p == ProcessOf[t] IN
  /\ proc[p].alive /\ at[t] = "user"
  /\ MayMap(p, img)
  /\ proc' = [proc EXCEPT
       ![p].images = @ \cup ({img} \cap SystemDlls),
       ![p].missed = @ \/ (img = "system32_ntdll" /\ "image" \notin registered)]
  /\ IF "image" \in registered THEN InjLoadImageNotifyRoutine(t, img)
     ELSE UNCHANGED <<listVars, threadVars, kapc>>
  /\ UNCHANGED <<driverVars, uapc, injected, stale, bugcheck>>

\* User code, which runs once the kernel has mapped every ntdll.dll of the
\* process, opens the target key.
OpenTargetKey(t) ==
  LET p == ProcessOf[t] IN
  /\ proc[p].alive /\ at[t] = "user"
  /\ RequiredDlls(p) \cap NtdllFlags \subseteq proc[p].images
  /\ "cm" \in registered
  /\ InjRegistryCallback(t)

\* InjpInjectApcNormalRoutine runs InjInject on the context of the APC, when
\* the thread has left the callback.
DeliverKernelApc(t) ==
  /\ at[t] = "user" /\ kapc[t] # <<>>
  /\ LET i == Head(kapc[t]) IN
     IF t \in stale \/ i \notin infoPool THEN Bugcheck
     ELSE /\ InjInject(t, i)
          /\ kapc' = [kapc EXCEPT ![t] = Tail(@)]
          /\ UNCHANGED <<driverVars, listVars, proc, threadVars, injected, stale,
                         bugcheck>>

\* The thread returns to user mode and LdrLoadDll loads the DLL.  An APC
\* without a routine ends in its kernel routine.
DeliverUserApc(t) ==
  /\ at[t] = "user" /\ kapc[t] = <<>> /\ uapc[t] # <<>>
  /\ IF t \in stale THEN Bugcheck
     ELSE /\ uapc' = [uapc EXCEPT ![t] = Tail(@)]
          /\ injected' = IF Head(uapc[t]).routine = NULL THEN injected
                         ELSE injected \cup {ProcessOf[t]}
          /\ UNCHANGED <<driverVars, listVars, proc, threadVars, kapc, stale,
                         bugcheck>>

ProcessNext(p) == ProcessCreate(p) \/ ProcessExit(p)

ThreadNext(t) ==
  \/ \E img \in Images : LoadImage(t, img)
  \/ OpenTargetKey(t)
  \/ RegistryInject(t)
  \/ CallbackMark(t)
  \/ DeliverKernelApc(t)
  \/ DeliverUserApc(t)

Next ==
  /\ ~bugcheck
  /\ \/ DriverEntryImpl
     \/ DriverUnload
     \/ DriverDestroy
     \/ \E data \in InjectData, path \in Paths : SioctlDeviceControl(data, path)
     \/ \E p \in Pids : ProcessNext(p)
     \/ \E t \in Threads : ThreadNext(t)

Spec == Init /\ [][Next]_vars

-----------------------------------------------------------------------------
TypeOK ==
  /\ stage \in EntryStages \cup DestroyStages
  /\ flags \subseteq {"lib"} \cup Callbacks
  /\ registered \subseteq Callbacks
  /\ device \subseteq {"device", "link"}
  /\ list \in Seq(Infos)
  /\ infoPool \subseteq Infos /\ pathPool \subseteq Paths
  /\ rec \in [Infos -> InfoRec]
  /\ proc \in [Pids -> ProcessRec]
  /\ at \in [Threads -> ThreadPoints]
  /\ held \in [Threads -> Infos \cup {NULL}]
  /\ kapc \in [Threads -> Seq(Infos)]
  /\ uapc \in [Threads -> Seq(UserApc)]
  /\ injected \subseteq Pids
  /\ stale \subseteq Threads
  /\ bugcheck \in BOOLEAN

\* The list is in use from InjInitialize to the end of InjDestroy.
LibInUse == "lib" \in flags /\ stage # "d_device"

\* While the list is in use every allocated info is linked exactly once and
\* every linked entry is allocated, whatever the interleaving of DriverEntry,
\* its failure paths and DriverDestroy with process creation and exit; and
\* when the driver is gone no info is left in the pool.
InfosLinkedOnce ==
  /\ \A j, k \in DOMAIN list : list[j] = list[k] => j = k
  /\ infoPool = IF LibInUse THEN {list[k] : k \in DOMAIN list} ELSE {}

\* Two entries of the list never belong to the same process identifier, also
\* when identifiers are reused: InjFindInjectionInfo has at most one answer.
OneInfoPerProcess ==
  LibInUse => \A j, k \in DOMAIN list :
                rec[list[j]].ProcessId = rec[list[k]].ProcessId => j = k

\* While the exit callback is registered, an entry belongs to a process that
\* is still there: INJECT never arms the info of a process that is gone.
InfosOfLivingProcesses ==
  "create" \in registered =>
    \A k \in DOMAIN list : /\ rec[list[k]].ProcessId \in Pids
                           /\ proc[rec[list[k]].ProcessId].alive

\* An info that says it has a path owns an allocated buffer that no other
\* info owns, so each ExFreePoolWithTag of a path frees one block, once.
PathsOwnedOnce ==
  \A i \in infoPool :
    rec[i].PathAllocated =>
      /\ rec[i].Path \in pathPool
      /\ \A j \in infoPool \ {i} :
           rec[j].PathAllocated => rec[j].Path # rec[i].Path

\* The infos whose InjectionDllPath is the buffer b.
PathOwners(b) == {i \in infoPool : rec[i].PathAllocated /\ rec[i].Path = b}

\* A path buffer that loses its info is freed with it, except the buffer that
\* a second INJECT request for the same process replaces: that one is lost.
PathsFreedWithInfos ==
  [][\A b \in pathPool :
       PathOwners(b) # {} /\ PathOwners(b)' = {} =>
         \/ b \notin pathPool'
         \/ \E i \in PathOwners(b) : i \in infoPool' /\ rec'[i].PathAllocated]_vars

\* Until InjDestroy has run, the context of a pending kernel-mode APC is a
\* linked info of the process of its thread, which the load-image callback has
\* marked as injected or is about to mark, however the threads interleave.
ApcContextsLinked ==
  stage # "d_device" =>
    \A t \in Threads \ stale : \A k \in DOMAIN kapc[t] :
      /\ kapc[t][k] \in infoPool
      /\ rec[kapc[t][k]].ProcessId = ProcessOf[t]
      /\ \/ rec[kapc[t][k]].IsInjected
         \/ at[t] = "i_mark" /\ held[t] = kapc[t][k]

\* The machine stops only for one of two reasons: the driver was unloaded while
\* an APC was pending, or a protected process whose ntdll.dll it had missed was
\* taken off the list by one thread while another one was being injected.
StopsOnlyIfStaleOrMissed ==
  bugcheck => \/ stale # {} \/ stage = "d_device"
              \/ \E t \in Threads : /\ at[t] \in InCallback("cm")
                                    /\ proc[ProcessOf[t]].prot
                                    /\ proc[ProcessOf[t]].missed

\* The ntdll.dll whose LdrLoadDll an injection of p has to call.
WantedNtdll(p) ==
  IF Method = "Thunk" /\ SupportsWow64 /\ proc[p].wow64
  THEN "syswow64_ntdll" ELSE "system32_ntdll"

\* An APC that is queued calls the LdrLoadDll of the ntdll.dll that the
\* injection method needs, unless the driver missed the load of ntdll.dll.
RightLdrLoadDll ==
  \A t \in Threads : ~proc[ProcessOf[t]].missed =>
    \A k \in DOMAIN uapc[t] : uapc[t][k].routine = WantedNtdll(ProcessOf[t])

\* A protected process is not injected, unless the driver missed the load of
\* its ntdll.dll: the first image it maps takes it off the list.
ProtectedNotInjected ==
  \A p \in Pids : proc[p].prot /\ ~proc[p].missed =>
    /\ p \notin injected
    /\ \A t \in ThreadsOf(p) : kapc[t] = <<>> /\ uapc[t] = <<>>

\* The driver seen as the status of each process: the mapping under which it
\* implements the promise of module InjTracking.
StatusOf(i) ==
  IF rec[i].IsInjected THEN "attempted"
  ELSE IF rec[i].PathAllocated THEN "armed" ELSE "tracked"

InfosOf(p) == {i \in Infos : rec[i].ProcessId = p}

Status == [p \in Pids |-> IF InfosOf(p) = {} THEN "untracked"
                          ELSE StatusOf(CHOOSE i \in InfosOf(p) : TRUE)]

Tracking == INSTANCE InjTracking WITH status <- Status

\* Every step of the driver and of the processes around it is a step that the
\* promise of InjTracking allows, also when threads overlap in the callbacks.
ImplementsTracking == Tracking!Spec

\* Once the driver is unloaded nothing of it is left registered.
UnloadedMeansGone ==
  stage = "unloaded" => registered = {} /\ device = {} /\ infoPool = {}

\* Which callbacks are registered at each stage, as DriverEntryImpl registers
\* them and DriverDestroy revokes those that InitializedFlags records.
Revoked ==
  CASE stage \in {"d_image"} -> {"cm"}
    [] stage \in {"d_create"} -> {"cm", "image"}
    [] stage \in {"d_lib", "d_device"} -> Callbacks
    [] OTHER -> {}

StageFlags ==
  CASE stage = "lib" -> {"lib"}
    [] stage = "create" -> {"lib", "create"}
    [] stage = "image" -> {"lib", "create", "image"}
    [] stage = "loaded" -> {"lib", "create", "image", "cm"}
    [] stage \in DestroyStages -> flags
    [] OTHER -> {}

RegistrationInv ==
  /\ flags = StageFlags
  /\ registered = (flags \cap Callbacks) \ Revoked
  /\ flags # {} => "lib" \in flags
  /\ "cm" \in flags => "image" \in flags
  /\ "image" \in flags => "create" \in flags
  /\ stage = "unloaded" => device = {}
  /\ stage = "lib" => list = <<>>

\* A callback that goes by an info was revoked by nobody; the info is that of
\* its process, or gone with the protection check of another thread.
HeldInfosOwned ==
  \A t \in Threads :
    /\ held[t] = NULL <=> at[t] = "user"
    /\ \A c \in Callbacks : at[t] \in InCallback(c) => c \in registered
    /\ held[t] \in infoPool => /\ rec[held[t]].ProcessId = ProcessOf[t]
                               /\ rec[held[t]].PathAllocated
    /\ held[t] \notin infoPool \cup {NULL} =>
         proc[ProcessOf[t]].prot /\ at[t] # "i_mark"

\* A process that is gone has no thread in a callback and no injection under
\* way; a protected one is not injected by the load-image callback.
NothingUnderWay ==
  \A t \in Threads :
    LET p == ProcessOf[t] IN
    /\ ~proc[p].alive => at[t] = "user" /\ kapc[t] = <<>> /\ uapc[t] = <<>>
    /\ proc[p].prot => kapc[t] = <<>> /\ at[t] # "i_mark"

\* A block of the pool belongs to a process, a free block holds nothing.
BlocksInUse ==
  /\ \A i \in infoPool : rec[i].ProcessId \in Pids
  /\ \A i \in Infos \ infoPool : rec[i] = ZeroInfo
  /\ \A i \in infoPool : rec[i].IsInjected => rec[i].PathAllocated
  /\ \A i \in infoPool : ~rec[i].Indirect

\* The inductive invariant behind the safety properties.
IInv ==
  /\ TypeOK
  /\ RegistrationInv
  /\ InfosLinkedOnce
  /\ OneInfoPerProcess
  /\ InfosOfLivingProcesses
  /\ BlocksInUse
  /\ PathsOwnedOnce
  /\ ApcContextsLinked
  /\ HeldInfosOwned
  /\ NothingUnderWay
=============================================================================
