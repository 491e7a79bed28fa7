-------------------------- MODULE InjPromiseProofs --------------------------
(***************************************************************************)
(* What follows from the inductive invariant of InjDriverProofs: when the  *)
(* machine stops and what an unload leaves, which processes are injected   *)
(* and through which ntdll.dll, that a path goes with its info, and that   *)
(* the driver implements the promise of InjTracking.                       *)
(***************************************************************************)
EXTENDS InjDriverProofs

\* An entry that InjCreateInjectionInfo made in this life of the process.
Entry(p) == {i \in infoPool : rec[i].ProcessId = p}

\* Every thread is one of a process.
LEMMA ThreadsOfProcesses == \A t \in Threads : ProcessOf[t] \in Pids
  BY DriverAssumption

-----------------------------------------------------------------------------
(***************************************************************************)
(* The end of the driver.                                                  *)
(***************************************************************************)

\* Once the driver is unloaded, by DriverUnload or by a DriverEntry that
\* failed half-way, nothing of it is registered, linked or allocated.
THEOREM NothingLeftBehind == Spec => []UnloadedMeansGone
<1>1. IInv => UnloadedMeansGone
  <2> SUFFICES ASSUME IInv, stage = "unloaded"
               PROVE  registered = {} /\ device = {} /\ infoPool = {}
    BY DEF UnloadedMeansGone
  <2>1. flags = {}
    BY DEF IInv, RegistrationInv, StageFlags, DestroyStages
  <2> QED BY <2>1 DEF IInv, RegistrationInv, InfosLinkedOnce, LibInUse
<1> QED BY <1>1, Invariance, PTL

-----------------------------------------------------------------------------
(***************************************************************************)
(* What each operation does to the infos, in terms of Entry(p).            *)
(***************************************************************************)

\* The infos S go away, with the paths they own.
Removed(S) ==
  /\ infoPool' = infoPool \ S
  /\ pathPool' = pathPool \ {rec[i].Path : i \in {j \in S : rec[j].PathAllocated}}
  /\ rec' = [i \in Infos |-> IF i \in S THEN ZeroInfo ELSE rec[i]]

\* Two allocated infos of the same process are the same info.
LEMMA UniqueInfo ==
  ASSUME ListInv, LibInUse, NEW i \in infoPool, NEW j \in infoPool,
         rec[i].ProcessId = rec[j].ProcessId
  PROVE  i = j
<1>1. PICK a \in DOMAIN list, b \in DOMAIN list : i = list[a] /\ j = list[b]
  BY DEF ListInv, InfosLinkedOnce
<1> QED BY <1>1 DEF ListInv, OneInfoPerProcess

\* InjFindInjectionInfo finds the one info of a process, if there is one.
LEMMA EntryIs ==
  ASSUME IInv, LibInUse, NEW p \in Pids
  PROVE  /\ InjFindInjectionInfo(p) = NULL => Entry(p) = {}
         /\ InjFindInjectionInfo(p) # NULL =>
              /\ Entry(p) = {InjFindInjectionInfo(p)}
              /\ InjFindInjectionInfo(p) \in Infos \cap infoPool
              /\ rec[InjFindInjectionInfo(p)].ProcessId = p
<1>1. ListInv
  BY IInvParts
<1>2. CASE InjFindInjectionInfo(p) = NULL
  <2>1. \A k \in DOMAIN list : rec[list[k]].ProcessId # p
    BY <1>1, <1>2, FindMissesNothing DEF ListInv
  <2> QED BY <1>1, <1>2, <2>1 DEF Entry, ListInv, InfosLinkedOnce
<1>3. CASE InjFindInjectionInfo(p) # NULL
  <2>1. /\ InjFindInjectionInfo(p) \in infoPool
        /\ InjFindInjectionInfo(p) \in Infos
        /\ rec[InjFindInjectionInfo(p)].ProcessId = p
    BY <1>1, <1>3, FoundInfo
  <2>2. \A j \in Entry(p) : j = InjFindInjectionInfo(p)
    BY <1>1, <2>1, UniqueInfo DEF Entry
  <2> QED BY <1>3, <2>1, <2>2 DEF Entry
<1> QED BY <1>2, <1>3

\* Taking a process off the list removes its info.
LEMMA RemoveIs ==
  ASSUME IInv, LibInUse, NEW p \in Pids, InjRemoveInjectionInfoByProcessId(p)
  PROVE  Removed(Entry(p))
<1> DEFINE i == InjFindInjectionInfo(p)
<1>1. rec \in [Infos -> InfoRec]
  BY DEF IInv, TypeOK
<1>2. CASE i = NULL
  <2>1. Entry(p) = {} /\ UNCHANGED listVars
    BY <1>2, EntryIs DEF InjRemoveInjectionInfoByProcessId
  <2> QED BY <1>1, <2>1 DEF Removed, listVars
<1>3. CASE i # NULL
  <2>1. Entry(p) = {i}
    BY <1>3, EntryIs
  <2>2. /\ infoPool' = infoPool \ {i}
        /\ pathPool' = IF rec[i].PathAllocated
                       THEN pathPool \ {rec[i].Path} ELSE pathPool
        /\ rec' = [rec EXCEPT ![i] = ZeroInfo]
    BY <1>3 DEF InjRemoveInjectionInfoByProcessId
  <2> HIDE DEF i
  <2>3. pathPool' = pathPool \ {rec[j].Path : j \in {k \in {i} : rec[k].PathAllocated}}
    BY <2>2
  <2> QED BY <1>1, <2>1, <2>2, <2>3 DEF Removed
<1> QED BY <1>2, <1>3

\* InjDestroy removes them all.
LEMMA DestroyIs ==
  ASSUME IInv, LibInUse, InjDestroy
  PROVE  Removed(infoPool)
  BY DEF IInv, InfosLinkedOnce, InjDestroy, Removed
-----------------------------------------------------------------------------
(***************************************************************************)
(* A step of the driver seen from the infos.                               *)
(***************************************************************************)

\* InjCreateInjectionInfo, for a process that has no info.
Added(p) ==
  /\ Entry(p) = {}
  /\ \E i \in Infos \ infoPool :
       /\ infoPool' = infoPool \cup {i}
       /\ rec' = [rec EXCEPT ![i] = [ZeroInfo EXCEPT !.ProcessId = p]]
  /\ pathPool' = pathPool

\* The INJECT request gives the info i the buffer path.
Armed(i, path, suppress) ==
  /\ path \notin pathPool
  /\ pathPool' = pathPool \cup {path}
  /\ rec' = [rec EXCEPT ![i].Path = path, ![i].Suppress = suppress,
                        ![i].PathAllocated = TRUE]
  /\ infoPool' = infoPool

\* The changes of one info that is not injected yet.
Changed(i) ==
  /\ ~rec[i].IsInjected
  /\ \/ \E img \in Images : RecordSystemDll(i, img)
     \/ rec[i].PathAllocated /\ MarkInjected(i)
     \/ \E path \in Paths, suppress \in BOOLEAN : Armed(i, path, suppress)

\* Whatever the callbacks, the control code and the driver object do, an info
\* is added, infos are removed, or one info that is not injected yet changes.
LEMMA InfoSteps ==
  ASSUME IInv, Next
  PROVE  \/ UNCHANGED <<infoPool, pathPool, rec>>
         \/ \E p \in Pids : Added(p)
         \/ \E S \in SUBSET infoPool : Removed(S)
         \/ \E i \in infoPool : Changed(i)
<1> USE DEF listVars
<1>1. ASSUME DriverEntryImpl \/ DriverUnload
      PROVE  UNCHANGED <<infoPool, pathPool, rec>>
  BY <1>1 DEF DriverEntryImpl, CreateDeviceAndLink, InjCreateSettings, InjInitialize,
       Register, EntryFails, DriverUnload
<1>2. ASSUME DriverDestroy
      PROVE  UNCHANGED <<infoPool, pathPool, rec>> \/ Removed(infoPool)
  <2>1. CASE DestroyLib
    <3>1. "lib" \in flags => LibInUse
      BY <2>1 DEF DestroyLib, LibInUse
    <3> QED BY <2>1, <3>1, DestroyIs DEF DestroyLib
  <2>2. CASE ~DestroyLib
    BY <1>2, <2>2 DEF DriverDestroy, Unregister, DestroyDevice
  <2> QED BY <2>1, <2>2
<1>3. ASSUME NEW data \in InjectData, NEW path \in Paths,
             SioctlDeviceControl(data, path)
      PROVE  \E i \in infoPool : Changed(i)
  <2> DEFINE i == InjFindInjectionInfo(data.ProcessId)
  <2>1. data.ProcessId \in Pids /\ data.Suppress \in BOOLEAN
    BY DEF InjectData
  <2>2. LibInUse
    BY <1>3, InUseWhenCalled, IInvParts DEF SioctlDeviceControl
  <2>3. i \in infoPool
    BY <1>3, <2>1, <2>2, EntryIs DEF SioctlDeviceControl
  <2>4. ~rec[i].IsInjected /\ Armed(i, path, data.Suppress)
    BY <1>3 DEF SioctlDeviceControl, Armed
  <2> QED BY <2>1, <2>3, <2>4 DEF Changed
<1>4. ASSUME NEW p \in Pids, ProcessCreate(p)
      PROVE  UNCHANGED <<infoPool, pathPool, rec>> \/ Added(p)
  <2>1. CASE "create" \in registered /\ ~UNCHANGED listVars
    <3>1. LibInUse
      BY <2>1, InUseWhenCalled, IInvParts
    <3>2. Entry(p) = {}
      BY <1>4, <2>1, <3>1 DEF IInv, InfosOfLivingProcesses, InfosLinkedOnce,
         Entry, ProcessCreate
    <3> QED BY <1>4, <2>1, <3>2 DEF ProcessCreate, InjCreateInjectionInfo, Added
  <2>2. CASE "create" \notin registered \/ UNCHANGED listVars
    BY <1>4, <2>2 DEF ProcessCreate
  <2> QED BY <2>1, <2>2
<1>5. ASSUME NEW p \in Pids, ProcessExit(p)
      PROVE  UNCHANGED <<infoPool, pathPool, rec>> \/ Removed(Entry(p))
  BY <1>5, RemoveIs, InUseWhenCalled, IInvParts DEF ProcessExit
<1>6. ASSUME NEW t \in Threads, NEW img \in Images, LoadImage(t, img)
      PROVE  \/ UNCHANGED <<infoPool, pathPool, rec>>
             \/ Removed(Entry(ProcessOf[t]))
             \/ \E i \in infoPool : Changed(i)
  <2> DEFINE i == InjFindInjectionInfo(ProcessOf[t])
  <2>1. CASE "image" \in registered /\ i # NULL /\ ~rec[i].IsInjected
    <3>1. LibInUse /\ ProcessOf[t] \in Pids
      BY <2>1, InUseWhenCalled, IInvParts, ThreadsOfProcesses
    <3>2. i \in infoPool
      BY <2>1, <3>1, EntryIs
    <3>3. \/ UNCHANGED listVars
          \/ InjRemoveInjectionInfoByProcessId(ProcessOf[t])
          \/ RecordSystemDll(i, img)
      BY <1>6, <2>1 DEF LoadImage, InjLoadImageNotifyRoutine
    <3>4. InjRemoveInjectionInfoByProcessId(ProcessOf[t]) => Removed(Entry(ProcessOf[t]))
      BY <3>1, RemoveIs
    <3>5. RecordSystemDll(i, img) => Changed(i)
      BY <2>1 DEF Changed
    <3> HIDE DEF i
    <3> QED BY <3>2, <3>3, <3>4, <3>5 DEF listVars
  <2>2. CASE "image" \notin registered \/ i = NULL \/ (i # NULL /\ rec[i].IsInjected)
    BY <1>6, <2>2 DEF LoadImage, InjLoadImageNotifyRoutine
  <2> QED BY <2>1, <2>2
<1>7. ASSUME NEW t \in Threads, CallbackMark(t)
      PROVE  UNCHANGED <<infoPool, pathPool, rec>> \/ \E i \in infoPool : Changed(i)
  <2>1. CASE held[t] \in infoPool
    <3>1. MarkInjected(held[t]) /\ rec[held[t]].PathAllocated
      BY <1>7, <2>1 DEF CallbackMark, IInv, HeldInfosOwned
    <3>2. CASE ~rec[held[t]].IsInjected
      BY <2>1, <3>1, <3>2 DEF Changed
    <3>3. CASE rec[held[t]].IsInjected
      <4>1. /\ held[t] \in Infos /\ rec \in [Infos -> InfoRec]
            /\ rec[held[t]] \in InfoRec
        BY <2>1 DEF IInv, TypeOK
      <4>2. [rec[held[t]] EXCEPT !.IsInjected = TRUE] = rec[held[t]]
        BY <3>3, <4>1 DEF InfoRec
      <4>3. rec' = [rec EXCEPT ![held[t]] = rec[held[t]]]
        BY <3>1, <4>2 DEF MarkInjected
      <4> QED BY <3>1, <4>1, <4>3 DEF MarkInjected
    <3> QED BY <3>2, <3>3
  <2>2. CASE held[t] \notin infoPool
    BY <1>7, <2>2 DEF CallbackMark, Bugcheck
  <2> QED BY <2>1, <2>2
<1>8. ASSUME NEW t \in Threads,
             \/ OpenTargetKey(t) \/ RegistryInject(t)
             \/ DeliverKernelApc(t) \/ DeliverUserApc(t)
      PROVE  UNCHANGED <<infoPool, pathPool, rec>>
  BY <1>8 DEF OpenTargetKey, InjRegistryCallback, RegistryInject, DeliverKernelApc,
              DeliverUserApc, Bugcheck
<1>9. \A p \in Pids : Entry(p) \in SUBSET infoPool
  BY DEF Entry
<1>10. \A t \in Threads : ProcessOf[t] \in Pids
  BY ThreadsOfProcesses
<1>11. ASSUME NEW t \in Threads, ThreadNext(t)
       PROVE  \/ UNCHANGED <<infoPool, pathPool, rec>>
              \/ Removed(Entry(ProcessOf[t]))
              \/ \E i \in infoPool : Changed(i)
  BY <1>11, <1>6, <1>7, <1>8 DEF ThreadNext
<1> QED
  BY <1>1, <1>2, <1>3, <1>4, <1>5, <1>9, <1>10, <1>11 DEF Next, ProcessNext

\* What a step of InfoSteps that changes one info leaves of the others and of
\* the info itself.
LEMMA ChangedIs ==
  ASSUME IInv, NEW i \in infoPool, Changed(i)
  PROVE  /\ infoPool' = infoPool /\ i \in Infos
         /\ \A j \in Infos \ {i} : rec'[j] = rec[j]
         /\ rec'[i].ProcessId = rec[i].ProcessId
         /\ \/ /\ rec'[i].IsInjected = rec[i].IsInjected
               /\ rec'[i].PathAllocated = rec[i].PathAllocated
               /\ rec'[i].Path = rec[i].Path
            \/ /\ rec[i].PathAllocated
               /\ rec'[i].IsInjected
               /\ rec'[i].PathAllocated = rec[i].PathAllocated
               /\ rec'[i].Path = rec[i].Path
            \/ ~rec'[i].IsInjected /\ rec'[i].PathAllocated
<1>1. i \in Infos /\ rec \in [Infos -> InfoRec] /\ rec[i] \in InfoRec
  BY DEF IInv, TypeOK
<1>2. ASSUME NEW img \in Images, RecordSystemDll(i, img)
      PROVE  /\ infoPool' = infoPool
             /\ \A j \in Infos \ {i} : rec'[j] = rec[j]
             /\ rec'[i].ProcessId = rec[i].ProcessId
             /\ rec'[i].IsInjected = rec[i].IsInjected
             /\ rec'[i].PathAllocated = rec[i].PathAllocated
             /\ rec'[i].Path = rec[i].Path
  BY <1>1, <1>2 DEF RecordSystemDll, InfoRec
<1>3. ASSUME MarkInjected(i)
      PROVE  /\ infoPool' = infoPool
             /\ \A j \in Infos \ {i} : rec'[j] = rec[j]
             /\ rec'[i].ProcessId = rec[i].ProcessId
             /\ rec'[i].IsInjected
             /\ rec'[i].PathAllocated = rec[i].PathAllocated
             /\ rec'[i].Path = rec[i].Path
  BY <1>1, <1>3 DEF MarkInjected, InfoRec
<1>4. ASSUME NEW path \in Paths, NEW suppress \in BOOLEAN, Armed(i, path, suppress),
             ~rec[i].IsInjected
      PROVE  /\ infoPool' = infoPool
             /\ \A j \in Infos \ {i} : rec'[j] = rec[j]
             /\ rec'[i].ProcessId = rec[i].ProcessId
             /\ ~rec'[i].IsInjected /\ rec'[i].PathAllocated
  BY <1>1, <1>4 DEF Armed, InfoRec
<1> QED BY <1>1, <1>2, <1>3, <1>4 DEF Changed

\* ExFreePoolWithTag of a path goes with that of its info: a step after which
\* no info owns a buffer any more has freed it, unless a second request put
\* another buffer in its place.
THEOREM PathsGoWithInfos == Spec => PathsFreedWithInfos
<1> DEFINE Kept(b) == \/ b \notin pathPool'
                      \/ \E i \in PathOwners(b) : i \in infoPool' /\ rec'[i].PathAllocated
           Step == \A b \in pathPool : PathOwners(b) # {} /\ PathOwners(b)' = {} => Kept(b)
<1>1. IInv /\ [Next]_vars => [Step]_vars
  <2> SUFFICES ASSUME IInv, Next, NEW b \in pathPool, NEW i \in PathOwners(b),
                      PathOwners(b)' = {}
               PROVE  Kept(b)
    OBVIOUS
  <2>1. /\ i \in infoPool /\ i \in Infos /\ rec[i].PathAllocated /\ rec[i].Path = b
        /\ rec \in [Infos -> InfoRec] /\ infoPool \subseteq Infos
    BY DEF PathOwners, IInv, TypeOK
  <2>2. ~(i \in infoPool' /\ rec'[i] = rec[i])
    BY <2>1 DEF PathOwners
  <2>3. ASSUME NEW p \in Pids, Added(p) PROVE FALSE
    BY <2>1, <2>2, <2>3 DEF Added
  <2>4. ASSUME NEW S \in SUBSET infoPool, Removed(S) PROVE Kept(b)
    BY <2>1, <2>2, <2>4 DEF Removed
  <2>5. ASSUME NEW j \in infoPool, Changed(j) PROVE Kept(b)
    <3>1. j = i
      BY <2>1, <2>2, <2>5, ChangedIs
    <3>2. i \in infoPool' /\ rec'[i].PathAllocated
      BY <2>1, <2>5, <3>1, ChangedIs
    <3> QED BY <3>2
  <2>6. CASE UNCHANGED <<infoPool, pathPool, rec>>
    BY <2>1, <2>2, <2>6
  <2> QED BY <2>3, <2>4, <2>5, <2>6, InfoSteps
<1> QED BY <1>1, Invariance, PTL DEF Spec, PathsFreedWithInfos

-----------------------------------------------------------------------------
(***************************************************************************)
(* The driver implements InjTracking.                                      *)
(***************************************************************************)

\* The status of a process is read off its one info.
StatusRead ==
  /\ \A p \in Pids : /\ Entry(p) = {} => Status[p] = "untracked"
                     /\ \A i \in Entry(p) : Status[p] = StatusOf(i)
  /\ Status = [p \in Pids |-> Status[p]]

\* No process has two infos, and a block that is free belongs to none.
LEMMA StatusIs == IInv => StatusRead
<1> SUFFICES ASSUME IInv PROVE StatusRead
  OBVIOUS
<1>1. ASSUME NEW p \in Pids PROVE InfosOf(p) = Entry(p)
  <2>1. \A i \in Infos \ infoPool : rec[i].ProcessId # p
    BY NullAssumption DEF IInv, BlocksInUse, ZeroInfo
  <2> QED BY <2>1 DEF InfosOf, Entry, IInv, TypeOK
<1>2. ASSUME NEW p \in Pids, NEW i \in Entry(p) PROVE Entry(p) = {i}
  <2>1. LibInUse /\ ListInv
    BY <1>2, IInvParts DEF IInv, InfosLinkedOnce, Entry
  <2>2. \A j \in Entry(p) : j = i
    BY <2>1, UniqueInfo DEF Entry
  <2> QED BY <2>2
<1>3. ASSUME NEW p \in Pids, NEW i \in Entry(p) PROVE Status[p] = StatusOf(i)
  <2>1. (CHOOSE j \in Entry(p) : TRUE) = i /\ Entry(p) # {}
    BY <1>2
  <2> QED BY <1>1, <2>1 DEF Status
<1>4. ASSUME NEW p \in Pids, Entry(p) = {} PROVE Status[p] = "untracked"
  BY <1>1, <1>4 DEF Status
<1> QED BY <1>3, <1>4 DEF Status, StatusRead

\* Every step of the driver is a step of InjTracking, or changes no status.
LEMMA StepsAreTracking == IInv /\ Next => [Tracking!Next]_Status
<1> SUFFICES ASSUME IInv, Next PROVE Tracking!Next \/ Status' = Status
  OBVIOUS
<1>1. IInv'
  BY NextKeepsIInv
<1>2. StatusRead /\ StatusRead'
  <2>1. StatusRead
    BY StatusIs
  <2>2. IInv' => StatusRead'
    BY StatusIs, PTL
  <2> QED BY <1>1, <2>1, <2>2
<1>3. /\ \A p \in Pids : /\ Entry(p) = {} => Status[p] = "untracked"
                         /\ \A i \in Entry(p) : Status[p] = StatusOf(i)
      /\ Status = [p \in Pids |-> Status[p]]
  BY <1>2 DEF StatusRead
<1>4. /\ \A p \in Pids : /\ Entry(p)' = {} => Status'[p] = "untracked"
                         /\ \A i \in Entry(p)' : Status'[p] = StatusOf(i)'
      /\ Status' = [p \in Pids |-> Status'[p]]
  BY <1>2 DEF StatusRead
<1>5. ASSUME NEW p \in Pids, NEW i \in Entry(p)', i \in infoPool, rec'[i] = rec[i]
      PROVE  Status'[p] = Status[p]
  BY <1>3, <1>4, <1>5 DEF Entry, StatusOf
<1>6. ASSUME NEW p \in Pids, Entry(p)' = {}, Entry(p) = {}
      PROVE  Status'[p] = Status[p]
  BY <1>3, <1>4, <1>6
<1>7. rec \in [Infos -> InfoRec] /\ infoPool \subseteq Infos
  BY DEF IInv, TypeOK
<1>8. CASE UNCHANGED <<infoPool, pathPool, rec>>
  <2>1. \A p \in Pids : Entry(p)' = Entry(p)
    BY <1>8 DEF Entry
  <2>2. \A p \in Pids : Status'[p] = Status[p]
    BY <1>5, <1>6, <1>8, <2>1 DEF Entry
  <2> QED BY <1>3, <1>4, <2>2
<1>9. ASSUME NEW p \in Pids, Added(p) PROVE Tracking!Next
  <2>1. PICK i \in Infos \ infoPool :
          /\ infoPool' = infoPool \cup {i}
          /\ rec' = [rec EXCEPT ![i] = [ZeroInfo EXCEPT !.ProcessId = p]]
    BY <1>9 DEF Added
  <2>2. /\ rec'[i].ProcessId = p /\ ~rec'[i].IsInjected /\ ~rec'[i].PathAllocated
        /\ \A j \in Infos \ {i} : rec'[j] = rec[j]
    BY <1>7, <2>1 DEF ZeroInfo
  <2>3. i \in Entry(p)'
    BY <2>1, <2>2 DEF Entry
  <2>4. Status[p] = "untracked" /\ Status'[p] = "tracked"
    BY <1>3, <1>4, <1>9, <2>2, <2>3 DEF Added, StatusOf
  <2>5. ASSUME NEW q \in Pids \ {p} PROVE Status'[q] = Status[q]
    <3>1. Entry(q)' = Entry(q) /\ \A j \in Entry(q) : j \in infoPool /\ rec'[j] = rec[j]
      BY <1>7, <2>1, <2>2 DEF Entry
    <3> QED BY <1>5, <1>6, <3>1
  <2>6. Status' = [Status EXCEPT ![p] = "tracked"]
    BY <1>3, <1>4, <2>4, <2>5
  <2> QED BY <2>4, <2>6 DEF Tracking!Next, Tracking!Track, Tracking!Move
<1>10. ASSUME NEW S \in SUBSET infoPool, Removed(S) PROVE Tracking!Next
  <2> DEFINE G == {p \in Pids : Entry(p)' = {}}
  <2>1. \A p \in G : Status'[p] = "untracked"
    BY <1>4
  <2>2. ASSUME NEW p \in Pids \ G PROVE Status'[p] = Status[p]
    <3>1. PICK i \in Entry(p)' : TRUE
      BY <2>2
    <3>2. i \in infoPool /\ rec'[i] = rec[i]
      BY <1>7, <1>10 DEF Removed, Entry
    <3> QED BY <1>5, <3>2
  <2>3. Status' = [p \in Pids |-> IF p \in G THEN "untracked" ELSE Status[p]]
    BY <1>4, <2>1, <2>2
  <2>4. G \in SUBSET Pids
    OBVIOUS
  <2> HIDE DEF G
  <2> QED BY <2>3, <2>4 DEF Tracking!Next, Tracking!Forget
<1>11. ASSUME NEW i \in infoPool, Changed(i) PROVE Tracking!Next \/ Status' = Status
  <2>1. PICK p \in Pids : p = rec[i].ProcessId
    BY DEF IInv, BlocksInUse
  <2>2. /\ infoPool' = infoPool /\ i \in Infos
        /\ \A j \in Infos \ {i} : rec'[j] = rec[j]
        /\ rec'[i].ProcessId = p
    BY <1>11, <2>1, ChangedIs
  <2>3. i \in Entry(p) /\ i \in Entry(p)' /\ ~rec[i].IsInjected
    BY <1>11, <2>1, <2>2 DEF Entry, Changed
  <2>4. Status[p] = StatusOf(i) /\ Status'[p] = StatusOf(i)'
    BY <1>3, <1>4, <2>1, <2>3
  <2>5. ASSUME NEW q \in Pids \ {p} PROVE Status'[q] = Status[q]
    <3>1. Entry(q)' = Entry(q) /\ \A j \in Entry(q) : j \in infoPool /\ rec'[j] = rec[j]
      BY <1>7, <2>1, <2>2 DEF Entry
    <3> QED BY <1>5, <1>6, <3>1
  <2>6. Status' = [Status EXCEPT ![p] = StatusOf(i)']
    BY <1>3, <1>4, <2>1, <2>4, <2>5
  <2>7. CASE /\ rec'[i].IsInjected = rec[i].IsInjected
             /\ rec'[i].PathAllocated = rec[i].PathAllocated
    <3>1. StatusOf(i)' = Status[p]
      BY <2>4, <2>7 DEF StatusOf
    <3> QED BY <1>3, <2>1, <2>6, <3>1
  <2>8. CASE rec[i].PathAllocated /\ rec'[i].IsInjected
    <3>1. StatusOf(i)' = "attempted" /\ Status[p] = "armed"
      BY <2>3, <2>4, <2>8 DEF StatusOf
    <3> QED BY <2>1, <2>6, <3>1 DEF Tracking!Next, Tracking!Attempt, Tracking!Move
  <2>9. CASE ~rec'[i].IsInjected /\ rec'[i].PathAllocated
    <3>1. StatusOf(i)' = "armed" /\ Status[p] \in {"tracked", "armed"}
      BY <2>3, <2>4, <2>9 DEF StatusOf
    <3> QED BY <2>1, <2>6, <3>1 DEF Tracking!Next, Tracking!Arm, Tracking!Move
  <2> QED BY <1>11, <2>7, <2>8, <2>9, ChangedIs
<1> QED BY <1>8, <1>9, <1>10, <1>11, InfoSteps

\* Whatever the callbacks, the control code and the unloading do, an attempt
\* is noted only for an armed process, once, and then it is only forgotten.
THEOREM Refinement == Spec => ImplementsTracking
<1>1. Init => Tracking!Init
  <2> SUFFICES ASSUME Init PROVE Status = [p \in Pids |-> "untracked"]
    BY DEF Tracking!Init
  <2>1. \A p \in Pids : InfosOf(p) = {}
    BY NullAssumption DEF Init, InfosOf, ZeroInfo
  <2> QED BY <2>1 DEF Status
<1>2. IInv /\ [Next]_vars => [Tracking!Next]_Status
  <2>1. UNCHANGED vars => Status' = Status
    BY DEF vars, listVars, Status, StatusOf, InfosOf
  <2> QED BY <2>1, StepsAreTracking
<1> QED BY <1>1, <1>2, Invariance, PTL DEF Spec, ImplementsTracking, Tracking!Spec
-----------------------------------------------------------------------------
(***************************************************************************)
(* Which processes are injected, and through which LdrLoadDll.             *)
(***************************************************************************)

\* The ntdll.dll the injection of p needs is mapped and noted in the info i.
NeededNoted(p, i) ==
  WantedNtdll(p) \in proc[p].images /\ rec[i].LdrLoadDll = WantedNtdll(p)

\* What the info of a process notes of its images.  A protected process whose
\* ntdll.dll was seen has no info any more.
InfoSound(p) ==
  "create" \in registered =>
    \A i \in Entry(p) :
      /\ rec[i].LoadedDlls \subseteq proc[p].images
      /\ ~proc[p].missed =>
           /\ proc[p].prot => /\ ~rec[i].IsInjected
                              /\ "system32_ntdll" \notin proc[p].images
           /\ stage = "create" => "system32_ntdll" \notin proc[p].images
           /\ /\ "image" \in registered /\ ~rec[i].IsInjected
              /\ WantedNtdll(p) \in proc[p].images
              => rec[i].LdrLoadDll = WantedNtdll(p)

\* The native ntdll.dll is mapped before the other one.
ProcessSound(p) ==
  /\ "syswow64_ntdll" \in proc[p].images => "system32_ntdll" \in proc[p].images
  /\ ~proc[p].alive => proc[p] = NoProcess /\ p \notin injected
  /\ proc[p].prot /\ ~proc[p].missed => p \notin injected

\* The injections that a thread is in, or has pending.
ThreadSound(t) ==
  ~proc[ProcessOf[t]].missed =>
    /\ stage # "d_device" /\ t \notin stale =>
         \A k \in DOMAIN kapc[t] : NeededNoted(ProcessOf[t], kapc[t][k])
    /\ at[t] = "r_inject" => NeededNoted(ProcessOf[t], held[t])
    /\ \A k \in DOMAIN uapc[t] : uapc[t][k].routine = WantedNtdll(ProcessOf[t])
    /\ proc[ProcessOf[t]].prot => at[t] = "user" /\ kapc[t] = <<>> /\ uapc[t] = <<>>

\* The invariant, inductive together with IInv.
LdrInv ==
  /\ \A p \in Pids : InfoSound(p) /\ ProcessSound(p)
  /\ \A t \in Threads : ThreadSound(t)

\* What InfoSound and ThreadSound look at in an info.
SameNotes(i) ==
  /\ rec'[i].LoadedDlls = rec[i].LoadedDlls
  /\ rec'[i].IsInjected = rec[i].IsInjected
  /\ rec'[i].LdrLoadDll = rec[i].LdrLoadDll

\* The contexts of the APCs of a thread, and what it holds, are infos of its
\* process.
LEMMA ContextIsEntry ==
  ASSUME IInv, NEW t \in Threads
  PROVE  /\ stage # "d_device" /\ t \notin stale =>
              \A k \in DOMAIN kapc[t] : kapc[t][k] \in Entry(ProcessOf[t])
         /\ at[t] # "user" /\ ~proc[ProcessOf[t]].prot => held[t] \in Entry(ProcessOf[t])
  BY DEF IInv, ApcContextsLinked, HeldInfosOwned, Entry

\* A step that concerns another process leaves what was said of this one.
LEMMA ProcessFrame ==
  ASSUME LdrInv, NEW q \in Pids, UNCHANGED <<stage, registered>>,
         proc'[q] = proc[q], q \in injected' => q \in injected,
         \A i \in Entry(q) : SameNotes(i),
         \A i \in Entry(q)' : i \in Entry(q)
  PROVE  InfoSound(q)' /\ ProcessSound(q)'
<1>1. InfoSound(q) /\ ProcessSound(q)
  BY DEF LdrInv
<1>2. WantedNtdll(q)' = WantedNtdll(q)
  BY DEF WantedNtdll
<1>3. InfoSound(q)'
  BY <1>1, <1>2 DEF InfoSound, SameNotes
<1>4. ProcessSound(q)'
  BY <1>1 DEF ProcessSound
<1> QED BY <1>3, <1>4

\* A thread that does not move keeps the addresses it needs while its process
\* maps more images, unless the process is protected.
LEMMA ThreadLooksOn ==
  ASSUME IInv, LdrInv, NEW t \in Threads,
         at'[t] = at[t], held'[t] = held[t], kapc'[t] = kapc[t], uapc'[t] = uapc[t],
         stage' # "d_device" /\ t \notin stale' =>
           kapc[t] = <<>> \/ (stage # "d_device" /\ t \notin stale),
         proc'[ProcessOf[t]].prot = proc[ProcessOf[t]].prot,
         proc'[ProcessOf[t]].wow64 = proc[ProcessOf[t]].wow64,
         proc[ProcessOf[t]].missed => proc'[ProcessOf[t]].missed,
         proc[ProcessOf[t]].images \subseteq proc'[ProcessOf[t]].images,
         stage' = "d_device" \/ kapc[t] # <<>> \/ at[t] # "user" =>
           \/ proc[ProcessOf[t]].prot
           \/ stage' = "d_device" /\ at[t] = "user"
           \/ \A i \in Entry(ProcessOf[t]) : NeededNoted(ProcessOf[t], i) =>
                rec'[i].LdrLoadDll = rec[i].LdrLoadDll
  PROVE  ThreadSound(t)'
<1>1. ThreadSound(t)
  BY DEF LdrInv
<1>2. WantedNtdll(ProcessOf[t])' = WantedNtdll(ProcessOf[t])
  BY DEF WantedNtdll
<1>3. DOMAIN <<>> = {}
  OBVIOUS
<1>4. ASSUME ~proc[ProcessOf[t]].missed, stage' # "d_device", t \notin stale',
             NEW k \in DOMAIN kapc[t]
      PROVE  NeededNoted(ProcessOf[t], kapc[t][k])'
  <2>1. kapc[t] # <<>>
    BY <1>3, <1>4
  <2>2. stage # "d_device" /\ t \notin stale /\ ~proc[ProcessOf[t]].prot
    BY <1>1, <1>4, <2>1 DEF ThreadSound
  <2>3. NeededNoted(ProcessOf[t], kapc[t][k]) /\ kapc[t][k] \in Entry(ProcessOf[t])
    BY <1>1, <1>4, <2>2, ContextIsEntry DEF ThreadSound
  <2> QED BY <1>2, <1>4, <2>1, <2>2, <2>3 DEF NeededNoted
<1>5. ASSUME ~proc[ProcessOf[t]].missed, at[t] = "r_inject"
      PROVE  NeededNoted(ProcessOf[t], held[t])'
  <2>1. ~proc[ProcessOf[t]].prot
    BY <1>1, <1>5 DEF ThreadSound
  <2>2. NeededNoted(ProcessOf[t], held[t]) /\ held[t] \in Entry(ProcessOf[t])
    BY <1>1, <1>5, <2>1, ContextIsEntry DEF ThreadSound
  <2> QED BY <1>2, <1>5, <2>1, <2>2 DEF NeededNoted
<1> QED BY <1>1, <1>2, <1>4, <1>5 DEF ThreadSound

\* A step that changes neither what the infos note nor the processes keeps what
\* is said of a thread that does not move.
LEMMA ThreadRests ==
  ASSUME IInv, LdrInv, NEW t \in Threads, UNCHANGED <<stage, stale>>,
         at'[t] = at[t], held'[t] = held[t], kapc'[t] = kapc[t], uapc'[t] = uapc[t],
         proc'[ProcessOf[t]] = proc[ProcessOf[t]],
         \A i \in Entry(ProcessOf[t]) : rec'[i].LdrLoadDll = rec[i].LdrLoadDll
  PROVE  ThreadSound(t)'
  BY ThreadLooksOn

\* A step of DriverEntryImpl or DriverDestroy that keeps the infos: the
\* load-image callback is registered when no process that has an info and is
\* not missed has mapped its ntdll.dll.
LEMMA LdrStage ==
  ASSUME IInv, LdrInv,
         UNCHANGED <<infoPool, rec, proc, at, held, kapc, uapc, injected>>,
         "create" \in registered' => "create" \in registered \/ infoPool = {},
         stage' = "create" => stage = "create" \/ infoPool = {},
         "image" \in registered' => "image" \in registered \/ stage = "create",
         stage' # "d_device",
         \A t \in Threads : t \notin stale' =>
           kapc[t] = <<>> \/ (stage # "d_device" /\ t \notin stale)
  PROVE  LdrInv'
<1>1. ASSUME NEW p \in Pids PROVE InfoSound(p)' /\ ProcessSound(p)'
  <2>1. InfoSound(p) /\ ProcessSound(p)
    BY DEF LdrInv
  <2>2. WantedNtdll(p)' = WantedNtdll(p) /\ Entry(p)' = Entry(p)
    BY DEF WantedNtdll, Entry
  <2>3. "system32_ntdll" \notin proc[p].images => WantedNtdll(p) \notin proc[p].images
    BY <2>1 DEF ProcessSound, WantedNtdll
  <2>4. InfoSound(p)'
    BY <2>1, <2>2, <2>3 DEF InfoSound, Entry
  <2>5. ProcessSound(p)'
    BY <2>1 DEF ProcessSound
  <2> QED BY <2>4, <2>5
<1>2. ASSUME NEW t \in Threads PROVE ThreadSound(t)'
  BY ThreadLooksOn
<1> QED BY <1>1, <1>2 DEF LdrInv

\* DriverEntryImpl, DriverUnload and DriverDestroy.
LEMMA LdrDriverStep ==
  ASSUME IInv, LdrInv, DriverEntryImpl \/ DriverUnload \/ DriverDestroy
  PROVE  LdrInv'
<1> USE DEF listVars, threadVars, apcVars
<1>1. /\ "create" \in registered <=> "create" \in flags /\ "create" \notin Revoked
      /\ "image" \in registered <=> "image" \in flags /\ "image" \notin Revoked
      /\ flags = StageFlags
  BY DEF IInv, RegistrationInv, Callbacks
<1>2. flags = {} => infoPool = {}
  BY DEF IInv, InfosLinkedOnce, LibInUse
<1>3. stage = "lib" => infoPool = {}
  BY DEF IInv, RegistrationInv, InfosLinkedOnce
<1>4. CASE CreateDeviceAndLink
  BY <1>4, LdrStage DEF CreateDeviceAndLink
<1>5. CASE InjCreateSettings \/ InjInitialize
  BY <1>5, LdrStage DEF InjCreateSettings, InjInitialize
<1>6. CASE Register("lib", "create", "create")
  BY <1>3, <1>6, LdrStage DEF Register
<1>7. CASE Register("create", "image", "image") \/ Register("image", "loaded", "cm")
  BY <1>7, LdrStage DEF Register
<1>8. CASE \E from \in EntryStages \ {"settings", "loaded"} : EntryFails(from)
  BY <1>8, LdrStage DEF EntryFails, EntryStages
<1>9. CASE DriverUnload
  BY <1>9, LdrStage DEF DriverUnload
<1>10. CASE \/ Unregister("d_cm", "d_image", "cm")
            \/ Unregister("d_image", "d_create", "image")
            \/ Unregister("d_create", "d_lib", "create")
  BY <1>10, LdrStage DEF Unregister
<1>11. CASE DestroyLib
  <2>1. stage' = "d_device" /\ infoPool' = {} /\ UNCHANGED <<registered, proc, threadVars, apcVars>>
    <3>1. CASE "lib" \in flags
      <4>1. LibInUse /\ InjDestroy
        BY <1>11, <3>1 DEF DestroyLib, LibInUse
      <4> QED BY <1>11, <4>1, DestroyIs DEF DestroyLib, Removed
    <3>2. CASE "lib" \notin flags
      <4>1. infoPool = {}
        BY <3>2 DEF IInv, InfosLinkedOnce, LibInUse
      <4> QED BY <1>11, <3>2, <4>1 DEF DestroyLib
    <3> QED BY <3>1, <3>2
  <2>2. ASSUME NEW p \in Pids PROVE InfoSound(p)' /\ ProcessSound(p)'
    <3>1. InfoSound(p) /\ ProcessSound(p)
      BY DEF LdrInv
    <3> QED BY <2>1, <3>1 DEF InfoSound, Entry, ProcessSound
  <2>3. ASSUME NEW t \in Threads PROVE ThreadSound(t)'
    <3>1. registered = {}
      BY <1>11 DEF DestroyLib, IInv, RegistrationInv, Revoked
    <3>2. at[t] = "user"
      BY <3>1, InUseWhenHeld, IInvParts DEF ThreadTypes
    <3> QED BY <2>1, <3>2, ThreadLooksOn
  <2> QED BY <2>2, <2>3 DEF LdrInv
<1>12. CASE DestroyDevice
  <2>1. \A t \in Threads \ stale' : kapc[t] = <<>>
    BY <1>12 DEF DestroyDevice
  <2> QED BY <1>12, <2>1, LdrStage DEF DestroyDevice
<1> QED BY <1>4, <1>5, <1>6, <1>7, <1>8, <1>9, <1>10, <1>11, <1>12
        DEF DriverEntryImpl, DriverDestroy

\* An INJECT request notes nothing about images.
LEMMA LdrIoctl ==
  ASSUME IInv, LdrInv, NEW data \in InjectData, NEW path \in Paths,
         SioctlDeviceControl(data, path)
  PROVE  LdrInv'
<1> DEFINE i == InjFindInjectionInfo(data.ProcessId)
<1>1. data.ProcessId \in Pids /\ LibInUse
  BY InUseWhenCalled, IInvParts DEF InjectData, SioctlDeviceControl
<1>2. i \in infoPool /\ i \in Infos
  BY <1>1, EntryIs DEF SioctlDeviceControl
<1>3. /\ rec' = [rec EXCEPT ![i].Path = path, ![i].Suppress = data.Suppress,
                            ![i].PathAllocated = TRUE]
      /\ UNCHANGED <<driverVars, infoPool, proc, threadVars, apcVars>>
  BY DEF SioctlDeviceControl
<1> HIDE DEF i
<1>4. rec \in [Infos -> InfoRec] /\ infoPool \subseteq Infos
  BY DEF IInv, TypeOK
<1>5. \A j \in Infos : SameNotes(j) /\ rec'[j].ProcessId = rec[j].ProcessId
  BY <1>2, <1>3, <1>4 DEF SameNotes, InfoRec
<1>6. \A q \in Pids : /\ Entry(q)' = Entry(q) /\ Entry(q) \subseteq Infos
                      /\ \A j \in Entry(q) : rec'[j].LdrLoadDll = rec[j].LdrLoadDll
  BY <1>3, <1>4, <1>5 DEF Entry, SameNotes
<1>7. ASSUME NEW q \in Pids PROVE InfoSound(q)' /\ ProcessSound(q)'
  BY <1>3, <1>5, <1>6, ProcessFrame DEF driverVars, apcVars
<1>8. ASSUME NEW t \in Threads PROVE ThreadSound(t)'
  <2>1. ProcessOf[t] \in Pids
    BY ThreadsOfProcesses
  <2> QED BY <1>3, <1>6, <2>1, ThreadRests DEF driverVars, threadVars, apcVars
<1> QED BY <1>7, <1>8 DEF LdrInv

\* A process that starts has mapped nothing; its info is new.
LEMMA LdrCreate ==
  ASSUME IInv, LdrInv, NEW p \in Pids, ProcessCreate(p)
  PROVE  LdrInv'
<1>1. /\ UNCHANGED <<stage, registered, at, held, kapc, uapc, injected, stale>>
      /\ ~proc[p].alive
  BY DEF ProcessCreate, driverVars, threadVars, apcVars
<1>2. PICK k \in Kinds :
        proc' = [proc EXCEPT ![p] = [NoProcess EXCEPT !.alive = TRUE,
                                      !.wow64 = k.wow64, !.prot = k.prot]]
  BY DEF ProcessCreate
<1>3. /\ proc'[p].alive /\ proc'[p].images = {} /\ ~proc'[p].missed
      /\ \A q \in Pids \ {p} : proc'[q] = proc[q]
  BY <1>2 DEF NoProcess, IInv, TypeOK
<1>4. /\ infoPool \subseteq Infos /\ rec \in [Infos -> InfoRec]
  BY DEF IInv, TypeOK
<1>5. /\ \A j \in infoPool : j \in infoPool' /\ rec'[j] = rec[j]
      /\ \A j \in infoPool' \ infoPool :
           /\ rec'[j].ProcessId = p /\ rec'[j].LoadedDlls = {} /\ ~rec'[j].IsInjected
      /\ "create" \in registered => Entry(p) = {}
  <2>1. \/ UNCHANGED listVars
        \/ \E i \in Infos \ infoPool :
             /\ infoPool' = infoPool \cup {i}
             /\ rec' = [rec EXCEPT ![i] = [ZeroInfo EXCEPT !.ProcessId = p]]
    BY DEF ProcessCreate, InjCreateInjectionInfo
  <2>2. "create" \in registered => LibInUse
    BY InUseWhenCalled, IInvParts
  <2>3. "create" \in registered => Entry(p) = {}
    BY <1>1, <2>2 DEF IInv, InfosOfLivingProcesses, InfosLinkedOnce, Entry
  <2>4. CASE UNCHANGED listVars
    BY <2>3, <2>4 DEF listVars
  <2>5. ASSUME NEW i \in Infos \ infoPool,
               infoPool' = infoPool \cup {i},
               rec' = [rec EXCEPT ![i] = [ZeroInfo EXCEPT !.ProcessId = p]]
        PROVE  /\ \A j \in infoPool : j \in infoPool' /\ rec'[j] = rec[j]
               /\ \A j \in infoPool' \ infoPool :
                    /\ rec'[j].ProcessId = p /\ rec'[j].LoadedDlls = {}
                    /\ ~rec'[j].IsInjected
    BY <1>4, <2>5 DEF ZeroInfo
  <2> QED BY <2>1, <2>3, <2>4, <2>5
<1>6. InfoSound(p) /\ ProcessSound(p)
  BY DEF LdrInv
<1>7. InfoSound(p)'
  <2>1. "create" \in registered => \A i \in Entry(p)' : i \in infoPool' \ infoPool
    BY <1>5 DEF Entry
  <2>2. WantedNtdll(p)' \in NtdllFlags
    BY DEF WantedNtdll, NtdllFlags
  <2> QED BY <1>1, <1>3, <1>5, <2>1, <2>2 DEF InfoSound
<1>8. ProcessSound(p)'
  BY <1>1, <1>3, <1>6 DEF ProcessSound
<1>9. ASSUME NEW q \in Pids \ {p} PROVE InfoSound(q)' /\ ProcessSound(q)'
  <2>1. \A i \in Entry(q)' : i \in Entry(q)
    BY <1>5 DEF Entry
  <2>2. \A i \in Entry(q) : SameNotes(i)
    BY <1>5 DEF Entry, SameNotes
  <2> QED BY <1>1, <1>3, <2>1, <2>2, ProcessFrame
<1>10. ASSUME NEW t \in Threads PROVE ThreadSound(t)'
  <2>1. CASE ProcessOf[t] = p
    <3>1. at[t] = "user" /\ kapc[t] = <<>> /\ uapc[t] = <<>>
      BY <1>1, <2>1 DEF IInv, NothingUnderWay
    <3>2. DOMAIN <<>> = {} OBVIOUS
    <3> QED BY <1>1, <3>1, <3>2 DEF ThreadSound
  <2>2. CASE ProcessOf[t] # p
    <3>1. proc'[ProcessOf[t]] = proc[ProcessOf[t]]
      BY <1>3, <2>2, ThreadsOfProcesses
    <3>2. \A i \in Entry(ProcessOf[t]) : rec'[i].LdrLoadDll = rec[i].LdrLoadDll
      BY <1>5 DEF Entry
    <3> QED BY <1>1, <3>1, <3>2, ThreadRests
  <2> QED BY <2>1, <2>2
<1> QED BY <1>7, <1>8, <1>9, <1>10 DEF LdrInv

\* What removing the info of a process leaves of the others.
LEMMA RemovedIs ==
  ASSUME IInv, NEW p \in Pids, Removed(Entry(p))
  PROVE  /\ Entry(p)' = {}
         /\ \A q \in Pids \ {p} : /\ Entry(q)' = Entry(q)
                                  /\ \A i \in Entry(q) : rec'[i] = rec[i]
<1>1. infoPool \subseteq Infos
  BY DEF IInv, TypeOK
<1> QED BY <1>1 DEF Removed, Entry

\* A process that ends takes its info and its APCs along.
LEMMA LdrExit ==
  ASSUME IInv, LdrInv, NEW p \in Pids, ProcessExit(p)
  PROVE  LdrInv'
<1>1. /\ UNCHANGED <<stage, registered, at, held, kapc>>
      /\ \A t \in Threads : ProcessOf[t] = p => at[t] = "user" /\ kapc[t] = <<>>
      /\ stale' = stale \ ThreadsOf(p) /\ injected' = injected \ {p}
      /\ \A t \in Threads : uapc'[t] = IF ProcessOf[t] = p THEN <<>> ELSE uapc[t]
      /\ proc'[p] = NoProcess /\ \A q \in Pids \ {p} : proc'[q] = proc[q]
  BY DEF ProcessExit, driverVars, threadVars, IInv, TypeOK, ThreadsOf
<1>2. \/ UNCHANGED listVars /\ "create" \notin registered
      \/ Removed(Entry(p))
  BY RemoveIs, InUseWhenCalled, IInvParts DEF ProcessExit
<1>3. ASSUME NEW q \in Pids \ {p}
      PROVE  Entry(q)' = Entry(q) /\ \A i \in Entry(q) : rec'[i] = rec[i]
  <2>1. CASE UNCHANGED listVars
    BY <2>1 DEF listVars, Entry
  <2>2. CASE Removed(Entry(p))
    BY <2>2, RemovedIs
  <2> QED BY <1>2, <2>1, <2>2
<1>4. ASSUME NEW q \in Pids \ {p} PROVE InfoSound(q)' /\ ProcessSound(q)'
  <2>1. \A i \in Entry(q) : SameNotes(i)
    BY <1>3 DEF SameNotes
  <2> QED BY <1>1, <1>3, <2>1, ProcessFrame
<1>5. InfoSound(p)'
  BY <1>1, <1>2, RemovedIs DEF InfoSound
<1>6. ProcessSound(p)'
  BY <1>1 DEF ProcessSound, NoProcess
<1>7. ASSUME NEW t \in Threads PROVE ThreadSound(t)'
  <2>1. CASE ProcessOf[t] = p
    <3>1. at[t] = "user" /\ kapc[t] = <<>> /\ uapc'[t] = <<>>
      BY <1>1, <2>1
    <3>2. DOMAIN <<>> = {} OBVIOUS
    <3> QED BY <1>1, <3>1, <3>2 DEF ThreadSound
  <2>2. CASE ProcessOf[t] # p
    <3>1. /\ proc'[ProcessOf[t]] = proc[ProcessOf[t]] /\ uapc'[t] = uapc[t]
          /\ t \notin stale' => t \notin stale
      BY <1>1, <2>2, ThreadsOfProcesses DEF ThreadsOf
    <3>2. \A i \in Entry(ProcessOf[t]) : rec'[i].LdrLoadDll = rec[i].LdrLoadDll
      BY <1>3, <2>2, ThreadsOfProcesses
    <3> QED BY <1>1, <3>1, <3>2, ThreadLooksOn
  <2> QED BY <2>1, <2>2
<1> QED BY <1>4, <1>5, <1>6, <1>7 DEF LdrInv

\* A callback or an APC of one process: nothing moves outside of that process,
\* and its threads move rightly or look on.
LEMMA LdrOfProcess ==
  ASSUME IInv, LdrInv, NEW p \in Pids, UNCHANGED <<stage, registered, stale>>,
         \A q \in Pids \ {p} :
           /\ proc'[q] = proc[q] /\ (q \in injected' => q \in injected)
           /\ \A i \in Entry(q) : rec'[i] = rec[i]
           /\ \A i \in Entry(q)' : i \in Entry(q),
         \A t \in Threads :
           \/ ProcessOf[t] = p /\ ThreadSound(t)'
           \/ /\ at'[t] = at[t] /\ held'[t] = held[t]
              /\ kapc'[t] = kapc[t] /\ uapc'[t] = uapc[t],
         proc'[p].prot = proc[p].prot, proc'[p].wow64 = proc[p].wow64,
         proc[p].missed => proc'[p].missed,
         proc[p].images \subseteq proc'[p].images,
         \/ proc[p].prot
         \/ \A i \in Entry(p) :
              NeededNoted(p, i) => rec'[i].LdrLoadDll = rec[i].LdrLoadDll,
         InfoSound(p)', ProcessSound(p)'
  PROVE  LdrInv'
<1>1. ASSUME NEW q \in Pids \ {p} PROVE InfoSound(q)' /\ ProcessSound(q)'
  <2>1. \A i \in Entry(q) : SameNotes(i)
    BY DEF SameNotes
  <2> QED BY <2>1, ProcessFrame
<1>2. ASSUME NEW t \in Threads PROVE ThreadSound(t)'
  <2>1. CASE ProcessOf[t] # p
    <3>1. ProcessOf[t] \in Pids \ {p}
      BY <2>1, ThreadsOfProcesses
    <3>2. /\ at'[t] = at[t] /\ held'[t] = held[t]
          /\ kapc'[t] = kapc[t] /\ uapc'[t] = uapc[t]
      BY <2>1
    <3>3. proc'[ProcessOf[t]] = proc[ProcessOf[t]]
      BY <3>1
    <3>4. \A i \in Entry(ProcessOf[t]) : rec'[i].LdrLoadDll = rec[i].LdrLoadDll
      BY <3>1
    <3> QED BY <3>2, <3>3, <3>4, ThreadRests
  <2>2. CASE ProcessOf[t] = p /\ ~ThreadSound(t)'
    BY <2>2, ThreadLooksOn
  <2> QED BY <2>1, <2>2
<1> QED BY <1>1, <1>2 DEF LdrInv

\* Both callbacks that inject run while the callbacks registered before them
\* are.
LEMMA RegisteredBefore ==
  ASSUME IInv
  PROVE  /\ "image" \in registered => "create" \in registered /\ stage # "create"
         /\ "cm" \in registered => "image" \in registered
  BY DEF IInv, TypeOK, RegistrationInv, StageFlags, Revoked, Callbacks,
         EntryStages, DestroyStages

\* The ntdll.dll an injection needs is one the process has to map.
LEMMA WantedIsRequired ==
  ASSUME NEW p \in Pids
  PROVE  /\ WantedNtdll(p) \in RequiredDlls(p) \cap NtdllFlags
         /\ "system32_ntdll" \in RequiredDlls(p) \cap NtdllFlags
  BY DEF WantedNtdll, RequiredDlls, SystemDlls, NtdllFlags

\* The images are mapped once, the native ntdll.dll first.
LEMMA MapOrder ==
  ASSUME NEW p \in Pids, NEW img \in Images, MayMap(p, img)
  PROVE  /\ img \in NtdllFlags => img \in RequiredDlls(p) \ proc[p].images
         /\ img = "syswow64_ntdll" => "system32_ntdll" \in proc[p].images
<1>1. img \in NtdllFlags =>
        /\ img \in RequiredDlls(p) \ proc[p].images
        /\ \A j, k \in DOMAIN LoadOrder :
             (LoadOrder[k] = img /\ j < k) => LoadOrder[j] \in proc[p].images
  BY DEF MayMap, NtdllFlags
<1>2. /\ 1 \in DOMAIN LoadOrder /\ 2 \in DOMAIN LoadOrder /\ 1 < 2
      /\ LoadOrder[1] = "system32_ntdll" /\ LoadOrder[2] = "syswow64_ntdll"
  BY DEF LoadOrder
<1> QED BY <1>1, <1>2 DEF NtdllFlags

\* What a thread brings about when it goes on in a callback: the info it goes
\* by and its APCs have the address that the injection needs.
LEMMA ThreadMoves ==
  ASSUME LdrInv, NEW t \in Threads, NEW p \in Pids, ProcessOf[t] = p,
         UNCHANGED <<stage, stale>>,
         proc'[p].prot = proc[p].prot, proc'[p].wow64 = proc[p].wow64,
         proc[p].images \subseteq proc'[p].images,
         proc[p].missed => proc'[p].missed,
         ~proc[p].missed =>
           /\ ~proc[p].prot
           /\ at'[t] = "r_inject" => NeededNoted(p, held[t])'
           /\ stage # "d_device" /\ t \notin stale =>
                \A k \in DOMAIN kapc'[t] : NeededNoted(p, kapc[t][k])'
           /\ \A k \in DOMAIN uapc'[t] : uapc'[t][k].routine = WantedNtdll(p)
  PROVE  ThreadSound(t)'
<1>1. WantedNtdll(p)' = WantedNtdll(p)
  BY DEF WantedNtdll
<1>2. ASSUME ~proc'[p].missed
      PROVE  /\ ~proc'[p].prot
             /\ at'[t] = "r_inject" => NeededNoted(p, held[t])'
             /\ stage' # "d_device" /\ t \notin stale' =>
                  \A k \in DOMAIN kapc'[t] : NeededNoted(p, kapc[t][k])'
             /\ \A k \in DOMAIN uapc'[t] : uapc'[t][k].routine = WantedNtdll(p)
  BY <1>2
<1> QED BY <1>1, <1>2 DEF ThreadSound

\* What the load-image callback notes of an image takes the address that an
\* injection needs only from the ntdll.dll it needs.
LEMMA RecordKeepsNeeded ==
  ASSUME NEW p \in Pids, NEW img \in Images, NEW i \in Infos, MayMap(p, img),
         rec \in [Infos -> InfoRec], RecordSystemDll(i, img), ProcessSound(p),
         WantedNtdll(p) \in proc[p].images \cup {img},
         WantedNtdll(p) \in proc[p].images => rec[i].LdrLoadDll = WantedNtdll(p)
  PROVE  rec'[i].LdrLoadDll = WantedNtdll(p)
<1>1. rec'[i].LdrLoadDll = IF \/ img = "system32_ntdll"
                              \/ img = "syswow64_ntdll" /\ Method # "Thunkless"
                           THEN img ELSE rec[i].LdrLoadDll
  BY DEF RecordSystemDll, InfoRec
<1>2. /\ img \in NtdllFlags => img \in RequiredDlls(p) \ proc[p].images
      /\ img = "syswow64_ntdll" => "system32_ntdll" \in proc[p].images
  BY MapOrder
<1>3. CASE img = WantedNtdll(p)
  BY <1>1, <1>3 DEF WantedNtdll
<1>4. CASE img # WantedNtdll(p)
  <2>1. WantedNtdll(p) \in proc[p].images /\ "system32_ntdll" \in proc[p].images
    BY <1>4 DEF ProcessSound, WantedNtdll
  <2>2. img # "system32_ntdll"
    BY <1>2, <2>1 DEF NtdllFlags
  <2>3. ~(img = "syswow64_ntdll" /\ Method # "Thunkless")
    BY <1>2, <1>4, DriverAssumption DEF NtdllFlags, RequiredDlls, WantedNtdll
  <2> QED BY <1>1, <2>1, <2>2, <2>3
<1> QED BY <1>3, <1>4

\* Mapping an image, with what the load-image callback makes of it.
LEMMA LdrLoadImage ==
  ASSUME IInv, LdrInv, NEW t \in Threads, NEW img \in Images, LoadImage(t, img)
  PROVE  LdrInv'
<1> DEFINE p == ProcessOf[t]
           i == InjFindInjectionInfo(p)
<1>1. /\ UNCHANGED <<stage, flags, registered, uapc, injected, stale>>
      /\ proc[p].alive /\ MayMap(p, img) /\ at[t] = "user"
      /\ proc' = [proc EXCEPT
           ![p].images = proc[p].images \cup ({img} \cap SystemDlls),
           ![p].missed = proc[p].missed \/
                           (img = "system32_ntdll" /\ "image" \notin registered)]
  BY DEF LoadImage, driverVars
<1>2. p \in Pids
  BY ThreadsOfProcesses
<1>3. /\ proc'[p].images = proc[p].images \cup ({img} \cap SystemDlls)
      /\ proc'[p].missed <=> \/ proc[p].missed
                             \/ img = "system32_ntdll" /\ "image" \notin registered
      /\ proc'[p].alive /\ proc'[p].prot = proc[p].prot
      /\ proc'[p].wow64 = proc[p].wow64
      /\ \A q \in Pids \ {p} : proc'[q] = proc[q]
  BY <1>1, <1>2 DEF IInv, TypeOK, ProcessRec
<1>4. WantedNtdll(p)' = WantedNtdll(p)
  BY <1>3 DEF WantedNtdll
<1>5. InfoSound(p) /\ ProcessSound(p) /\ ThreadSound(t)
  BY <1>2 DEF LdrInv
<1>6. ProcessSound(p)'
  <2>1. img = "syswow64_ntdll" => "system32_ntdll" \in proc[p].images
    BY <1>1, <1>2, MapOrder
  <2> QED BY <1>1, <1>3, <1>5, <2>1 DEF ProcessSound
<1>7. infoPool \subseteq Infos /\ rec \in [Infos -> InfoRec]
      /\ at \in [Threads -> ThreadPoints] /\ held \in [Threads -> Infos \cup {NULL}]
      /\ kapc \in [Threads -> Seq(Infos)]
  BY DEF IInv, TypeOK
<1> HIDE DEF p
\* What is left to show: the infos, and the thread if it moves.
<1>8. ASSUME InfoSound(p)',
             proc[p].prot \/ \A j \in Entry(p) :
               NeededNoted(p, j) => rec'[j].LdrLoadDll = rec[j].LdrLoadDll,
             \A q \in Pids \ {p} : /\ Entry(q)' = Entry(q)
                                   /\ \A j \in Entry(q) : rec'[j] = rec[j],
             \/ UNCHANGED <<threadVars, kapc>>
             \/ /\ ThreadSound(t)'
                /\ \A u \in Threads \ {t} : /\ at'[u] = at[u] /\ held'[u] = held[u]
                                            /\ kapc'[u] = kapc[u]
      PROVE  LdrInv'
  <2>1. \A u \in Threads : \/ ProcessOf[u] = p /\ ThreadSound(u)'
                           \/ /\ at'[u] = at[u] /\ held'[u] = held[u]
                              /\ kapc'[u] = kapc[u] /\ uapc'[u] = uapc[u]
    BY <1>1, <1>8 DEF threadVars, p
  <2> QED BY <1>1, <1>2, <1>3, <1>6, <1>8, <2>1, LdrOfProcess
<1>9. CASE "image" \notin registered \/ i = NULL \/ (i # NULL /\ rec[i].IsInjected)
  <2>1. UNCHANGED <<listVars, threadVars, kapc>>
    BY <1>9 DEF LoadImage, InjLoadImageNotifyRoutine, p
  <2>2. \A q \in Pids : Entry(q)' = Entry(q) /\ \A j \in Entry(q) : rec'[j] = rec[j]
    BY <2>1 DEF listVars, Entry
  <2>3. "image" \in registered => \A j \in Entry(p) : rec[j].IsInjected
    <3>1. SUFFICES ASSUME "image" \in registered
                   PROVE  \A j \in Entry(p) : rec[j].IsInjected
      OBVIOUS
    <3>2. LibInUse
      BY <3>1, InUseWhenCalled, IInvParts
    <3> QED BY <1>2, <1>9, <3>1, <3>2, EntryIs
  <2>4. InfoSound(p)'
    <3>1. SUFFICES ASSUME "create" \in registered, NEW j \in Entry(p)
                   PROVE  /\ rec[j].LoadedDlls \subseteq proc'[p].images
                          /\ ~proc'[p].missed =>
                             /\ proc[p].prot =>
                                  /\ ~rec[j].IsInjected
                                  /\ "system32_ntdll" \notin proc'[p].images
                             /\ stage = "create" =>
                                  "system32_ntdll" \notin proc'[p].images
                             /\ /\ "image" \in registered /\ ~rec[j].IsInjected
                                /\ WantedNtdll(p) \in proc'[p].images
                                => rec[j].LdrLoadDll = WantedNtdll(p)
      BY <1>1, <1>2, <1>3, <1>4, <2>2, ZenonT(90) DEF InfoSound
    <3>2. /\ rec[j].LoadedDlls \subseteq proc[p].images
          /\ ~proc[p].missed =>
             /\ proc[p].prot => /\ ~rec[j].IsInjected
                                /\ "system32_ntdll" \notin proc[p].images
             /\ stage = "create" => "system32_ntdll" \notin proc[p].images
      BY <1>5, <3>1 DEF InfoSound
    <3>3. CASE "image" \in registered
      <4>1. rec[j].IsInjected /\ stage # "create"
        BY <2>3, <3>3, RegisteredBefore
      <4> QED BY <1>3, <3>2, <4>1
    <3>4. CASE "image" \notin registered
      BY <1>3, <3>2, <3>4
    <3> QED BY <3>3, <3>4
  <2>5. \A j \in Entry(p) : rec'[j].LdrLoadDll = rec[j].LdrLoadDll
    BY <1>2, <2>2
  <2> QED BY <1>8, <2>1, <2>2, <2>4, <2>5
<1>10. CASE "image" \in registered /\ i # NULL /\ ~rec[i].IsInjected
  <2>1. LibInUse /\ "create" \in registered /\ stage # "create"
    BY <1>10, InUseWhenCalled, IInvParts, RegisteredBefore
  <2>2. Entry(p) = {i} /\ i \in Infos /\ i \in infoPool /\ rec[i].ProcessId = p
    BY <1>2, <1>10, <2>1, EntryIs
  <2>3. \/ /\ proc[p].prot
           /\ InjRemoveInjectionInfoByProcessId(p) /\ UNCHANGED <<threadVars, kapc>>
        \/ /\ ~proc[p].prot /\ RecordSystemDll(i, img) /\ UNCHANGED <<threadVars, kapc>>
        \/ /\ ~proc[p].prot /\ InjCanInject(p, i)
           /\ UNCHANGED <<listVars, threadVars, kapc>>
        \/ /\ ~proc[p].prot /\ InjCanInject(p, i)
           /\ QueueInjectApc(t, i) /\ HoldAt(t, "i_mark", i)
           /\ UNCHANGED listVars
    BY <1>10 DEF LoadImage, InjLoadImageNotifyRoutine, listVars, p
  <2> HIDE DEF i
  <2>4. /\ rec[i].LoadedDlls \subseteq proc[p].images
        /\ ~proc[p].missed =>
             (WantedNtdll(p) \in proc[p].images => rec[i].LdrLoadDll = WantedNtdll(p))
    BY <1>5, <1>10, <2>1, <2>2 DEF InfoSound
  <2>5. InjCanInject(p, i) => WantedNtdll(p) \in proc[p].images
    BY <1>2, <2>4, WantedIsRequired DEF InjCanInject
  <2>6. ~proc'[p].missed => ~proc[p].missed
    BY <1>3
  <2>7. ~proc[p].missed /\ WantedNtdll(p) \in proc'[p].images =>
          WantedNtdll(p) \in proc[p].images \cup {img}
    BY <1>3
  <2>8. CASE /\ proc[p].prot
             /\ InjRemoveInjectionInfoByProcessId(p) /\ UNCHANGED <<threadVars, kapc>>
    <3>1. Removed(Entry(p))
      BY <1>2, <2>1, <2>8, RemoveIs
    <3>2. InfoSound(p)'
      BY <1>2, <3>1, RemovedIs DEF InfoSound
    <3> QED BY <1>2, <1>8, <2>8, <3>1, <3>2, RemovedIs
  <2>9. CASE /\ ~proc[p].prot /\ RecordSystemDll(i, img) /\ UNCHANGED <<threadVars, kapc>>
    <3>1. /\ infoPool' = infoPool /\ rec'[i].ProcessId = p
          /\ rec'[i].IsInjected = rec[i].IsInjected
          /\ rec'[i].LoadedDlls = rec[i].LoadedDlls \cup ({img} \cap SystemDlls)
          /\ \A j \in Infos \ {i} : rec'[j] = rec[j]
      BY <1>7, <2>2, <2>9 DEF RecordSystemDll, InfoRec
    <3>2. /\ Entry(p)' = {i}
          /\ \A q \in Pids \ {p} : /\ Entry(q)' = Entry(q)
                                   /\ \A j \in Entry(q) : rec'[j] = rec[j]
      BY <1>7, <2>2, <3>1 DEF Entry
    <3>3. ASSUME ~proc[p].missed, WantedNtdll(p) \in proc'[p].images
          PROVE  rec'[i].LdrLoadDll = WantedNtdll(p)
      BY <1>1, <1>2, <1>5, <1>7, <2>2, <2>4, <2>7, <2>9, <3>3, RecordKeepsNeeded
    <3>4. NeededNoted(p, i) => rec'[i].LdrLoadDll = rec[i].LdrLoadDll
      BY <1>1, <1>2, <1>5, <1>7, <2>2, <2>9, RecordKeepsNeeded DEF NeededNoted
    <3>5. InfoSound(p)'
      BY <1>1, <1>3, <1>4, <2>1, <2>4, <2>6, <2>9, <3>1, <3>2, <3>3 DEF InfoSound
    <3> QED BY <1>8, <2>2, <2>9, <3>2, <3>4, <3>5
  <2>10. ASSUME ~proc[p].prot, InjCanInject(p, i), UNCHANGED listVars
         PROVE  /\ \A q \in Pids : Entry(q)' = Entry(q) /\ \A j \in Entry(q) : rec'[j] = rec[j]
                /\ InfoSound(p)'
    <3>1. \A q \in Pids : Entry(q)' = Entry(q) /\ \A j \in Entry(q) : rec'[j] = rec[j]
      BY <2>10 DEF listVars, Entry
    <3>2. InfoSound(p)'
      BY <1>1, <1>2, <1>3, <1>4, <2>1, <2>2, <2>4, <2>5, <2>6, <2>10, <3>1, ZenonT(120)
         DEF InfoSound
    <3> QED BY <3>1, <3>2
  <2>11. CASE /\ ~proc[p].prot /\ InjCanInject(p, i)
              /\ UNCHANGED <<listVars, threadVars, kapc>>
    <3>1. \A j \in Entry(p) : rec'[j].LdrLoadDll = rec[j].LdrLoadDll
      BY <1>2, <2>10, <2>11
    <3> QED BY <1>8, <2>10, <2>11, <3>1
  <2>12. CASE /\ ~proc[p].prot /\ InjCanInject(p, i)
              /\ QueueInjectApc(t, i) /\ HoldAt(t, "i_mark", i)
              /\ UNCHANGED listVars
    <3>1. \A j \in Entry(p) : rec'[j].LdrLoadDll = rec[j].LdrLoadDll
      BY <1>2, <2>10, <2>12
    <3>2. /\ \A u \in Threads \ {t} : kapc'[u] = kapc[u]
          /\ \A k \in DOMAIN kapc'[t] :
               kapc'[t][k] = i \/ (k \in DOMAIN kapc[t] /\ kapc'[t][k] = kapc[t][k])
      BY <1>7, <2>2, <2>12, QueueAddsOne
    <3>3. /\ at'[t] = "i_mark"
          /\ \A u \in Threads \ {t} : at'[u] = at[u] /\ held'[u] = held[u]
      BY <1>7, <2>12 DEF HoldAt
    <3>4. ASSUME ~proc[p].missed, stage # "d_device", t \notin stale,
                 NEW k \in DOMAIN kapc'[t]
          PROVE  NeededNoted(p, kapc[t][k])'
      <4>1. CASE kapc'[t][k] = i
        BY <1>2, <1>3, <1>4, <2>2, <2>4, <2>5, <2>10, <2>12, <3>1, <3>4, <4>1 DEF NeededNoted
      <4>2. CASE k \in DOMAIN kapc[t] /\ kapc'[t][k] = kapc[t][k]
        <5>1. NeededNoted(p, kapc[t][k]) /\ kapc[t][k] \in Entry(p)
          BY <1>5, <3>4, <4>2, ContextIsEntry DEF ThreadSound, p
        <5> QED BY <1>3, <1>4, <3>1, <4>2, <5>1 DEF NeededNoted
      <4> QED BY <3>2, <3>4, <4>1, <4>2
    <3>5. ThreadSound(t)'
      BY <1>1, <1>2, <1>3, <1>5, <2>12, <3>3, <3>4, ThreadMoves DEF ThreadSound, p
    <3> QED BY <1>8, <2>10, <2>12, <3>1, <3>2, <3>3, <3>5
  <2> QED BY <2>3, <2>8, <2>9, <2>11, <2>12
<1> QED BY <1>9, <1>10

\* What the registry callback finds: the process has mapped the ntdll.dll that
\* the injection needs, and its info has noted it.
LEMMA LdrOpenKey ==
  ASSUME IInv, LdrInv, NEW t \in Threads, OpenTargetKey(t)
  PROVE  LdrInv'
<1> DEFINE p == ProcessOf[t]
           i == InjFindInjectionInfo(p)
<1>1. /\ UNCHANGED <<driverVars, listVars, proc, apcVars>>
      /\ "cm" \in registered /\ RequiredDlls(p) \cap NtdllFlags \subseteq proc[p].images
      /\ i # NULL /\ ~rec[i].IsInjected /\ HoldAt(t, "r_inject", i)
  BY DEF OpenTargetKey, InjRegistryCallback
<1>2. /\ LibInUse /\ "create" \in registered /\ "image" \in registered
      /\ p \in Pids
  BY <1>1, InUseWhenCalled, IInvParts, RegisteredBefore, ThreadsOfProcesses
<1>3. Entry(p) = {i}
  BY <1>1, <1>2, EntryIs
<1> HIDE DEF i
<1>4. WantedNtdll(p) \in proc[p].images /\ "system32_ntdll" \in proc[p].images
  BY <1>1, <1>2, WantedIsRequired
<1>5. InfoSound(p) /\ ProcessSound(p) /\ ThreadSound(t)
  BY <1>2 DEF LdrInv
<1>6. ~proc[p].missed => ~proc[p].prot /\ NeededNoted(p, i)
  BY <1>1, <1>2, <1>3, <1>4, <1>5 DEF InfoSound, NeededNoted
<1>7. at'[t] = "r_inject" /\ held'[t] = i
      /\ \A u \in Threads \ {t} : at'[u] = at[u] /\ held'[u] = held[u]
  BY <1>1 DEF HoldAt, IInv, TypeOK
<1>8. WantedNtdll(p)' = WantedNtdll(p)
  BY <1>1 DEF WantedNtdll
<1>9. ASSUME ~proc[p].missed
      PROVE  /\ NeededNoted(p, held[t])'
             /\ stage # "d_device" /\ t \notin stale =>
                  \A k \in DOMAIN kapc'[t] : NeededNoted(p, kapc[t][k])'
             /\ \A k \in DOMAIN uapc'[t] : uapc'[t][k].routine = WantedNtdll(p)
  <2>1. NeededNoted(p, held[t])'
    BY <1>1, <1>6, <1>7, <1>8, <1>9 DEF NeededNoted, listVars
  <2>2. ASSUME stage # "d_device", t \notin stale, NEW k \in DOMAIN kapc'[t]
        PROVE  NeededNoted(p, kapc[t][k])'
    <3>1. NeededNoted(p, kapc[t][k]) /\ kapc' = kapc
      BY <1>1, <1>5, <1>9, <2>2 DEF ThreadSound, apcVars, p
    <3> QED BY <1>1, <1>8, <3>1 DEF NeededNoted, listVars
  <2> QED BY <1>1, <1>5, <1>9, <2>1, <2>2 DEF ThreadSound, apcVars, p
<1> HIDE DEF p
<1>10. ThreadSound(t)'
  BY <1>1, <1>2, <1>6, <1>9, ThreadMoves DEF p, driverVars, apcVars
<1>11. InfoSound(p)' /\ ProcessSound(p)'
  BY <1>1, <1>5, <1>8 DEF InfoSound, ProcessSound, Entry, driverVars, listVars, apcVars
<1>12. /\ \A q \in Pids : Entry(q)' = Entry(q) /\ \A j \in Entry(q) : rec'[j] = rec[j]
       /\ UNCHANGED <<stage, registered, stale, proc, injected, kapc, uapc>>
  BY <1>1 DEF Entry, driverVars, listVars, apcVars
<1>13. \A u \in Threads : \/ ProcessOf[u] = p /\ ThreadSound(u)'
                          \/ /\ at'[u] = at[u] /\ held'[u] = held[u]
                             /\ kapc'[u] = kapc[u] /\ uapc'[u] = uapc[u]
  BY <1>7, <1>10, <1>12 DEF p
<1>14. \A j \in Entry(p) : rec'[j].LdrLoadDll = rec[j].LdrLoadDll
  BY <1>2, <1>12
<1> QED BY <1>2, <1>11, <1>12, <1>13, <1>14, LdrOfProcess

\* A machine that stops changes nothing of what LdrInv is about.
LEMMA LdrStops ==
  ASSUME LdrInv, UNCHANGED <<driverVars, listVars, proc, threadVars, kapc, uapc,
                             injected, stale>>
  PROVE  LdrInv'
  BY DEF LdrInv, InfoSound, ProcessSound, ThreadSound, NeededNoted, WantedNtdll,
         Entry, driverVars, listVars, threadVars

\* The user-mode APCs of a thread on which InjInject has run: those it had, and
\* one that calls the address noted in the info.
LEMMA InjectCalls ==
  ASSUME uapc \in [Threads -> Seq(UserApc)], NEW t \in Threads, NEW i \in Infos,
         InjInject(t, i)
  PROVE  /\ \A u \in Threads \ {t} : uapc'[u] = uapc[u]
         /\ \A k \in DOMAIN uapc'[t] :
              \/ k \in DOMAIN uapc[t] /\ uapc'[t][k] = uapc[t][k]
              \/ uapc'[t][k].routine = rec[i].LdrLoadDll
<1> DEFINE a == [routine |-> rec[i].LdrLoadDll, path |-> rec[i].Path]
<1>1. a.routine = rec[i].LdrLoadDll
  OBVIOUS
<1>2. uapc' = [uapc EXCEPT ![t] = Append(uapc[t], a)] \/ uapc' = uapc
  BY DEF InjInject
<1> HIDE DEF a
<1>3. ASSUME NEW k \in DOMAIN Append(uapc[t], a)
      PROVE  \/ Append(uapc[t], a)[k] = a
             \/ k \in DOMAIN uapc[t] /\ Append(uapc[t], a)[k] = uapc[t][k]
  <2>1. uapc[t] \in Seq(UserApc)
    OBVIOUS
  <2> QED BY <2>1
<1> QED BY <1>1, <1>2, <1>3

\* An injection by the registry callback or by a kernel-mode APC.
LEMMA LdrInject ==
  ASSUME IInv, LdrInv, NEW t \in Threads, NEW i \in Infos, InjInject(t, i),
         UNCHANGED <<driverVars, listVars, proc, injected, stale>>,
         \A u \in Threads \ {t} : /\ at'[u] = at[u] /\ held'[u] = held[u]
                                  /\ kapc'[u] = kapc[u],
         at'[t] # "r_inject",
         \A k \in DOMAIN kapc'[t] : \E j \in DOMAIN kapc[t] : kapc'[t][k] = kapc[t][j],
         ~proc[ProcessOf[t]].missed =>
           ~proc[ProcessOf[t]].prot /\ rec[i].LdrLoadDll = WantedNtdll(ProcessOf[t])
  PROVE  LdrInv'
<1> DEFINE p == ProcessOf[t]
<1>1. p \in Pids
  BY ThreadsOfProcesses
<1>2. uapc \in [Threads -> Seq(UserApc)]
  BY DEF IInv, TypeOK
<1>3. InfoSound(p) /\ ProcessSound(p) /\ ThreadSound(t)
  BY <1>1 DEF LdrInv
<1>4. WantedNtdll(p)' = WantedNtdll(p)
  BY DEF WantedNtdll
<1>5. ASSUME ~proc[p].missed
      PROVE  /\ stage # "d_device" /\ t \notin stale =>
                  \A k \in DOMAIN kapc'[t] : NeededNoted(p, kapc[t][k])'
             /\ \A k \in DOMAIN uapc'[t] : uapc'[t][k].routine = WantedNtdll(p)
  <2>1. ASSUME stage # "d_device", t \notin stale, NEW k \in DOMAIN kapc'[t]
        PROVE  NeededNoted(p, kapc[t][k])'
    <3>1. PICK j \in DOMAIN kapc[t] : kapc'[t][k] = kapc[t][j]
      BY <2>1
    <3>2. NeededNoted(p, kapc[t][j])
      BY <1>3, <1>5, <2>1 DEF ThreadSound
    <3> QED BY <1>4, <3>1, <3>2 DEF NeededNoted, listVars
  <2>2. \A k \in DOMAIN uapc[t] : uapc[t][k].routine = WantedNtdll(p)
    BY <1>3, <1>5 DEF ThreadSound
  <2>3. \A k \in DOMAIN uapc'[t] : uapc'[t][k].routine = WantedNtdll(p)
    BY <1>2, <1>5, <2>2, InjectCalls
  <2> QED BY <2>1, <2>3
<1>6. ThreadSound(t)'
  BY <1>1, <1>5, ThreadMoves DEF driverVars
<1>7. InfoSound(p)' /\ ProcessSound(p)'
  BY <1>3, <1>4 DEF InfoSound, ProcessSound, Entry, driverVars, listVars
<1>8. /\ \A q \in Pids : Entry(q)' = Entry(q) /\ \A j \in Entry(q) : rec'[j] = rec[j]
      /\ UNCHANGED <<stage, registered, stale, proc, injected>>
  BY DEF Entry, driverVars, listVars
<1>9. \A u \in Threads : \/ ProcessOf[u] = p /\ ThreadSound(u)'
                         \/ /\ at'[u] = at[u] /\ held'[u] = held[u]
                            /\ kapc'[u] = kapc[u] /\ uapc'[u] = uapc[u]
  BY <1>2, <1>6, InjectCalls
<1>10. \A j \in Entry(p) : rec'[j].LdrLoadDll = rec[j].LdrLoadDll
  BY <1>1, <1>8
<1> HIDE DEF p
<1> QED BY <1>1, <1>7, <1>8, <1>9, <1>10, LdrOfProcess

\* The registry callback injects with the address it has found.
LEMMA LdrRegistryInject ==
  ASSUME IInv, LdrInv, NEW t \in Threads, RegistryInject(t)
  PROVE  LdrInv'
<1>1. CASE held[t] \notin infoPool
  BY <1>1, LdrStops DEF RegistryInject, Bugcheck
<1>2. CASE held[t] \in infoPool
  <2>1. /\ at[t] = "r_inject" /\ HoldAt(t, "r_mark", held[t])
        /\ InjInject(t, held[t]) /\ UNCHANGED kapc
        /\ UNCHANGED <<driverVars, listVars, proc, injected, stale>>
    BY <1>2 DEF RegistryInject, IInv, BlocksInUse
  <2>2. held[t] \in Infos
    BY <1>2 DEF IInv, TypeOK
  <2>3. ThreadSound(t)
    BY DEF LdrInv
  <2>4. at'[t] = "r_mark" /\ \A u \in Threads \ {t} : at'[u] = at[u] /\ held'[u] = held[u]
    BY <2>1 DEF HoldAt, IInv, TypeOK
  <2>5. ~proc[ProcessOf[t]].missed =>
          /\ ~proc[ProcessOf[t]].prot
          /\ rec[held[t]].LdrLoadDll = WantedNtdll(ProcessOf[t])
    BY <2>1, <2>3 DEF ThreadSound, NeededNoted
  <2> QED BY <2>1, <2>2, <2>4, <2>5, LdrInject
<1> QED BY <1>1, <1>2

\* The mark at the end of both callbacks.
LEMMA LdrMark ==
  ASSUME IInv, LdrInv, NEW t \in Threads, CallbackMark(t)
  PROVE  LdrInv'
<1>1. CASE held[t] \notin infoPool
  BY <1>1, LdrStops DEF CallbackMark, Bugcheck
<1>2. CASE held[t] \in infoPool
  <2> DEFINE p == ProcessOf[t]
             i == held[t]
  <2>1. /\ MarkInjected(i) /\ HoldAt(t, "user", NULL) /\ at[t] # "user"
        /\ UNCHANGED <<driverVars, proc, apcVars>>
    BY <1>2 DEF CallbackMark
  <2>2. /\ i \in Infos /\ rec \in [Infos -> InfoRec] /\ infoPool \subseteq Infos
        /\ rec[i].ProcessId = p /\ p \in Pids
    BY <1>2, ThreadsOfProcesses DEF IInv, TypeOK, HeldInfosOwned
  <2>3. /\ rec'[i].IsInjected /\ rec'[i].ProcessId = p /\ infoPool' = infoPool
        /\ rec'[i].LdrLoadDll = rec[i].LdrLoadDll
        /\ rec'[i].LoadedDlls = rec[i].LoadedDlls
        /\ \A j \in Infos \ {i} : rec'[j] = rec[j]
    BY <2>1, <2>2 DEF MarkInjected, InfoRec
  <2>4. at'[t] = "user" /\ \A u \in Threads \ {t} : at'[u] = at[u] /\ held'[u] = held[u]
    BY <2>1 DEF HoldAt, IInv, TypeOK
  <2>5. InfoSound(p) /\ ProcessSound(p) /\ ThreadSound(t)
    BY <2>2 DEF LdrInv
  <2>6. WantedNtdll(p)' = WantedNtdll(p)
    BY <2>1 DEF WantedNtdll
  <2> HIDE DEF p, i
  <2>7. Entry(p) = {i}
    <3>1. LibInUse
      BY <1>2 DEF IInv, InfosLinkedOnce
    <3>2. \A j \in Entry(p) : j = i
      BY <1>2, <2>2, <3>1, UniqueInfo, IInvParts DEF Entry, i
    <3> QED BY <1>2, <2>2, <3>2 DEF Entry, i
  <2>8. /\ Entry(p)' = {i}
        /\ \A q \in Pids \ {p} : Entry(q)' = Entry(q) /\ \A j \in Entry(q) : rec'[j] = rec[j]
    <3>1. \A j \in Infos : rec'[j].ProcessId = rec[j].ProcessId
      BY <2>2, <2>3
    <3>2. \A q \in Pids : Entry(q)' = Entry(q)
      BY <2>2, <2>3, <3>1 DEF Entry
    <3>3. \A q \in Pids \ {p} : \A j \in Entry(q) : j \in Infos \ {i}
      BY <2>2 DEF Entry
    <3> QED BY <2>2, <2>3, <2>7, <3>2, <3>3
  <2>9. ~proc[p].missed => ~proc[p].prot
    BY <2>1, <2>5 DEF ThreadSound, p
  <2>10. InfoSound(p)'
    <3>1. SUFFICES ASSUME "create" \in registered
                   PROVE  InfoSound(p)'
      BY <2>1 DEF InfoSound, driverVars
    <3>2. /\ rec[i].LoadedDlls \subseteq proc[p].images
          /\ ~proc[p].missed => (stage = "create" => "system32_ntdll" \notin proc[p].images)
      BY <2>5, <2>7, <3>1 DEF InfoSound
    <3> QED BY <2>1, <2>3, <2>8, <2>9, <3>2 DEF InfoSound, driverVars
  <2>11. ProcessSound(p)'
    BY <2>1, <2>5 DEF ProcessSound, apcVars
  <2>12. ASSUME ~proc[p].missed
         PROVE  /\ stage # "d_device" /\ t \notin stale =>
                     \A k \in DOMAIN kapc'[t] : NeededNoted(p, kapc[t][k])'
                /\ \A k \in DOMAIN uapc'[t] : uapc'[t][k].routine = WantedNtdll(p)
    <3>1. kapc' = kapc /\ uapc' = uapc
      BY <2>1 DEF apcVars
    <3>2. ASSUME stage # "d_device", t \notin stale, NEW k \in DOMAIN kapc[t]
          PROVE  NeededNoted(p, kapc[t][k])'
      <4>1. NeededNoted(p, kapc[t][k]) /\ kapc[t][k] \in Entry(p)
        BY <2>5, <2>12, <3>2, ContextIsEntry DEF ThreadSound, p
      <4> QED BY <2>1, <2>3, <2>6, <2>7, <3>1, <4>1 DEF NeededNoted
    <3> QED BY <2>5, <2>12, <3>1, <3>2 DEF ThreadSound, p
  <2>13. ThreadSound(t)'
    BY <2>1, <2>2, <2>4, <2>9, <2>12, ThreadMoves DEF p, driverVars, apcVars
  <2>14. \A u \in Threads : \/ ProcessOf[u] = p /\ ThreadSound(u)'
                            \/ /\ at'[u] = at[u] /\ held'[u] = held[u]
                               /\ kapc'[u] = kapc[u] /\ uapc'[u] = uapc[u]
    BY <2>1, <2>4, <2>13 DEF p, apcVars
  <2>15. /\ \A j \in Entry(p) : rec'[j].LdrLoadDll = rec[j].LdrLoadDll
         /\ UNCHANGED <<stage, registered, stale, proc, injected>>
    BY <2>1, <2>3, <2>7 DEF driverVars, apcVars
  <2> QED BY <2>2, <2>8, <2>10, <2>11, <2>14, <2>15, LdrOfProcess
<1> QED BY <1>1, <1>2

\* A kernel-mode APC injects with the address that its info has noted; a
\* user-mode APC that has an address loads the DLL.
LEMMA LdrDeliver ==
  ASSUME IInv, LdrInv, NEW t \in Threads, DeliverKernelApc(t) \/ DeliverUserApc(t)
  PROVE  LdrInv'
<1> DEFINE p == ProcessOf[t]
<1>1. p \in Pids
  BY ThreadsOfProcesses
<1>2. InfoSound(p) /\ ProcessSound(p) /\ ThreadSound(t)
  BY <1>1 DEF LdrInv
<1>3. /\ kapc \in [Threads -> Seq(Infos)] /\ uapc \in [Threads -> Seq(UserApc)]
      /\ infoPool \subseteq Infos /\ kapc[t] \in Seq(Infos) /\ uapc[t] \in Seq(UserApc)
  BY DEF IInv, TypeOK
<1>4. CASE Bugcheck
  BY <1>4, LdrStops DEF Bugcheck
<1>5. CASE DeliverKernelApc(t) /\ ~Bugcheck
  <2> DEFINE i == Head(kapc[t])
  <2>1. /\ kapc[t] # <<>> /\ i \in infoPool /\ t \notin stale /\ at[t] = "user"
        /\ InjInject(t, i) /\ kapc' = [kapc EXCEPT ![t] = Tail(kapc[t])]
        /\ UNCHANGED <<driverVars, listVars, proc, threadVars, injected, stale>>
    BY <1>5 DEF DeliverKernelApc
  <2>2. /\ 1 \in DOMAIN kapc[t] /\ i = kapc[t][1]
        /\ \A k \in DOMAIN Tail(kapc[t]) :
             \E j \in DOMAIN kapc[t] : Tail(kapc[t])[k] = kapc[t][j]
    BY <1>3, <2>1, TailElements
  <2>3. stage # "d_device"
    BY <2>1 DEF IInv, InfosLinkedOnce, LibInUse
  <2>4. ~proc[p].missed => ~proc[p].prot /\ rec[i].LdrLoadDll = WantedNtdll(p)
    BY <1>2, <2>1, <2>2, <2>3 DEF ThreadSound, NeededNoted
  <2> HIDE DEF i
  <2>5. kapc'[t] = Tail(kapc[t]) /\ \A u \in Threads \ {t} : kapc'[u] = kapc[u]
    BY <1>3, <2>1
  <2>6. /\ i \in Infos /\ at'[t] # "r_inject"
        /\ \A u \in Threads \ {t} : /\ at'[u] = at[u] /\ held'[u] = held[u]
                                    /\ kapc'[u] = kapc[u]
        /\ \A k \in DOMAIN kapc'[t] :
             \E j \in DOMAIN kapc[t] : kapc'[t][k] = kapc[t][j]
    BY <1>3, <2>1, <2>2, <2>5 DEF threadVars
  <2> QED BY <2>1, <2>4, <2>6, LdrInject
<1>6. CASE DeliverUserApc(t) /\ ~Bugcheck
  <2>1. /\ kapc[t] = <<>> /\ uapc[t] # <<>> /\ at[t] = "user"
        /\ UNCHANGED <<driverVars, listVars, proc, threadVars, kapc, stale>>
        /\ uapc' = [uapc EXCEPT ![t] = Tail(uapc[t])]
        /\ injected' = IF Head(uapc[t]).routine = NULL THEN injected
                       ELSE injected \cup {p}
    BY <1>6 DEF DeliverUserApc
  <2>2. /\ 1 \in DOMAIN uapc[t] /\ Head(uapc[t]) = uapc[t][1]
        /\ \A k \in DOMAIN Tail(uapc[t]) :
             \E j \in DOMAIN uapc[t] : Tail(uapc[t])[k] = uapc[t][j]
    BY <1>3, <2>1, TailElements
  <2>3. uapc'[t] = Tail(uapc[t]) /\ \A u \in Threads \ {t} : uapc'[u] = uapc[u]
    BY <1>3, <2>1
  <2>4. proc[p].alive
    BY <2>1 DEF IInv, NothingUnderWay
  <2>5. /\ ~proc[p].missed => ~proc[p].prot
        /\ ~proc[p].missed =>
             \A k \in DOMAIN uapc[t] : uapc[t][k].routine = WantedNtdll(p)
    BY <1>2, <2>1 DEF ThreadSound
  <2>6. WantedNtdll(p)' = WantedNtdll(p)
    BY <2>1 DEF WantedNtdll
  <2>7. /\ \A q \in Pids : Entry(q)' = Entry(q) /\ \A j \in Entry(q) : rec'[j] = rec[j]
        /\ UNCHANGED <<stage, registered, stale, proc, at, held, kapc>>
    BY <2>1 DEF Entry, driverVars, listVars, threadVars
  <2> HIDE DEF p
  <2>8. InfoSound(p)' /\ ProcessSound(p)'
    <3>1. InfoSound(p)'
      BY <1>1, <1>2, <2>6, <2>7 DEF InfoSound
    <3>2. ProcessSound(p)'
      BY <1>2, <2>1, <2>4, <2>5, <2>7 DEF ProcessSound
    <3> QED BY <3>1, <3>2
  <2>9. ThreadSound(t)'
    <3>1. ASSUME ~proc[p].missed
          PROVE  /\ ~proc[p].prot
                 /\ at'[t] = "r_inject" => NeededNoted(p, held[t])'
                 /\ stage # "d_device" /\ t \notin stale =>
                      \A k \in DOMAIN kapc'[t] : NeededNoted(p, kapc[t][k])'
                 /\ \A k \in DOMAIN uapc'[t] : uapc'[t][k].routine = WantedNtdll(p)
      <4>1. \A k \in DOMAIN uapc'[t] : uapc'[t][k].routine = WantedNtdll(p)
        BY <2>2, <2>3, <2>5, <3>1
      <4>2. DOMAIN <<>> = {}
        OBVIOUS
      <4> QED BY <2>1, <2>5, <2>7, <3>1, <4>1, <4>2
    <3> QED BY <1>1, <2>7, <3>1, ThreadMoves DEF p
  <2>10. \A u \in Threads : \/ ProcessOf[u] = p /\ ThreadSound(u)'
                            \/ /\ at'[u] = at[u] /\ held'[u] = held[u]
                               /\ kapc'[u] = kapc[u] /\ uapc'[u] = uapc[u]
    BY <2>3, <2>7, <2>9 DEF p
  <2>11. /\ \A j \in Entry(p) : rec'[j].LdrLoadDll = rec[j].LdrLoadDll
         /\ \A q \in Pids \ {p} : q \in injected' => q \in injected
    BY <1>1, <2>1, <2>7
  <2> QED BY <1>1, <2>7, <2>8, <2>10, <2>11, LdrOfProcess
<1> QED BY <1>4, <1>5, <1>6

\* LdrInv is inductive together with IInv.
THEOREM LdrInvariance == Spec => []LdrInv
<1>1. Init => LdrInv
  <2>1. DOMAIN <<>> = {} OBVIOUS
  <2> QED BY <2>1, ThreadsOfProcesses
       DEF Init, LdrInv, InfoSound, ProcessSound, ThreadSound, NoProcess
<1>2. IInv /\ LdrInv /\ [Next]_vars => LdrInv'
  <2> SUFFICES ASSUME IInv, LdrInv, [Next]_vars PROVE LdrInv'
    OBVIOUS
  <2>1. CASE UNCHANGED vars
    BY <2>1, LdrStops DEF vars, apcVars, threadVars
  <2>2. ASSUME NEW p \in Pids, ProcessNext(p) PROVE LdrInv'
    BY <2>2, LdrCreate, LdrExit DEF ProcessNext
  <2>3. ASSUME NEW t \in Threads, ThreadNext(t) PROVE LdrInv'
    BY <2>3, LdrLoadImage, LdrOpenKey, LdrRegistryInject, LdrMark, LdrDeliver
       DEF ThreadNext
  <2> QED BY <2>1, <2>2, <2>3, LdrDriverStep, LdrIoctl DEF Next
<1> QED BY <1>1, <1>2, Invariance, PTL DEF Spec

\* A protected process is not injected, unless the driver was loaded too late
\* to see its ntdll.dll, however its threads overlap in the callbacks.
THEOREM ProtectedAreSpared == Spec => []ProtectedNotInjected
<1>1. LdrInv => ProtectedNotInjected
  BY DEF LdrInv, ProcessSound, ThreadSound, ProtectedNotInjected, ThreadsOf
<1> QED BY <1>1, LdrInvariance, PTL

\* Every queued APC calls the LdrLoadDll of the ntdll.dll that the method
\* needs, for 32-bit and 64-bit processes.
THEOREM CallsRightLdrLoadDll == Spec => []RightLdrLoadDll
<1>1. LdrInv => RightLdrLoadDll
  BY DEF LdrInv, ThreadSound, RightLdrLoadDll
<1> QED BY <1>1, LdrInvariance, PTL

\* The only accesses to freed memory are those of an APC that an unload has
\* outrun, and those of a thread in the registry callback whose process another
\* thread found to be protected after its ntdll.dll had been missed.
THEOREM StopsOnlyForStaleOrMissed == Spec => []StopsOnlyIfStaleOrMissed
<1>1. Init => StopsOnlyIfStaleOrMissed
  BY DEF Init, StopsOnlyIfStaleOrMissed
<1>2. IInv /\ LdrInv /\ StopsOnlyIfStaleOrMissed /\ [Next]_vars
        => StopsOnlyIfStaleOrMissed'
  <2> SUFFICES ASSUME IInv, LdrInv, StopsOnlyIfStaleOrMissed, [Next]_vars
               PROVE  StopsOnlyIfStaleOrMissed'
    OBVIOUS
  <2>1. CASE UNCHANGED vars
    BY <2>1 DEF vars, driverVars, threadVars, apcVars, StopsOnlyIfStaleOrMissed
  <2>2. ASSUME NEW t \in Threads, RegistryInject(t) \/ CallbackMark(t), ~bugcheck,
               bugcheck'
        PROVE  StopsOnlyIfStaleOrMissed'
    <3>1. /\ held[t] \notin infoPool /\ at[t] \in {"i_mark", "r_inject", "r_mark"}
          /\ UNCHANGED <<proc, at>>
      BY <2>2 DEF RegistryInject, CallbackMark, Bugcheck, threadVars, apcVars
    <3>2. held[t] # NULL
      BY <3>1 DEF IInv, HeldInfosOwned
    <3>3. proc[ProcessOf[t]].prot /\ at[t] # "i_mark"
      BY <3>1, <3>2 DEF IInv, HeldInfosOwned
    <3>4. proc[ProcessOf[t]].missed
      BY <3>1, <3>3 DEF LdrInv, ThreadSound
    <3>5. at[t] \in InCallback("cm")
      BY <3>1, <3>3 DEF InCallback
    <3>6. \E u \in Threads : /\ at'[u] \in InCallback("cm")
                             /\ proc'[ProcessOf[u]].prot /\ proc'[ProcessOf[u]].missed
      BY <3>1, <3>3, <3>4, <3>5
    <3> QED BY <3>6 DEF StopsOnlyIfStaleOrMissed
  <2>3. ASSUME NEW t \in Threads, DeliverKernelApc(t) \/ DeliverUserApc(t), ~bugcheck,
               bugcheck'
        PROVE  StopsOnlyIfStaleOrMissed'
    <3>1. /\ UNCHANGED <<stage, stale>>
          /\ t \in stale \/ (kapc[t] # <<>> /\ Head(kapc[t]) \notin infoPool)
      BY <2>3 DEF DeliverKernelApc, DeliverUserApc, Bugcheck, driverVars
    <3>2. CASE t \in stale
      BY <3>1, <3>2 DEF StopsOnlyIfStaleOrMissed
    <3>3. CASE t \notin stale
      <4>1. kapc[t] \in Seq(Infos)
        BY DEF IInv, TypeOK
      <4>2. 1 \in DOMAIN kapc[t] /\ Head(kapc[t]) = kapc[t][1]
        BY <3>1, <3>3, <4>1, TailElements
      <4>3. stage = "d_device"
        BY <3>1, <3>3, <4>2 DEF IInv, ApcContextsLinked
      <4> QED BY <3>1, <4>3 DEF StopsOnlyIfStaleOrMissed
    <3> QED BY <3>2, <3>3
  <2>4. ASSUME Next, ~\E t \in Threads : \/ RegistryInject(t) \/ CallbackMark(t)
                                         \/ DeliverKernelApc(t) \/ DeliverUserApc(t)
        PROVE  ~bugcheck'
    <3>1. ~bugcheck
      BY <2>4 DEF Next
    <3>2. ASSUME DriverEntryImpl \/ DriverUnload \/ DriverDestroy
          PROVE  bugcheck' = bugcheck
      BY <3>2 DEF DriverEntryImpl, CreateDeviceAndLink, InjCreateSettings,
           InjInitialize, Register, EntryFails, DriverUnload, DriverDestroy,
           Unregister, DestroyLib, DestroyDevice, apcVars
    <3>3. ASSUME NEW data \in InjectData, NEW path \in Paths,
                 SioctlDeviceControl(data, path)
          PROVE  bugcheck' = bugcheck
      BY <3>3 DEF SioctlDeviceControl, apcVars
    <3>4. ASSUME NEW p \in Pids, ProcessNext(p) PROVE bugcheck' = bugcheck
      <4>1. ProcessCreate(p) => bugcheck' = bugcheck
        BY DEF ProcessCreate, apcVars
      <4>2. ProcessExit(p) => bugcheck' = bugcheck
        BY DEF ProcessExit
      <4> QED BY <3>4, <4>1, <4>2 DEF ProcessNext
    <3>5. ASSUME NEW t \in Threads, NEW img \in Images, LoadImage(t, img)
          PROVE  bugcheck' = bugcheck
      BY <3>5 DEF LoadImage
    <3>6. ASSUME NEW t \in Threads, OpenTargetKey(t) PROVE bugcheck' = bugcheck
      BY <3>6 DEF OpenTargetKey, InjRegistryCallback, apcVars
    <3> QED BY <2>4, <3>1, <3>2, <3>3, <3>4, <3>5, <3>6 DEF Next, ThreadNext
  <2>5. Next => ~bugcheck
    BY DEF Next
  <2>6. ~bugcheck' => StopsOnlyIfStaleOrMissed'
    BY DEF StopsOnlyIfStaleOrMissed
  <2> QED BY <2>1, <2>2, <2>3, <2>4, <2>5, <2>6
<1> QED BY <1>1, <1>2, Invariance, LdrInvariance, PTL DEF Spec
=============================================================================
