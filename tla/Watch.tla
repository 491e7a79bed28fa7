------------------------------- MODULE Watch -------------------------------
(***************************************************************************)
(* The debugger: Facility.DebugThread takes debug events one at a time,    *)
(* all threads of the debugged process stopped while it does, and Program  *)
(* keeps a cache of the loader's structures from the lines the hooks       *)
(* print.  A structure is read again at every access; one that is marked   *)
(* dead must not be accessed until an allocation at its address revives    *)
(* it.  An exception in a handler ends the debugger, and with it the       *)
(* debugged process.                                                       *)
(***************************************************************************)
EXTENDS LoaderHooks

CONSTANTS
  HookTargets,   \* number of functions Program.HookTargets names
  Garbage,       \* what a read of freed memory yields for a name
  DeadName       \* the name BaseDllName makes up for a dead module

ASSUME WatchAssumption ==
  HookTargets \in Nat \ {0} /\ Garbage \notin Names /\ DeadName \notin Names

VARIABLES
  dbg,        \* state of the debug loop
  phase,      \* how far the main thread of the process is
  scheduled,  \* the driver accepted the request to inject the hook DLL
  dead,       \* structures marked Dead
  known,      \* nodes that are in the cache
  name,       \* rootModuleName of each node, NULL when null or empty
  symbols,    \* whether the symbols of ntdll were loaded: tried once
  offsets     \* entries of TargetOffsets written in the process

watchVars == <<dbg, scheduled, dead, known, name, symbols, offsets>>
vars == <<loaderVars, watchVars, phase>>

WatchInit ==
  /\ LoaderInit
  /\ dbg = "start" /\ phase = "new" /\ scheduled = FALSE
  /\ dead = {} /\ known = {} /\ name = [n \in Nodes |-> NULL]
  /\ symbols = "none" /\ offsets = 0

e == Head(queue)
-----------------------------------------------------------------------------
(* The main thread of the process, while the debugger lets it run.         *)

mainVars == <<mod, list, nodes, entry, edges, named, pc>>

Step(from, to) == dbg = "wait" /\ phase = from /\ ~Blocked(Main) /\ phase' = to

\* The process maps KERNELBASE.dll early in its life.
MapKernelBase ==
  /\ Step("created", "kernelbase")
  /\ Raise(Main, "LoadDll", NULL)
  /\ UNCHANGED <<mainVars, watchVars, lock, hooked>>

\* OnProcessAttach runs as DllMain, under the loader lock, and prints its
\* two lines: the second one carries the address of TargetOffsets.
OnProcessAttach ==
  /\ scheduled
  /\ \/ /\ Step("kernelbase", "arch")
        /\ lock = NULL /\ lock' = Main
        /\ Raise(Main, "Other", NULL)
     \/ /\ Step("arch", "offsets")
        /\ Raise(Main, "TargetOffsets", NULL)
        /\ UNCHANGED lock
  /\ UNCHANGED <<mainVars, watchVars, hooked>>

\* EnableDetours takes the targets from TargetOffsets.
EnableDetours ==
  /\ Step("offsets", "attached")
  /\ hooked' = TRUE
  /\ lock' = NULL
  /\ UNCHANGED <<mainVars, watchVars, queue>>

\* LdrpDoDebuggerBreak, with or without the hooks.
DebuggerBreak ==
  /\ \/ Step("attached", "broke")
     \/ Step("kernelbase", "broke") /\ ~scheduled
  /\ Raise(Main, "Breakpoint", NULL)
  /\ UNCHANGED <<mainVars, watchVars, lock, hooked>>

ExitProcess ==
  /\ Step("broke", "exited") /\ queue = <<>>
  /\ Raise(Main, "ExitProcess", NULL)
  /\ UNCHANGED <<mainVars, watchVars, lock, hooked>>

LoaderStep(t) ==
  /\ dbg = "wait" /\ phase \notin {"new", "exited"}
  /\ LoaderNext(t)
  /\ UNCHANGED <<watchVars, phase>>
-----------------------------------------------------------------------------
(* Remote structures.                                                      *)

\* Structures that are in the memory of the process.
Live == {m \in Mods : mod[m] # NULL} \cup nodes \cup {c \in Ctxs : entry[c] # NULL}

\* LdrModule.BaseDllName: never throws for a dead module.
BaseDllName(m) ==
  IF m \in dead THEN DeadName
  ELSE IF mod[m] = NULL THEN Garbage
  ELSE mod[m].name

\* LdrGraphNode.RootModule, of the node's Modules list, and its name.
RootName(n) ==
  IF list[n] = <<>> THEN Garbage ELSE BaseDllName(Head(list[n]))

\* LdrGraphNode.RootModuleName: the cached name, or what a refresh yields.
RootModuleName(n) == IF name[n] # NULL THEN name[n] ELSE RootName(n)

\* The names of a set of nodes are looked at, and cached where they were not.
Named(ns) == name' = [n \in Nodes |-> IF n \in ns THEN RootModuleName(n) ELSE name[n]]

\* What is read to name the nodes ns: the nodes and their root modules, except
\* for a dead one, of which BaseDllName knows without reading it.
NameReads(ns) == ns \cup ({Head(list[n]) : n \in {x \in ns : list[x] # <<>>}} \ dead)

\* What is read for the names of ns: nothing where a name is cached.
NamesRead(ns) == NameReads({n \in ns : name[n] = NULL})

\* The nodes of the modules in the load order list, and their neighbours
\* in the graph.
GraphNodes == {mod[m].node : m \in Linked}
Neighbours ==
  {n \in Nodes : \E x \in GraphNodes : <<n, x>> \in edges \/ <<x, n>> \in edges}

\* Known nodes the graph no longer reaches.
DanglingNodes == (known \ (GraphNodes \cup Neighbours)) \ dead

\* The structures whose memory the handler of event ev reads.
Reads(ev) ==
  CASE ev.code = "DestroyNode" -> NamesRead({ev.obj})
    [] ev.code = "MapDllWithSectionHandle" ->
         {ev.obj, entry[ev.obj]} \cup NameReads({mod[entry[ev.obj]].node})
    [] ev.code \in {"FreeLoadContext", "UnmapModule"} -> {ev.obj}
    [] ev.code = "CondenseGraphRecurse" -> NamesRead(ev.obj)
    [] ev.code = "MergeNodesExit" ->
         Linked \cup GraphNodes \cup Neighbours \cup NamesRead(Neighbours)
    [] ev.code = "Breakpoint" ->
         Linked \cup GraphNodes \cup Neighbours \cup NamesRead(DanglingNodes)
    [] OTHER -> {}

\* AssertNotDead, met by some access of the handler.
Throws == Reads(e) \cap dead # {}

\* What a line's handler marks dead before LoadSymbols walks the linked modules.
Dies(ev) ==
  IF ev.code \in {"DestroyNode", "FreeLoadContext", "UnmapModule"} THEN {ev.obj} ELSE {}
-----------------------------------------------------------------------------
(* The debug loop.                                                         *)

\* Mutant: the exception is printed and the process continued.
ContinueAfterException ==
  /\ queue' = Tail(queue)
  /\ UNCHANGED <<dbg, dead, known, name, symbols, scheduled>>

\* OnDebugException: Program ends the debugger, before ContinueDebugEvent.
DebugFacilityOnDebugException ==
  /\ dbg' = "exited"
  /\ UNCHANGED <<queue, dead, known, name, symbols, scheduled>>

\* ContinueDebugEvent lets the threads run on.
ContinueDebugEvent == queue' = Tail(queue)

Handles(codes) == dbg = "wait" /\ queue # <<>> /\ e.code \in codes

processVars == <<mainVars, lock, hooked, phase>>

\* DebugThread creates the process and enters the loop even when that failed:
\* WaitForDebugEvent then returns at once, for ever, without an event.
DebugThread ==
  /\ dbg = "start"
  /\ \/ /\ dbg' = "wait" /\ phase' = "created"
        /\ Raise(Main, "CreateProcess", NULL)
     \/ dbg' = "spin" /\ UNCHANGED <<phase, queue>>
  /\ UNCHANGED <<mainVars, lock, hooked, scheduled, dead, known, name, symbols, offsets>>

\* FacilityOnProcessCreated, and events the loop does not look at.
OnProcessCreated ==
  /\ Handles({"CreateProcess"})
  /\ ContinueDebugEvent
  /\ UNCHANGED <<processVars, watchVars>>

\* FacilityOnProcessModuleLoad: First throws when the hook DLL is not there;
\* without the driver the debugger goes on in limited functionality mode.
FacilityOnProcessModuleLoad ==
  /\ Handles({"LoadDll"})
  /\ \/ DebugFacilityOnDebugException
     \/ /\ scheduled' \in BOOLEAN
        /\ ContinueDebugEvent
        /\ UNCHANGED <<dbg, dead, known, name, symbols>>
  /\ UNCHANGED <<processVars, offsets>>

\* Facility.LoadSymbols, after every line: every linked module is read, and
\* the symbols of one not seen before are loaded; a failure is not retried.
LoadSymbols(deadNow) ==
  IF Linked \cap deadNow # {} THEN dbg' = "exited" /\ UNCHANGED <<queue, symbols>>
  ELSE /\ symbols' \in IF symbols = "none" THEN {"ok", "failed"} ELSE {symbols}
       /\ ContinueDebugEvent
       /\ UNCHANGED dbg

\* FacilityOnProcessDebugOutput around the handler of one kind of line.
Line(code, dead1, known1, names) ==
  /\ Handles({code})
  /\ IF Throws THEN DebugFacilityOnDebugException
     ELSE /\ dead' = dead1
          /\ known' = known1
          /\ names
          /\ LoadSymbols(dead1)
          /\ UNCHANGED scheduled
  /\ UNCHANGED <<processVars, offsets>>

\* Mutant: the loop writes one entry more than TargetOffsets has.
WritesOneTooMany ==
  /\ Handles({"TargetOffsets"})
  /\ offsets' \in IF symbols = "ok" THEN 0 .. HookTargets + 1 ELSE {0}
  /\ IF offsets' < HookTargets + 1 THEN DebugFacilityOnDebugException
     ELSE LoadSymbols(dead) /\ UNCHANGED <<dead, known, name, scheduled>>
  /\ UNCHANGED processVars

\* ProcessTargetOffsetsLine: Facility.Offset throws for a symbol that is
\* missing or ambiguous, when the entries before it are already written.
ProcessTargetOffsetsLine ==
  /\ Handles({"TargetOffsets"})
  /\ offsets' \in IF symbols = "ok" THEN 0 .. HookTargets ELSE {0}
  /\ IF offsets' < HookTargets THEN DebugFacilityOnDebugException
     ELSE LoadSymbols(dead) /\ UNCHANGED <<dead, known, name, scheduled>>
  /\ UNCHANGED processVars

\* Mutant: only the module is revived.
RevivesModuleOnly ==
  /\ Handles({"AllocateModuleEntry"})
  /\ LET m == e.obj IN
     /\ mod[m].ctx # NULL
     /\ Line("AllocateModuleEntry", dead \ {m}, known \cup {mod[m].node}, UNCHANGED name)

\* ProcessAllocateModuleEntryLine revives the module, its node and its load
\* context.  A module without one stops the debugger: As made it null.
ProcessAllocateModuleEntryLine ==
  /\ Handles({"AllocateModuleEntry"})
  /\ LET m == e.obj IN
     \/ /\ mod[m].ctx # NULL
        /\ Line("AllocateModuleEntry", dead \ {m, mod[m].node, mod[m].ctx},
                known \cup {mod[m].node}, UNCHANGED name)
     \/ /\ mod[m].ctx = NULL
        /\ DebugFacilityOnDebugException
        /\ UNCHANGED <<processVars, offsets>>

\* Mutant: OnDeath does not forget the name.
DeathKeepsName ==
  Line("DestroyNode", dead \cup {e.obj}, known \cup {e.obj}, UNCHANGED name)

\* ProcessDestroyNodeLine prints the name, then OnDeath forgets it.
ProcessDestroyNodeLine ==
  Line("DestroyNode", dead \cup {e.obj}, known \cup {e.obj},
       name' = [name EXCEPT ![e.obj] = NULL])

\* ProcessMapDllWithSectionHandleLine reads the root module's name anew.
ProcessMapDllWithSectionHandleLine ==
  LET n == mod[entry[e.obj]].node IN
    Line("MapDllWithSectionHandle", dead, known \cup {n},
         name' = [name EXCEPT ![n] = RootName(n)])

ProcessFreeLoadContextLine ==
  Line("FreeLoadContext", dead \cup {e.obj}, known, UNCHANGED name)

\* ProcessUnmapModuleLine makes sure the node has a name before the module
\* that bears it dies.
ProcessUnmapModuleLine ==
  LET n == mod[e.obj].node IN
    Line("UnmapModule", dead \cup {e.obj}, known \cup {n},
         name' = [name EXCEPT ![n] = IF @ = NULL THEN BaseDllName(e.obj) ELSE @])

ProcessCondenseGraphRecurseAnyLine ==
  Line("CondenseGraphRecurse", dead, known \cup e.obj, Named(e.obj))

\* ProcessMergeNodesExitLine dumps the graph.
ProcessMergeNodesExitLine ==
  Line("MergeNodesExit", dead, known \cup GraphNodes \cup Neighbours, Named(Neighbours))

OtherLine == Line("Other", dead, known, UNCHANGED name)

\* FacilityOnProcessBreakpoint: a stack that could not be walked is null,
\* and stack.Any throws; otherwise the graph is looked at, if the symbols
\* show where the process stopped, and the debugger waits for a key.
FacilityOnProcessBreakpoint ==
  /\ Handles({"Breakpoint"})
  /\ \/ DebugFacilityOnDebugException
     \/ /\ ~Throws
        /\ symbols = "ok"
        /\ dbg' = "key"
        /\ known' = known \cup GraphNodes \cup Neighbours
        /\ Named(DanglingNodes)
        /\ UNCHANGED <<queue, dead, symbols, scheduled>>
     \/ /\ symbols # "ok"
        /\ dbg' = "key"
        /\ UNCHANGED <<queue, dead, known, name, symbols, scheduled>>
  /\ UNCHANGED <<processVars, offsets>>

ReadKey ==
  /\ dbg = "key"
  /\ dbg' = "wait"
  /\ ContinueDebugEvent
  /\ UNCHANGED <<processVars, scheduled, dead, known, name, symbols, offsets>>

\* EXIT_PROCESS_DEBUG_EVENT ends the loop.
OnExitProcess ==
  /\ Handles({"ExitProcess"})
  /\ dbg' = "done"
  /\ ContinueDebugEvent
  /\ UNCHANGED <<processVars, scheduled, dead, known, name, symbols, offsets>>

HandleEvent ==
  \/ OnProcessCreated \/ FacilityOnProcessModuleLoad
  \/ ProcessTargetOffsetsLine \/ ProcessAllocateModuleEntryLine
  \/ ProcessDestroyNodeLine \/ ProcessMapDllWithSectionHandleLine
  \/ ProcessFreeLoadContextLine \/ ProcessUnmapModuleLine
  \/ ProcessCondenseGraphRecurseAnyLine \/ ProcessMergeNodesExitLine
  \/ OtherLine \/ FacilityOnProcessBreakpoint \/ OnExitProcess

Next ==
  \/ DebugThread \/ HandleEvent \/ ReadKey
  \/ MapKernelBase \/ OnProcessAttach \/ EnableDetours \/ DebuggerBreak \/ ExitProcess
  \/ \E t \in Threads : LoaderStep(t)

Spec == WatchInit /\ [][Next]_vars
-----------------------------------------------------------------------------
(* Properties.                                                             *)

\* Every variable of the debugger has its type; no write goes past the end
\* of TargetOffsets.
WatchTypeOK ==
  /\ dbg \in {"start", "wait", "key", "exited", "done", "spin"}
  /\ dead \subseteq Mods \cup Nodes \cup Ctxs
  /\ known \subseteq Nodes
  /\ name \in [Nodes -> Names \cup {NULL, Garbage, DeadName}]
  /\ symbols \in {"none", "ok", "failed"}
  /\ offsets \in 0 .. HookTargets
  /\ scheduled \in BOOLEAN /\ hooked \in BOOLEAN

\* No handler reads a structure that is marked dead (RemoteStruct throws and
\* the debugger ends) or that the process has freed, whatever the order in
\* which the threads' lines arrive and however addresses are reused; nor does
\* LoadSymbols after it, which walks the linked modules.
HandlersReadLiveMemory ==
  dbg = "wait" /\ queue # <<>> =>
    /\ Reads(e) \subseteq Live \ dead
    /\ Linked \cap (dead \cup Dies(e)) = {}

\* The name the debugger shows for a node is one its modules had since this
\* node was allocated: never that of an earlier node at the same address, of
\* a dead module, or of freed memory.  A node that is reported as dying still
\* has one, though its modules are gone by then (ProcessUnmapModuleLine).
NamesAreCurrent ==
  /\ \A n \in nodes \ dead : name[n] # NULL => name[n] \in named[n]
  /\ dbg = "wait" /\ queue # <<>> /\ e.code = "DestroyNode" =>
       RootModuleName(e.obj) \in named[e.obj]

\* The hooks are attached only when every offset was written: a symbol that
\* cannot be resolved stops the process before EnableDetours.
OffsetsBeforeHooks == hooked => offsets = HookTargets
=============================================================================
