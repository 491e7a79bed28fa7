---------------------------- MODULE LoaderHooks ----------------------------
(***************************************************************************)
(* The debugged process as the hook DLL shows it to the debugger: threads  *)
(* of the Windows loader allocate, map, merge and destroy modules, graph   *)
(* nodes and load contexts, and the detoured functions print a line for    *)
(* each.  A thread that printed a line is blocked until the debugger has   *)
(* handled it.                                                             *)
(*                                                                         *)
(* The loader itself is not part of the repository: what an original       *)
(* function does to the memory is modelled from how the hooks call it and  *)
(* what the debugger reads (external).  When a hook prints, before or      *)
(* after its original, is what the DLL decides.                            *)
(***************************************************************************)
EXTENDS Integers, FiniteSets, Sequences, SequencesExt, TLC

CONSTANTS
  Threads,   \* threads that load and unload modules
  Mods,      \* addresses an LDR_DATA_TABLE_ENTRY may be at
  Nodes,     \* addresses an LDR_DDAG_NODE may be at
  Ctxs,      \* addresses an LDRP_LOAD_CONTEXT may be at
  Names,     \* base names of modules
  Ntdll,     \* the module that is there from the start, its node and name
  NtdllNode,
  NtdllName,
  Main,      \* the thread the process starts with, which runs NtDllMain
  NULL

\* A module entry: its node, load context and name, and whether it is on the
\* InLoadOrderModuleList.
ModuleEntry == [node : Nodes, ctx : Ctxs \cup {NULL}, name : Names \cup {NULL},
                linked : BOOLEAN]

\* The debugger caches structures by kind: an address stands for one kind.
ASSUME LoaderAssumption ==
  /\ Ntdll \in Mods /\ NtdllNode \in Nodes /\ NtdllName \in Names
  /\ Main \notin Threads
  /\ NULL \notin Threads \cup Mods \cup Nodes \cup Ctxs \cup Names \cup {Main}
  /\ NULL \notin ModuleEntry
  /\ Mods \cap Nodes = {} /\ Mods \cap Ctxs = {} /\ Nodes \cap Ctxs = {}

VARIABLES
  mod,       \* the module entry at each address, NULL where there is none
  list,      \* the Modules list of each node
  nodes,     \* the addresses that hold a node
  entry,     \* the entry of the load context at each address, or NULL
  edges,     \* dependencies between nodes: <<parent, dependency>>
  named,     \* the names the modules of a node had since it was allocated
  pc,        \* what each loader thread is doing
  lock,      \* holder of the loader lock
  queue,     \* debug events the debugger has not handled yet
  hooked     \* EnableDetours has attached the hooks

loaderVars == <<mod, list, nodes, entry, edges, named, pc, lock, queue, hooked>>

\* A module entry as LdrpAllocateModuleEntry leaves it.
NewEntry(n, c) == [node |-> n, ctx |-> c, name |-> NULL, linked |-> FALSE]

Idle == [at |-> "idle", m |-> NULL, n |-> NULL, o |-> NULL]

\* The modules on the InLoadOrderModuleList of the PEB.
Linked == {m \in Mods : mod[m] # NULL /\ mod[m].linked}

\* OutputDebugString raises a debug event: the thread waits for its turn.
Blocked(t) == \E i \in DOMAIN queue : queue[i].t = t

Raise(t, code, obj) == queue' = Append(queue, [t |-> t, code |-> code, obj |-> obj])

\* A line of a hook; without the hook the original runs in silence.
dbgprint(t, code, obj) ==
  IF hooked THEN Raise(t, code, obj) ELSE UNCHANGED queue

At(t, at) == pc[t].at = at /\ ~Blocked(t)

Goto(t, at) == pc' = [pc EXCEPT ![t].at = at]

LoaderInit ==
  /\ mod = [m \in Mods |->
              IF m = Ntdll THEN [NewEntry(NtdllNode, NULL) EXCEPT !.name = NtdllName,
                                                                  !.linked = TRUE]
              ELSE NULL]
  /\ list = [n \in Nodes |-> IF n = NtdllNode THEN <<Ntdll>> ELSE <<>>]
  /\ nodes = {NtdllNode}
  /\ entry = [c \in Ctxs |-> NULL]
  /\ edges = {}
  /\ named = [n \in Nodes |-> IF n = NtdllNode THEN {NtdllName} ELSE {}]
  /\ pc = [t \in Threads |-> Idle]
  /\ lock = NULL
  /\ queue = <<>>
  /\ hooked = FALSE
-----------------------------------------------------------------------------
(* Loading a module.                                                       *)

\* HookLdrpAllocateModuleEntry: the original allocates the entry and its
\* node, then the line is printed.  The load context is optional; without one
\* this thread does nothing more with the module.
HookLdrpAllocateModuleEntry(t) ==
  /\ At(t, "idle")
  /\ \E m \in {x \in Mods : mod[x] = NULL}, n \in Nodes \ nodes,
        c \in {x \in Ctxs : entry[x] = NULL} \cup {NULL} :
       /\ mod' = [mod EXCEPT ![m] = NewEntry(n, c)]
       /\ nodes' = nodes \cup {n}
       /\ list' = [list EXCEPT ![n] = <<m>>]
       /\ named' = [named EXCEPT ![n] = {}]
       /\ entry' = [x \in Ctxs |-> IF x = c THEN m ELSE entry[x]]
       /\ pc' = [pc EXCEPT ![t] = [at |-> IF c = NULL THEN "contextless" ELSE "allocated",
                                   m |-> m, n |-> NULL, o |-> c]]
       /\ dbgprint(t, "AllocateModuleEntry", m)
  /\ UNCHANGED <<edges, lock, hooked>>

\* HookLdrpMapDllWithSectionHandle prints before the original; by then the
\* loader has stored the name in the entry.
HookLdrpMapDllWithSectionHandle(t) ==
  /\ At(t, "allocated")
  /\ \E name \in Names :
       /\ mod' = [mod EXCEPT ![pc[t].m].name = name]
       /\ named' = [named EXCEPT ![mod[pc[t].m].node] = @ \cup {name}]
  /\ dbgprint(t, "MapDllWithSectionHandle", pc[t].o)
  /\ Goto(t, "mapping")
  /\ UNCHANGED <<list, nodes, entry, edges, lock, hooked>>

\* The original links the mapped module, which may depend on another one,
\* or fails.
LdrpMapDllWithSectionHandle(t) ==
  /\ At(t, "mapping")
  /\ \/ /\ mod' = [mod EXCEPT ![pc[t].m].linked = TRUE]
        /\ \E deps \in SUBSET {mod[m].node : m \in Linked} :
             /\ Cardinality(deps) <= 1
             /\ edges' = edges \cup ({mod[pc[t].m].node} \X deps)
     \/ UNCHANGED <<mod, edges>>
  /\ Goto(t, "mapped")
  /\ UNCHANGED <<list, nodes, entry, named, lock, queue, hooked>>

\* HookLdrpFreeLoadContext prints before the original.
HookLdrpFreeLoadContext(t) ==
  /\ At(t, "mapped")
  /\ dbgprint(t, "FreeLoadContext", pc[t].o)
  /\ Goto(t, "freeing")
  /\ UNCHANGED <<mod, list, nodes, entry, edges, named, lock, hooked>>

\* The original frees the context; a load that failed is undone.
LdrpFreeLoadContext(t) ==
  /\ At(t, "freeing")
  /\ entry' = [entry EXCEPT ![pc[t].o] = NULL]
  /\ mod' = [mod EXCEPT ![pc[t].m].ctx = NULL]
  /\ pc' = [pc EXCEPT ![t] = IF mod[pc[t].m].linked THEN Idle
                             ELSE [@ EXCEPT !.at = "failed", !.o = NULL]]
  /\ UNCHANGED <<list, nodes, edges, named, lock, queue, hooked>>
-----------------------------------------------------------------------------
(* Condensing the graph and unloading, under the loader lock.              *)

\* A node whose modules are all loaded, and which is not ntdll's.
Loaded(n) ==
  /\ n \in nodes \ {NtdllNode} /\ list[n] # <<>>
  /\ \A m \in ToSet(list[n]) : m \in Linked /\ mod[m].ctx = NULL

\* HookLdrpCondenseGraphRecurse, ENTER: the node and the nodes on the
\* condense link of the current root.
HookLdrpCondenseGraphRecurse(t) ==
  /\ At(t, "idle") /\ lock = NULL
  /\ \E root \in nodes, n \in nodes :
       /\ root # n /\ Loaded(root) /\ Loaded(n)
       /\ dbgprint(t, "CondenseGraphRecurse", {root, n})
       /\ pc' = [pc EXCEPT ![t] = [Idle EXCEPT !.at = "condensing", !.n = n, !.o = root]]
  /\ lock' = t
  /\ UNCHANGED <<mod, list, nodes, entry, edges, named, hooked>>

\* The lines HookLdrpMergeNodes prints before the original name no object.
HookLdrpMergeNodes(t) ==
  /\ At(t, "condensing")
  /\ dbgprint(t, "Other", NULL)
  /\ Goto(t, "merging")
  /\ UNCHANGED <<mod, list, nodes, entry, edges, named, lock, hooked>>

\* The original moves the modules and the edges of the node to the root and
\* destroys the node.
LdrpMergeNodes(t) ==
  LET n == pc[t].n  root == pc[t].o
      To(x) == IF x = n THEN root ELSE x
  IN  /\ At(t, "merging")
      /\ mod' = [m \in Mods |-> IF mod[m] # NULL /\ mod[m].node = n
                                THEN [mod[m] EXCEPT !.node = root] ELSE mod[m]]
      /\ list' = [list EXCEPT ![root] = @ \o list[n], ![n] = <<>>]
      /\ named' = [named EXCEPT ![root] = @ \cup named[n]]
      /\ edges' = {e \in {<<To(e[1]), To(e[2])>> : e \in edges} : e[1] # e[2]}
      /\ dbgprint(t, "DestroyNode", n)
      /\ Goto(t, "merged")
      /\ UNCHANGED <<nodes, entry, lock, hooked>>

\* Every module and edge of an unloaded node is unlinked before the first
\* of them is unmapped; nothing depends on the node any more.
LdrpUnloadNode(t) ==
  /\ lock = NULL
  /\ \E n \in nodes :
       /\ \/ At(t, "idle") /\ Loaded(n)
          \/ At(t, "failed") /\ n = mod[pc[t].m].node
       /\ \A e \in edges : e[2] # n
       /\ mod' = [m \in Mods |-> IF m \in ToSet(list[n])
                                 THEN [mod[m] EXCEPT !.linked = FALSE] ELSE mod[m]]
       /\ edges' = {e \in edges : e[1] # n}
       /\ pc' = [pc EXCEPT ![t] = [Idle EXCEPT !.at = "unloading", !.n = n]]
  /\ lock' = t
  /\ UNCHANGED <<list, nodes, entry, named, queue, hooked>>

\* HookLdrpUnmapModule prints before the original.
HookLdrpUnmapModule(t) ==
  /\ At(t, "unloading") /\ list[pc[t].n] # <<>>
  /\ LET m == Head(list[pc[t].n]) IN
       /\ dbgprint(t, "UnmapModule", m)
       /\ pc' = [pc EXCEPT ![t].at = "unmapping", ![t].m = m]
  /\ UNCHANGED <<mod, list, nodes, entry, edges, named, lock, hooked>>

\* The entry is gone after the original.
LdrpUnmapModule(t) ==
  /\ At(t, "unmapping")
  /\ mod' = [mod EXCEPT ![pc[t].m] = NULL]
  /\ list' = [list EXCEPT ![pc[t].n] = Tail(@)]
  /\ Goto(t, "unloading")
  /\ UNCHANGED <<nodes, entry, edges, named, lock, queue, hooked>>

\* HookLdrpDestroyNode prints before the original.
HookLdrpDestroyNode(t) ==
  /\ At(t, "unloading") /\ list[pc[t].n] = <<>>
  /\ dbgprint(t, "DestroyNode", pc[t].n)
  /\ Goto(t, "destroying")
  /\ UNCHANGED <<mod, list, nodes, entry, edges, named, lock, hooked>>

\* The original frees the node.  A merge ends with its EXIT line ...
LdrpDestroyNode(t) ==
  /\ nodes' = nodes \ {pc[t].n}
  /\ \/ /\ At(t, "merged")
        /\ dbgprint(t, "MergeNodesExit", NULL)
        /\ Goto(t, "exiting")
        /\ UNCHANGED lock
     \/ /\ At(t, "destroying")
        /\ pc' = [pc EXCEPT ![t] = Idle]
        /\ lock' = NULL
        /\ UNCHANGED queue
  /\ UNCHANGED <<mod, list, entry, edges, named, hooked>>

\* ... and HookLdrpCondenseGraphRecurse with the EXIT line of the root.
CondenseGraphRecurseExit(t) ==
  /\ \/ /\ At(t, "exiting")
        /\ dbgprint(t, "CondenseGraphRecurse", {pc[t].o})
        /\ Goto(t, "exited")
        /\ UNCHANGED lock
     \/ /\ At(t, "exited")
        /\ pc' = [pc EXCEPT ![t] = Idle]
        /\ lock' = NULL
        /\ UNCHANGED queue
  /\ UNCHANGED <<mod, list, nodes, entry, edges, named, hooked>>

\* HookLdrpPreprocessDllName, HookLdrpApplyFileNameRedirection and loader
\* snaps: lines that name no object the debugger keeps.
PrintOther(t) ==
  /\ At(t, "idle")
  /\ Raise(t, "Other", NULL)
  /\ UNCHANGED <<mod, list, nodes, entry, edges, named, pc, lock, hooked>>

LoaderNext(t) ==
  \/ HookLdrpAllocateModuleEntry(t)
  \/ HookLdrpMapDllWithSectionHandle(t) \/ LdrpMapDllWithSectionHandle(t)
  \/ HookLdrpFreeLoadContext(t) \/ LdrpFreeLoadContext(t)
  \/ HookLdrpCondenseGraphRecurse(t)
  \/ HookLdrpMergeNodes(t) \/ LdrpMergeNodes(t)
  \/ LdrpUnloadNode(t)
  \/ HookLdrpUnmapModule(t) \/ LdrpUnmapModule(t)
  \/ HookLdrpDestroyNode(t) \/ LdrpDestroyNode(t)
  \/ CondenseGraphRecurseExit(t)
  \/ PrintOther(t)
=============================================================================
