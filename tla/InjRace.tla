------------------------------- MODULE InjRace -------------------------------
(***************************************************************************)
(* The callbacks of one process that is past its start, step by step.  The *)
(* load-image and the registry callback run on any of its threads and the  *)
(* INJECT control code on the threads of the clients; nothing serialises   *)
(* them, and all of them read and write one INJ_INJECTION_INFO.  InjInject *)
(* is taken apart with each of its failures: it maps a section into the    *)
(* process, copies the path, queues the user-mode APC and makes it         *)
(* deliverable.                                                            *)
(*                                                                         *)
(* Stores are taken to become visible in program order, which is what the  *)
(* x86 and x64 builds produce.                                             *)
(***************************************************************************)
EXTENDS Naturals

CONSTANTS
  Threads,   \* the threads of the process
  Clients,   \* the INJECT requests about it, one thread and one buffer each
  NULL,
  Method     \* INJ_SETTINGS.Method of the build

ASSUME RaceAssumption ==
  /\ NULL \notin Clients
  /\ Method \in {"Thunk", "Thunkless"}

VARIABLES
  IsInjected, PathAllocated, Suppress,   \* the fields of the info
  path,      \* InjectionDllPath: its Buffer and the request its Length is of
  pc,        \* where each thread is in its callback
  ipc,       \* where each thread is in InjInject, or "out" of it
  copy,      \* what each thread has read of InjectionDllPath
  made,      \* how many injections each thread has made
  views,     \* the section views each thread has left mapped
  uapc,      \* how many user-mode APCs are queued to each thread
  pending,   \* ApcState.UserApcPending of each thread
  cpc,       \* where each client is in SioctlDeviceControl
  asked      \* the Suppress flag of each request

infoVars == <<IsInjected, PathAllocated, Suppress, path>>
injectVars == <<ipc, copy, made, views, uapc, pending>>
threadVars == <<pc, injectVars>>
clientVars == <<cpc, asked>>
vars == <<infoVars, threadVars, clientVars>>

Unread == "unread"
NoCopy == [Buffer |-> Unread, Length |-> Unread, Argument |-> Unread]

Init ==
  /\ IsInjected = FALSE /\ PathAllocated = FALSE /\ Suppress = FALSE
  /\ path = [Buffer |-> NULL, Length |-> NULL]
  /\ pc = [t \in Threads |-> "user"]
  /\ ipc = [t \in Threads |-> "out"]
  /\ copy = [t \in Threads |-> NoCopy]
  /\ made = [t \in Threads |-> 0]
  /\ views = [t \in Threads |-> 0]
  /\ uapc = [t \in Threads |-> 0]
  /\ pending = [t \in Threads |-> FALSE]
  /\ cpc = [c \in Clients |-> "idle"]
  /\ asked \in [Clients -> BOOLEAN]

Goto(t, from, to) ==
  /\ pc[t] = from
  /\ pc' = [pc EXCEPT ![t] = to]

-----------------------------------------------------------------------------
(***************************************************************************)
(* InjLoadImageNotifyRoutine, once InjCanInject holds: the checks, the     *)
(* kernel-mode APC, the mark.  The APC runs when the callback has returned.*)
(***************************************************************************)
ImageCheck(t) ==
  /\ ~IsInjected
  /\ Goto(t, "user", "i_path")
  /\ UNCHANGED <<infoVars, injectVars, clientVars>>

ImagePath(t) ==
  /\ Goto(t, "i_path", IF PathAllocated THEN "i_suppress" ELSE "user")
  /\ UNCHANGED <<infoVars, injectVars, clientVars>>

ImageSuppress(t) ==
  /\ Goto(t, "i_suppress", IF Suppress THEN "user" ELSE "i_queue")
  /\ UNCHANGED <<infoVars, injectVars, clientVars>>

\* The APC is queued, or its allocation fails.
ImageQueue(t) ==
  /\ \/ Goto(t, "i_queue", "i_mark")
     \/ Goto(t, "i_queue", "i_marknone")
  /\ UNCHANGED <<infoVars, injectVars, clientVars>>

\* Mutant: the load-image callback does not mark the process.
ImageMarkForgotten(t) ==
  /\ \/ Goto(t, "i_mark", "i_apc")
     \/ Goto(t, "i_marknone", "user")
  /\ UNCHANGED <<infoVars, injectVars, clientVars>>

ImageMark(t) ==
  /\ \/ Goto(t, "i_mark", "i_apc")
     \/ Goto(t, "i_marknone", "user")
  /\ IsInjected' = TRUE
  /\ UNCHANGED <<PathAllocated, Suppress, path, injectVars, clientVars>>

-----------------------------------------------------------------------------
(***************************************************************************)
(* InjRegistryCallback on the target key.                                  *)
(***************************************************************************)
\* Mutant: the registry callback does not look at PathAllocated.
RegistryAnyPath(t) ==
  /\ Goto(t, "user", "r_check")
  /\ UNCHANGED <<infoVars, injectVars, clientVars>>

RegistryPath(t) ==
  /\ PathAllocated
  /\ Goto(t, "user", "r_check")
  /\ UNCHANGED <<infoVars, injectVars, clientVars>>

RegistryCheck(t) ==
  /\ Goto(t, "r_check", IF IsInjected THEN "user" ELSE "r_inject")
  /\ UNCHANGED <<infoVars, injectVars, clientVars>>

RegistryMark(t) ==
  /\ Goto(t, "r_mark", "user")
  /\ IsInjected' = TRUE
  /\ UNCHANGED <<PathAllocated, Suppress, path, injectVars, clientVars>>

-----------------------------------------------------------------------------
(***************************************************************************)
(* InjInject, called by the registry callback or by the kernel-mode APC.   *)
(***************************************************************************)
IGoto(t, from, to) ==
  /\ ipc[t] = from
  /\ ipc' = [ipc EXCEPT ![t] = to]

Return(t) ==
  /\ ipc' = [ipc EXCEPT ![t] = "out"]
  /\ pc' = [pc EXCEPT ![t] = IF @ = "i_apc" THEN "user" ELSE "r_mark"]
  /\ copy' = [copy EXCEPT ![t] = NoCopy]

\* ZwCreateSection; InjInject returns at once when it fails.
CreateSection(t) ==
  /\ pc[t] \in {"i_apc", "r_inject"}
  /\ \/ IGoto(t, "out", "map") /\ UNCHANGED <<pc, copy>>
     \/ ipc[t] = "out" /\ Return(t)
  /\ UNCHANGED <<infoVars, made, views, uapc, pending, clientVars>>

\* The section is mapped for writing.  What follows reports its failures to
\* nobody: KeTestAlertThread depends on the status of ZwCreateSection only.
MapView(t) ==
  /\ \/ IGoto(t, "map", "copy") /\ views' = [views EXCEPT ![t] = @ + 1]
     \/ IGoto(t, "map", "alert") /\ UNCHANGED views
  /\ UNCHANGED <<infoVars, pc, copy, made, uapc, pending, clientVars>>

\* The copy of the path reads both members of InjectionDllPath, in any order.
ReadPath(t, member) ==
  /\ ipc[t] = "copy"
  /\ copy[t][member] = Unread
  /\ copy' = [copy EXCEPT ![t][member] = path[member]]
  /\ UNCHANGED <<infoVars, pc, ipc, made, views, uapc, pending, clientVars>>

\* The thunk method unmaps the section and maps it again for execution.
RemapView(t) ==
  /\ copy[t].Buffer # Unread /\ copy[t].Length # Unread
  /\ \/ IGoto(t, "copy", "queue") /\ UNCHANGED views
     \/ /\ Method = "Thunk"
        /\ IGoto(t, "copy", "alert")
        /\ views' = [views EXCEPT ![t] = @ - 1]
  /\ UNCHANGED <<infoVars, pc, copy, made, uapc, pending, clientVars>>

\* Mutant: the view stays mapped when no APC is queued.
QueueKeepsView(t) ==
  /\ IGoto(t, "queue", "alert")
  /\ copy' = [copy EXCEPT ![t].Argument = path.Length]
  /\ \/ /\ made' = [made EXCEPT ![t] = @ + 1]
        /\ uapc' = [uapc EXCEPT ![t] = @ + 1]
     \/ UNCHANGED <<made, uapc>>
  /\ UNCHANGED <<infoVars, pc, views, pending, clientVars>>

\* InjpQueueApc; the thunk method hands the APC the length, read once more,
\* and unmaps the section when there is no APC.
QueueUserApc(t) ==
  /\ IGoto(t, "queue", "alert")
  /\ copy' = [copy EXCEPT
       ![t].Argument = IF Method = "Thunk" THEN path.Length ELSE @]
  /\ \/ /\ made' = [made EXCEPT ![t] = @ + 1]
        /\ uapc' = [uapc EXCEPT ![t] = @ + 1]
        /\ UNCHANGED views
     \/ /\ views' = [views EXCEPT ![t] = IF Method = "Thunk" THEN @ - 1 ELSE @]
        /\ UNCHANGED <<made, uapc>>
  /\ UNCHANGED <<infoVars, pc, pending, clientVars>>

\* Mutant: KeTestAlertThread is left to the registry callback.
AlertInCallbackOnly(t) ==
  /\ ipc[t] = "alert"
  /\ pending' = [pending EXCEPT ![t] = @ \/ (pc[t] = "r_inject" /\ uapc[t] > 0)]
  /\ Return(t)
  /\ UNCHANGED <<infoVars, made, views, uapc, clientVars>>

\* KeTestAlertThread makes a queued APC deliverable: ForceUserApc is always set.
TestAlert(t) ==
  /\ ipc[t] = "alert"
  /\ pending' = [pending EXCEPT ![t] = @ \/ uapc[t] > 0]
  /\ Return(t)
  /\ UNCHANGED <<infoVars, made, views, uapc, clientVars>>

\* The thread returns to user mode, where the kernel delivers one APC.
DeliverUserApc(t) ==
  /\ pc[t] = "user" /\ pending[t] /\ uapc[t] > 0
  /\ uapc' = [uapc EXCEPT ![t] = @ - 1]
  /\ pending' = [pending EXCEPT ![t] = uapc[t] > 1]
  /\ UNCHANGED <<infoVars, pc, ipc, copy, made, views, clientVars>>

-----------------------------------------------------------------------------
(***************************************************************************)
(* SioctlDeviceControl for IOCTL_LOADERWATCHDEBUG_INJECT.                  *)
(***************************************************************************)
ClientGoto(c, from, to) ==
  /\ cpc[c] = from
  /\ cpc' = [cpc EXCEPT ![c] = to]

\* A request that finds the process injected, or no memory, is refused.
RequestCheck(c) ==
  /\ \/ ClientGoto(c, "idle", "refused")
     \/ ~IsInjected /\ ClientGoto(c, "idle", "c_length")
  /\ UNCHANGED <<infoVars, threadVars, asked>>

\* RtlInitUnicodeString stores the lengths, then the buffer.
RequestLength(c) ==
  /\ ClientGoto(c, "c_length", "c_buffer")
  /\ path' = [path EXCEPT !.Length = c]
  /\ UNCHANGED <<IsInjected, PathAllocated, Suppress, threadVars, asked>>

RequestBuffer(c) ==
  /\ ClientGoto(c, "c_buffer", "c_suppress")
  /\ path' = [path EXCEPT !.Buffer = c]
  /\ UNCHANGED <<IsInjected, PathAllocated, Suppress, threadVars, asked>>

\* Mutant: the flag is taken from a variable that was never set.
RequestUnsetFlag(c) ==
  /\ ClientGoto(c, "c_suppress", "c_announce")
  /\ Suppress' = NULL
  /\ UNCHANGED <<IsInjected, PathAllocated, path, threadVars, asked>>

RequestSuppress(c) ==
  /\ ClientGoto(c, "c_suppress", "c_announce")
  /\ Suppress' = asked[c]
  /\ UNCHANGED <<IsInjected, PathAllocated, path, threadVars, asked>>

\* Mutant: the path is announced before the Suppress flag is stored.
AnnounceTooEarly(c) ==
  /\ UNCHANGED <<IsInjected, path, threadVars, asked>>
  /\ \/ /\ ClientGoto(c, "c_suppress", "c_announce")
        /\ PathAllocated' = TRUE /\ UNCHANGED Suppress
     \/ /\ ClientGoto(c, "c_announce", "done")
        /\ Suppress' = asked[c] /\ UNCHANGED PathAllocated

RequestAnnounce(c) ==
  /\ ClientGoto(c, "c_announce", "done")
  /\ PathAllocated' = TRUE
  /\ UNCHANGED <<IsInjected, Suppress, path, threadVars, asked>>

ThreadNext(t) ==
  \/ ImageCheck(t) \/ ImagePath(t) \/ ImageSuppress(t)
  \/ ImageQueue(t) \/ ImageMark(t)
  \/ RegistryPath(t) \/ RegistryCheck(t) \/ RegistryMark(t)
  \/ \E member \in {"Buffer", "Length"} : ReadPath(t, member)
  \/ CreateSection(t) \/ MapView(t) \/ RemapView(t)
  \/ QueueUserApc(t) \/ TestAlert(t) \/ DeliverUserApc(t)

Store(c) == RequestSuppress(c) \/ RequestAnnounce(c)

ClientNext(c) ==
  \/ RequestCheck(c) \/ RequestLength(c) \/ RequestBuffer(c) \/ Store(c)

Next == \/ \E t \in Threads : ThreadNext(t)
        \/ \E c \in Clients : ClientNext(c)

Spec == Init /\ [][Next]_vars

-----------------------------------------------------------------------------
ThreadPoints == {"user", "i_path", "i_suppress", "i_queue", "i_mark",
                 "i_marknone", "i_apc", "r_check", "r_inject", "r_mark"}
InjectPoints == {"out", "map", "copy", "queue", "alert"}
ClientPoints == {"idle", "refused", "c_length", "c_buffer", "c_suppress",
                 "c_announce", "done"}
PathMember == Clients \cup {NULL}

TypeOK ==
  /\ IsInjected \in BOOLEAN /\ PathAllocated \in BOOLEAN /\ Suppress \in BOOLEAN
  /\ path \in [Buffer : PathMember, Length : PathMember]
  /\ pc \in [Threads -> ThreadPoints]
  /\ ipc \in [Threads -> InjectPoints]
  /\ copy \in [Threads -> [Buffer : PathMember \cup {Unread},
                           Length : PathMember \cup {Unread},
                           Argument : PathMember \cup {Unread}]]
  /\ made \in [Threads -> Nat] /\ uapc \in [Threads -> Nat]
  /\ views \in [Threads -> Nat]
  /\ pending \in [Threads -> BOOLEAN]
  /\ cpc \in [Clients -> ClientPoints]
  /\ asked \in [Clients -> BOOLEAN]

\* The requests that have begun to write the info.
Writers == {c \in Clients : cpc[c] \notin {"idle", "refused"}}

\* The load-image callback makes no injection when every request so far asked
\* it not to, however it interleaves with the stores of the request: Suppress
\* is stored before PathAllocated and read after it.
SuppressionHolds ==
  (\A c \in Writers : asked[c]) =>
    \A t \in Threads : pc[t] \notin {"i_queue", "i_mark", "i_apc"}

\* Whatever stores of whatever requests a callback falls between, what
\* InjInject copies and hands to its APC was stored by a request: never the
\* null buffer or the lengths of the zeroed info.  With one request it is all
\* of that request; of two requests it may be a mixture.
PathCopiedWhole ==
  \A t \in Threads :
    {copy[t].Buffer, copy[t].Length, copy[t].Argument} \subseteq Writers \cup {Unread}

\* With the thunk method the views that a thread has mapped are those of the
\* injections it has made, whichever step of an injection failed.
ThunkViewsMatchApcs ==
  Method = "Thunk" =>
    \A t \in Threads : ipc[t] = "out" => views[t] = made[t]

\* Once InjInject has returned, an APC that it queued will be delivered when
\* the thread goes back to user mode, from either caller and however many of
\* its injections fail afterwards.
QueuedApcPending ==
  \A t \in Threads : ipc[t] = "out" /\ uapc[t] > 0 => pending[t]

\* A thread makes at most one injection in the life of its process: when
\* callbacks overlap the process is injected at most once per thread.
OncePerThread == \A t \in Threads : made[t] <= 1

\* The comment on the first check of InjLoadImageNotifyRoutine, "Check if
\* current process is injected", and IsInjected's own, "If true, the process
\* has been already injected": no two threads inject one process.
InjectedOnce ==
  \A t, u \in Threads : made[t] > 0 /\ made[u] > 0 => t = u
=============================================================================
