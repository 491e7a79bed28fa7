----------------------------- MODULE InjectHooks -----------------------------
(***************************************************************************)
(* The hook DLL (LoaderWatch.Inject): NtDllMain, which detours all hook    *)
(* targets in one transaction when the DLL is attached to the process and  *)
(* undoes it when the process ends.  The DLL is pinned: nothing else       *)
(* unloads it.  Every call of the library is the argument of an assert,    *)
(* which the Release configurations of the build do not evaluate.          *)
(***************************************************************************)
EXTENDS Detours

CONSTANT
  Order     \* the hooks in the order in which EnableDetours attaches them

ASSUME HooksAssumption ==
  Order \in Seq(Hooks) /\ ToSet(Order) = Hooks /\ Len(Order) = Cardinality(Hooks)

VARIABLES
  NDEBUG,   \* the DLL is a Release build
  dll,      \* what NtDllMain has done so far
  next      \* the position in Order of the hook that is next

hookVars == <<NDEBUG, dll, next>>
allVars == <<vars, hookVars>>

HooksInit == Init /\ NDEBUG \in BOOLEAN /\ dll = "out" /\ next = 0

\* An assert whose call returned an error ends the process.
AssertNoError(to) ==
  /\ dll' = IF failed' THEN "aborted" ELSE to
  /\ UNCHANGED NDEBUG

\* In a build without asserts EnableDetours makes no call at all.
ReleaseEnable ==
  /\ NDEBUG /\ dll = "out"
  /\ dll' = "on"
  /\ UNCHANGED <<vars, NDEBUG, next>>

BeginDetours(t, from, to) ==
  /\ ~NDEBUG /\ dll = from
  /\ DetourTransactionBegin(t)
  /\ AssertNoError(to)
  /\ next' = 1

\* Mutant: the first hook is not attached.
AttachAllButFirst(t) ==
  /\ dll = "enabling" /\ next <= Len(Order)
  /\ IF next = 1 THEN UNCHANGED <<vars, NDEBUG, dll>>
     ELSE DetourAttach(t, Order[next]) /\ AssertNoError("enabling")
  /\ next' = next + 1

AttachNext(t) ==
  /\ dll = "enabling" /\ next <= Len(Order)
  /\ DetourAttach(t, Order[next])
  /\ AssertNoError("enabling")
  /\ next' = next + 1

\* Mutant: the last hook is not detached.
DetachAllButLast(t) ==
  /\ dll = "disabling" /\ next <= Len(Order)
  /\ IF next = Len(Order) THEN UNCHANGED <<vars, NDEBUG, dll>>
     ELSE DetourDetach(t, Order[next]) /\ AssertNoError("disabling")
  /\ next' = next + 1

DetachNext(t) ==
  /\ dll = "disabling" /\ next <= Len(Order)
  /\ DetourDetach(t, Order[next])
  /\ AssertNoError("disabling")
  /\ next' = next + 1

CommitDetours(t, from, to) ==
  /\ dll = from /\ next > Len(Order)
  /\ \/ DetourTransactionCommit(t) /\ UNCHANGED hookVars
     \/ /\ EndStep
        /\ dll' = IF phase' = "idle" THEN to ELSE from
        /\ UNCHANGED <<NDEBUG, next>>

ReleaseDisable ==
  /\ NDEBUG /\ dll = "on"
  /\ dll' = "off"
  /\ UNCHANGED <<vars, NDEBUG, next>>

\* OnProcessAttach, called by the thread that loads the DLL.
EnableDetours(t) ==
  \/ ReleaseEnable
  \/ BeginDetours(t, "out", "enabling")
  \/ AttachNext(t)
  \/ CommitDetours(t, "enabling", "on")

\* OnProcessDetach, called by the thread that ends the process.
DisableDetours(t) ==
  \/ ReleaseDisable
  \/ BeginDetours(t, "on", "disabling")
  \/ DetachNext(t)
  \/ CommitDetours(t, "disabling", "off")

HooksNext == \E t \in Threads : EnableDetours(t) \/ DisableDetours(t)

HooksSpec == HooksInit /\ [][HooksNext]_allVars

-----------------------------------------------------------------------------
Hooked(h) == code[h] # NULL /\ ptr[h] = code[h]

\* When OnProcessAttach of a build with asserts is over every hook target is
\* detoured and every hook calls the original through its own trampoline.
AssertsHook == dll = "on" /\ ~NDEBUG => \A h \in Hooks : Hooked(h)

\* "Hook all functions.": the same of every build.
AllHooked == dll = "on" => \A h \in Hooks : Hooked(h)

\* After OnProcessDetach every target has its own bytes again, every pointer
\* its target, and all trampoline regions are released.
NothingLeft ==
  dll = "off" => /\ \A h \in Hooks : code[h] = NULL /\ ptr[h] = NULL
                 /\ regions = <<>>
=============================================================================
