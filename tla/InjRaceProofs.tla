---------------------------- MODULE InjRaceProofs ----------------------------
(***************************************************************************)
(* Proofs about InjRace: what the order of the stores of a request and of  *)
(* the loads of the callbacks guarantees, and what every failure of an     *)
(* injection leaves behind, for any number of threads and requests.        *)
(***************************************************************************)
EXTENDS InjRace, TLAPS

\* A callback looks at Suppress, or at IsInjected in the registry callback,
\* and at the path only when it found PathAllocated.
PastPathCheck ==
  \A t \in Threads : pc[t] \notin {"user", "i_path"} => PathAllocated

\* The requests that have stored Suppress stored TRUE, when all asked for it;
\* then no callback gets past its look at the flag.
SuppressStored ==
  (\A c \in Writers : asked[c]) =>
    /\ \A c \in Clients : cpc[c] \in {"c_announce", "done"} => Suppress
    /\ PathAllocated => Suppress
    /\ \A t \in Threads : pc[t] \notin {"i_queue", "i_mark", "i_marknone", "i_apc"}

\* What InjectionDllPath points to belongs to a request, and is whole as soon
\* as one request has announced it.
PathStored ==
  /\ {path.Buffer, path.Length} \subseteq Writers \cup {NULL}
  /\ \A c \in Clients :
       /\ cpc[c] \notin {"idle", "refused", "c_length"} => path.Length # NULL
       /\ cpc[c] \notin {"idle", "refused", "c_length", "c_buffer"} => path.Buffer # NULL
  /\ PathAllocated => path.Buffer # NULL /\ path.Length # NULL

\* A thread that made an injection marks the process before it looks at the
\* mark again, and one between its look and its injection made none.
MarkedByInjector ==
  \A t \in Threads :
    /\ made[t] \in {0, 1}
    /\ made[t] = 1 => \/ IsInjected \/ pc[t] = "r_mark"
                      \/ pc[t] = "r_inject" /\ ipc[t] = "alert"
    /\ pc[t] \notin {"user", "r_check", "r_mark"} /\ ipc[t] # "alert" => made[t] = 0
    /\ pc[t] = "i_apc" => IsInjected

\* A thread is in InjInject only where a caller calls it, with one view more
\* than it has injections while it has mapped its section.
InjectorSound ==
  \A t \in Threads :
    /\ ipc[t] # "out" => pc[t] \in {"i_apc", "r_inject"}
    /\ Method = "Thunk" =>
         views[t] = IF ipc[t] \in {"copy", "queue"} THEN made[t] + 1 ELSE made[t]

RaceInv ==
  /\ TypeOK /\ PastPathCheck /\ SuppressStored /\ PathStored
  /\ PathCopiedWhole /\ MarkedByInjector /\ InjectorSound /\ QueuedApcPending
-----------------------------------------------------------------------------
USE DEF ThreadPoints, InjectPoints, ClientPoints, PathMember, NoCopy, Writers,
        infoVars, injectVars, threadVars, clientVars, Goto, IGoto, ClientGoto

\* The state before the first callback and the first request.
LEMMA InitEstablishesRaceInv == Init => RaceInv
  <1> SUFFICES ASSUME Init PROVE RaceInv
    OBVIOUS
  <1>1. TypeOK
    BY DEF Init, TypeOK
  <1>2. PastPathCheck
    BY DEF Init, PastPathCheck
  <1>3. SuppressStored
    BY DEF Init, SuppressStored
  <1>4. PathStored
    BY DEF Init, PathStored
  <1>5. PathCopiedWhole
    BY DEF Init, PathCopiedWhole
  <1>6. MarkedByInjector
    <2>1. \A t \in Threads : made[t] = 0 /\ pc[t] = "user"
      BY DEF Init
    <2>2. \A t \in Threads : made[t] \in {0, 1} /\ made[t] # 1
      <3>1. 0 # 1
        OBVIOUS
      <3> QED
        BY <2>1, <3>1
    <2>3. \A t \in Threads : pc[t] # "i_apc"
      BY <2>1
    <2> QED
      BY <2>1, <2>2, <2>3, Zenon DEF MarkedByInjector
  <1>7. InjectorSound
    BY DEF Init, InjectorSound
  <1>8. QueuedApcPending
    BY DEF Init, QueuedApcPending
  <1> QED
    BY <1>1, <1>2, <1>3, <1>4, <1>5, <1>6, <1>7, <1>8 DEF RaceInv

\* A step of a callback, outside of InjInject, keeps the invariant.
LEMMA CallbackKeepsRaceInv ==
  ASSUME RaceInv, NEW t \in Threads,
         \/ ImageCheck(t) \/ ImagePath(t) \/ ImageSuppress(t)
         \/ ImageQueue(t) \/ ImageMark(t)
         \/ RegistryPath(t) \/ RegistryCheck(t) \/ RegistryMark(t)
  PROVE  RaceInv'
  <1>1. CASE ImageCheck(t)
    <2>1. TypeOK'
      BY <1>1 DEF RaceInv, TypeOK, ImageCheck
    <2>2. PastPathCheck'
      BY <1>1, <2>1 DEF RaceInv, TypeOK, PastPathCheck, ImageCheck
    <2>3. SuppressStored'
      BY <1>1, <2>1 DEF RaceInv, TypeOK, SuppressStored, ImageCheck
    <2>4. PathStored'
      BY <1>1, <2>1 DEF RaceInv, TypeOK, PathStored, ImageCheck
    <2>5. PathCopiedWhole'
      BY <1>1, <2>1 DEF RaceInv, TypeOK, PathCopiedWhole, ImageCheck
    <2>6. MarkedByInjector'
      BY <1>1, <2>1 DEF RaceInv, TypeOK, MarkedByInjector, InjectorSound, ImageCheck
    <2>7. InjectorSound'
      BY <1>1, <2>1 DEF RaceInv, TypeOK, InjectorSound, ImageCheck
    <2>8. QueuedApcPending'
      BY <1>1, <2>1 DEF RaceInv, TypeOK, QueuedApcPending, ImageCheck
    <2> QED
      BY <2>1, <2>2, <2>3, <2>4, <2>5, <2>6, <2>7, <2>8 DEF RaceInv
  <1>2. CASE ImagePath(t)
    <2>1. TypeOK'
      BY <1>2 DEF RaceInv, TypeOK, ImagePath
    <2>2. PastPathCheck'
      BY <1>2, <2>1 DEF RaceInv, TypeOK, PastPathCheck, ImagePath
    <2>3. SuppressStored'
      BY <1>2, <2>1 DEF RaceInv, TypeOK, SuppressStored, ImagePath
    <2>4. PathStored'
      BY <1>2, <2>1 DEF RaceInv, TypeOK, PathStored, ImagePath
    <2>5. PathCopiedWhole'
      BY <1>2, <2>1 DEF RaceInv, TypeOK, PathCopiedWhole, ImagePath
    <2>6. MarkedByInjector'
      BY <1>2, <2>1 DEF RaceInv, TypeOK, MarkedByInjector, InjectorSound, ImagePath
    <2>7. InjectorSound'
      BY <1>2, <2>1 DEF RaceInv, TypeOK, InjectorSound, ImagePath
    <2>8. QueuedApcPending'
      BY <1>2, <2>1 DEF RaceInv, TypeOK, QueuedApcPending, ImagePath
    <2> QED
      BY <2>1, <2>2, <2>3, <2>4, <2>5, <2>6, <2>7, <2>8 DEF RaceInv
  <1>3. CASE ImageSuppress(t)
    <2>1. TypeOK'
      BY <1>3 DEF RaceInv, TypeOK, ImageSuppress
    <2>2. PastPathCheck'
      BY <1>3, <2>1 DEF RaceInv, TypeOK, PastPathCheck, ImageSuppress
    <2>3. SuppressStored'
      BY <1>3, <2>1 DEF RaceInv, TypeOK, SuppressStored, PastPathCheck, ImageSuppress
    <2>4. PathStored'
      BY <1>3, <2>1 DEF RaceInv, TypeOK, PathStored, ImageSuppress
    <2>5. PathCopiedWhole'
      BY <1>3, <2>1 DEF RaceInv, TypeOK, PathCopiedWhole, ImageSuppress
    <2>6. MarkedByInjector'
      BY <1>3, <2>1 DEF RaceInv, TypeOK, MarkedByInjector, InjectorSound, ImageSuppress
    <2>7. InjectorSound'
      BY <1>3, <2>1 DEF RaceInv, TypeOK, InjectorSound, ImageSuppress
    <2>8. QueuedApcPending'
      BY <1>3, <2>1 DEF RaceInv, TypeOK, QueuedApcPending, ImageSuppress
    <2> QED
      BY <2>1, <2>2, <2>3, <2>4, <2>5, <2>6, <2>7, <2>8 DEF RaceInv
  <1>4. CASE ImageQueue(t)
    <2>1. TypeOK'
      BY <1>4 DEF RaceInv, TypeOK, ImageQueue
    <2>2. PastPathCheck'
      BY <1>4, <2>1 DEF RaceInv, TypeOK, PastPathCheck, ImageQueue
    <2>3. SuppressStored'
      BY <1>4, <2>1 DEF RaceInv, TypeOK, SuppressStored, ImageQueue
    <2>4. PathStored'
      BY <1>4, <2>1 DEF RaceInv, TypeOK, PathStored, ImageQueue
    <2>5. PathCopiedWhole'
      BY <1>4, <2>1 DEF RaceInv, TypeOK, PathCopiedWhole, ImageQueue
    <2>6. MarkedByInjector'
      BY <1>4, <2>1 DEF RaceInv, TypeOK, MarkedByInjector, InjectorSound, ImageQueue
    <2>7. InjectorSound'
      BY <1>4, <2>1 DEF RaceInv, TypeOK, InjectorSound, ImageQueue
    <2>8. QueuedApcPending'
      BY <1>4, <2>1 DEF RaceInv, TypeOK, QueuedApcPending, ImageQueue
    <2> QED
      BY <2>1, <2>2, <2>3, <2>4, <2>5, <2>6, <2>7, <2>8 DEF RaceInv
  <1>5. CASE ImageMark(t)
    <2>1. TypeOK'
      BY <1>5 DEF RaceInv, TypeOK, ImageMark
    <2>2. PastPathCheck'
      BY <1>5, <2>1 DEF RaceInv, TypeOK, PastPathCheck, ImageMark
    <2>3. SuppressStored'
      BY <1>5, <2>1 DEF RaceInv, TypeOK, SuppressStored, ImageMark
    <2>4. PathStored'
      BY <1>5, <2>1 DEF RaceInv, TypeOK, PathStored, ImageMark
    <2>5. PathCopiedWhole'
      BY <1>5, <2>1 DEF RaceInv, TypeOK, PathCopiedWhole, ImageMark
    <2>6. MarkedByInjector'
      BY <1>5, <2>1 DEF RaceInv, TypeOK, MarkedByInjector, InjectorSound, ImageMark
    <2>7. InjectorSound'
      BY <1>5, <2>1 DEF RaceInv, TypeOK, InjectorSound, ImageMark
    <2>8. QueuedApcPending'
      BY <1>5, <2>1 DEF RaceInv, TypeOK, QueuedApcPending, ImageMark
    <2> QED
      BY <2>1, <2>2, <2>3, <2>4, <2>5, <2>6, <2>7, <2>8 DEF RaceInv
  <1>6. CASE RegistryPath(t)
    <2>1. TypeOK'
      BY <1>6 DEF RaceInv, TypeOK, RegistryPath
    <2>2. PastPathCheck'
      BY <1>6, <2>1 DEF RaceInv, TypeOK, PastPathCheck, RegistryPath
    <2>3. SuppressStored'
      BY <1>6, <2>1 DEF RaceInv, TypeOK, SuppressStored, RegistryPath
    <2>4. PathStored'
      BY <1>6, <2>1 DEF RaceInv, TypeOK, PathStored, RegistryPath
    <2>5. PathCopiedWhole'
      BY <1>6, <2>1 DEF RaceInv, TypeOK, PathCopiedWhole, RegistryPath
    <2>6. MarkedByInjector'
      BY <1>6, <2>1 DEF RaceInv, TypeOK, MarkedByInjector, InjectorSound, RegistryPath
    <2>7. InjectorSound'
      BY <1>6, <2>1 DEF RaceInv, TypeOK, InjectorSound, RegistryPath
    <2>8. QueuedApcPending'
      BY <1>6, <2>1 DEF RaceInv, TypeOK, QueuedApcPending, RegistryPath
    <2> QED
      BY <2>1, <2>2, <2>3, <2>4, <2>5, <2>6, <2>7, <2>8 DEF RaceInv
  <1>7. CASE RegistryCheck(t)
    <2>1. TypeOK'
      BY <1>7 DEF RaceInv, TypeOK, RegistryCheck
    <2>2. PastPathCheck'
      BY <1>7, <2>1 DEF RaceInv, TypeOK, PastPathCheck, RegistryCheck
    <2>3. SuppressStored'
      BY <1>7, <2>1 DEF RaceInv, TypeOK, SuppressStored, RegistryCheck
    <2>4. PathStored'
      BY <1>7, <2>1 DEF RaceInv, TypeOK, PathStored, RegistryCheck
    <2>5. PathCopiedWhole'
      BY <1>7, <2>1 DEF RaceInv, TypeOK, PathCopiedWhole, RegistryCheck
    <2>6. MarkedByInjector'
      BY <1>7, <2>1 DEF RaceInv, TypeOK, MarkedByInjector, InjectorSound, RegistryCheck
    <2>7. InjectorSound'
      BY <1>7, <2>1 DEF RaceInv, TypeOK, InjectorSound, RegistryCheck
    <2>8. QueuedApcPending'
      BY <1>7, <2>1 DEF RaceInv, TypeOK, QueuedApcPending, RegistryCheck
    <2> QED
      BY <2>1, <2>2, <2>3, <2>4, <2>5, <2>6, <2>7, <2>8 DEF RaceInv
  <1>8. CASE RegistryMark(t)
    <2>1. TypeOK'
      BY <1>8 DEF RaceInv, TypeOK, RegistryMark
    <2>2. PastPathCheck'
      BY <1>8, <2>1 DEF RaceInv, TypeOK, PastPathCheck, RegistryMark
    <2>3. SuppressStored'
      BY <1>8, <2>1 DEF RaceInv, TypeOK, SuppressStored, RegistryMark
    <2>4. PathStored'
      BY <1>8, <2>1 DEF RaceInv, TypeOK, PathStored, RegistryMark
    <2>5. PathCopiedWhole'
      BY <1>8, <2>1 DEF RaceInv, TypeOK, PathCopiedWhole, RegistryMark
    <2>6. MarkedByInjector'
      BY <1>8, <2>1 DEF RaceInv, TypeOK, MarkedByInjector, InjectorSound, RegistryMark
    <2>7. InjectorSound'
      BY <1>8, <2>1 DEF RaceInv, TypeOK, InjectorSound, RegistryMark
    <2>8. QueuedApcPending'
      BY <1>8, <2>1 DEF RaceInv, TypeOK, QueuedApcPending, RegistryMark
    <2> QED
      BY <2>1, <2>2, <2>3, <2>4, <2>5, <2>6, <2>7, <2>8 DEF RaceInv
  <1> QED
    BY <1>1, <1>2, <1>3, <1>4, <1>5, <1>6, <1>7, <1>8

\* A step of InjInject, or the delivery of its APC, keeps the invariant.
LEMMA InjectKeepsRaceInv ==
  ASSUME RaceInv, NEW t \in Threads,
         \/ CreateSection(t) \/ MapView(t) \/ RemapView(t)
         \/ QueueUserApc(t) \/ TestAlert(t) \/ DeliverUserApc(t)
         \/ \E member \in {"Buffer", "Length"} : ReadPath(t, member)
  PROVE  RaceInv'
  <1>1. CASE CreateSection(t)
    <2>1. TypeOK'
      <3>1. pc' \in [Threads -> ThreadPoints] /\ ipc' \in [Threads -> InjectPoints]
        BY <1>1 DEF RaceInv, TypeOK, CreateSection, Return
      <3>2. copy' \in [Threads -> [Buffer : PathMember \cup {Unread},
                                   Length : PathMember \cup {Unread},
                                   Argument : PathMember \cup {Unread}]]
        BY <1>1 DEF RaceInv, TypeOK, CreateSection, Return
      <3> QED
        BY <1>1, <3>1, <3>2 DEF RaceInv, TypeOK, CreateSection
    <2>2. PastPathCheck'
      BY <1>1, <2>1 DEF RaceInv, TypeOK, PastPathCheck, CreateSection, Return
    <2>3. SuppressStored'
      BY <1>1, <2>1 DEF RaceInv, TypeOK, SuppressStored, CreateSection, Return
    <2>4. PathStored'
      BY <1>1, <2>1 DEF RaceInv, TypeOK, PathStored, CreateSection, Return
    <2>5. PathCopiedWhole'
      BY <1>1, <2>1 DEF RaceInv, TypeOK, PathCopiedWhole, CreateSection, Return
    <2>6. MarkedByInjector'
      BY <1>1, <2>1 DEF RaceInv, TypeOK, MarkedByInjector, InjectorSound, CreateSection, Return
    <2>7. InjectorSound'
      BY <1>1, <2>1 DEF RaceInv, TypeOK, InjectorSound, MarkedByInjector, CreateSection, Return
    <2>8. QueuedApcPending'
      BY <1>1, <2>1 DEF RaceInv, TypeOK, QueuedApcPending, InjectorSound, CreateSection, Return
    <2> QED
      BY <2>1, <2>2, <2>3, <2>4, <2>5, <2>6, <2>7, <2>8 DEF RaceInv
  <1>2. CASE MapView(t)
    <2>1. TypeOK'
      BY <1>2 DEF RaceInv, TypeOK, MapView
    <2>2. PastPathCheck'
      BY <1>2, <2>1 DEF RaceInv, TypeOK, PastPathCheck, MapView
    <2>3. SuppressStored'
      BY <1>2, <2>1 DEF RaceInv, TypeOK, SuppressStored, MapView
    <2>4. PathStored'
      BY <1>2, <2>1 DEF RaceInv, TypeOK, PathStored, MapView
    <2>5. PathCopiedWhole'
      BY <1>2, <2>1 DEF RaceInv, TypeOK, PathCopiedWhole, MapView
    <2>6. MarkedByInjector'
      BY <1>2, <2>1 DEF RaceInv, TypeOK, MarkedByInjector, InjectorSound, MapView
    <2>7. InjectorSound'
      BY <1>2, <2>1 DEF RaceInv, TypeOK, InjectorSound, MarkedByInjector, MapView
    <2>8. QueuedApcPending'
      BY <1>2, <2>1 DEF RaceInv, TypeOK, QueuedApcPending, InjectorSound, MapView
    <2> QED
      BY <2>1, <2>2, <2>3, <2>4, <2>5, <2>6, <2>7, <2>8 DEF RaceInv
  <1>3. CASE RemapView(t)
    <2>1. TypeOK'
      BY <1>3 DEF RaceInv, TypeOK, MarkedByInjector, InjectorSound, RemapView
    <2>2. PastPathCheck'
      BY <1>3, <2>1 DEF RaceInv, TypeOK, PastPathCheck, RemapView
    <2>3. SuppressStored'
      BY <1>3, <2>1 DEF RaceInv, TypeOK, SuppressStored, RemapView
    <2>4. PathStored'
      BY <1>3, <2>1 DEF RaceInv, TypeOK, PathStored, RemapView
    <2>5. PathCopiedWhole'
      BY <1>3, <2>1 DEF RaceInv, TypeOK, PathCopiedWhole, RemapView
    <2>6. MarkedByInjector'
      BY <1>3, <2>1 DEF RaceInv, TypeOK, MarkedByInjector, InjectorSound, RemapView
    <2>7. InjectorSound'
      BY <1>3, <2>1 DEF RaceInv, TypeOK, InjectorSound, MarkedByInjector, RemapView
    <2>8. QueuedApcPending'
      BY <1>3, <2>1 DEF RaceInv, TypeOK, QueuedApcPending, InjectorSound, RemapView
    <2> QED
      BY <2>1, <2>2, <2>3, <2>4, <2>5, <2>6, <2>7, <2>8 DEF RaceInv
  <1>4. CASE QueueUserApc(t)
    <2>1. TypeOK'
      <3>1. copy' \in [Threads -> [Buffer : PathMember \cup {Unread},
                                   Length : PathMember \cup {Unread},
                                   Argument : PathMember \cup {Unread}]]
        BY <1>4, SMTT(30) DEF RaceInv, TypeOK, QueueUserApc
      <3>2. made' \in [Threads -> Nat] /\ uapc' \in [Threads -> Nat]
        BY <1>4 DEF RaceInv, TypeOK, QueueUserApc
      <3>3. Method = "Thunk" => views[t] - 1 \in Nat
        BY <1>4 DEF RaceInv, TypeOK, InjectorSound, QueueUserApc
      <3>4. views' \in [Threads -> Nat]
        BY <1>4, <3>3 DEF RaceInv, TypeOK, QueueUserApc
      <3>5. ipc' \in [Threads -> InjectPoints]
        BY <1>4 DEF RaceInv, TypeOK, QueueUserApc
      <3> QED
        BY <1>4, <3>1, <3>2, <3>4, <3>5 DEF RaceInv, TypeOK, QueueUserApc
    <2>2. PastPathCheck'
      BY <1>4, <2>1 DEF RaceInv, TypeOK, PastPathCheck, QueueUserApc
    <2>3. SuppressStored'
      BY <1>4, <2>1 DEF RaceInv, TypeOK, SuppressStored, QueueUserApc
    <2>4. PathStored'
      BY <1>4, <2>1 DEF RaceInv, TypeOK, PathStored, QueueUserApc
    <2>5. PathCopiedWhole'
      BY <1>4, <2>1 DEF RaceInv, TypeOK, PathCopiedWhole, PastPathCheck, PathStored,
                        InjectorSound, QueueUserApc
    <2>6. MarkedByInjector'
      BY <1>4, <2>1 DEF RaceInv, TypeOK, MarkedByInjector, InjectorSound, QueueUserApc
    <2>7. InjectorSound'
      BY <1>4, <2>1 DEF RaceInv, TypeOK, InjectorSound, MarkedByInjector, QueueUserApc
    <2>8. QueuedApcPending'
      BY <1>4, <2>1 DEF RaceInv, TypeOK, QueuedApcPending, InjectorSound, QueueUserApc
    <2> QED
      BY <2>1, <2>2, <2>3, <2>4, <2>5, <2>6, <2>7, <2>8 DEF RaceInv
  <1>5. CASE TestAlert(t)
    <2>1. TypeOK'
      BY <1>5 DEF RaceInv, TypeOK, TestAlert, Return
    <2>2. PastPathCheck'
      BY <1>5, <2>1 DEF RaceInv, TypeOK, PastPathCheck, InjectorSound, TestAlert, Return
    <2>3. SuppressStored'
      BY <1>5, <2>1 DEF RaceInv, TypeOK, SuppressStored, TestAlert, Return
    <2>4. PathStored'
      BY <1>5, <2>1 DEF RaceInv, TypeOK, PathStored, TestAlert, Return
    <2>5. PathCopiedWhole'
      BY <1>5, <2>1 DEF RaceInv, TypeOK, PathCopiedWhole, TestAlert, Return
    <2>6. MarkedByInjector'
      BY <1>5, <2>1 DEF RaceInv, TypeOK, MarkedByInjector, InjectorSound, TestAlert, Return
    <2>7. InjectorSound'
      BY <1>5, <2>1 DEF RaceInv, TypeOK, InjectorSound, MarkedByInjector, TestAlert, Return
    <2>8. QueuedApcPending'
      <3>1. /\ ipc' = [ipc EXCEPT ![t] = "out"] /\ uapc' = uapc
            /\ pending' = [pending EXCEPT ![t] = pending[t] \/ uapc[t] > 0]
        BY <1>5 DEF TestAlert, Return
      <3>2. /\ ipc \in [Threads -> InjectPoints] /\ pending \in [Threads -> BOOLEAN]
            /\ QueuedApcPending
        BY DEF RaceInv, TypeOK
      <3>3. uapc[t] > 0 => pending'[t]
        BY <3>1, <3>2
      <3>4. ASSUME NEW u \in Threads \ {t}
            PROVE  ipc'[u] = ipc[u] /\ pending'[u] = pending[u]
        BY <3>1, <3>2
      <3> QED
        BY <3>1, <3>2, <3>3, <3>4 DEF QueuedApcPending
    <2> QED
      BY <2>1, <2>2, <2>3, <2>4, <2>5, <2>6, <2>7, <2>8 DEF RaceInv
  <1>6. CASE DeliverUserApc(t)
    <2>1. TypeOK'
      BY <1>6 DEF RaceInv, TypeOK, DeliverUserApc
    <2>2. PastPathCheck'
      BY <1>6, <2>1 DEF RaceInv, TypeOK, PastPathCheck, DeliverUserApc
    <2>3. SuppressStored'
      BY <1>6, <2>1 DEF RaceInv, TypeOK, SuppressStored, DeliverUserApc
    <2>4. PathStored'
      BY <1>6, <2>1 DEF RaceInv, TypeOK, PathStored, DeliverUserApc
    <2>5. PathCopiedWhole'
      BY <1>6, <2>1 DEF RaceInv, TypeOK, PathCopiedWhole, DeliverUserApc
    <2>6. MarkedByInjector'
      BY <1>6, <2>1 DEF RaceInv, TypeOK, MarkedByInjector, InjectorSound, DeliverUserApc
    <2>7. InjectorSound'
      BY <1>6, <2>1 DEF RaceInv, TypeOK, InjectorSound, MarkedByInjector, DeliverUserApc
    <2>8. QueuedApcPending'
      BY <1>6, <2>1 DEF RaceInv, TypeOK, QueuedApcPending, InjectorSound, DeliverUserApc
    <2> QED
      BY <2>1, <2>2, <2>3, <2>4, <2>5, <2>6, <2>7, <2>8 DEF RaceInv
  <1>7. ASSUME NEW member \in {"Buffer", "Length"}, ReadPath(t, member)
        PROVE  RaceInv'
    <2>1. TypeOK'
      BY <1>7 DEF RaceInv, TypeOK, ReadPath
    <2>2. PastPathCheck'
      BY <1>7, <2>1 DEF RaceInv, TypeOK, PastPathCheck, ReadPath
    <2>3. SuppressStored'
      BY <1>7, <2>1 DEF RaceInv, TypeOK, SuppressStored, ReadPath
    <2>4. PathStored'
      BY <1>7, <2>1 DEF RaceInv, TypeOK, PathStored, ReadPath
    <2>5. PathCopiedWhole'
      BY <1>7, <2>1 DEF RaceInv, TypeOK, PathCopiedWhole, PastPathCheck, PathStored,
                        InjectorSound, ReadPath
    <2>6. MarkedByInjector'
      BY <1>7, <2>1 DEF RaceInv, TypeOK, MarkedByInjector, ReadPath
    <2>7. InjectorSound'
      BY <1>7, <2>1 DEF RaceInv, TypeOK, InjectorSound, ReadPath
    <2>8. QueuedApcPending'
      BY <1>7, <2>1 DEF RaceInv, TypeOK, QueuedApcPending, ReadPath
    <2> QED
      BY <2>1, <2>2, <2>3, <2>4, <2>5, <2>6, <2>7, <2>8 DEF RaceInv
  <1> QED
    BY <1>1, <1>2, <1>3, <1>4, <1>5, <1>6, <1>7

\* A step of a request keeps the invariant.
LEMMA ClientKeepsRaceInv ==
  ASSUME RaceInv, NEW c \in Clients, ClientNext(c)
  PROVE  RaceInv'
  <1>1. CASE RequestCheck(c)
    <2>1. TypeOK'
      BY <1>1 DEF RaceInv, TypeOK, RequestCheck
    <2>2. PastPathCheck'
      BY <1>1, <2>1 DEF RaceInv, TypeOK, PastPathCheck, RequestCheck
    <2>3. SuppressStored'
      BY <1>1, <2>1 DEF RaceInv, TypeOK, SuppressStored, RequestCheck
    <2>4. PathStored'
      BY <1>1, <2>1, RaceAssumption DEF RaceInv, TypeOK, PathStored, RequestCheck
    <2>5. PathCopiedWhole'
      BY <1>1, <2>1 DEF RaceInv, TypeOK, PathCopiedWhole, RequestCheck
    <2>6. MarkedByInjector'
      BY <1>1, <2>1 DEF RaceInv, TypeOK, MarkedByInjector, RequestCheck
    <2>7. InjectorSound'
      BY <1>1, <2>1 DEF RaceInv, TypeOK, InjectorSound, RequestCheck
    <2>8. QueuedApcPending'
      BY <1>1, <2>1 DEF RaceInv, TypeOK, QueuedApcPending, RequestCheck
    <2> QED
      BY <2>1, <2>2, <2>3, <2>4, <2>5, <2>6, <2>7, <2>8 DEF RaceInv
  <1>2. CASE RequestLength(c)
    <2>1. TypeOK'
      BY <1>2 DEF RaceInv, TypeOK, RequestLength
    <2>2. PastPathCheck'
      BY <1>2, <2>1 DEF RaceInv, TypeOK, PastPathCheck, RequestLength
    <2>3. SuppressStored'
      BY <1>2, <2>1 DEF RaceInv, TypeOK, SuppressStored, RequestLength
    <2>4. PathStored'
      BY <1>2, <2>1, RaceAssumption DEF RaceInv, TypeOK, PathStored, RequestLength
    <2>5. PathCopiedWhole'
      BY <1>2, <2>1 DEF RaceInv, TypeOK, PathCopiedWhole, RequestLength
    <2>6. MarkedByInjector'
      BY <1>2, <2>1 DEF RaceInv, TypeOK, MarkedByInjector, RequestLength
    <2>7. InjectorSound'
      BY <1>2, <2>1 DEF RaceInv, TypeOK, InjectorSound, RequestLength
    <2>8. QueuedApcPending'
      BY <1>2, <2>1 DEF RaceInv, TypeOK, QueuedApcPending, RequestLength
    <2> QED
      BY <2>1, <2>2, <2>3, <2>4, <2>5, <2>6, <2>7, <2>8 DEF RaceInv
  <1>3. CASE RequestBuffer(c)
    <2>1. TypeOK'
      BY <1>3 DEF RaceInv, TypeOK, RequestBuffer
    <2>2. PastPathCheck'
      BY <1>3, <2>1 DEF RaceInv, TypeOK, PastPathCheck, RequestBuffer
    <2>3. SuppressStored'
      BY <1>3, <2>1 DEF RaceInv, TypeOK, SuppressStored, RequestBuffer
    <2>4. PathStored'
      BY <1>3, <2>1, RaceAssumption DEF RaceInv, TypeOK, PathStored, RequestBuffer
    <2>5. PathCopiedWhole'
      BY <1>3, <2>1 DEF RaceInv, TypeOK, PathCopiedWhole, RequestBuffer
    <2>6. MarkedByInjector'
      BY <1>3, <2>1 DEF RaceInv, TypeOK, MarkedByInjector, RequestBuffer
    <2>7. InjectorSound'
      BY <1>3, <2>1 DEF RaceInv, TypeOK, InjectorSound, RequestBuffer
    <2>8. QueuedApcPending'
      BY <1>3, <2>1 DEF RaceInv, TypeOK, QueuedApcPending, RequestBuffer
    <2> QED
      BY <2>1, <2>2, <2>3, <2>4, <2>5, <2>6, <2>7, <2>8 DEF RaceInv
  <1>4. CASE RequestSuppress(c)
    <2>1. TypeOK'
      BY <1>4 DEF RaceInv, TypeOK, RequestSuppress
    <2>2. PastPathCheck'
      BY <1>4, <2>1 DEF RaceInv, TypeOK, PastPathCheck, RequestSuppress
    <2>3. SuppressStored'
      BY <1>4, <2>1 DEF RaceInv, TypeOK, SuppressStored, RequestSuppress
    <2>4. PathStored'
      BY <1>4, <2>1, RaceAssumption DEF RaceInv, TypeOK, PathStored, RequestSuppress
    <2>5. PathCopiedWhole'
      BY <1>4, <2>1 DEF RaceInv, TypeOK, PathCopiedWhole, RequestSuppress
    <2>6. MarkedByInjector'
      BY <1>4, <2>1 DEF RaceInv, TypeOK, MarkedByInjector, RequestSuppress
    <2>7. InjectorSound'
      BY <1>4, <2>1 DEF RaceInv, TypeOK, InjectorSound, RequestSuppress
    <2>8. QueuedApcPending'
      BY <1>4, <2>1 DEF RaceInv, TypeOK, QueuedApcPending, RequestSuppress
    <2> QED
      BY <2>1, <2>2, <2>3, <2>4, <2>5, <2>6, <2>7, <2>8 DEF RaceInv
  <1>5. CASE RequestAnnounce(c)
    <2>1. TypeOK'
      BY <1>5 DEF RaceInv, TypeOK, RequestAnnounce
    <2>2. PastPathCheck'
      BY <1>5, <2>1 DEF RaceInv, TypeOK, PastPathCheck, RequestAnnounce
    <2>3. SuppressStored'
      BY <1>5, <2>1 DEF RaceInv, TypeOK, SuppressStored, RequestAnnounce
    <2>4. PathStored'
      BY <1>5, <2>1, RaceAssumption DEF RaceInv, TypeOK, PathStored, RequestAnnounce
    <2>5. PathCopiedWhole'
      BY <1>5, <2>1 DEF RaceInv, TypeOK, PathCopiedWhole, RequestAnnounce
    <2>6. MarkedByInjector'
      BY <1>5, <2>1 DEF RaceInv, TypeOK, MarkedByInjector, RequestAnnounce
    <2>7. InjectorSound'
      BY <1>5, <2>1 DEF RaceInv, TypeOK, InjectorSound, RequestAnnounce
    <2>8. QueuedApcPending'
      BY <1>5, <2>1 DEF RaceInv, TypeOK, QueuedApcPending, RequestAnnounce
    <2> QED
      BY <2>1, <2>2, <2>3, <2>4, <2>5, <2>6, <2>7, <2>8 DEF RaceInv
  <1> QED
    BY <1>1, <1>2, <1>3, <1>4, <1>5 DEF ClientNext, Store

\* RaceInv is inductive.
THEOREM RaceInvariance == Spec => []RaceInv
  <1>1. ASSUME RaceInv, [Next]_vars PROVE RaceInv'
    <2>1. CASE UNCHANGED vars
      BY <1>1, <2>1 DEF vars, RaceInv, TypeOK, PastPathCheck, SuppressStored, PathStored,
         PathCopiedWhole, MarkedByInjector, InjectorSound, QueuedApcPending
    <2>2. ASSUME NEW t \in Threads, ThreadNext(t) PROVE RaceInv'
      BY <1>1, <2>2, CallbackKeepsRaceInv, InjectKeepsRaceInv DEF ThreadNext
    <2> QED
      BY <1>1, <2>1, <2>2, ClientKeepsRaceInv DEF Next
  <1> QED
    BY <1>1, InitEstablishesRaceInv, PTL DEF Spec

\* Every field of the info and every program counter has its type; in
\* particular Suppress is a flag whenever a callback may look at it.
THEOREM RaceTypeCorrect == Spec => []TypeOK
  <1>1. RaceInv => TypeOK
    BY DEF RaceInv
  <1> QED
    BY <1>1, RaceInvariance, PTL

\* The load-image callback makes no injection when every request so far asked
\* it not to: Suppress is stored before PathAllocated and read after it.
THEOREM SuppressionRespected == Spec => []SuppressionHolds
  <1>1. RaceInv => SuppressionHolds
    BY DEF RaceInv, SuppressStored, SuppressionHolds
  <1> QED
    BY <1>1, RaceInvariance, PTL

\* Every buffer and length that InjInject reads was stored by a request, with
\* any number of requests under way: the path is never the zeroed one.  The
\* members may be those of different requests.
THEOREM CopiesStoredPath == Spec => []PathCopiedWhole
  <1>1. RaceInv => PathCopiedWhole
    BY DEF RaceInv
  <1> QED
    BY <1>1, RaceInvariance, PTL

\* A thread makes at most one injection, however the callbacks overlap.
THEOREM InjectsOncePerThread == Spec => []OncePerThread
  <1>1. RaceInv => OncePerThread
    <2>1. 0 <= 1 /\ 1 <= 1
      OBVIOUS
    <2> QED
      BY <2>1, Zenon DEF RaceInv, MarkedByInjector, OncePerThread
  <1> QED
    BY <1>1, RaceInvariance, PTL

\* With the thunk method every failure of an injection, up to that of queueing
\* its APC, unmaps what was mapped.
THEOREM ThunkUndoesFailures == Spec => []ThunkViewsMatchApcs
  <1>1. RaceInv => ThunkViewsMatchApcs
    BY DEF RaceInv, InjectorSound, ThunkViewsMatchApcs
  <1> QED
    BY <1>1, RaceInvariance, PTL

\* An APC that was queued is deliverable from the return of InjInject on.
THEOREM QueuedApcsDeliverable == Spec => []QueuedApcPending
  <1>1. RaceInv => QueuedApcPending
    BY DEF RaceInv
  <1> QED
    BY <1>1, RaceInvariance, PTL
=============================================================================
