-------------------------- MODULE InjDriverProofs ---------------------------
(***************************************************************************)
(* Proofs about the injection driver of module InjDriver.                  *)
(***************************************************************************)
EXTENDS InjDriver, SequenceTheorems, TLAPS

USE DriverAssumption

-----------------------------------------------------------------------------
(***************************************************************************)
(* Facts about sequences and about the search of the list.                 *)
(***************************************************************************)

\* Removing position k of a sequence shifts what comes after it by one.
LEMMA RemoveAtProperties ==
  ASSUME NEW S, NEW s \in Seq(S), NEW k \in DOMAIN s
  PROVE  /\ RemoveAt(s, k) \in Seq(S)
         /\ Len(RemoveAt(s, k)) = Len(s) - 1
         /\ \A j \in 1 .. Len(s) - 1 :
              RemoveAt(s, k)[j] = IF j < k THEN s[j] ELSE s[j + 1]
<1> DEFINE front == SubSeq(s, 1, k - 1)
           back == SubSeq(s, k + 1, Len(s))
<1>1. Len(s) \in Nat /\ k \in 1 .. Len(s)
  OBVIOUS
<1>2. /\ front \in Seq(S) /\ Len(front) = k - 1
      /\ \A j \in 1 .. k - 1 : front[j] = s[j]
  BY <1>1
<1>3. /\ back \in Seq(S) /\ Len(back) = Len(s) - k
      /\ \A j \in 1 .. Len(s) - k : back[j] = s[k + j]
  BY <1>1
<1>4. RemoveAt(s, k) = front \o back
  BY DEF RemoveAt
<1> HIDE DEF front, back
<1>5. /\ front \o back \in Seq(S)
      /\ Len(front \o back) = Len(front) + Len(back)
      /\ \A j \in 1 .. Len(front) + Len(back) :
           (front \o back)[j] = IF j <= Len(front) THEN front[j]
                                ELSE back[j - Len(front)]
  BY <1>2, <1>3, ConcatProperties, ZenonT(40)
<1>6. ASSUME NEW j \in 1 .. Len(s) - 1
      PROVE  (front \o back)[j] = IF j < k THEN s[j] ELSE s[j + 1]
  <2>1. CASE j < k
    <3>1. j \in 1 .. k - 1 /\ j \in 1 .. Len(front) + Len(back)
      BY <1>1, <1>2, <1>3, <2>1
    <3> QED BY <1>2, <1>5, <2>1, <3>1
  <2>2. CASE ~(j < k)
    <3>1. /\ j - (k - 1) \in 1 .. Len(s) - k /\ k + (j - (k - 1)) = j + 1
          /\ j \in 1 .. Len(front) + Len(back) /\ ~(j <= Len(front))
      <4>1. PICK n, a, b : n = Len(s) /\ a = Len(front) /\ b = Len(back)
        OBVIOUS
      <4>2. n \in Nat /\ k \in 1 .. n /\ a = k - 1 /\ b = n - k
        BY <1>1, <1>2, <1>3, <4>1
      <4>3. j \in 1 .. n - 1 /\ ~(j < k)
        BY <2>2, <4>1
      <4>4. j - (k - 1) \in 1 .. n - k /\ k + (j - (k - 1)) = j + 1
        BY <4>2, <4>3, SMTT(30)
      <4>5. j \in 1 .. a + b /\ ~(j <= a)
        BY <4>2, <4>3
      <4> QED BY <4>1, <4>4, <4>5
    <3>2. (front \o back)[j] = back[j - (k - 1)]
      BY <1>2, <1>5, <3>1
    <3> QED BY <1>3, <2>2, <3>1, <3>2
  <2> QED BY <2>1, <2>2
<1>7. Len(front) + Len(back) = Len(s) - 1
  BY <1>1, <1>2, <1>3
<1> QED
  BY <1>4, <1>5, <1>6, <1>7

\* What is left of a sequence without its head was in it before.
LEMMA TailElements ==
  ASSUME NEW S, NEW s \in Seq(S), s # <<>>
  PROVE  /\ Tail(s) \in Seq(S) /\ Head(s) \in S /\ 1 \in DOMAIN s /\ Head(s) = s[1]
         /\ \A k \in DOMAIN Tail(s) : \E j \in DOMAIN s : Tail(s)[k] = s[j]
<1>1. Len(s) \in Nat /\ Len(s) # 0
  BY EmptySeq
<1>2. /\ Tail(s) \in Seq(S) /\ Head(s) \in S /\ Len(Tail(s)) = Len(s) - 1
      /\ \A k \in 1 .. Len(Tail(s)) : Tail(s)[k] = s[k + 1]
  BY HeadTailProperties
<1>3. DOMAIN Tail(s) = 1 .. Len(s) - 1 /\ DOMAIN s = 1 .. Len(s)
  BY <1>2
<1>4. \A k \in 1 .. Len(s) - 1 : k + 1 \in 1 .. Len(s)
  BY <1>1
<1>5. Head(s) = s[1] /\ 1 \in DOMAIN s
  BY <1>1
<1> QED BY <1>2, <1>3, <1>4, <1>5

\* A process that has an entry has one only, and InjFindInjectionInfo finds it.
LEMMA FindFindsTheEntry ==
  ASSUME list \in Seq(Infos), OneInfoPerProcess, LibInUse, NEW p \in Pids,
         InjFindInjectionInfo(p) # NULL
  PROVE  /\ FirstMatch(p) \in DOMAIN list
         /\ InjFindInjectionInfo(p) = list[FirstMatch(p)]
         /\ InjFindInjectionInfo(p) \in Infos
         /\ rec[InjFindInjectionInfo(p)].ProcessId = p
<1>1. Matches(p) # {} /\ Matches(p) \subseteq DOMAIN list
  BY DEF InjFindInjectionInfo, Matches
<1>2. \A j, k \in Matches(p) : j = k
  BY DEF Matches, OneInfoPerProcess
<1>3. \A j \in Matches(p) : j \in Int
  BY <1>1
<1>4. FirstMatch(p) \in Matches(p)
  BY <1>1, <1>2, <1>3 DEF FirstMatch
<1> QED
  BY <1>1, <1>4 DEF InjFindInjectionInfo, Matches

\* What InjFindInjectionInfo does not find is not in the list.
LEMMA FindMissesNothing ==
  ASSUME list \in Seq(Infos), OneInfoPerProcess, LibInUse, NEW p \in Pids,
         InjFindInjectionInfo(p) = NULL
  PROVE  \A k \in DOMAIN list : rec[list[k]].ProcessId # p
<1>1. SUFFICES ASSUME Matches(p) # {} PROVE FALSE
  BY DEF Matches
<1>2. \A j, k \in Matches(p) : j = k
  BY DEF Matches, OneInfoPerProcess
<1>3. Matches(p) \subseteq DOMAIN list /\ \A j \in Matches(p) : j \in Int
  BY DEF Matches
<1>4. FirstMatch(p) \in Matches(p)
  BY <1>1, <1>2, <1>3 DEF FirstMatch
<1> QED
  BY <1>1, <1>3, <1>4 DEF InjFindInjectionInfo

-----------------------------------------------------------------------------
(***************************************************************************)
(* The operations on the list.  Each lemma says what the operation leaves  *)
(* of the conjuncts of IInv that speak of the list.                        *)
(***************************************************************************)

\* The part of IInv that the operations on the list have to keep.
ListInv ==
  /\ list \in Seq(Infos) /\ infoPool \subseteq Infos /\ pathPool \subseteq Paths
  /\ rec \in [Infos -> InfoRec]
  /\ InfosLinkedOnce
  /\ OneInfoPerProcess
  /\ BlocksInUse
  /\ PathsOwnedOnce

\* InjCreateInjectionInfo links the entry it allocates, once, for a process
\* that has none.
LEMMA CreateKeepsList ==
  ASSUME ListInv, LibInUse, LibInUse', NEW p \in Pids,
         \A k \in DOMAIN list : rec[list[k]].ProcessId # p,
         InjCreateInjectionInfo(p)
  PROVE  ListInv'
<1>1. CASE UNCHANGED listVars
  BY <1>1 DEF ListInv, listVars, InfosLinkedOnce, OneInfoPerProcess,
              BlocksInUse, PathsOwnedOnce
<1>2. CASE ~UNCHANGED listVars
  <2>1. PICK i \in Infos \ (infoPool \cup HeldInfos) :
          /\ infoPool' = infoPool \cup {i}
          /\ rec' = [rec EXCEPT ![i] = [ZeroInfo EXCEPT !.ProcessId = p]]
          /\ list' = Append(list, i)
          /\ pathPool' = pathPool
    BY <1>2 DEF InjCreateInjectionInfo
  <2>2. /\ list' \in Seq(Infos)
        /\ Len(list') = Len(list) + 1
        /\ \A k \in 1 .. Len(list) : list'[k] = list[k]
        /\ list'[Len(list) + 1] = i
        /\ DOMAIN list' = 1 .. Len(list) + 1
        /\ DOMAIN list = 1 .. Len(list)
        /\ Len(list) \in Nat
    BY <2>1 DEF ListInv
  <2>3. /\ rec' \in [Infos -> InfoRec]
        /\ rec'[i].ProcessId = p /\ ~rec'[i].PathAllocated
        /\ ~rec'[i].IsInjected /\ ~rec'[i].Indirect
        /\ \A j \in Infos \ {i} : rec'[j] = rec[j]
    BY <2>1 DEF ListInv, InfoRec, ZeroInfo
  <2>4. \A k \in DOMAIN list : list[k] \in infoPool /\ list[k] # i
    BY DEF ListInv, InfosLinkedOnce
  <2>5. InfosLinkedOnce'
    <3>1. \A j, k \in DOMAIN list' : list'[j] = list'[k] => j = k
      BY <2>2, <2>4 DEF ListInv, InfosLinkedOnce
    <3>2. infoPool' = {list'[k] : k \in DOMAIN list'}
      <4>1. infoPool = {list[k] : k \in 1 .. Len(list)}
        BY <2>2 DEF ListInv, InfosLinkedOnce
      <4> QED BY <2>1, <2>2, <4>1
    <3> QED BY <3>1, <3>2 DEF InfosLinkedOnce
  <2>6. OneInfoPerProcess'
    BY <2>2, <2>3, <2>4 DEF ListInv, OneInfoPerProcess
  <2>7. BlocksInUse'
    BY <2>1, <2>3 DEF ListInv, BlocksInUse
  <2>8. PathsOwnedOnce'
    BY <2>1, <2>3 DEF ListInv, PathsOwnedOnce
  <2> QED BY <2>1, <2>2, <2>3, <2>5, <2>6, <2>7, <2>8 DEF ListInv
<1> QED BY <1>1, <1>2

\* Taking the entry of a process off the list frees that entry, its path, and
\* nothing else.
LEMMA RemoveKeepsList ==
  ASSUME ListInv, LibInUse, LibInUse', NEW p \in Pids,
         InjRemoveInjectionInfoByProcessId(p)
  PROVE  /\ ListInv'
         /\ \A k \in DOMAIN list' : /\ list'[k] \in infoPool
                                    /\ rec'[list'[k]].ProcessId # p
         /\ \A i \in infoPool' : rec'[i] = rec[i] /\ i \in infoPool
         /\ \A i \in infoPool : rec[i].ProcessId # p => i \in infoPool'
<1>1. CASE InjFindInjectionInfo(p) = NULL
  <2>1. UNCHANGED listVars
    BY <1>1 DEF InjRemoveInjectionInfoByProcessId
  <2>2. \A k \in DOMAIN list : rec[list[k]].ProcessId # p
    BY <1>1, FindMissesNothing DEF ListInv
  <2>3. ListInv'
    BY <2>1 DEF ListInv, listVars, InfosLinkedOnce, OneInfoPerProcess,
                BlocksInUse, PathsOwnedOnce
  <2> QED BY <2>1, <2>2, <2>3 DEF ListInv, listVars, InfosLinkedOnce
<1>2. CASE InjFindInjectionInfo(p) # NULL
  <2> DEFINE i == InjFindInjectionInfo(p)
             f == FirstMatch(p)
  <2>1. f \in DOMAIN list /\ i = list[f] /\ i \in Infos /\ rec[i].ProcessId = p
    BY <1>2, FindFindsTheEntry DEF ListInv
  <2>2. /\ list' = RemoveAt(list, f)
        /\ infoPool' = infoPool \ {i}
        /\ pathPool' = IF rec[i].PathAllocated
                       THEN pathPool \ {rec[i].Path} ELSE pathPool
        /\ rec' = [rec EXCEPT ![i] = ZeroInfo]
    BY <1>2 DEF InjRemoveInjectionInfoByProcessId
  <2> HIDE DEF i, f
  <2>3. /\ list' \in Seq(Infos) /\ Len(list') = Len(list) - 1
        /\ \A j \in 1 .. Len(list) - 1 :
             list'[j] = IF j < f THEN list[j] ELSE list[j + 1]
    BY <2>1, <2>2, RemoveAtProperties DEF ListInv
  <2>4. /\ DOMAIN list = 1 .. Len(list) /\ Len(list) \in Nat /\ f \in Nat
        /\ DOMAIN list' = 1 .. Len(list) - 1
    BY <2>1, <2>3 DEF ListInv
  <2>5. /\ rec' \in [Infos -> InfoRec] /\ rec'[i] = ZeroInfo
        /\ \A j \in Infos \ {i} : rec'[j] = rec[j]
    BY <2>1, <2>2 DEF ListInv, InfoRec, ZeroInfo
  <2>6. ASSUME NEW j \in DOMAIN list'
        PROVE  \E k \in DOMAIN list \ {f} :
                 list'[j] = list[k] /\ k = (IF j < f THEN j ELSE j + 1)
    BY <2>3, <2>4
  <2>7. ASSUME NEW k \in DOMAIN list \ {f}
        PROVE  \E j \in DOMAIN list' : list'[j] = list[k]
    <3>1. CASE k < f
      BY <2>1, <2>3, <2>4, <3>1
    <3>2. CASE k > f
      <4>1. /\ k - 1 \in 1 .. Len(list) - 1 /\ ~(k - 1 < f)
            /\ (k - 1) + 1 = k
        BY <2>1, <2>4, <3>2
      <4> QED BY <2>3, <2>4, <4>1
    <3> QED BY <2>4, <3>1, <3>2
  <2>8. infoPool = {list[k] : k \in DOMAIN list} /\ infoPool \subseteq Infos
    BY DEF ListInv, InfosLinkedOnce
  <2>9. \A j, k \in DOMAIN list : list[j] = list[k] => j = k
    BY DEF ListInv, InfosLinkedOnce
  <2>10. \A j \in DOMAIN list' : list'[j] \in infoPool \ {i}
    BY <2>1, <2>6, <2>8, <2>9
  <2>11. \A j, k \in DOMAIN list :
           rec[list[j]].ProcessId = rec[list[k]].ProcessId => j = k
    BY DEF ListInv, OneInfoPerProcess
  <2>12. InfosLinkedOnce'
    <3>1. ASSUME NEW j \in DOMAIN list', NEW k \in DOMAIN list',
                 list'[j] = list'[k]
          PROVE  j = k
      <4>1. PICK a \in DOMAIN list \ {f} :
              list'[j] = list[a] /\ a = (IF j < f THEN j ELSE j + 1)
        BY <2>6
      <4>2. PICK b \in DOMAIN list \ {f} :
              list'[k] = list[b] /\ b = (IF k < f THEN k ELSE k + 1)
        BY <2>6
      <4>3. a = b
        BY <2>9, <3>1, <4>1, <4>2
      <4> QED BY <2>4, <4>1, <4>2, <4>3
    <3>2. infoPool' = {list'[k] : k \in DOMAIN list'}
      <4>1. \A x \in infoPool \ {i} : \E j \in DOMAIN list' : list'[j] = x
        BY <2>1, <2>7, <2>8
      <4> QED BY <2>2, <2>10, <4>1
    <3> QED BY <3>1, <3>2 DEF InfosLinkedOnce
  <2>13. OneInfoPerProcess'
    <3>1. ASSUME NEW j \in DOMAIN list', NEW k \in DOMAIN list',
                 rec'[list'[j]].ProcessId = rec'[list'[k]].ProcessId
          PROVE  j = k
      <4>1. PICK a \in DOMAIN list \ {f} :
              list'[j] = list[a] /\ a = (IF j < f THEN j ELSE j + 1)
        BY <2>6
      <4>2. PICK b \in DOMAIN list \ {f} :
              list'[k] = list[b] /\ b = (IF k < f THEN k ELSE k + 1)
        BY <2>6
      <4>3. rec'[list'[j]] = rec[list[a]] /\ rec'[list'[k]] = rec[list[b]]
        BY <2>5, <2>8, <2>10, <4>1, <4>2
      <4>4. a = b
        BY <2>11, <3>1, <4>1, <4>2, <4>3
      <4> QED BY <2>4, <4>1, <4>2, <4>4
    <3> QED BY <3>1 DEF OneInfoPerProcess
  <2>14. BlocksInUse'
    BY <2>1, <2>2, <2>5, <2>8 DEF ListInv, BlocksInUse
  <2>15. PathsOwnedOnce'
    <3>1. \A j \in infoPool' : rec'[j] = rec[j] /\ j \in infoPool /\ j # i
      BY <2>2, <2>5, <2>8
    <3>2. i \in infoPool
      BY <2>1, <2>8
    <3>3. ASSUME NEW j \in infoPool', rec[j].PathAllocated
          PROVE  rec[j].Path \in pathPool'
      <4>1. rec[j].Path \in pathPool
        BY <3>1, <3>3 DEF ListInv, PathsOwnedOnce
      <4>2. rec[i].PathAllocated => rec[j].Path # rec[i].Path
        BY <3>1, <3>2, <3>3 DEF ListInv, PathsOwnedOnce
      <4> QED BY <2>2, <4>1, <4>2
    <3> QED BY <3>1, <3>3 DEF ListInv, PathsOwnedOnce
  <2>16. \A k \in DOMAIN list' : rec'[list'[k]].ProcessId # p
    <3>1. SUFFICES ASSUME NEW k \in DOMAIN list' PROVE rec'[list'[k]].ProcessId # p
      OBVIOUS
    <3>2. PICK a \in DOMAIN list \ {f} : list'[k] = list[a]
      BY <2>6
    <3>3. rec'[list'[k]] = rec[list[a]]
      BY <2>5, <2>8, <2>10, <3>2
    <3> QED BY <2>1, <2>11, <3>2, <3>3
  <2>17. pathPool' \subseteq Paths /\ infoPool' \subseteq Infos
    BY <2>2 DEF ListInv
  <2>18. ListInv'
    BY <2>3, <2>5, <2>12, <2>13, <2>14, <2>15, <2>17 DEF ListInv
  <2> QED BY <2>1, <2>2, <2>5, <2>8, <2>10, <2>16, <2>18
<1> QED BY <1>1, <1>2

\* InjDestroy leaves no block behind.
LEMMA DestroyEmptiesPool ==
  ASSUME ListInv, LibInUse, ~LibInUse', InjDestroy
  PROVE  ListInv' /\ infoPool' = {}
<1>1. infoPool = {list[k] : k \in DOMAIN list}
  BY DEF ListInv, InfosLinkedOnce
<1>2. /\ infoPool' = {}
      /\ pathPool' \subseteq pathPool
      /\ rec' = [i \in Infos |-> IF i \in infoPool THEN ZeroInfo ELSE rec[i]]
      /\ list' = list
  BY <1>1 DEF InjDestroy
<1>3. rec' \in [Infos -> InfoRec]
  BY <1>2 DEF ListInv, InfoRec, ZeroInfo
<1>4. BlocksInUse'
  BY <1>2 DEF ListInv, BlocksInUse
<1> QED
  BY <1>2, <1>3, <1>4 DEF ListInv, InfosLinkedOnce, OneInfoPerProcess,
                          PathsOwnedOnce

\* A step that changes one linked info, but not whose it is, keeps the list.
LEMMA UpdateKeepsList ==
  ASSUME ListInv, LibInUse' = LibInUse, UNCHANGED <<list, infoPool>>,
         NEW i \in infoPool,
         rec' \in [Infos -> InfoRec],
         \A j \in Infos \ {i} : rec'[j] = rec[j],
         rec'[i].ProcessId = rec[i].ProcessId, ~rec'[i].Indirect,
         rec'[i].IsInjected => rec'[i].PathAllocated,
         pathPool' \subseteq Paths,
         PathsOwnedOnce'
  PROVE  ListInv'
<1>1. \A j \in Infos : rec'[j].ProcessId = rec[j].ProcessId
  BY DEF ListInv
<1>2. InfosLinkedOnce'
  BY DEF ListInv, InfosLinkedOnce
<1>3. OneInfoPerProcess'
  <2>1. \A k \in DOMAIN list : list[k] \in Infos
    BY DEF ListInv
  <2> QED BY <1>1, <2>1 DEF ListInv, OneInfoPerProcess
<1>4. BlocksInUse'
  BY <1>1 DEF ListInv, BlocksInUse
<1> QED BY <1>2, <1>3, <1>4 DEF ListInv

\* InjFindInjectionInfo returns an allocated info, the only one of its process.
LEMMA FoundInfo ==
  ASSUME ListInv, LibInUse, NEW p \in Pids, InjFindInjectionInfo(p) # NULL
  PROVE  /\ InjFindInjectionInfo(p) \in infoPool
         /\ InjFindInjectionInfo(p) \in Infos
         /\ rec[InjFindInjectionInfo(p)].ProcessId = p
<1>1. /\ FirstMatch(p) \in DOMAIN list
      /\ InjFindInjectionInfo(p) = list[FirstMatch(p)]
      /\ InjFindInjectionInfo(p) \in Infos
      /\ rec[InjFindInjectionInfo(p)].ProcessId = p
  BY FindFindsTheEntry DEF ListInv
<1> QED BY <1>1 DEF ListInv, InfosLinkedOnce

\* Setting IsInjected changes neither the list nor who owns what.
LEMMA MarkKeepsList ==
  ASSUME ListInv, LibInUse, LibInUse', NEW i \in infoPool,
         rec[i].PathAllocated, MarkInjected(i)
  PROVE  /\ ListInv'
         /\ rec'[i] = [rec[i] EXCEPT !.IsInjected = TRUE]
         /\ \A j \in Infos \ {i} : rec'[j] = rec[j]
<1>1. i \in Infos /\ rec[i] \in InfoRec
  BY DEF ListInv
<1>2. /\ rec'[i] = [rec[i] EXCEPT !.IsInjected = TRUE]
      /\ \A j \in Infos \ {i} : rec'[j] = rec[j]
      /\ rec' \in [Infos -> InfoRec]
      /\ UNCHANGED <<list, infoPool, pathPool>>
  BY <1>1 DEF ListInv, MarkInjected, InfoRec
<1>3. /\ rec'[i].ProcessId = rec[i].ProcessId /\ rec'[i].Path = rec[i].Path
      /\ rec'[i].PathAllocated = rec[i].PathAllocated
      /\ rec'[i].Indirect = rec[i].Indirect
  BY <1>1, <1>2, ZenonT(40) DEF InfoRec
<1>4. PathsOwnedOnce'
  <2>1. \A j \in infoPool : /\ rec'[j].Path = rec[j].Path
                            /\ rec'[j].PathAllocated = rec[j].PathAllocated
    BY <1>2, <1>3 DEF ListInv
  <2> QED BY <1>2, <2>1 DEF ListInv, PathsOwnedOnce
<1>5. ~rec[i].Indirect
  BY DEF ListInv, BlocksInUse
<1> QED BY <1>2, <1>3, <1>4, <1>5, UpdateKeepsList DEF ListInv

\* Noting a system DLL and its LdrLoadDll changes neither the list nor who
\* owns what.
LEMMA RecordKeepsList ==
  ASSUME ListInv, LibInUse, LibInUse', NEW i \in infoPool, NEW img \in Images,
         ~rec[i].IsInjected, RecordSystemDll(i, img)
  PROVE  /\ ListInv'
         /\ \A j \in Infos : /\ rec'[j].ProcessId = rec[j].ProcessId
                             /\ rec'[j].IsInjected = rec[j].IsInjected
                             /\ rec'[j].PathAllocated = rec[j].PathAllocated
         /\ infoPool' = infoPool /\ list' = list
<1>1. i \in Infos /\ rec[i] \in InfoRec /\ ~rec[i].Indirect
  BY DEF ListInv, BlocksInUse
<1>2. PICK D \in SUBSET SystemDlls, a \in NtdllFlags \cup {NULL} :
        rec' = [rec EXCEPT ![i].LoadedDlls = D, ![i].LdrLoadDll = a]
  <2>1. rec[i].LoadedDlls \in SUBSET SystemDlls
    BY <1>1 DEF InfoRec
  <2>2. rec[i].LdrLoadDll \in NtdllFlags \cup {NULL}
    BY <1>1 DEF InfoRec
  <2> DEFINE D == rec[i].LoadedDlls \cup ({img} \cap SystemDlls)
             a == IF \/ img = "system32_ntdll"
                     \/ img = "syswow64_ntdll" /\ Method # "Thunkless"
                  THEN img ELSE rec[i].LdrLoadDll
  <2>3. D \in SUBSET SystemDlls /\ a \in NtdllFlags \cup {NULL}
    BY <2>1, <2>2 DEF NtdllFlags
  <2>4. rec' = [rec EXCEPT ![i].LoadedDlls = D, ![i].LdrLoadDll = a]
    BY <1>1 DEF RecordSystemDll, ListInv, InfoRec
  <2> QED BY <2>3, <2>4
<1>3. /\ rec' \in [Infos -> InfoRec]
      /\ \A j \in Infos \ {i} : rec'[j] = rec[j]
      /\ rec'[i].ProcessId = rec[i].ProcessId /\ rec'[i].Path = rec[i].Path
      /\ rec'[i].PathAllocated = rec[i].PathAllocated
      /\ rec'[i].IsInjected = rec[i].IsInjected
      /\ rec'[i].Indirect = rec[i].Indirect
  BY <1>1, <1>2 DEF ListInv, InfoRec
<1>4. UNCHANGED <<list, infoPool, pathPool>>
  BY DEF RecordSystemDll
<1>5. PathsOwnedOnce'
  <2>1. \A j \in infoPool : /\ rec'[j].Path = rec[j].Path
                            /\ rec'[j].PathAllocated = rec[j].PathAllocated
    BY <1>3 DEF ListInv
  <2> QED BY <1>4, <2>1 DEF ListInv, PathsOwnedOnce
<1> QED BY <1>1, <1>3, <1>4, <1>5, UpdateKeepsList DEF ListInv

\* An INJECT request gives its info a buffer that no other info owns.
LEMMA IoctlKeepsList ==
  ASSUME ListInv, LibInUse, LibInUse', NEW data \in InjectData,
         NEW path \in Paths, SioctlDeviceControl(data, path)
  PROVE  /\ ListInv'
         /\ \A j \in Infos : /\ rec'[j].ProcessId = rec[j].ProcessId
                             /\ rec'[j].IsInjected = rec[j].IsInjected
                             /\ rec[j].PathAllocated => rec'[j].PathAllocated
         /\ infoPool' = infoPool /\ list' = list
<1> DEFINE i == InjFindInjectionInfo(data.ProcessId)
<1>1. i \in infoPool /\ i \in Infos /\ rec[i] \in InfoRec /\ ~rec[i].Indirect
  BY FoundInfo DEF SioctlDeviceControl, InjectData, ListInv, BlocksInUse
<1>2. /\ ~rec[i].IsInjected /\ path \notin pathPool
      /\ pathPool' = pathPool \cup {path}
      /\ rec' = [rec EXCEPT ![i].Path = path, ![i].Suppress = data.Suppress,
                            ![i].PathAllocated = TRUE]
      /\ UNCHANGED <<list, infoPool>>
      /\ data.Suppress \in BOOLEAN
  BY DEF SioctlDeviceControl, InjectData
<1> HIDE DEF i
<1>3. /\ rec' \in [Infos -> InfoRec]
      /\ \A j \in Infos \ {i} : rec'[j] = rec[j]
      /\ rec'[i].ProcessId = rec[i].ProcessId /\ rec'[i].Path = path
      /\ rec'[i].PathAllocated = TRUE
      /\ rec'[i].IsInjected = rec[i].IsInjected
      /\ rec'[i].Indirect = rec[i].Indirect
  BY <1>1, <1>2 DEF ListInv, InfoRec
<1>4. PathsOwnedOnce'
  <2>1. \A j \in infoPool \ {i} : rec[j].PathAllocated => rec[j].Path # path
    BY <1>2 DEF ListInv, PathsOwnedOnce
  <2> QED BY <1>1, <1>2, <1>3, <2>1 DEF ListInv, PathsOwnedOnce
<1> QED BY <1>1, <1>2, <1>3, <1>4, UpdateKeepsList DEF ListInv

-----------------------------------------------------------------------------
(***************************************************************************)
(* The inductive invariant.                                                *)
(***************************************************************************)
\* The part of IInv about the driver object and the processes.
FrameInv ==
  /\ stage \in EntryStages \cup DestroyStages
  /\ flags \subseteq {"lib"} \cup Callbacks
  /\ registered \subseteq Callbacks
  /\ device \subseteq {"device", "link"}
  /\ proc \in [Pids -> ProcessRec]
  /\ RegistrationInv
  /\ InfosOfLivingProcesses

\* What the threads hold: their types, and what IInv says of one of them.
ThreadTypes ==
  /\ at \in [Threads -> ThreadPoints]
  /\ held \in [Threads -> Infos \cup {NULL}]
  /\ kapc \in [Threads -> Seq(Infos)] /\ uapc \in [Threads -> Seq(UserApc)]
  /\ injected \subseteq Pids
  /\ stale \subseteq Threads
  /\ bugcheck \in BOOLEAN

ContextOK(t, i) ==
  /\ i \in infoPool
  /\ rec[i].ProcessId = ProcessOf[t]
  /\ rec[i].IsInjected \/ (at[t] = "i_mark" /\ held[t] = i)

ThreadOK(t) ==
  /\ stage # "d_device" /\ t \notin stale =>
       \A k \in DOMAIN kapc[t] : ContextOK(t, kapc[t][k])
  /\ held[t] = NULL <=> at[t] = "user"
  /\ \A c \in Callbacks : at[t] \in InCallback(c) => c \in registered
  /\ held[t] \in infoPool => /\ rec[held[t]].ProcessId = ProcessOf[t]
                             /\ rec[held[t]].PathAllocated
  /\ held[t] \notin infoPool \cup {NULL} =>
       proc[ProcessOf[t]].prot /\ at[t] # "i_mark"
  /\ ~proc[ProcessOf[t]].alive =>
       at[t] = "user" /\ kapc[t] = <<>> /\ uapc[t] = <<>>
  /\ proc[ProcessOf[t]].prot => kapc[t] = <<>> /\ at[t] # "i_mark"

\* The inductive invariant is its three parts: stages and processes, list,
\* threads.
LEMMA IInvParts ==
  /\ IInv <=> FrameInv /\ ListInv /\ ThreadTypes /\ \A t \in Threads : ThreadOK(t)
  /\ IInv' <=> FrameInv' /\ ListInv' /\ ThreadTypes'
                 /\ \A t \in Threads : ThreadOK(t)'
<1>1. ASSUME ThreadTypes
      PROVE  ApcContextsLinked /\ HeldInfosOwned /\ NothingUnderWay
               <=> \A t \in Threads : ThreadOK(t)
  BY <1>1 DEF ApcContextsLinked, HeldInfosOwned, NothingUnderWay, ThreadOK, ContextOK
<1>2. ASSUME ThreadTypes'
      PROVE  ApcContextsLinked' /\ HeldInfosOwned' /\ NothingUnderWay'
               <=> \A t \in Threads : ThreadOK(t)'
  BY <1>2 DEF ApcContextsLinked, HeldInfosOwned, NothingUnderWay, ThreadOK, ContextOK
<1>3. IInv <=> /\ FrameInv /\ ListInv /\ ThreadTypes
               /\ ApcContextsLinked /\ HeldInfosOwned /\ NothingUnderWay
  BY DEF IInv, TypeOK, FrameInv, ListInv, ThreadTypes
<1>4. IInv' <=> /\ FrameInv' /\ ListInv' /\ ThreadTypes'
                /\ ApcContextsLinked' /\ HeldInfosOwned' /\ NothingUnderWay'
  BY DEF IInv, TypeOK, FrameInv, ListInv, ThreadTypes
<1> QED BY <1>1, <1>2, <1>3, <1>4

\* Callbacks are registered, and requests accepted, only while the list is
\* in use.
LEMMA InUseWhenCalled ==
  ASSUME FrameInv
  PROVE  registered # {} \/ stage = "loaded" => LibInUse
  BY DEF FrameInv, RegistrationInv, StageFlags, Revoked, LibInUse,
         EntryStages, DestroyStages, Callbacks

\* A thread inside a callback is at a point of a callback that is registered.
LEMMA InUseWhenHeld ==
  ASSUME FrameInv, NEW t \in Threads, ThreadOK(t), at[t] \in ThreadPoints,
         at[t] # "user"
  PROVE  registered # {} /\ LibInUse
<1>1. \E c \in Callbacks : at[t] \in InCallback(c)
  BY DEF ThreadPoints, InCallback, Callbacks
<1>2. registered # {}
  BY <1>1 DEF ThreadOK
<1> QED BY <1>2, InUseWhenCalled

\* A thread that does not move stays right when its infos stay those of its
\* process and keep what they were marked with, or go with its protection.
LEMMA ThreadFrame ==
  ASSUME NEW t \in Threads, ThreadOK(t),
         at'[t] = at[t], held'[t] = held[t], kapc'[t] = kapc[t],
         stage' # "d_device" /\ t \notin stale' =>
           kapc[t] = <<>> \/ (stage # "d_device" /\ t \notin stale),
         \A c \in registered \ registered' : at[t] \notin InCallback(c),
         ~proc'[ProcessOf[t]].alive =>
           at[t] = "user" /\ kapc[t] = <<>> /\ uapc'[t] = <<>>,
         proc'[ProcessOf[t]].prot => kapc[t] = <<>> /\ at[t] # "i_mark",
         proc[ProcessOf[t]].prot /\ held[t] # NULL => proc'[ProcessOf[t]].prot,
         held[t] \notin infoPool => held[t] \notin infoPool',
         \A i \in infoPool :
           rec[i].ProcessId = ProcessOf[t]
             /\ (held[t] = i \/ (kapc[t] # <<>> /\ stage' # "d_device")) =>
           \/ /\ i \in infoPool'
              /\ rec'[i].ProcessId = ProcessOf[t]
              /\ rec[i].IsInjected => rec'[i].IsInjected
              /\ rec[i].PathAllocated => rec'[i].PathAllocated
           \/ /\ i \notin infoPool' /\ kapc[t] = <<>>
              /\ proc'[ProcessOf[t]].prot /\ at[t] # "i_mark"
  PROVE  ThreadOK(t)'
<1>1. ASSUME stage' # "d_device", t \notin stale', NEW k \in DOMAIN kapc[t]
      PROVE  ContextOK(t, kapc[t][k])'
  <2>1. kapc[t] # <<>>
    <3>1. DOMAIN <<>> = {} OBVIOUS
    <3> QED BY <1>1, <3>1
  <2>2. ContextOK(t, kapc[t][k])
    BY <1>1, <2>1 DEF ThreadOK
  <2>3. /\ kapc[t][k] \in infoPool' /\ rec'[kapc[t][k]].ProcessId = ProcessOf[t]
        /\ rec[kapc[t][k]].IsInjected => rec'[kapc[t][k]].IsInjected
    BY <1>1, <2>1, <2>2 DEF ContextOK
  <2> QED BY <1>1, <2>2, <2>3 DEF ContextOK
<1>2. held[t] \in infoPool' =>
        /\ rec'[held[t]].ProcessId = ProcessOf[t]
        /\ rec'[held[t]].PathAllocated
  BY DEF ThreadOK
<1>3. held[t] \notin infoPool' \cup {NULL} =>
        proc'[ProcessOf[t]].prot /\ at[t] # "i_mark"
  BY DEF ThreadOK
<1>4. \A c \in Callbacks : at[t] \in InCallback(c) => c \in registered'
  BY DEF ThreadOK
<1>5. held[t] = NULL <=> at[t] = "user"
  BY DEF ThreadOK
<1> QED BY <1>1, <1>2, <1>3, <1>4, <1>5 DEF ThreadOK, InCallback

\* Before DriverEntry the inductive invariant holds.
THEOREM InitIInv == Init => IInv
<1> SUFFICES ASSUME Init PROVE IInv
  OBVIOUS
<1>1. FrameInv
  BY DEF Init, FrameInv, RegistrationInv, StageFlags, Revoked, EntryStages,
         DestroyStages, Callbacks, ProcessRec, NoProcess,
         InfosOfLivingProcesses
<1>2. ListInv
  <2>1. rec \in [Infos -> InfoRec]
    BY DEF Init, InfoRec, ZeroInfo
  <2> QED BY <2>1 DEF Init, ListInv, InfosLinkedOnce, OneInfoPerProcess,
                      BlocksInUse, PathsOwnedOnce, LibInUse
<1>3. ThreadTypes
  <2>1. <<>> \in Seq(Infos) /\ <<>> \in Seq(UserApc)
    OBVIOUS
  <2>2. kapc \in [Threads -> Seq(Infos)] /\ uapc \in [Threads -> Seq(UserApc)]
    BY <2>1 DEF Init
  <2>3. at \in [Threads -> ThreadPoints]
    BY DEF Init, ThreadPoints
  <2> QED BY <2>2, <2>3 DEF Init, ThreadTypes
<1>4. ASSUME NEW t \in Threads PROVE ThreadOK(t)
  <2>1. DOMAIN <<>> = {} OBVIOUS
  <2>2. /\ at[t] = "user" /\ held[t] = NULL /\ kapc[t] = <<>> /\ uapc[t] = <<>>
        /\ infoPool = {}
    BY DEF Init
  <2>3. \A c \in Callbacks : at[t] \notin InCallback(c)
    BY <2>2 DEF InCallback, Callbacks
  <2> QED BY <2>1, <2>2, <2>3 DEF ThreadOK
<1> QED BY <1>1, <1>2, <1>3, <1>4, IInvParts

\* A step that leaves the processes and the threads alone keeps what IInv says
\* of the threads, if it revokes no callback that one of them is in.
LEMMA ThreadsStay ==
  ASSUME IInv, UNCHANGED <<proc, at, held, kapc, uapc, rec, infoPool>>,
         stage # "d_device", stale' = stale,
         \A c \in registered \ registered' : \A t \in Threads :
            at[t] \notin InCallback(c)
  PROVE  \A t \in Threads : ThreadOK(t)'
<1>1. SUFFICES ASSUME NEW t \in Threads PROVE ThreadOK(t)'
  OBVIOUS
<1>2. ThreadOK(t)
  BY IInvParts
<1>3. /\ ~proc[ProcessOf[t]].alive =>
           at[t] = "user" /\ kapc[t] = <<>> /\ uapc[t] = <<>>
      /\ proc[ProcessOf[t]].prot => kapc[t] = <<>> /\ at[t] # "i_mark"
  BY <1>2 DEF ThreadOK
<1> QED BY <1>2, <1>3, ThreadFrame

\* Steps of DriverEntryImpl and DriverDestroy other than those on the list.
LEMMA StageStep ==
  ASSUME IInv, UNCHANGED <<listVars, proc, threadVars, apcVars>>,
         LibInUse' = LibInUse, stage # "d_device", stage' # "d_device",
         stage' \in EntryStages \cup DestroyStages,
         flags' \subseteq {"lib"} \cup Callbacks,
         registered' \subseteq Callbacks,
         device' \subseteq {"device", "link"},
         RegistrationInv',
         "create" \in registered' => "create" \in registered \/ list = <<>>,
         \A c \in registered \ registered' : \A t \in Threads :
            at[t] \notin InCallback(c)
  PROVE  IInv'
<1>1. FrameInv'
  BY DEF IInv, TypeOK, FrameInv, InfosOfLivingProcesses, listVars
<1>2. ListInv'
  BY DEF IInv, TypeOK, ListInv, listVars, InfosLinkedOnce, OneInfoPerProcess,
         BlocksInUse, PathsOwnedOnce
<1>3. ThreadTypes'
  BY DEF IInv, TypeOK, ThreadTypes, threadVars, apcVars
<1>4. \A t \in Threads : ThreadOK(t)'
  BY ThreadsStay DEF threadVars, apcVars, listVars
<1> QED BY <1>1, <1>2, <1>3, <1>4, IInvParts

\* Every step of DriverEntryImpl, a failing one included, keeps the inductive
\* invariant.
LEMMA EntryStep == IInv /\ DriverEntryImpl => IInv'
<1> SUFFICES ASSUME IInv, DriverEntryImpl PROVE IInv'
  OBVIOUS
<1> USE DEF EntryStages, DestroyStages, Callbacks, LibInUse, RegistrationInv,
            StageFlags, Revoked
<1>1. CASE CreateDeviceAndLink
  BY <1>1, StageStep DEF CreateDeviceAndLink, IInv, TypeOK
<1>2. CASE InjCreateSettings
  BY <1>2, StageStep DEF InjCreateSettings, IInv, TypeOK
<1>3. CASE InjInitialize
  <2>1. flags = {} /\ registered = {} /\ infoPool = {} /\ stage = "settings"
    BY <1>3 DEF InjInitialize, IInv, InfosLinkedOnce
  <2>2. FrameInv'
    BY <1>3, <2>1 DEF InjInitialize, IInv, TypeOK, FrameInv,
                      InfosOfLivingProcesses
  <2>3. ListInv'
    BY <1>3, <2>1 DEF InjInitialize, IInv, TypeOK, ListInv, InfosLinkedOnce,
                      OneInfoPerProcess, BlocksInUse, PathsOwnedOnce
  <2>4. ThreadTypes'
    BY <1>3 DEF InjInitialize, IInv, TypeOK, ThreadTypes, threadVars, apcVars
  <2>5. \A t \in Threads : ThreadOK(t)'
    BY <1>3, <2>1, ThreadsStay DEF InjInitialize, threadVars, apcVars
  <2> QED BY <2>2, <2>3, <2>4, <2>5, IInvParts
<1>4. CASE Register("lib", "create", "create")
  BY <1>4, StageStep DEF Register, IInv, TypeOK
<1>5. CASE Register("create", "image", "image")
  BY <1>5, StageStep DEF Register, IInv, TypeOK
<1>6. CASE Register("image", "loaded", "cm")
  BY <1>6, StageStep DEF Register, IInv, TypeOK
<1>7. CASE \E from \in EntryStages \ {"settings", "loaded"} : EntryFails(from)
  BY <1>7, StageStep DEF EntryFails, IInv, TypeOK
<1> QED BY <1>1, <1>2, <1>3, <1>4, <1>5, <1>6, <1>7 DEF DriverEntryImpl

\* Revoking a callback keeps the inductive invariant.
LEMMA UnregisterStep ==
  ASSUME IInv, NEW from, NEW to, NEW c \in Callbacks, Unregister(from, to, c),
         <<from, to, c>> \in {<<"d_cm", "d_image", "cm">>,
                              <<"d_image", "d_create", "image">>,
                              <<"d_create", "d_lib", "create">>}
  PROVE  IInv'
<1>1. /\ stage = from /\ stage' = to /\ flags' = flags
      /\ registered' = IF c \in flags THEN registered \ {c} ELSE registered
      /\ UNCHANGED <<flags, device, listVars, proc, threadVars, apcVars>>
      /\ \A t \in Threads : at[t] \notin InCallback(c)
  BY DEF Unregister
<1>2. /\ LibInUse' = LibInUse /\ stage # "d_device" /\ stage' # "d_device"
      /\ stage' \in DestroyStages /\ stage \in DestroyStages
      /\ stage # "lib" /\ stage' # "lib" /\ stage' # "unloaded"
  BY <1>1 DEF LibInUse, DestroyStages
<1>3. registered' = (flags' \cap Callbacks) \ Revoked'
  <2>1. registered = (flags \cap Callbacks) \ Revoked
    BY DEF IInv, RegistrationInv
  <2>2. Revoked' = Revoked \cup {c}
    BY <1>1 DEF Revoked, Callbacks
  <2> QED BY <1>1, <2>1, <2>2
<1>4. flags' = StageFlags'
  BY <1>1, <1>2 DEF StageFlags, DestroyStages
<1>5. RegistrationInv'
  BY <1>1, <1>2, <1>3, <1>4 DEF IInv, RegistrationInv
<1>6. \A d \in registered \ registered' : d = c
  BY <1>1
<1> QED BY <1>1, <1>2, <1>5, <1>6, StageStep DEF IInv, TypeOK

\* DriverUnload and every step of DriverDestroy keep the inductive invariant:
\* InjDestroy runs when no callback can add to the list any more, and none has
\* an entry in hand.
LEMMA DestroyStep == IInv /\ (DriverUnload \/ DriverDestroy) => IInv'
<1> SUFFICES ASSUME IInv, DriverUnload \/ DriverDestroy PROVE IInv'
  OBVIOUS
<1>1. CASE DriverUnload
  BY <1>1, StageStep DEF DriverUnload, IInv, TypeOK, EntryStages, DestroyStages,
     Callbacks, LibInUse, RegistrationInv, StageFlags, Revoked
<1>2. CASE Unregister("d_cm", "d_image", "cm")
  BY <1>2, UnregisterStep DEF Callbacks
<1>3. CASE Unregister("d_image", "d_create", "image")
  BY <1>3, UnregisterStep DEF Callbacks
<1>4. CASE Unregister("d_create", "d_lib", "create")
  BY <1>4, UnregisterStep DEF Callbacks
<1>5. CASE DestroyLib
  <2> USE DEF EntryStages, DestroyStages, Callbacks, LibInUse, RegistrationInv,
              StageFlags, Revoked
  <2>1. ListInv' /\ infoPool' = {} /\ list' = list
    <3>1. CASE "lib" \in flags
      <4>1. LibInUse /\ ~LibInUse' /\ InjDestroy
        BY <1>5, <3>1 DEF DestroyLib
      <4>2. ListInv
        BY IInvParts
      <4>3. ListInv' /\ infoPool' = {}
        BY <4>1, <4>2, DestroyEmptiesPool DEF LibInUse
      <4> QED BY <4>1, <4>3 DEF InjDestroy
    <3>2. CASE "lib" \notin flags
      <4>1. UNCHANGED listVars /\ infoPool = {} /\ flags' = flags
        BY <1>5, <3>2 DEF DestroyLib, IInv, InfosLinkedOnce
      <4> QED BY <3>2, <4>1 DEF IInv, TypeOK, ListInv, listVars,
                   InfosLinkedOnce, OneInfoPerProcess, BlocksInUse,
                   PathsOwnedOnce
    <3> QED BY <3>1, <3>2
  <2>2. FrameInv'
    BY <1>5 DEF DestroyLib, IInv, TypeOK, FrameInv, InfosOfLivingProcesses
  <2>3. ThreadTypes'
    BY <1>5 DEF DestroyLib, IInv, TypeOK, ThreadTypes, threadVars, apcVars
  <2>4. ASSUME NEW t \in Threads PROVE ThreadOK(t)'
    <3>1. ThreadOK(t) /\ FrameInv /\ at[t] \in ThreadPoints
      BY IInvParts DEF ThreadTypes
    <3>2. registered = {}
      BY <1>5 DEF DestroyLib, IInv
    <3>3. at[t] = "user" /\ held[t] = NULL
      BY <3>1, <3>2, InUseWhenHeld DEF ThreadOK
    <3>4. /\ UNCHANGED <<registered, proc, at, held, kapc, uapc>>
          /\ stage' = "d_device"
      BY <1>5 DEF DestroyLib, threadVars, apcVars
    <3>5. \A c \in Callbacks : "user" \notin InCallback(c)
      BY DEF InCallback
    <3> HIDE DEF EntryStages, DestroyStages, Callbacks, LibInUse,
                 RegistrationInv, StageFlags, Revoked
    <3>6. at'[t] = "user" /\ held'[t] = NULL /\ NULL \notin infoPool'
      BY <2>1, <3>3, <3>4
    <3>7. \A c \in Callbacks : at'[t] \notin InCallback(c)'
      BY <3>5, <3>6 DEF InCallback
    <3> QED BY <3>1, <3>4, <3>6, <3>7 DEF ThreadOK
  <2> QED BY <2>1, <2>2, <2>3, <2>4, IInvParts
<1>6. CASE DestroyDevice
  <2> USE DEF EntryStages, DestroyStages, Callbacks, LibInUse, RegistrationInv,
              StageFlags, Revoked
  <2>1. FrameInv'
    BY <1>6 DEF DestroyDevice, IInv, TypeOK, FrameInv, InfosOfLivingProcesses
  <2>2. ListInv'
    BY <1>6 DEF DestroyDevice, IInv, TypeOK, ListInv, InfosLinkedOnce,
                OneInfoPerProcess, BlocksInUse, PathsOwnedOnce
  <2>3. ThreadTypes'
    BY <1>6 DEF DestroyDevice, IInv, TypeOK, ThreadTypes, threadVars
  <2>4. ASSUME NEW t \in Threads PROVE ThreadOK(t)'
    <3>1. ThreadOK(t)
      BY IInvParts
    <3>2. /\ UNCHANGED <<registered, rec, infoPool, proc, at, held, kapc, uapc>>
          /\ t \notin stale' => kapc[t] = <<>>
      BY <1>6 DEF DestroyDevice, threadVars
    <3>3. /\ ~proc[ProcessOf[t]].alive =>
               at[t] = "user" /\ kapc[t] = <<>> /\ uapc[t] = <<>>
          /\ proc[ProcessOf[t]].prot => kapc[t] = <<>> /\ at[t] # "i_mark"
      BY <3>1 DEF ThreadOK
    <3> HIDE DEF EntryStages, DestroyStages, Callbacks, LibInUse,
                 RegistrationInv, StageFlags, Revoked
    <3> QED BY <3>1, <3>2, <3>3, ThreadFrame
  <2> QED BY <2>1, <2>2, <2>3, <2>4, IInvParts
<1> QED BY <1>1, <1>2, <1>3, <1>4, <1>5, <1>6 DEF DriverDestroy

-----------------------------------------------------------------------------
(***************************************************************************)
(* The steps of the processes, of their threads and of the debugger.       *)
(***************************************************************************)

\* An injection adds at most one user-mode APC, to the thread it runs on.
LEMMA InjectAddsOne ==
  ASSUME ListInv, uapc \in [Threads -> Seq(UserApc)],
         NEW t \in Threads, NEW i \in Infos, InjInject(t, i)
  PROVE  /\ uapc' \in [Threads -> Seq(UserApc)]
         /\ \A u \in Threads \ {t} : uapc'[u] = uapc[u]
<1>1. rec[i].LdrLoadDll \in NtdllFlags \cup {NULL}
      /\ rec[i].Path \in Paths \cup {NULL}
  <2>1. rec[i] \in InfoRec BY DEF ListInv
  <2> QED BY <2>1 DEF InfoRec
<1> DEFINE a == [routine |-> rec[i].LdrLoadDll, path |-> rec[i].Path]
<1>2. a \in UserApc
  BY <1>1 DEF UserApc
<1>3. uapc' = [uapc EXCEPT ![t] = Append(@, a)] \/ uapc' = uapc
  BY DEF InjInject
<1> HIDE DEF a
<1>4. CASE uapc' = [uapc EXCEPT ![t] = Append(@, a)]
  <2>1. Append(uapc[t], a) \in Seq(UserApc)
    BY <1>2
  <2> QED BY <1>4, <2>1
<1> QED BY <1>3, <1>4

\* Queueing adds at most one kernel-mode APC, whose context is the info.
LEMMA QueueAddsOne ==
  ASSUME kapc \in [Threads -> Seq(Infos)], NEW t \in Threads, NEW i \in Infos,
         QueueInjectApc(t, i)
  PROVE  /\ kapc' \in [Threads -> Seq(Infos)]
         /\ \A u \in Threads \ {t} : kapc'[u] = kapc[u]
         /\ \A k \in DOMAIN kapc'[t] :
              kapc'[t][k] = i \/ (k \in DOMAIN kapc[t] /\ kapc'[t][k] = kapc[t][k])
<1>1. CASE kapc' = kapc
  BY <1>1
<1>2. CASE kapc' = [kapc EXCEPT ![t] = Append(kapc[t], i)]
  <2>1. /\ kapc[t] \in Seq(Infos) /\ Append(kapc[t], i) \in Seq(Infos)
        /\ kapc'[t] = Append(kapc[t], i)
    BY <1>2
  <2>2. ASSUME NEW k \in DOMAIN Append(kapc[t], i)
        PROVE  \/ Append(kapc[t], i)[k] = i
               \/ k \in DOMAIN kapc[t] /\ Append(kapc[t], i)[k] = kapc[t][k]
    BY <2>1
  <2> QED BY <1>2, <2>1, <2>2
<1> QED BY <1>1, <1>2 DEF QueueInjectApc

\* SioctlDeviceControl keeps the inductive invariant.
LEMMA IoctlStep ==
  ASSUME IInv, NEW data \in InjectData, NEW path \in Paths,
         SioctlDeviceControl(data, path)
  PROVE  IInv'
<1>1. FrameInv /\ ListInv /\ ThreadTypes /\ \A t \in Threads : ThreadOK(t)
  BY IInvParts
<1>2. LibInUse /\ LibInUse'
  BY <1>1, InUseWhenCalled DEF SioctlDeviceControl, driverVars, LibInUse
<1>3. UNCHANGED <<driverVars, proc, threadVars, apcVars>> /\ stage = "loaded"
  BY DEF SioctlDeviceControl
<1>4. /\ ListInv'
      /\ \A j \in Infos : /\ rec'[j].ProcessId = rec[j].ProcessId
                          /\ rec'[j].IsInjected = rec[j].IsInjected
                          /\ rec[j].PathAllocated => rec'[j].PathAllocated
      /\ infoPool' = infoPool /\ list' = list
  BY <1>1, <1>2, IoctlKeepsList
<1>5. FrameInv'
  <2>1. \A k \in DOMAIN list : list[k] \in Infos
    BY <1>1 DEF ListInv
  <2>2. RegistrationInv'
    BY <1>1, <1>3, <1>4 DEF FrameInv, driverVars, RegistrationInv,
                            StageFlags, Revoked
  <2>3. InfosOfLivingProcesses'
    BY <1>1, <1>3, <1>4, <2>1 DEF FrameInv, driverVars,
                                  InfosOfLivingProcesses
  <2> QED BY <1>1, <1>3, <2>2, <2>3 DEF FrameInv, driverVars
<1>6. ThreadTypes'
  BY <1>1, <1>3 DEF ThreadTypes, threadVars, apcVars
<1>7. ASSUME NEW t \in Threads PROVE ThreadOK(t)'
  <2>1. ThreadOK(t) /\ infoPool \subseteq Infos
    BY <1>1 DEF ListInv
  <2>2. /\ ~proc[ProcessOf[t]].alive =>
             at[t] = "user" /\ kapc[t] = <<>> /\ uapc[t] = <<>>
        /\ proc[ProcessOf[t]].prot => kapc[t] = <<>> /\ at[t] # "i_mark"
    BY <2>1 DEF ThreadOK
  <2>3. UNCHANGED <<stage, registered, proc, at, held, kapc, uapc, stale>>
    BY <1>3 DEF driverVars, threadVars, apcVars
  <2> QED BY <1>3, <1>4, <2>1, <2>2, <2>3, ThreadFrame
<1> QED BY <1>4, <1>5, <1>6, <1>7, IInvParts

\* The creation of a process keeps the inductive invariant.
LEMMA CreateStep ==
  ASSUME IInv, NEW p \in Pids, ProcessCreate(p)
  PROVE  IInv'
<1>1. FrameInv /\ ListInv /\ ThreadTypes /\ \A t \in Threads : ThreadOK(t)
  BY IInvParts
<1>2. /\ UNCHANGED <<stage, flags, registered, device, at, held, kapc, uapc,
                     injected, stale, bugcheck>>
      /\ LibInUse' = LibInUse /\ ~proc[p].alive
  BY DEF ProcessCreate, driverVars, threadVars, apcVars, LibInUse
<1>3. PICK k \in Kinds :
        proc' = [proc EXCEPT ![p] = [NoProcess EXCEPT !.alive = TRUE,
                                      !.wow64 = k.wow64, !.prot = k.prot]]
  BY DEF ProcessCreate
<1>4. /\ proc' \in [Pids -> ProcessRec] /\ proc'[p].alive
      /\ \A q \in Pids \ {p} : proc'[q] = proc[q]
  <2>1. k.wow64 \in BOOLEAN /\ k.prot \in BOOLEAN
    OBVIOUS
  <2> QED BY <1>1, <1>3, <2>1 DEF FrameInv, ProcessRec, NoProcess
<1>6. "create" \in registered =>
        LibInUse /\ \A j \in DOMAIN list : rec[list[j]].ProcessId # p
  BY <1>1, <1>2, InUseWhenCalled DEF FrameInv, InfosOfLivingProcesses
<1>7. \/ UNCHANGED listVars
      \/ "create" \in registered /\ InjCreateInjectionInfo(p)
  BY DEF ProcessCreate
<1>8. ListInv'
  <2>1. CASE UNCHANGED listVars
    BY <1>1, <1>2, <2>1 DEF ListInv, listVars, InfosLinkedOnce,
         OneInfoPerProcess, BlocksInUse, PathsOwnedOnce
  <2>2. CASE "create" \in registered /\ InjCreateInjectionInfo(p)
    BY <1>1, <1>2, <1>6, <2>2, CreateKeepsList
  <2> QED BY <1>7, <2>1, <2>2
<1>9. /\ \A j \in infoPool : j \in infoPool' /\ rec'[j] = rec[j]
      /\ \A j \in infoPool' \ infoPool :
            /\ rec'[j].ProcessId = p /\ "create" \in registered
            /\ j \notin HeldInfos
      /\ stage = "lib" => list' = <<>>
  <2>1. CASE UNCHANGED listVars
    BY <1>1, <2>1 DEF listVars, FrameInv, RegistrationInv
  <2>2. CASE ~UNCHANGED listVars
    <3>1. PICK i \in Infos \ (infoPool \cup HeldInfos) :
            /\ infoPool' = infoPool \cup {i}
            /\ rec' = [rec EXCEPT ![i] = [ZeroInfo EXCEPT !.ProcessId = p]]
      BY <1>7, <2>2 DEF InjCreateInjectionInfo
    <3>2. rec'[i].ProcessId = p
      <4>1. rec'[i] = [ZeroInfo EXCEPT !.ProcessId = p]
        BY <1>1, <3>1 DEF ListInv
      <4> QED BY <4>1 DEF ZeroInfo
    <3>3. \A j \in Infos \ {i} : rec'[j] = rec[j]
      BY <1>1, <3>1 DEF ListInv
    <3>4. stage # "lib" /\ "create" \in registered
      BY <1>1, <1>7, <2>2 DEF FrameInv, RegistrationInv, StageFlags, DestroyStages
    <3>5. infoPool \subseteq Infos
      BY <1>1 DEF ListInv
    <3> QED BY <3>1, <3>2, <3>3, <3>4, <3>5
  <2> QED BY <2>1, <2>2
<1>10. FrameInv'
  <2>1. RegistrationInv'
    BY <1>1, <1>2, <1>9 DEF FrameInv, RegistrationInv, StageFlags, Revoked
  <2>2. InfosOfLivingProcesses'
    <3>1. SUFFICES ASSUME "create" \in registered, NEW j \in DOMAIN list'
                   PROVE  /\ rec'[list'[j]].ProcessId \in Pids
                          /\ proc'[rec'[list'[j]].ProcessId].alive
      BY <1>2 DEF InfosOfLivingProcesses
    <3>2. list'[j] \in infoPool'
      BY <1>2, <1>6, <1>8, <3>1 DEF ListInv, InfosLinkedOnce
    <3>3. CASE list'[j] \in infoPool
      <4>1. PICK m \in DOMAIN list : list[m] = list'[j]
        BY <1>1, <1>6, <3>1, <3>3 DEF ListInv, InfosLinkedOnce
      <4>2. rec[list[m]].ProcessId \in Pids /\ proc[rec[list[m]].ProcessId].alive
        BY <1>1, <3>1 DEF FrameInv, InfosOfLivingProcesses
      <4> QED BY <1>4, <1>9, <3>3, <4>1, <4>2
    <3>4. CASE list'[j] \notin infoPool
      BY <1>4, <1>9, <3>2, <3>4
    <3> QED BY <3>3, <3>4
  <2> QED BY <1>1, <1>2, <1>4, <2>1, <2>2 DEF FrameInv
<1>11. ThreadTypes'
  BY <1>1, <1>2 DEF ThreadTypes
<1>12. ASSUME NEW t \in Threads PROVE ThreadOK(t)'
  <2>1. ThreadOK(t) /\ ProcessOf[t] \in Pids
    BY <1>1
  <2>2. /\ ~proc[ProcessOf[t]].alive =>
             at[t] = "user" /\ kapc[t] = <<>> /\ uapc[t] = <<>>
        /\ proc[ProcessOf[t]].prot => kapc[t] = <<>> /\ at[t] # "i_mark"
        /\ held[t] = NULL <=> at[t] = "user"
    BY <2>1 DEF ThreadOK
  <2>3. held[t] \notin infoPool => held[t] \notin infoPool'
    <3>1. held[t] # NULL => held[t] \in HeldInfos
      BY DEF HeldInfos
    <3>2. NULL \notin infoPool'
      BY <1>8 DEF ListInv
    <3> QED BY <1>9, <3>1, <3>2
  <2>4. CASE ProcessOf[t] = p
    <3>1. kapc[t] = <<>> /\ at[t] = "user" /\ held[t] = NULL
      BY <1>2, <2>2, <2>4
    <3>2. NULL \notin infoPool
      BY <1>1 DEF ListInv
    <3> QED BY <1>2, <1>4, <2>1, <2>2, <2>3, <2>4, <3>1, <3>2, ThreadFrame
  <2>5. CASE ProcessOf[t] # p
    <3>1. proc'[ProcessOf[t]] = proc[ProcessOf[t]]
      BY <1>4, <2>1, <2>5
    <3> QED BY <1>2, <1>9, <2>1, <2>2, <2>3, <3>1, ThreadFrame
  <2> QED BY <2>4, <2>5
<1> QED BY <1>8, <1>10, <1>11, <1>12, IInvParts

\* The exit of a process keeps the inductive invariant: its info goes only
\* after its threads have left the callbacks and its kernel-mode APCs have run.
LEMMA ExitStep ==
  ASSUME IInv, NEW p \in Pids, ProcessExit(p)
  PROVE  IInv'
<1>1. FrameInv /\ ListInv /\ ThreadTypes /\ \A t \in Threads : ThreadOK(t)
  BY IInvParts
<1>2. /\ UNCHANGED <<stage, flags, registered, device, at, held, kapc, bugcheck>>
      /\ LibInUse' = LibInUse
      /\ \A t \in Threads : ProcessOf[t] = p => at[t] = "user" /\ kapc[t] = <<>>
      /\ stale' = stale \ ThreadsOf(p)
      /\ proc' = [proc EXCEPT ![p] = NoProcess]
      /\ uapc' = [t \in Threads |-> IF ProcessOf[t] = p THEN <<>> ELSE uapc[t]]
      /\ injected' = injected \ {p}
  BY DEF ProcessExit, driverVars, threadVars, LibInUse, ThreadsOf
<1>3. /\ proc' \in [Pids -> ProcessRec] /\ ~proc'[p].alive /\ ~proc'[p].prot
      /\ \A q \in Pids \ {p} : proc'[q] = proc[q]
  <2>1. proc' \in [Pids -> ProcessRec] /\ proc'[p] = NoProcess
    BY <1>1, <1>2 DEF FrameInv, ProcessRec, NoProcess
  <2>2. ~proc'[p].alive /\ ~proc'[p].prot
    BY <2>1 DEF NoProcess
  <2> QED BY <1>1, <1>2, <2>1, <2>2 DEF FrameInv
<1>4. "create" \in registered => LibInUse
  BY <1>1, InUseWhenCalled
<1>5. /\ ListInv'
      /\ \A i \in infoPool' : rec'[i] = rec[i] /\ i \in infoPool
      /\ \A i \in infoPool : rec[i].ProcessId # p => i \in infoPool'
      /\ "create" \in registered =>
           \A k \in DOMAIN list' : /\ list'[k] \in infoPool
                                   /\ rec'[list'[k]].ProcessId # p
      /\ "create" \notin registered => list' = list
  <2>1. CASE "create" \in registered
    <3>1. InjRemoveInjectionInfoByProcessId(p)
      BY <2>1 DEF ProcessExit
    <3> QED BY <1>1, <1>2, <1>4, <2>1, <3>1, RemoveKeepsList
  <2>2. CASE "create" \notin registered
    <3>1. UNCHANGED listVars
      BY <2>2 DEF ProcessExit
    <3> QED BY <1>1, <1>2, <2>2, <3>1 DEF ListInv, listVars, InfosLinkedOnce,
              OneInfoPerProcess, BlocksInUse, PathsOwnedOnce
  <2> QED BY <2>1, <2>2
<1>6. FrameInv'
  <2>1. RegistrationInv'
    <3>1. stage = "lib" => "create" \notin registered
      BY <1>1 DEF FrameInv, RegistrationInv, StageFlags, DestroyStages
    <3> QED BY <1>1, <1>2, <1>5, <3>1 DEF FrameInv, RegistrationInv,
                                          StageFlags, Revoked
  <2>2. InfosOfLivingProcesses'
    <3>1. SUFFICES ASSUME "create" \in registered, NEW k \in DOMAIN list'
                   PROVE  /\ rec'[list'[k]].ProcessId \in Pids
                          /\ proc'[rec'[list'[k]].ProcessId].alive
      BY <1>2 DEF InfosOfLivingProcesses
    <3>2. list'[k] \in infoPool' /\ list'[k] \in infoPool
      BY <1>2, <1>4, <1>5, <3>1 DEF ListInv, InfosLinkedOnce
    <3>3. PICK m \in DOMAIN list : list[m] = list'[k]
      BY <1>1, <1>4, <3>1, <3>2 DEF ListInv, InfosLinkedOnce
    <3>4. rec[list[m]].ProcessId \in Pids /\ proc[rec[list[m]].ProcessId].alive
      BY <1>1, <3>1 DEF FrameInv, InfosOfLivingProcesses
    <3>5. rec'[list'[k]] = rec[list[m]] /\ rec'[list'[k]].ProcessId # p
      BY <1>5, <3>1, <3>2, <3>3
    <3> QED BY <1>3, <3>4, <3>5
  <2> QED BY <1>1, <1>2, <1>3, <2>1, <2>2 DEF FrameInv
<1>7. ThreadTypes'
  <2>1. uapc' \in [Threads -> Seq(UserApc)]
    BY <1>1, <1>2 DEF ThreadTypes
  <2> QED BY <1>1, <1>2, <2>1 DEF ThreadTypes
<1>8. ASSUME NEW t \in Threads PROVE ThreadOK(t)'
  <2>1. ThreadOK(t) /\ ProcessOf[t] \in Pids
    BY <1>1
  <2>2. /\ ~proc[ProcessOf[t]].alive =>
             at[t] = "user" /\ kapc[t] = <<>> /\ uapc[t] = <<>>
        /\ proc[ProcessOf[t]].prot => kapc[t] = <<>> /\ at[t] # "i_mark"
        /\ held[t] = NULL <=> at[t] = "user"
    BY <2>1 DEF ThreadOK
  <2>3. held[t] \notin infoPool => held[t] \notin infoPool'
    BY <1>5
  <2>4. CASE ProcessOf[t] = p
    <3>1. kapc[t] = <<>> /\ at[t] = "user" /\ held[t] = NULL /\ uapc'[t] = <<>>
      BY <1>2, <2>2, <2>4
    <3>2. NULL \notin infoPool
      BY <1>1 DEF ListInv
    <3> QED BY <1>2, <1>3, <2>1, <2>2, <2>3, <2>4, <3>1, <3>2, ThreadFrame
  <2>5. CASE ProcessOf[t] # p
    <3>1. /\ proc'[ProcessOf[t]] = proc[ProcessOf[t]] /\ uapc'[t] = uapc[t]
          /\ t \notin ThreadsOf(p)
      BY <1>2, <1>3, <2>1, <2>5 DEF ThreadsOf
    <3>2. t \notin stale' => t \notin stale
      BY <1>2, <3>1
    <3> QED BY <1>2, <1>5, <2>1, <2>2, <2>3, <2>5, <3>1, <3>2, ThreadFrame
  <2> QED BY <2>4, <2>5
<1> QED BY <1>5, <1>6, <1>7, <1>8, IInvParts

\* What a step of a thread that keeps the list, and the processes alive,
\* leaves of FrameInv.
LEMMA FrameStep ==
  ASSUME FrameInv, ListInv, ListInv', UNCHANGED driverVars,
         registered # {},
         proc' \in [Pids -> ProcessRec],
         \A q \in Pids : proc'[q].alive = proc[q].alive,
         \A i \in infoPool' : /\ i \in infoPool
                              /\ rec'[i].ProcessId = rec[i].ProcessId
  PROVE  FrameInv'
<1>1. /\ UNCHANGED <<stage, flags, registered, device>>
      /\ LibInUse /\ LibInUse'
  BY InUseWhenCalled DEF driverVars, LibInUse
<1>2. stage # "lib"
  BY DEF FrameInv, RegistrationInv, StageFlags, Callbacks, DestroyStages
<1>3. RegistrationInv'
  BY <1>1, <1>2 DEF FrameInv, RegistrationInv, StageFlags, Revoked
<1>4. InfosOfLivingProcesses'
  <2>1. SUFFICES ASSUME "create" \in registered, NEW k \in DOMAIN list'
                 PROVE  /\ rec'[list'[k]].ProcessId \in Pids
                        /\ proc'[rec'[list'[k]].ProcessId].alive
    BY <1>1 DEF InfosOfLivingProcesses
  <2>2. list'[k] \in infoPool' /\ list'[k] \in infoPool
    BY <1>1, <2>1 DEF ListInv, InfosLinkedOnce
  <2>3. PICK m \in DOMAIN list : list[m] = list'[k]
    BY <1>1, <2>2 DEF ListInv, InfosLinkedOnce
  <2>4. rec[list[m]].ProcessId \in Pids /\ proc[rec[list[m]].ProcessId].alive
    BY <2>1 DEF FrameInv, InfosOfLivingProcesses
  <2> QED BY <2>2, <2>3, <2>4
<1> QED BY <1>1, <1>3, <1>4 DEF FrameInv

\* What a thread looks on to: the step of another thread, or its own when it
\* does not move, marks infos and arms them, or frees that of a protected
\* process.
LEMMA StillThread ==
  ASSUME NEW t \in Threads, ThreadOK(t),
         at'[t] = at[t], held'[t] = held[t], kapc'[t] = kapc[t],
         uapc'[t] = uapc[t] \/ proc[ProcessOf[t]].alive,
         UNCHANGED <<stage, registered, stale>>,
         proc'[ProcessOf[t]].alive = proc[ProcessOf[t]].alive,
         proc'[ProcessOf[t]].prot = proc[ProcessOf[t]].prot,
         infoPool' \subseteq infoPool,
         \A i \in infoPool : rec[i].ProcessId = ProcessOf[t] =>
           \/ /\ i \in infoPool'
              /\ rec'[i].ProcessId = ProcessOf[t]
              /\ rec[i].IsInjected => rec'[i].IsInjected
              /\ rec[i].PathAllocated => rec'[i].PathAllocated
           \/ i \notin infoPool' /\ proc[ProcessOf[t]].prot
  PROVE  ThreadOK(t)'
<1>1. /\ ~proc[ProcessOf[t]].alive =>
           at[t] = "user" /\ kapc[t] = <<>> /\ uapc[t] = <<>>
      /\ proc[ProcessOf[t]].prot => kapc[t] = <<>> /\ at[t] # "i_mark"
  BY DEF ThreadOK
<1> QED BY <1>1, ThreadFrame

\* The info that a callback finds belongs to the process of its thread.
LEMMA CalledInfo ==
  ASSUME FrameInv, ListInv, registered # {}, NEW t \in Threads,
         InjFindInjectionInfo(ProcessOf[t]) # NULL
  PROVE  /\ LibInUse
         /\ InjFindInjectionInfo(ProcessOf[t]) \in infoPool
         /\ InjFindInjectionInfo(ProcessOf[t]) \in Infos
         /\ rec[InjFindInjectionInfo(ProcessOf[t])].ProcessId = ProcessOf[t]
<1>1. LibInUse
  BY InUseWhenCalled
<1> QED BY <1>1, FoundInfo

\* A thread that enters a callback goes by the armed info of its process, and
\* by that info only its kernel-mode APC may be queued.
LEMMA EnterCallback ==
  ASSUME NEW t \in Threads, ThreadOK(t), ThreadTypes, ThreadTypes',
         at[t] = "user", NEW i \in infoPool, NEW point \in ThreadPoints \ {"user"},
         rec[i].ProcessId = ProcessOf[t], rec[i].PathAllocated, i # NULL,
         HoldAt(t, point, i),
         UNCHANGED <<stage, registered, stale, rec, infoPool, uapc>>,
         proc'[ProcessOf[t]].alive, proc[ProcessOf[t]].alive,
         proc'[ProcessOf[t]].prot = proc[ProcessOf[t]].prot,
         \A c \in Callbacks : point \in InCallback(c) => c \in registered,
         \/ kapc' = kapc /\ point # "i_mark"
         \/ /\ point = "i_mark" /\ ~proc[ProcessOf[t]].prot
            /\ \A k \in DOMAIN kapc'[t] :
                 kapc'[t][k] = i \/ (k \in DOMAIN kapc[t] /\ kapc'[t][k] = kapc[t][k])
  PROVE  ThreadOK(t)'
<1>1. at'[t] = point /\ held'[t] = i
  BY DEF HoldAt, ThreadTypes
<1>2. ASSUME stage # "d_device", t \notin stale, NEW k \in DOMAIN kapc'[t]
      PROVE  ContextOK(t, kapc[t][k])'
  <2>1. CASE k \in DOMAIN kapc[t] /\ kapc'[t][k] = kapc[t][k]
    <3>1. ContextOK(t, kapc[t][k])
      BY <1>2, <2>1 DEF ThreadOK
    <3> QED BY <2>1, <3>1 DEF ContextOK
  <2>2. CASE ~(k \in DOMAIN kapc[t] /\ kapc'[t][k] = kapc[t][k])
    BY <1>1, <1>2, <2>2 DEF ContextOK
  <2> QED BY <2>1, <2>2
<1>3. proc[ProcessOf[t]].prot => kapc'[t] = <<>> /\ point # "i_mark"
  BY DEF ThreadOK
<1> QED BY <1>1, <1>2, <1>3 DEF ThreadOK, InCallback

\* Mapping an image keeps the inductive invariant, with or without the
\* load-image callback.
LEMMA LoadImageStep ==
  ASSUME IInv, NEW t \in Threads, NEW img \in Images, LoadImage(t, img)
  PROVE  IInv'
<1> DEFINE p == ProcessOf[t]
           i == InjFindInjectionInfo(p)
<1>1. FrameInv /\ ListInv /\ ThreadTypes /\ \A u \in Threads : ThreadOK(u)
  BY IInvParts
<1>2. /\ UNCHANGED driverVars /\ UNCHANGED <<stage, flags, registered, device>>
      /\ UNCHANGED <<uapc, injected, stale, bugcheck>>
      /\ LibInUse' = LibInUse /\ proc[p].alive /\ at[t] = "user" /\ p \in Pids
  BY DEF LoadImage, driverVars, LibInUse
<1>3. /\ proc' \in [Pids -> ProcessRec]
      /\ \A q \in Pids : /\ proc'[q].alive = proc[q].alive
                         /\ proc'[q].prot = proc[q].prot
  <2>1. PICK D \in SUBSET SystemDlls, m \in BOOLEAN :
          proc' = [proc EXCEPT ![p].images = D, ![p].missed = m]
    <3>1. proc[p] \in ProcessRec
      BY <1>1 DEF FrameInv
    <3>2. proc[p].images \in SUBSET SystemDlls /\ proc[p].missed \in BOOLEAN
      BY <3>1 DEF ProcessRec
    <3> DEFINE D == proc[p].images \cup ({img} \cap SystemDlls)
               m == proc[p].missed \/
                      (img = "system32_ntdll" /\ "image" \notin registered)
    <3>3. D \in SUBSET SystemDlls /\ m \in BOOLEAN
      BY <3>2
    <3>4. proc' = [proc EXCEPT ![p].images = D, ![p].missed = m]
      BY <1>1 DEF LoadImage, FrameInv, ProcessRec
    <3> QED BY <3>3, <3>4
  <2> HIDE DEF p
  <2>2. /\ proc'[p] = [proc[p] EXCEPT !.images = D, !.missed = m]
        /\ \A q \in Pids \ {p} : proc'[q] = proc[q]
        /\ p \in Pids /\ proc[p] \in ProcessRec
    BY <1>1, <1>2, <2>1 DEF FrameInv
  <2>3. /\ proc'[p] \in ProcessRec /\ proc'[p].alive = proc[p].alive
        /\ proc'[p].prot = proc[p].prot
    BY <2>2 DEF ProcessRec
  <2> QED BY <1>1, <2>1, <2>2, <2>3 DEF FrameInv
<1>4. CASE UNCHANGED <<listVars, threadVars, kapc>>
  <2>1. ListInv'
    BY <1>1, <1>2, <1>4 DEF ListInv, listVars, InfosLinkedOnce,
         OneInfoPerProcess, BlocksInUse, PathsOwnedOnce
  <2>2. FrameInv'
    BY <1>1, <1>2, <1>3, <1>4 DEF FrameInv, listVars, RegistrationInv,
         StageFlags, Revoked, InfosOfLivingProcesses
  <2>3. ThreadTypes'
    BY <1>1, <1>2, <1>4 DEF ThreadTypes, threadVars
  <2>4. ASSUME NEW u \in Threads PROVE ThreadOK(u)'
    <3>1. UNCHANGED <<at, held, kapc, uapc, stage, registered, stale, infoPool, rec>>
      BY <1>2, <1>4 DEF threadVars, listVars
    <3> QED BY <1>1, <1>3, <3>1, StillThread
  <2> QED BY <2>1, <2>2, <2>3, <2>4, IInvParts
<1>5. CASE ~UNCHANGED <<listVars, threadVars, kapc>>
  <2>1. "image" \in registered /\ InjLoadImageNotifyRoutine(t, img)
    BY <1>5 DEF LoadImage
  <2>2. i # NULL /\ ~rec[i].IsInjected
    BY <1>5, <2>1 DEF InjLoadImageNotifyRoutine
  <2>3. /\ LibInUse /\ LibInUse' /\ registered # {}
        /\ i \in infoPool /\ i \in Infos /\ rec[i].ProcessId = p
    BY <1>1, <1>2, <2>1, <2>2, CalledInfo
  <2>4. \/ /\ InjRemoveInjectionInfoByProcessId(p) /\ proc[p].prot
           /\ UNCHANGED <<threadVars, kapc>>
        \/ RecordSystemDll(i, img) /\ UNCHANGED <<threadVars, kapc>>
        \/ /\ ~proc[p].prot /\ rec[i].PathAllocated
           /\ QueueInjectApc(t, i) /\ HoldAt(t, "i_mark", i) /\ UNCHANGED listVars
    BY <1>5, <2>1, <2>2 DEF InjLoadImageNotifyRoutine, HoldsBack
  <2> HIDE DEF i, p
  <2>5. CASE /\ InjRemoveInjectionInfoByProcessId(p) /\ proc[p].prot
             /\ UNCHANGED <<threadVars, kapc>>
    <3>1. /\ ListInv'
          /\ \A j \in infoPool' : rec'[j] = rec[j] /\ j \in infoPool
          /\ \A j \in infoPool : rec[j].ProcessId # p => j \in infoPool'
      BY <1>1, <1>2, <2>3, <2>5, RemoveKeepsList
    <3>2. FrameInv'
      BY <1>1, <1>2, <1>3, <2>3, <3>1, FrameStep
    <3>3. ThreadTypes' /\ UNCHANGED <<at, held>>
      BY <1>1, <1>2, <2>5 DEF ThreadTypes, threadVars
    <3>4. ASSUME NEW u \in Threads PROVE ThreadOK(u)'
      <4>1. ThreadOK(u) /\ ProcessOf[u] \in Pids
        BY <1>1
      <4> QED BY <1>2, <1>3, <2>5, <3>1, <3>3, <4>1, StillThread
    <3> QED BY <3>1, <3>2, <3>3, <3>4, IInvParts
  <2>6. CASE RecordSystemDll(i, img) /\ UNCHANGED <<threadVars, kapc>>
    <3>1. /\ ListInv'
          /\ \A j \in Infos : /\ rec'[j].ProcessId = rec[j].ProcessId
                              /\ rec'[j].IsInjected = rec[j].IsInjected
                              /\ rec'[j].PathAllocated = rec[j].PathAllocated
          /\ infoPool' = infoPool /\ infoPool \subseteq Infos
      BY <1>1, <2>2, <2>3, <2>6, RecordKeepsList DEF ListInv, i
    <3>2. FrameInv'
      BY <1>1, <1>2, <1>3, <2>3, <3>1, FrameStep
    <3>3. ThreadTypes' /\ UNCHANGED <<at, held>>
      BY <1>1, <1>2, <2>6 DEF ThreadTypes, threadVars
    <3>4. ASSUME NEW u \in Threads PROVE ThreadOK(u)'
      <4>1. ThreadOK(u) /\ ProcessOf[u] \in Pids
        BY <1>1
      <4> QED BY <1>2, <1>3, <2>6, <3>1, <3>3, <4>1, StillThread
    <3> QED BY <3>1, <3>2, <3>3, <3>4, IInvParts
  <2>7. CASE /\ ~proc[p].prot /\ rec[i].PathAllocated
             /\ QueueInjectApc(t, i) /\ HoldAt(t, "i_mark", i)
             /\ UNCHANGED listVars
    <3>1. ListInv' /\ UNCHANGED <<rec, infoPool>>
      BY <1>1, <1>2, <2>7 DEF ListInv, listVars, InfosLinkedOnce,
           OneInfoPerProcess, BlocksInUse, PathsOwnedOnce
    <3>2. FrameInv'
      BY <1>1, <1>2, <1>3, <2>3, <3>1, FrameStep
    <3>3. /\ kapc' \in [Threads -> Seq(Infos)]
          /\ \A u \in Threads \ {t} : kapc'[u] = kapc[u]
          /\ \A k \in DOMAIN kapc'[t] :
               kapc'[t][k] = i \/ (k \in DOMAIN kapc[t] /\ kapc'[t][k] = kapc[t][k])
      BY <1>1, <2>3, <2>7, QueueAddsOne DEF ThreadTypes
    <3>4. /\ ThreadTypes'
          /\ \A u \in Threads \ {t} : at'[u] = at[u] /\ held'[u] = held[u]
      <4>1. "i_mark" \in ThreadPoints BY DEF ThreadPoints
      <4> QED BY <1>1, <1>2, <2>3, <2>7, <3>3, <4>1 DEF ThreadTypes, HoldAt
    <3>5. ASSUME NEW u \in Threads \ {t} PROVE ThreadOK(u)'
      <4>1. ThreadOK(u) /\ ProcessOf[u] \in Pids
        BY <1>1
      <4> QED BY <1>2, <1>3, <3>1, <3>3, <3>4, <4>1, StillThread
    <3>6. ThreadOK(t)'
      <4>1. /\ "i_mark" \in ThreadPoints \ {"user"}
            /\ \A c \in Callbacks : "i_mark" \in InCallback(c) => c \in registered
        BY <2>1 DEF ThreadPoints, InCallback, Callbacks
      <4>2. i # NULL
        BY <2>3
      <4> QED BY <1>1, <1>2, <1>3, <2>3, <2>7, <3>1, <3>3, <3>4, <4>1, <4>2,
                 EnterCallback DEF p
    <3> QED BY <3>1, <3>2, <3>4, <3>5, <3>6, IInvParts
  <2> QED BY <2>4, <2>5, <2>6, <2>7
<1> QED BY <1>4, <1>5

\* Opening the target key keeps the inductive invariant.
LEMMA OpenKeyStep ==
  ASSUME IInv, NEW t \in Threads, OpenTargetKey(t)
  PROVE  IInv'
<1> DEFINE i == InjFindInjectionInfo(ProcessOf[t])
<1>1. FrameInv /\ ListInv /\ ThreadTypes /\ \A u \in Threads : ThreadOK(u)
  BY IInvParts
<1>2. /\ UNCHANGED <<driverVars, listVars, proc, apcVars>>
      /\ "cm" \in registered /\ proc[ProcessOf[t]].alive /\ at[t] = "user"
      /\ i # NULL /\ rec[i].PathAllocated /\ ~rec[i].IsInjected
      /\ HoldAt(t, "r_inject", i)
  BY DEF OpenTargetKey, InjRegistryCallback
<1>3. i \in infoPool /\ i \in Infos /\ rec[i].ProcessId = ProcessOf[t]
  BY <1>1, <1>2, CalledInfo
<1> HIDE DEF i
<1>4. /\ UNCHANGED <<stage, flags, registered, device, list, infoPool, pathPool,
                     rec, proc, kapc, uapc, injected, stale, bugcheck>>
      /\ LibInUse' = LibInUse
  BY <1>2 DEF driverVars, listVars, apcVars, LibInUse
<1>5. ListInv' /\ FrameInv'
  BY <1>1, <1>4 DEF ListInv, InfosLinkedOnce, OneInfoPerProcess, BlocksInUse,
       PathsOwnedOnce, FrameInv, RegistrationInv, StageFlags, Revoked,
       InfosOfLivingProcesses
<1>6. /\ ThreadTypes'
      /\ \A u \in Threads \ {t} : at'[u] = at[u] /\ held'[u] = held[u]
  <2>1. "r_inject" \in ThreadPoints BY DEF ThreadPoints
  <2> QED BY <1>1, <1>2, <1>3, <1>4, <2>1 DEF ThreadTypes, HoldAt
<1>7. ASSUME NEW u \in Threads \ {t} PROVE ThreadOK(u)'
  BY <1>1, <1>4, <1>6, StillThread
<1>8. ThreadOK(t)'
  <2>1. /\ "r_inject" \in ThreadPoints \ {"user"}
        /\ \A c \in Callbacks : "r_inject" \in InCallback(c) => c \in registered
    BY <1>2 DEF ThreadPoints, InCallback, Callbacks
  <2> QED BY <1>1, <1>2, <1>3, <1>4, <1>6, <2>1, EnterCallback
<1> QED BY <1>5, <1>6, <1>7, <1>8, IInvParts

\* An access to freed memory stops the machine and changes nothing else.
LEMMA BugcheckStep ==
  ASSUME IInv, Bugcheck PROVE IInv'
<1>1. FrameInv /\ ListInv /\ ThreadTypes /\ \A u \in Threads : ThreadOK(u)
  BY IInvParts
<1>2. /\ UNCHANGED <<stage, flags, registered, device, list, infoPool, pathPool,
                     rec, proc, at, held, kapc, uapc, injected, stale>>
      /\ LibInUse' = LibInUse /\ bugcheck'
  BY DEF Bugcheck, driverVars, listVars, threadVars, LibInUse
<1>3. ListInv' /\ FrameInv'
  BY <1>1, <1>2 DEF ListInv, InfosLinkedOnce, OneInfoPerProcess, BlocksInUse,
       PathsOwnedOnce, FrameInv, RegistrationInv, StageFlags, Revoked,
       InfosOfLivingProcesses
<1>4. ThreadTypes'
  BY <1>1, <1>2 DEF ThreadTypes, Bugcheck
<1>5. ASSUME NEW u \in Threads PROVE ThreadOK(u)'
  BY <1>1, <1>2, StillThread
<1> QED BY <1>3, <1>4, <1>5, IInvParts

\* The registry callback injects without leaving the info it found.
LEMMA RegistryInjectStep ==
  ASSUME IInv, NEW t \in Threads, RegistryInject(t) PROVE IInv'
<1>1. FrameInv /\ ListInv /\ ThreadTypes /\ \A u \in Threads : ThreadOK(u)
  BY IInvParts
<1>2. CASE held[t] \notin infoPool
  BY <1>2, BugcheckStep DEF RegistryInject
<1>3. CASE held[t] \in infoPool
  <2>1. ~rec[held[t]].Indirect /\ held[t] \in Infos
    BY <1>1, <1>3 DEF ListInv, BlocksInUse
  <2>2. /\ at[t] = "r_inject" /\ HoldAt(t, "r_mark", held[t])
        /\ InjInject(t, held[t])
        /\ UNCHANGED <<driverVars, listVars, proc, kapc, injected, stale, bugcheck>>
    BY <1>3, <2>1 DEF RegistryInject
  <2>3. /\ UNCHANGED <<stage, flags, registered, device, list, infoPool,
                       pathPool, rec, proc, kapc, injected, stale, bugcheck>>
        /\ LibInUse' = LibInUse
    BY <2>2 DEF driverVars, listVars, LibInUse
  <2>4. ListInv' /\ FrameInv'
    BY <1>1, <2>3 DEF ListInv, InfosLinkedOnce, OneInfoPerProcess, BlocksInUse,
         PathsOwnedOnce, FrameInv, RegistrationInv, StageFlags, Revoked,
         InfosOfLivingProcesses
  <2>5. /\ uapc' \in [Threads -> Seq(UserApc)]
        /\ \A u \in Threads \ {t} : uapc'[u] = uapc[u]
    BY <1>1, <2>1, <2>2, InjectAddsOne DEF ThreadTypes
  <2>6. /\ ThreadTypes' /\ at'[t] = "r_mark" /\ held'[t] = held[t]
        /\ \A u \in Threads \ {t} : at'[u] = at[u] /\ held'[u] = held[u]
    <3>1. "r_mark" \in ThreadPoints BY DEF ThreadPoints
    <3> QED BY <1>1, <2>2, <2>3, <2>5, <3>1 DEF ThreadTypes, HoldAt
  <2>7. ASSUME NEW u \in Threads \ {t} PROVE ThreadOK(u)'
    BY <1>1, <2>3, <2>5, <2>6, StillThread
  <2>8. ThreadOK(t)'
    <3>1. ThreadOK(t) /\ "cm" \in registered
      BY <1>1, <2>2 DEF ThreadOK, InCallback, Callbacks
    <3>2. ASSUME stage # "d_device", t \notin stale, NEW k \in DOMAIN kapc[t]
          PROVE  ContextOK(t, kapc[t][k])'
      <4>1. ContextOK(t, kapc[t][k])
        BY <3>1, <3>2 DEF ThreadOK
      <4> QED BY <2>2, <2>3, <4>1 DEF ContextOK
    <3>3. \A c \in Callbacks : at'[t] \in InCallback(c)' => c \in registered'
      BY <2>3, <2>6, <3>1 DEF InCallback, Callbacks
    <3>4. proc[ProcessOf[t]].alive
      BY <2>2, <3>1 DEF ThreadOK
    <3>5. held[t] # NULL
      BY <2>1
    <3>6. proc[ProcessOf[t]].prot => kapc[t] = <<>>
      BY <3>1 DEF ThreadOK
    <3>7. rec[held[t]].ProcessId = ProcessOf[t] /\ rec[held[t]].PathAllocated
      BY <1>3, <3>1 DEF ThreadOK
    <3> QED BY <1>3, <2>3, <2>6, <3>2, <3>3, <3>4, <3>5, <3>6, <3>7 DEF ThreadOK
  <2> QED BY <2>4, <2>6, <2>7, <2>8, IInvParts
<1> QED BY <1>2, <1>3

\* Both callbacks end with the mark, and leave the info to the list.
LEMMA MarkStep ==
  ASSUME IInv, NEW t \in Threads, CallbackMark(t) PROVE IInv'
<1>1. FrameInv /\ ListInv /\ ThreadTypes /\ \A u \in Threads : ThreadOK(u)
  BY IInvParts
<1>2. CASE held[t] \notin infoPool
  BY <1>2, BugcheckStep DEF CallbackMark
<1>3. CASE held[t] \in infoPool
  <2>1. /\ at[t] \in {"i_mark", "r_mark"} /\ MarkInjected(held[t])
        /\ HoldAt(t, "user", NULL) /\ UNCHANGED <<driverVars, proc, apcVars>>
    BY <1>3 DEF CallbackMark
  <2>2. /\ UNCHANGED <<stage, flags, registered, device, proc, kapc, uapc,
                       injected, stale, bugcheck>>
        /\ LibInUse' = LibInUse /\ UNCHANGED <<list, infoPool, pathPool>>
    BY <2>1 DEF driverVars, apcVars, LibInUse, MarkInjected
  <2>3. /\ rec[held[t]].PathAllocated /\ rec[held[t]].ProcessId = ProcessOf[t]
        /\ ThreadOK(t)
    BY <1>1, <1>3 DEF ThreadOK
  <2>4. registered # {} /\ LibInUse
    <3>1. at[t] \in ThreadPoints /\ at[t] # "user"
      BY <2>1 DEF ThreadPoints
    <3> QED BY <1>1, <3>1, InUseWhenHeld
  <2>5. /\ ListInv' /\ infoPool \subseteq Infos
        /\ rec'[held[t]] = [rec[held[t]] EXCEPT !.IsInjected = TRUE]
        /\ \A j \in Infos \ {held[t]} : rec'[j] = rec[j]
    BY <1>1, <1>3, <2>1, <2>2, <2>3, <2>4, MarkKeepsList DEF ListInv
  <2>6. /\ rec'[held[t]].IsInjected
        /\ \A j \in infoPool : /\ rec'[j].ProcessId = rec[j].ProcessId
                               /\ rec'[j].PathAllocated = rec[j].PathAllocated
                               /\ rec[j].IsInjected => rec'[j].IsInjected
    <3>1. rec[held[t]] \in InfoRec
      BY <1>1, <1>3 DEF ListInv
    <3>2. /\ rec'[held[t]].IsInjected
          /\ rec'[held[t]].ProcessId = rec[held[t]].ProcessId
          /\ rec'[held[t]].PathAllocated = rec[held[t]].PathAllocated
      BY <2>5, <3>1 DEF InfoRec
    <3> QED BY <2>5, <3>2
  <2>7. FrameInv'
    <3>1. proc' \in [Pids -> ProcessRec]
      BY <1>1, <2>2 DEF FrameInv
    <3> QED BY <1>1, <2>1, <2>2, <2>4, <2>5, <2>6, <3>1, FrameStep
  <2>8. /\ ThreadTypes' /\ at'[t] = "user" /\ held'[t] = NULL
        /\ \A u \in Threads \ {t} : at'[u] = at[u] /\ held'[u] = held[u]
    <3>1. "user" \in ThreadPoints BY DEF ThreadPoints
    <3> QED BY <1>1, <2>1, <2>2, <3>1 DEF ThreadTypes, HoldAt
  <2>9. ASSUME NEW u \in Threads \ {t} PROVE ThreadOK(u)'
    BY <1>1, <2>2, <2>6, <2>8, StillThread
  <2>10. ThreadOK(t)'
    <3>1. ASSUME stage # "d_device", t \notin stale, NEW k \in DOMAIN kapc[t]
          PROVE  ContextOK(t, kapc[t][k])'
      <4>1. ContextOK(t, kapc[t][k])
        BY <2>3, <3>1 DEF ThreadOK
      <4> QED BY <2>2, <2>6, <4>1 DEF ContextOK
    <3>2. \A c \in Callbacks : at'[t] \notin InCallback(c)'
      BY <2>8 DEF InCallback
    <3>3. proc[ProcessOf[t]].alive /\ (proc[ProcessOf[t]].prot => kapc[t] = <<>>)
      BY <2>1, <2>3 DEF ThreadOK
    <3>4. NULL \notin infoPool
      BY <2>5
    <3> QED BY <2>2, <2>8, <3>1, <3>2, <3>3, <3>4 DEF ThreadOK
  <2> QED BY <2>5, <2>7, <2>8, <2>9, <2>10, IInvParts
<1> QED BY <1>2, <1>3

\* Delivering an APC moves the injection on, or stops the machine.
LEMMA DeliverStep ==
  ASSUME IInv, NEW t \in Threads, DeliverKernelApc(t) \/ DeliverUserApc(t)
  PROVE  IInv'
<1>1. FrameInv /\ ListInv /\ ThreadTypes /\ \A u \in Threads : ThreadOK(u)
  BY IInvParts
<1>2. CASE Bugcheck
  BY <1>2, BugcheckStep
<1>3. CASE ~Bugcheck
  <2>1. /\ UNCHANGED <<stage, flags, registered, device, list, infoPool,
                       pathPool, rec, proc, at, held, stale, bugcheck>>
        /\ LibInUse' = LibInUse /\ at[t] = "user"
    BY <1>3 DEF DeliverKernelApc, DeliverUserApc, driverVars, listVars,
                threadVars, LibInUse
  <2>2. ListInv' /\ FrameInv'
    BY <1>1, <2>1 DEF ListInv, InfosLinkedOnce, OneInfoPerProcess, BlocksInUse,
         PathsOwnedOnce, FrameInv, RegistrationInv, StageFlags, Revoked,
         InfosOfLivingProcesses
  <2>3. kapc[t] # <<>> \/ uapc[t] # <<>>
    BY DEF DeliverKernelApc, DeliverUserApc
  <2>4. ThreadOK(t) /\ proc[ProcessOf[t]].alive
    BY <1>1, <2>3 DEF ThreadOK
  <2>5. CASE DeliverKernelApc(t)
    <3> DEFINE i == Head(kapc[t])
    <3>1. /\ kapc[t] # <<>> /\ i \in infoPool /\ t \notin stale
          /\ InjInject(t, i)
          /\ kapc' = [kapc EXCEPT ![t] = Tail(kapc[t])]
          /\ UNCHANGED injected
      BY <1>3, <2>5 DEF DeliverKernelApc
    <3>2. /\ Tail(kapc[t]) \in Seq(Infos)
          /\ \A k \in DOMAIN Tail(kapc[t]) :
               \E j \in DOMAIN kapc[t] : Tail(kapc[t])[k] = kapc[t][j]
      <4>1. kapc[t] \in Seq(Infos)
        BY <1>1 DEF ThreadTypes
      <4> QED BY <3>1, <4>1, TailElements
    <3>3. /\ kapc' \in [Threads -> Seq(Infos)] /\ kapc'[t] = Tail(kapc[t])
          /\ \A u \in Threads \ {t} : kapc'[u] = kapc[u]
      BY <1>1, <3>1, <3>2 DEF ThreadTypes
    <3>4. /\ uapc' \in [Threads -> Seq(UserApc)]
          /\ \A u \in Threads \ {t} : uapc'[u] = uapc[u]
      BY <1>1, <3>1, InjectAddsOne DEF ThreadTypes, ListInv
    <3>5. ThreadTypes'
      BY <1>1, <2>1, <3>1, <3>3, <3>4 DEF ThreadTypes
    <3>6. ASSUME NEW u \in Threads \ {t} PROVE ThreadOK(u)'
      BY <1>1, <2>1, <3>3, <3>4, StillThread
    <3>7. ThreadOK(t)'
      <4>1. ASSUME stage # "d_device", NEW k \in DOMAIN kapc'[t]
            PROVE  ContextOK(t, kapc[t][k])'
        <5>1. PICK j \in DOMAIN kapc[t] : kapc'[t][k] = kapc[t][j]
          BY <3>2, <3>3, <4>1
        <5>2. ContextOK(t, kapc[t][j])
          BY <2>4, <3>1, <4>1 DEF ThreadOK
        <5> QED BY <2>1, <5>1, <5>2 DEF ContextOK
      <4>2. /\ ~proc[ProcessOf[t]].prot
            /\ held[t] = NULL /\ NULL \notin infoPool
            /\ \A c \in Callbacks : at[t] \notin InCallback(c)
        <5>1. \A c \in Callbacks : at[t] \notin InCallback(c)
          BY <2>1 DEF InCallback
        <5> QED BY <1>1, <2>1, <2>4, <3>1, <5>1 DEF ThreadOK, ListInv
      <4> QED BY <2>1, <2>4, <4>1, <4>2 DEF ThreadOK, InCallback
    <3> QED BY <2>2, <3>5, <3>6, <3>7, IInvParts
  <2>6. CASE DeliverUserApc(t)
    <3>1. /\ uapc[t] # <<>> /\ UNCHANGED kapc
          /\ uapc' = [uapc EXCEPT ![t] = Tail(uapc[t])]
          /\ injected' \subseteq injected \cup {ProcessOf[t]}
      BY <1>3, <2>6 DEF DeliverUserApc
    <3>2. Tail(uapc[t]) \in Seq(UserApc)
      <4>1. uapc[t] \in Seq(UserApc)
        BY <1>1 DEF ThreadTypes
      <4> QED BY <3>1, <4>1, TailElements
    <3>3. /\ ThreadTypes'
          /\ \A u \in Threads \ {t} : uapc'[u] = uapc[u]
      BY <1>1, <2>1, <3>1, <3>2 DEF ThreadTypes
    <3>4. ASSUME NEW u \in Threads PROVE ThreadOK(u)'
      BY <1>1, <2>1, <2>4, <3>1, <3>3, StillThread
    <3> QED BY <2>2, <3>3, <3>4, IInvParts
  <2> QED BY <2>5, <2>6
<1> QED BY <1>2, <1>3

\* Every step of the specification keeps the inductive invariant.
LEMMA NextKeepsIInv == IInv /\ [Next]_vars => IInv'
<1> SUFFICES ASSUME IInv, [Next]_vars PROVE IInv'
  OBVIOUS
<1>1. CASE DriverEntryImpl
  BY <1>1, EntryStep
<1>2. CASE DriverUnload \/ DriverDestroy
  BY <1>2, DestroyStep
<1>3. CASE \E data \in InjectData, path \in Paths :
             SioctlDeviceControl(data, path)
  BY <1>3, IoctlStep
<1>4. ASSUME NEW p \in Pids, ProcessNext(p) PROVE IInv'
  BY <1>4, CreateStep, ExitStep DEF ProcessNext
<1>5. ASSUME NEW t \in Threads, ThreadNext(t) PROVE IInv'
  BY <1>5, LoadImageStep, OpenKeyStep, RegistryInjectStep, MarkStep, DeliverStep
  DEF ThreadNext
<1>6. CASE UNCHANGED vars
  BY <1>6 DEF vars, driverVars, listVars, threadVars, apcVars, IInv, TypeOK,
       RegistrationInv, StageFlags, Revoked, InfosLinkedOnce,
       OneInfoPerProcess, InfosOfLivingProcesses, BlocksInUse, InCallback,
       PathsOwnedOnce, ApcContextsLinked, HeldInfosOwned, NothingUnderWay,
       LibInUse
<1> QED BY <1>1, <1>2, <1>3, <1>4, <1>5, <1>6 DEF Next

\* IInv holds in every state of every behaviour of the driver, for any number
\* of processes, threads, infos and paths.
THEOREM Invariance == Spec => []IInv
  BY InitIInv, NextKeepsIInv, PTL DEF Spec

\* The variables keep their types, and with them INJ_INJECTION_INFO its shape.
THEOREM TypeCorrect == Spec => []TypeOK
  BY Invariance, PTL DEF IInv

\* The blocks that the driver allocated for processes are exactly the linked
\* ones, and none survives the driver.
THEOREM NoInfoLost == Spec => []InfosLinkedOnce
  BY Invariance, PTL DEF IInv

\* No two infos share a path buffer: none is freed twice.
THEOREM NoPathShared == Spec => []PathsOwnedOnce
  BY Invariance, PTL DEF IInv

\* Until InjDestroy has run, the context of a queued injection is the live info
\* of the process it is queued to, also when threads overlap in the callbacks.
THEOREM ApcsPointToInfos == Spec => []ApcContextsLinked
  BY Invariance, PTL DEF IInv
=============================================================================
