------------------------ MODULE ShadowBufferProofs ------------------------
(***************************************************************************)
(* Proofs about ShadowBuffer: types, and, as long as two stores do not     *)
(* overlap, that what the host wrote is tracked, up to date at a submit    *)
(* and kept, and that a store completes in a few steps of its own; and for *)
(* an application that leaves mapped memory alone while its work runs,     *)
(* that ShadowBuffer implements CoherentMemory.                            *)
(***************************************************************************)
EXTENDS ShadowBuffer, TLAPS

\* Overwrite returns contents, and what they are at each location.
LEMMA OverwriteContents ==
    ASSUME NEW f \in Contents, NEW g \in Contents, NEW L
    PROVE  /\ Overwrite(f, g, L) \in Contents
           /\ \A l \in Loc : Overwrite(f, g, L)[l] = IF l \in L THEN g[l] ELSE f[l]
  BY DEF Overwrite, Contents

\* Fresh pages are contents.
LEMMA ZeroContents == Zero \in Contents /\ \A l \in Loc : Zero[l] = 0
  BY ConstantsAssumption DEF Zero, Contents

\* The type invariant is inductive.
LEMMA TypeStep == TypeOK /\ [Next]_vars => TypeOK'
<1> USE ConstantsAssumption, OverwriteContents, ZeroContents DEF TypeOK, Calls
<1> SUFFICES ASSUME TypeOK, [Next]_vars PROVE TypeOK'
  OBVIOUS
<1> USE DEF vars, tracking, gpuVars, callVars, history
<1>1. CASE TryStore BY <1>1 DEF TryStore, Contents, Stores, NoStore
<1>2. CASE FaultMark BY <1>2 DEF FaultMark, Stores, NoStore
<1>3. CASE FaultFlag BY <1>3 DEF FaultFlag, Stores, NoStore
<1>4. CASE FaultProtect BY <1>4 DEF FaultProtect, Stores, NoStore
<1>5. CASE MapRead
  <2>1. shadow' \in Contents BY <1>5 DEF MapRead
  <2>2. dirty' \subseteq Page /\ writable' \subseteq Page /\ rw' \subseteq Page
    BY <1>5 DEF MapRead
  <2> QED BY <1>5, <2>1, <2>2 DEF MapRead
<1>6. CASE MapFail BY <1>6 DEF MapFail, FreeMapping
<1>7. CASE UnmapWritten
  <2>1. shadow' \in Contents /\ server' \in Contents /\ payload' \in Contents
    BY <1>7 DEF UnmapWritten, FreeMapping
  <2>2. dirty' \subseteq Page /\ writable' \subseteq Page /\ rw' \subseteq Page
    BY <1>7 DEF UnmapWritten, FreeMapping
  <2> QED BY <1>7, <2>1, <2>2 DEF UnmapWritten, FreeMapping
<1>8. CASE FlushRangesWritten BY <1>8 DEF FlushRangesWritten
<1>9. CASE InvalidateRangesFill
  <2>1. shadow' \in Contents /\ payload' \in Contents
    BY <1>9 DEF InvalidateRangesFill, PagesOf
  <2>2. dirty' \subseteq Page /\ writable' \subseteq Page /\ rw' \subseteq Page
    BY <1>9 DEF InvalidateRangesFill, PagesOf
  <2> QED BY <1>9, <2>1, <2>2 DEF InvalidateRangesFill, PagesOf
<1>10. CASE BeginSubmit
  <2>1. call' \in Calls BY <1>10 DEF BeginSubmit, DirtyRanges, PagesOf
  <2>2. batch' \subseteq Page BY <1>10 DEF BeginSubmit, DirtyRanges, PagesOf
  <2> QED BY <1>10, <2>1, <2>2 DEF BeginSubmit, DirtyRanges, PagesOf
<1>11. CASE FlushPrepare BY <1>11 DEF FlushPrepare, Runs
<1>12. CASE FlushProtect BY <1>12 DEF FlushProtect
<1>13. CASE FlushCopy BY <1>13 DEF FlushCopy
<1>14. CASE FlushTransfer
  <2>1. server' \in Contents /\ payload' \in Contents
    <3>1. PICK L : server' = Overwrite(server, payload, L)
      BY <1>14 DEF FlushTransfer
    <3> QED BY <1>14, <3>1 DEF FlushTransfer
  <2>2. call' \in Calls /\ ok' \in BOOLEAN BY <1>14 DEF FlushTransfer
  <2> QED BY <1>14, <2>1, <2>2 DEF FlushTransfer
<1>15. CASE FlushFinalize
  <2>1. dirty' \subseteq Page /\ batch' \subseteq Page
    BY <1>15 DEF FlushFinalize
  <2>2. undelivered' \subseteq Loc BY <1>15 DEF FlushFinalize, LocsOn
  <2>3. owed' \in Contents BY <1>15 DEF FlushFinalize
  <2>4. call' \in Calls /\ ok' \in BOOLEAN BY <1>15 DEF FlushFinalize
  <2> QED BY <1>15, <2>1, <2>2, <2>3, <2>4 DEF FlushFinalize
<1>16. CASE InvalidateOpen BY <1>16 DEF InvalidateOpen
<1>17. CASE InvalidateRead
  <2>1. payload' \in Contents BY <1>17 DEF InvalidateRead
  <2>2. call' \in Calls /\ ok' \in BOOLEAN BY <1>17 DEF InvalidateRead
  <2> QED BY <1>17, <2>1, <2>2 DEF InvalidateRead
<1>18. CASE InvalidateFill BY <1>18 DEF InvalidateFill
<1>19. CASE InvalidateClose BY <1>19 DEF InvalidateClose
<1>20. CASE InvalidateClear
  <2>1. batch' \subseteq Page BY <1>20 DEF InvalidateClear
  <2>2. gpu' \subseteq Loc /\ busy' \subseteq Loc BY <1>20 DEF InvalidateClear
  <2>3. waited' \subseteq Loc BY <1>20 DEF InvalidateClear
  <2>4. call' \in Calls /\ ok' \in BOOLEAN BY <1>20 DEF InvalidateClear
  <2> QED BY <1>20, <2>1, <2>2, <2>3, <2>4 DEF InvalidateClear
<1>21. ASSUME NEW l \in Loc, BeginStore(l) PROVE TypeOK'
  BY <1>21 DEF BeginStore, StampsLeft, Accessible, Stores, NoStore
<1>22. ASSUME NEW l \in Loc, HostRead(l) PROVE TypeOK'
  BY <1>22 DEF HostRead, Contents
<1>23. ASSUME NEW l \in Loc, GpuWrite(l) PROVE TypeOK'
  BY <1>23 DEF GpuWrite, StampsLeft, Contents
<1>24. ASSUME NEW m \in Mem, MapMemory(m) PROVE TypeOK'
  BY <1>24 DEF MapMemory, PagesOf
<1>25. ASSUME NEW m \in Mem, UnmapMemory(m) PROVE TypeOK'
  BY <1>25 DEF UnmapMemory
<1>26. ASSUME NEW m \in Mem, FlushRanges(m) PROVE TypeOK'
  BY <1>26 DEF FlushRanges
<1>27. ASSUME NEW m \in Mem, InvalidateRanges(m) PROVE TypeOK'
  BY <1>27 DEF InvalidateRanges
<1>28. ASSUME NEW W \in SUBSET Loc, Submit(W) PROVE TypeOK'
  <2>1. gpu' \subseteq Loc /\ busy' \subseteq Loc BY <1>28 DEF Submit
  <2>2. waited' \subseteq Loc BY <1>28 DEF Submit
  <2> QED BY <1>28, <2>1, <2>2 DEF Submit
<1>29. ASSUME NEW W \in SUBSET busy, BeginWait(W) PROVE TypeOK'
  <2>1. batch' \subseteq Page BY <1>29 DEF BeginWait, ReadBackRanges, PagesOf
  <2>2. gpu' \subseteq Loc /\ busy' \subseteq Loc
    BY <1>29 DEF BeginWait, ReadBackRanges, PagesOf
  <2>3. waited' \subseteq Loc BY <1>29 DEF BeginWait, ReadBackRanges, PagesOf
  <2>4. call' \in Calls BY <1>29 DEF BeginWait, ReadBackRanges, PagesOf
  <2> QED BY <1>29, <2>1, <2>2, <2>3, <2>4
    DEF BeginWait, ReadBackRanges, PagesOf
<1>30. CASE UNCHANGED vars BY <1>30
<1>31. ASSUME NEW W \in SUBSET busy, Poll(W) PROVE TypeOK'
  <2>1. busy' \subseteq Loc BY <1>31 DEF Poll
  <2> QED BY <1>31, <2>1 DEF Poll
<1> QED
  BY <1>1, <1>2, <1>3, <1>4, <1>5, <1>6, <1>7, <1>8, <1>9, <1>10, <1>11,
     <1>12, <1>13, <1>14, <1>15, <1>16, <1>17, <1>18, <1>19, <1>20, <1>21,
     <1>22, <1>23, <1>24, <1>25, <1>26, <1>27, <1>28, <1>29, <1>30, <1>31
     DEF Next, Application, Mapping, Ranges, Flushing, Waiting

\* Every variable keeps its type, for every application, allocation and page.
THEOREM TypeCorrect == Spec => []TypeOK
<1>1. Init => TypeOK
  BY ConstantsAssumption DEF Init, TypeOK, Calls, Stores, NoStore, Contents
<1>2. QED BY <1>1, TypeStep, PTL DEF Spec

\* The inductive invariant holds initially.
LEMMA TrackingInit == Init => TrackingInv
  BY ConstantsAssumption
  DEF Init, TrackingInv, CallSets, StampsBound, StoreAlone, OpenPagesTracked,
      FlushRangesClosed, WaitRangesClean, MessageContents, NoShadowUnmapped,
      SubmitQuiet, HostWritesTracked, PagesOf, LocsOn, LocsOf, FlushCalls,
      WaitCalls, OpenedByCall

\* Every step preserves it when calls and stores do not overlap.
LEMMA TrackingStep ==
    ASSUME ~Overlap, TypeOK, TrackingInv, [Next]_vars
    PROVE  TrackingInv'
<1>1. TypeOK' BY TypeStep
<1>2. \A k \in Loc :
        /\ shadow[k] \in Nat /\ server[k] \in Nat /\ payload[k] \in Nat
        /\ shadow'[k] \in Nat /\ server'[k] \in Nat /\ payload'[k] \in Nat
        /\ PageOf[k] \in Page
  BY <1>1, ConstantsAssumption DEF TypeOK, Contents
<1>3. stamp \in Nat /\ stamp' \in Nat BY <1>1, ConstantsAssumption DEF TypeOK
<1>4. /\ shadow \in Contents /\ server \in Contents /\ payload \in Contents
      /\ dirty \subseteq Page /\ batch \subseteq Page /\ store \in Stores
  BY DEF TypeOK
<1> USE <1>2, <1>3, <1>4, OverwriteContents, ZeroContents
    DEF TrackingInv, vars, tracking, gpuVars, callVars, history,
        PagesOf, LocsOn, LocsOf, WaitCalls, FlushCalls, OpenedByCall, NoStore
<1>11. CASE TryStore
  <2>a. store # NoStore /\ store.loc \in Loc BY <1>11 DEF TryStore, Stores
  <2>b. call = "idle" /\ MemOf[PageOf[store.loc]] \in mapped
    BY <1>11, <2>a DEF TryStore, StoreAlone
  <2>c. \A k \in Loc :
           \/ shadow'[k] = shadow[k]
           \/ k = store.loc /\ PageOf[k] \in rw /\ shadow'[k] = stamp + 1
    <3>1. CASE PageOf[store.loc] \in rw
      <4>1. shadow' = [shadow EXCEPT ![store.loc] = stamp + 1]
        BY <1>11, <3>1 DEF TryStore
      <4> QED BY ONLY <4>1, <2>a, <3>1, shadow \in Contents DEF Contents
    <3>2. CASE PageOf[store.loc] \notin rw
      <4>1. UNCHANGED shadow BY <1>11, <3>2 DEF TryStore
      <4> QED BY <4>1
    <3> QED BY <3>1, <3>2
  <2>1. CallSets' BY <1>11, <2>a, <2>b, <2>c DEF TryStore, CallSets
  <2>2. StampsBound' BY <1>11, <2>a, <2>b, <2>c DEF TryStore, StampsBound
  <2>3. StoreAlone'
    <3>1. CASE store' = NoStore BY <3>1 DEF StoreAlone
    <3>2. CASE store' = [store EXCEPT !.step = "mark"] /\ UNCHANGED <<mapped, call>>
      <4>1. store'.step = "mark" /\ store'.loc = store.loc
        BY <2>a, <3>2 DEF Stores
      <4> QED BY <2>b, <3>2, <4>1 DEF StoreAlone
    <3> QED BY <1>11, <3>1, <3>2 DEF TryStore
  <2>4. OpenPagesTracked'
    BY <1>11, <2>a, <2>b, <2>c DEF TryStore, OpenPagesTracked
  <2>5. FlushRangesClosed'
    BY <1>11, <2>a, <2>b, <2>c DEF TryStore, FlushRangesClosed
  <2>6. WaitRangesClean'
    BY <1>11, <2>a, <2>b, <2>c DEF TryStore, WaitRangesClean
  <2>7. MessageContents'
    BY <1>11, <2>a, <2>b, <2>c DEF TryStore, MessageContents
  <2>8. NoShadowUnmapped'
    BY <1>11, <2>a, <2>b, <2>c DEF TryStore, NoShadowUnmapped
  <2>9. SubmitQuiet' BY <1>11, <2>a, <2>b, <2>c DEF TryStore, SubmitQuiet
  <2>10. HostWritesTracked'
    <3> SUFFICES ASSUME NEW k \in Loc, MemOf[PageOf[k]] \in mapped',
                        k \notin undelivered',
                        shadow'[k] > server'[k]
                 PROVE  PageOf[k] \in dirty'
      BY DEF HostWritesTracked
    <3>1. UNCHANGED <<mapped, server, dirty, undelivered>>
      BY <1>11 DEF TryStore
    <3>2. CASE shadow'[k] = shadow[k] BY <3>1, <3>2 DEF HostWritesTracked
    <3>3. CASE PageOf[k] \in rw BY <3>1, <3>3, <2>b DEF OpenPagesTracked
    <3> QED BY <2>c, <3>2, <3>3
  <2> QED BY <2>1, <2>2, <2>3, <2>4, <2>5, <2>6, <2>7, <2>8, <2>9, <2>10
<1>12. CASE FaultMark
  <2>a. store # NoStore /\ store.loc \in Loc BY <1>12 DEF FaultMark, Stores
  <2>b. call = "idle" /\ MemOf[PageOf[store.loc]] \in mapped
    BY <1>12, <2>a DEF FaultMark, StoreAlone
  <2>1. CallSets' BY <1>12, <2>a, <2>b DEF FaultMark, CallSets
  <2>2. StampsBound' BY <1>12, <2>a, <2>b DEF FaultMark, StampsBound
  <2>3. StoreAlone' BY <1>12, <2>a, <2>b DEF FaultMark, StoreAlone
  <2>4. OpenPagesTracked' BY <1>12, <2>a, <2>b DEF FaultMark, OpenPagesTracked
  <2>5. FlushRangesClosed'
    BY <1>12, <2>a, <2>b DEF FaultMark, FlushRangesClosed
  <2>6. WaitRangesClean' BY <1>12, <2>a, <2>b DEF FaultMark, WaitRangesClean
  <2>7. MessageContents' BY <1>12, <2>a, <2>b DEF FaultMark, MessageContents
  <2>8. NoShadowUnmapped' BY <1>12, <2>a, <2>b DEF FaultMark, NoShadowUnmapped
  <2>9. SubmitQuiet' BY <1>12, <2>a, <2>b DEF FaultMark, SubmitQuiet
  <2>10. HostWritesTracked'
    BY <1>12, <2>a, <2>b DEF FaultMark, HostWritesTracked
  <2> QED BY <2>1, <2>2, <2>3, <2>4, <2>5, <2>6, <2>7, <2>8, <2>9, <2>10
<1>13. CASE FaultFlag
  <2>a. store # NoStore /\ store.loc \in Loc BY <1>13 DEF FaultFlag, Stores
  <2>b. call = "idle" /\ MemOf[PageOf[store.loc]] \in mapped
    BY <1>13, <2>a DEF FaultFlag, StoreAlone
  <2>1. CallSets' BY <1>13, <2>a, <2>b DEF FaultFlag, CallSets
  <2>2. StampsBound' BY <1>13, <2>a, <2>b DEF FaultFlag, StampsBound
  <2>3. StoreAlone' BY <1>13, <2>a, <2>b DEF FaultFlag, StoreAlone
  <2>4. OpenPagesTracked' BY <1>13, <2>a, <2>b DEF FaultFlag, OpenPagesTracked
  <2>5. FlushRangesClosed'
    BY <1>13, <2>a, <2>b DEF FaultFlag, FlushRangesClosed
  <2>6. WaitRangesClean' BY <1>13, <2>a, <2>b DEF FaultFlag, WaitRangesClean
  <2>7. MessageContents' BY <1>13, <2>a, <2>b DEF FaultFlag, MessageContents
  <2>8. NoShadowUnmapped' BY <1>13, <2>a, <2>b DEF FaultFlag, NoShadowUnmapped
  <2>9. SubmitQuiet' BY <1>13, <2>a, <2>b DEF FaultFlag, SubmitQuiet
  <2>10. HostWritesTracked'
    BY <1>13, <2>a, <2>b DEF FaultFlag, HostWritesTracked
  <2> QED BY <2>1, <2>2, <2>3, <2>4, <2>5, <2>6, <2>7, <2>8, <2>9, <2>10
<1>14. CASE FaultProtect
  <2>a. store # NoStore /\ store.loc \in Loc BY <1>14 DEF FaultProtect, Stores
  <2>b. call = "idle" /\ MemOf[PageOf[store.loc]] \in mapped
    BY <1>14, <2>a DEF FaultProtect, StoreAlone
  <2>1. CallSets' BY <1>14, <2>a, <2>b DEF FaultProtect, CallSets
  <2>2. StampsBound' BY <1>14, <2>a, <2>b DEF FaultProtect, StampsBound
  <2>3. StoreAlone' BY <1>14, <2>a, <2>b DEF FaultProtect, StoreAlone
  <2>4. OpenPagesTracked'
    <3>1. /\ rw' = rw \cup {PageOf[store.loc]} /\ UNCHANGED <<mapped, dirty, writable, call>>
      BY <1>14 DEF FaultProtect
    <3>2. PageOf[store.loc] \in dirty /\ PageOf[store.loc] \in writable
      BY <1>14, <2>a DEF FaultProtect, StoreAlone
    <3> QED BY <3>1, <3>2, <2>b DEF OpenPagesTracked
  <2>5. FlushRangesClosed'
    BY <1>14, <2>a, <2>b DEF FaultProtect, FlushRangesClosed
  <2>6. WaitRangesClean'
    BY <1>14, <2>a, <2>b DEF FaultProtect, WaitRangesClean
  <2>7. MessageContents'
    BY <1>14, <2>a, <2>b DEF FaultProtect, MessageContents
  <2>8. NoShadowUnmapped'
    BY <1>14, <2>a, <2>b DEF FaultProtect, NoShadowUnmapped
  <2>9. SubmitQuiet' BY <1>14, <2>a, <2>b DEF FaultProtect, SubmitQuiet
  <2>10. HostWritesTracked'
    BY <1>14, <2>a, <2>b DEF FaultProtect, HostWritesTracked
  <2> QED BY <2>1, <2>2, <2>3, <2>4, <2>5, <2>6, <2>7, <2>8, <2>9, <2>10
<1>15. CASE MapRead
  <2>a. \A k \in Loc : shadow'[k] = IF MemOf[PageOf[k]] = target THEN server[k] ELSE shadow[k]
    BY <1>15 DEF MapRead
  <2>b. target \in mapped BY <1>15, <2>a DEF MapRead, MessageContents
  <2>1. CallSets' BY <1>15, <2>a, <2>b DEF MapRead, CallSets
  <2>2. StampsBound' BY <1>15, <2>a, <2>b DEF MapRead, StampsBound
  <2>3. StoreAlone' BY <1>15, <2>a, <2>b DEF MapRead, StoreAlone
  <2>4. OpenPagesTracked' BY <1>15, <2>a, <2>b DEF MapRead, OpenPagesTracked
  <2>5. FlushRangesClosed' BY <1>15, <2>a, <2>b DEF MapRead, FlushRangesClosed
  <2>6. WaitRangesClean' BY <1>15, <2>a, <2>b DEF MapRead, WaitRangesClean
  <2>7. MessageContents' BY <1>15, <2>a, <2>b DEF MapRead, MessageContents
  <2>8. NoShadowUnmapped' BY <1>15, <2>a, <2>b DEF MapRead, NoShadowUnmapped
  <2>9. SubmitQuiet' BY <1>15, <2>a, <2>b DEF MapRead, SubmitQuiet
  <2>10. HostWritesTracked'
    BY <1>15, <2>a, <2>b DEF MapRead, HostWritesTracked
  <2> QED BY <2>1, <2>2, <2>3, <2>4, <2>5, <2>6, <2>7, <2>8, <2>9, <2>10
<1>16. CASE MapFail
  <2>a. \A k \in Loc : shadow'[k] = IF MemOf[PageOf[k]] = target THEN 0 ELSE shadow[k]
    BY <1>16 DEF MapFail, FreeMapping
  <2>1. CallSets' BY <1>16, <2>a DEF MapFail, FreeMapping, CallSets
  <2>2. StampsBound' BY <1>16, <2>a DEF MapFail, FreeMapping, StampsBound
  <2>3. StoreAlone' BY <1>16, <2>a DEF MapFail, FreeMapping, StoreAlone
  <2>4. OpenPagesTracked'
    BY <1>16, <2>a DEF MapFail, FreeMapping, OpenPagesTracked
  <2>5. FlushRangesClosed'
    BY <1>16, <2>a DEF MapFail, FreeMapping, FlushRangesClosed
  <2>6. WaitRangesClean'
    BY <1>16, <2>a DEF MapFail, FreeMapping, WaitRangesClean
  <2>7. MessageContents'
    BY <1>16, <2>a DEF MapFail, FreeMapping, MessageContents
  <2>8. NoShadowUnmapped'
    BY <1>16, <2>a DEF MapFail, FreeMapping, NoShadowUnmapped
  <2>9. SubmitQuiet' BY <1>16, <2>a DEF MapFail, FreeMapping, SubmitQuiet
  <2>10. HostWritesTracked'
    BY <1>16, <2>a DEF MapFail, FreeMapping, HostWritesTracked
  <2> QED BY <2>1, <2>2, <2>3, <2>4, <2>5, <2>6, <2>7, <2>8, <2>9, <2>10
<1>17. CASE UnmapWritten
  <2>a. \A k \in Loc : shadow'[k] = IF MemOf[PageOf[k]] = target THEN 0 ELSE shadow[k]
    BY <1>17 DEF UnmapWritten, FreeMapping
  <2>b. \/ UNCHANGED server
           \/ \A k \in Loc : server'[k] = IF MemOf[PageOf[k]] = target THEN payload[k] ELSE server[k]
    BY <1>17, <2>a DEF UnmapWritten, FreeMapping
  <2>1. CallSets' BY <1>17, <2>a, <2>b DEF UnmapWritten, FreeMapping, CallSets
  <2>2. StampsBound'
    BY <1>17, <2>a, <2>b DEF UnmapWritten, FreeMapping, StampsBound
  <2>3. StoreAlone'
    BY <1>17, <2>a, <2>b DEF UnmapWritten, FreeMapping, StoreAlone
  <2>4. OpenPagesTracked'
    BY <1>17, <2>a, <2>b DEF UnmapWritten, FreeMapping, OpenPagesTracked
  <2>5. FlushRangesClosed'
    BY <1>17, <2>a, <2>b DEF UnmapWritten, FreeMapping, FlushRangesClosed
  <2>6. WaitRangesClean'
    BY <1>17, <2>a, <2>b DEF UnmapWritten, FreeMapping, WaitRangesClean
  <2>7. MessageContents'
    BY <1>17, <2>a, <2>b DEF UnmapWritten, FreeMapping, MessageContents
  <2>8. NoShadowUnmapped'
    BY <1>17, <2>a, <2>b DEF UnmapWritten, FreeMapping, NoShadowUnmapped
  <2>9. SubmitQuiet'
    BY <1>17, <2>a, <2>b DEF UnmapWritten, FreeMapping, SubmitQuiet
  <2>10. HostWritesTracked'
    BY <1>17, <2>a, <2>b DEF UnmapWritten, FreeMapping, HostWritesTracked
  <2> QED BY <2>1, <2>2, <2>3, <2>4, <2>5, <2>6, <2>7, <2>8, <2>9, <2>10
<1>18. CASE FlushRangesWritten
  <2>a. \/ UNCHANGED server
           \/ \A k \in Loc : server'[k] = IF MemOf[PageOf[k]] = target THEN payload[k] ELSE server[k]
    BY <1>18 DEF FlushRangesWritten
  <2>1. CallSets' BY <1>18, <2>a DEF FlushRangesWritten, CallSets
  <2>2. StampsBound' BY <1>18, <2>a DEF FlushRangesWritten, StampsBound
  <2>3. StoreAlone' BY <1>18, <2>a DEF FlushRangesWritten, StoreAlone
  <2>4. OpenPagesTracked'
    BY <1>18, <2>a DEF FlushRangesWritten, OpenPagesTracked
  <2>5. FlushRangesClosed'
    BY <1>18, <2>a DEF FlushRangesWritten, FlushRangesClosed
  <2>6. WaitRangesClean'
    BY <1>18, <2>a DEF FlushRangesWritten, WaitRangesClean
  <2>7. MessageContents'
    BY <1>18, <2>a DEF FlushRangesWritten, MessageContents
  <2>8. NoShadowUnmapped'
    BY <1>18, <2>a DEF FlushRangesWritten, NoShadowUnmapped
  <2>9. SubmitQuiet' BY <1>18, <2>a DEF FlushRangesWritten, SubmitQuiet
  <2>10. HostWritesTracked'
    <3> SUFFICES ASSUME NEW k \in Loc, MemOf[PageOf[k]] \in mapped',
                        k \notin undelivered',
                        shadow'[k] > server'[k]
                 PROVE  PageOf[k] \in dirty'
      BY DEF HostWritesTracked
    <3>1. UNCHANGED <<mapped, shadow, dirty, undelivered>> /\ call = "flushranges"
      BY <1>18 DEF FlushRangesWritten
    <3>2. server'[k] >= server[k] \/ server'[k] = shadow[k]
      BY <2>a, <3>1 DEF MessageContents
    <3> QED BY <3>1, <3>2 DEF HostWritesTracked
  <2> QED BY <2>1, <2>2, <2>3, <2>4, <2>5, <2>6, <2>7, <2>8, <2>9, <2>10
<1>19. CASE InvalidateRangesFill
  <2>a. \/ UNCHANGED shadow
           \/ \A k \in Loc : shadow'[k] = IF MemOf[PageOf[k]] = target THEN payload[k] ELSE shadow[k]
    BY <1>19 DEF InvalidateRangesFill
  <2>b. target \in mapped
    BY <1>19, <2>a DEF InvalidateRangesFill, MessageContents
  <2>1. CallSets' BY <1>19, <2>a, <2>b DEF InvalidateRangesFill, CallSets
  <2>2. StampsBound'
    BY <1>19, <2>a, <2>b DEF InvalidateRangesFill, StampsBound
  <2>3. StoreAlone' BY <1>19, <2>a, <2>b DEF InvalidateRangesFill, StoreAlone
  <2>4. OpenPagesTracked'
    BY <1>19, <2>a, <2>b DEF InvalidateRangesFill, OpenPagesTracked
  <2>5. FlushRangesClosed'
    BY <1>19, <2>a, <2>b DEF InvalidateRangesFill, FlushRangesClosed
  <2>6. WaitRangesClean'
    BY <1>19, <2>a, <2>b DEF InvalidateRangesFill, WaitRangesClean
  <2>7. MessageContents'
    BY <1>19, <2>a, <2>b DEF InvalidateRangesFill, MessageContents
  <2>8. NoShadowUnmapped'
    BY <1>19, <2>a, <2>b DEF InvalidateRangesFill, NoShadowUnmapped
  <2>9. SubmitQuiet'
    BY <1>19, <2>a, <2>b DEF InvalidateRangesFill, SubmitQuiet
  <2>10. HostWritesTracked'
    <3> SUFFICES ASSUME NEW k \in Loc, MemOf[PageOf[k]] \in mapped',
                        k \notin undelivered',
                        shadow'[k] > server'[k]
                 PROVE  PageOf[k] \in dirty'
      BY DEF HostWritesTracked
    <3>1. /\ UNCHANGED <<mapped, server, undelivered>> /\ dirty \subseteq dirty'
         /\ call = "reread"
      BY <1>19 DEF InvalidateRangesFill
    <3>2. shadow'[k] = shadow[k] \/ shadow'[k] <= server[k]
      BY <2>a, <3>1 DEF MessageContents
    <3> QED BY <3>1, <3>2 DEF HostWritesTracked
  <2> QED BY <2>1, <2>2, <2>3, <2>4, <2>5, <2>6, <2>7, <2>8, <2>9, <2>10
<1>20. CASE BeginSubmit
  <2>1. CallSets' BY <1>20
    DEF BeginSubmit, DirtyRanges, CanCall, Overlap, CallSets
  <2>2. StampsBound' BY <1>20
    DEF BeginSubmit, DirtyRanges, CanCall, Overlap, StampsBound
  <2>3. StoreAlone' BY <1>20
    DEF BeginSubmit, DirtyRanges, CanCall, Overlap, StoreAlone
  <2>4. OpenPagesTracked'
    BY <1>20 DEF BeginSubmit, DirtyRanges, CanCall, Overlap, OpenPagesTracked
  <2>5. FlushRangesClosed'
    BY <1>20 DEF BeginSubmit, DirtyRanges, CanCall, Overlap, FlushRangesClosed
  <2>6. WaitRangesClean'
    BY <1>20 DEF BeginSubmit, DirtyRanges, CanCall, Overlap, WaitRangesClean
  <2>7. MessageContents'
    BY <1>20 DEF BeginSubmit, DirtyRanges, CanCall, Overlap, MessageContents
  <2>8. NoShadowUnmapped'
    BY <1>20 DEF BeginSubmit, DirtyRanges, CanCall, Overlap, NoShadowUnmapped
  <2>9. SubmitQuiet' BY <1>20
    DEF BeginSubmit, DirtyRanges, CanCall, Overlap, SubmitQuiet
  <2>10. HostWritesTracked'
    BY <1>20 DEF BeginSubmit, DirtyRanges, CanCall, Overlap, HostWritesTracked
  <2> QED BY <2>1, <2>2, <2>3, <2>4, <2>5, <2>6, <2>7, <2>8, <2>9, <2>10
<1>21. CASE FlushPrepare
  <2>1. CallSets' BY <1>21 DEF FlushPrepare, Runs, CallSets
  <2>2. StampsBound' BY <1>21 DEF FlushPrepare, Runs, StampsBound
  <2>3. StoreAlone' BY <1>21 DEF FlushPrepare, Runs, StoreAlone
  <2>4. OpenPagesTracked' BY <1>21 DEF FlushPrepare, Runs, OpenPagesTracked
  <2>5. FlushRangesClosed' BY <1>21 DEF FlushPrepare, Runs, FlushRangesClosed
  <2>6. WaitRangesClean' BY <1>21 DEF FlushPrepare, Runs, WaitRangesClean
  <2>7. MessageContents' BY <1>21 DEF FlushPrepare, Runs, MessageContents
  <2>8. NoShadowUnmapped' BY <1>21 DEF FlushPrepare, Runs, NoShadowUnmapped
  <2>9. SubmitQuiet' BY <1>21 DEF FlushPrepare, Runs, SubmitQuiet
  <2>10. HostWritesTracked' BY <1>21 DEF FlushPrepare, Runs, HostWritesTracked
  <2> QED BY <2>1, <2>2, <2>3, <2>4, <2>5, <2>6, <2>7, <2>8, <2>9, <2>10
<1>22. CASE FlushProtect
  <2>1. CallSets' BY <1>22 DEF FlushProtect, CallSets
  <2>2. StampsBound' BY <1>22 DEF FlushProtect, StampsBound
  <2>3. StoreAlone' BY <1>22 DEF FlushProtect, StoreAlone
  <2>4. OpenPagesTracked' BY <1>22 DEF FlushProtect, OpenPagesTracked
  <2>5. FlushRangesClosed'
    <3>1. /\ call = "protect" /\ call' = "copy" /\ rw' = rw \ unprot
          /\ UNCHANGED <<mapped, dirty, shadow, batch, todo, run, payload>>
      BY <1>22 DEF FlushProtect
    <3>2. /\ batch = dirty \cap PagesOf(mapped) /\ (batch \ todo) \cap rw = {}
          /\ run \cap writable = {} /\ run \subseteq batch
          /\ \A k \in LocsOn(batch \ todo) : payload[k] = shadow[k]
      BY <3>1 DEF FlushRangesClosed, CallSets
    <3>3. run \cap rw' = {} BY <3>1, <3>2 DEF OpenPagesTracked
    <3> QED BY <3>1, <3>2, <3>3 DEF FlushRangesClosed
  <2>6. WaitRangesClean' BY <1>22 DEF FlushProtect, WaitRangesClean
  <2>7. MessageContents' BY <1>22 DEF FlushProtect, MessageContents
  <2>8. NoShadowUnmapped' BY <1>22 DEF FlushProtect, NoShadowUnmapped
  <2>9. SubmitQuiet' BY <1>22 DEF FlushProtect, SubmitQuiet
  <2>10. HostWritesTracked' BY <1>22 DEF FlushProtect, HostWritesTracked
  <2> QED BY <2>1, <2>2, <2>3, <2>4, <2>5, <2>6, <2>7, <2>8, <2>9, <2>10
<1>23. CASE FlushCopy
  <2>a. \A k \in Loc : payload'[k] = IF PageOf[k] \in run THEN shadow[k] ELSE payload[k]
    BY <1>23 DEF FlushCopy
  <2>1. CallSets' BY <1>23, <2>a DEF FlushCopy, CallSets
  <2>2. StampsBound' BY <1>23, <2>a DEF FlushCopy, StampsBound
  <2>3. StoreAlone' BY <1>23, <2>a DEF FlushCopy, StoreAlone
  <2>4. OpenPagesTracked' BY <1>23, <2>a DEF FlushCopy, OpenPagesTracked
  <2>5. FlushRangesClosed' BY <1>23, <2>a DEF FlushCopy, FlushRangesClosed
  <2>6. WaitRangesClean' BY <1>23, <2>a DEF FlushCopy, WaitRangesClean
  <2>7. MessageContents' BY <1>23, <2>a DEF FlushCopy, MessageContents
  <2>8. NoShadowUnmapped' BY <1>23, <2>a DEF FlushCopy, NoShadowUnmapped
  <2>9. SubmitQuiet' BY <1>23, <2>a DEF FlushCopy, SubmitQuiet
  <2>10. HostWritesTracked' BY <1>23, <2>a DEF FlushCopy, HostWritesTracked
  <2> QED BY <2>1, <2>2, <2>3, <2>4, <2>5, <2>6, <2>7, <2>8, <2>9, <2>10
<1>24. CASE FlushTransfer
  <2>a. \A k \in Loc :
           \/ server'[k] = server[k]
           \/ PageOf[k] \in batch /\ server'[k] = payload[k]
    <3>1. PICK done \in SUBSET Runs(batch) :
             \/ server' = Overwrite(server, payload, LocsOn(batch))
             \/ server' = Overwrite(server, payload, LocsOn(UNION done))
      BY <1>24 DEF FlushTransfer
    <3>2. UNION done \subseteq batch BY DEF Runs
    <3>3. CASE server' = Overwrite(server, payload, LocsOn(batch))
      <4>1. \A k \in Loc : server'[k] = IF k \in LocsOn(batch) THEN payload[k] ELSE server[k]
        BY <3>3
      <4> QED BY <4>1
    <3>4. CASE server' = Overwrite(server, payload, LocsOn(UNION done))
      <4>1. \A k \in Loc : server'[k] = IF k \in LocsOn(UNION done) THEN payload[k] ELSE server[k]
        BY <3>4
      <4> QED BY <3>2, <4>1
    <3> QED BY <3>1, <3>3, <3>4
  <2>b. ok' => \A k \in Loc : PageOf[k] \in batch => server'[k] = payload[k]
    BY <1>24, <2>a DEF FlushTransfer
  <2>c. todo = {} BY <1>24, <2>a, <2>b DEF FlushTransfer, FlushRangesClosed
  <2>1. CallSets' BY <1>24, <2>a, <2>b, <2>c DEF FlushTransfer, CallSets
  <2>2. StampsBound' BY <1>24, <2>a, <2>b, <2>c DEF FlushTransfer, StampsBound
  <2>3. StoreAlone' BY <1>24, <2>a, <2>b, <2>c DEF FlushTransfer, StoreAlone
  <2>4. OpenPagesTracked'
    BY <1>24, <2>a, <2>b, <2>c DEF FlushTransfer, OpenPagesTracked
  <2>5. FlushRangesClosed'
    BY <1>24, <2>a, <2>b, <2>c DEF FlushTransfer, FlushRangesClosed
  <2>6. WaitRangesClean'
    BY <1>24, <2>a, <2>b, <2>c DEF FlushTransfer, WaitRangesClean
  <2>7. MessageContents'
    BY <1>24, <2>a, <2>b, <2>c DEF FlushTransfer, MessageContents
  <2>8. NoShadowUnmapped'
    BY <1>24, <2>a, <2>b, <2>c DEF FlushTransfer, NoShadowUnmapped
  <2>9. SubmitQuiet' BY <1>24, <2>a, <2>b, <2>c DEF FlushTransfer, SubmitQuiet
  <2>10. HostWritesTracked'
    <3> SUFFICES ASSUME NEW k \in Loc, MemOf[PageOf[k]] \in mapped',
                        k \notin undelivered',
                        shadow'[k] > server'[k]
                 PROVE  PageOf[k] \in dirty'
      BY DEF HostWritesTracked
    <3>1. /\ UNCHANGED <<mapped, shadow, dirty, undelivered>>
         /\ call = "send"
      BY <1>24 DEF FlushTransfer
    <3>2. server'[k] = server[k] \/ server'[k] = shadow[k]
      BY <2>a, <2>c, <3>1 DEF FlushRangesClosed
    <3> QED BY <3>1, <3>2 DEF HostWritesTracked
  <2> QED BY <2>1, <2>2, <2>3, <2>4, <2>5, <2>6, <2>7, <2>8, <2>9, <2>10
<1>25. CASE FlushFinalize
  <2>a. batch \cap rw = {} /\ batch = dirty \cap PagesOf(mapped)
    BY <1>25 DEF FlushFinalize, FlushRangesClosed, CallSets
  <2>1. CallSets' BY <1>25, <2>a DEF FlushFinalize, CallSets
  <2>2. StampsBound' BY <1>25, <2>a DEF FlushFinalize, StampsBound
  <2>3. StoreAlone' BY <1>25, <2>a DEF FlushFinalize, StoreAlone
  <2>4. OpenPagesTracked' BY <1>25, <2>a DEF FlushFinalize, OpenPagesTracked
  <2>5. FlushRangesClosed' BY <1>25, <2>a DEF FlushFinalize, FlushRangesClosed
  <2>6. WaitRangesClean' BY <1>25, <2>a DEF FlushFinalize, WaitRangesClean
  <2>7. MessageContents' BY <1>25, <2>a DEF FlushFinalize, MessageContents
  <2>8. NoShadowUnmapped' BY <1>25, <2>a DEF FlushFinalize, NoShadowUnmapped
  <2>9. SubmitQuiet' BY <1>25, <2>a DEF FlushFinalize, SubmitQuiet
  <2>10. HostWritesTracked'
    <3> SUFFICES ASSUME NEW k \in Loc, MemOf[PageOf[k]] \in mapped',
                        k \notin undelivered',
                        shadow'[k] > server'[k]
                 PROVE  PageOf[k] \in dirty'
      BY DEF HostWritesTracked
    <3>1. /\ UNCHANGED <<mapped, shadow, server>> /\ dirty' = dirty \ batch
         /\ call = "finalize"
      BY <1>25 DEF FlushFinalize
    <3>2. CASE ok
      BY <3>1, <3>2, <2>a, <1>25
         DEF FlushFinalize, HostWritesTracked, FlushRangesClosed
    <3>3. CASE ~ok
      BY <3>1, <3>3, <2>a, <1>25 DEF FlushFinalize, HostWritesTracked
    <3> QED BY <3>2, <3>3
  <2> QED BY <2>1, <2>2, <2>3, <2>4, <2>5, <2>6, <2>7, <2>8, <2>9, <2>10
<1>26. CASE InvalidateOpen
  <2>1. CallSets' BY <1>26 DEF InvalidateOpen, CallSets
  <2>2. StampsBound' BY <1>26 DEF InvalidateOpen, StampsBound
  <2>3. StoreAlone' BY <1>26 DEF InvalidateOpen, StoreAlone
  <2>4. OpenPagesTracked' BY <1>26 DEF InvalidateOpen, OpenPagesTracked
  <2>5. FlushRangesClosed' BY <1>26 DEF InvalidateOpen, FlushRangesClosed
  <2>6. WaitRangesClean' BY <1>26 DEF InvalidateOpen, WaitRangesClean
  <2>7. MessageContents' BY <1>26 DEF InvalidateOpen, MessageContents
  <2>8. NoShadowUnmapped' BY <1>26 DEF InvalidateOpen, NoShadowUnmapped
  <2>9. SubmitQuiet' BY <1>26 DEF InvalidateOpen, SubmitQuiet
  <2>10. HostWritesTracked' BY <1>26 DEF InvalidateOpen, HostWritesTracked
  <2> QED BY <2>1, <2>2, <2>3, <2>4, <2>5, <2>6, <2>7, <2>8, <2>9, <2>10
<1>27. CASE InvalidateRead
  <2>a. \/ call' = "close"
           \/ /\ call' = "fill"
              /\ \A k \in Loc : PageOf[k] \in batch => payload'[k] = server[k]
    BY <1>27 DEF InvalidateRead
  <2>1. CallSets' BY <1>27, <2>a DEF InvalidateRead, CallSets
  <2>2. StampsBound' BY <1>27, <2>a DEF InvalidateRead, StampsBound
  <2>3. StoreAlone' BY <1>27, <2>a DEF InvalidateRead, StoreAlone
  <2>4. OpenPagesTracked' BY <1>27, <2>a DEF InvalidateRead, OpenPagesTracked
  <2>5. FlushRangesClosed'
    BY <1>27, <2>a DEF InvalidateRead, FlushRangesClosed
  <2>6. WaitRangesClean'
    <3>1. /\ call = "read" /\ call' \in {"fill", "close"}
          /\ UNCHANGED <<mapped, dirty, rw, shadow, server, batch, undelivered>>
      BY <1>27 DEF InvalidateRead
    <3>2. batch \subseteq PagesOf(mapped) /\ batch \cap dirty = {}
      BY <3>1 DEF WaitRangesClean
    <3>3. \A k \in LocsOn(batch) : server[k] >= shadow[k] \/ k \in undelivered
      BY <3>2 DEF HostWritesTracked
    <3> QED BY <2>a, <3>1, <3>2, <3>3 DEF WaitRangesClean
  <2>7. MessageContents' BY <1>27, <2>a DEF InvalidateRead, MessageContents
  <2>8. NoShadowUnmapped' BY <1>27, <2>a DEF InvalidateRead, NoShadowUnmapped
  <2>9. SubmitQuiet' BY <1>27, <2>a DEF InvalidateRead, SubmitQuiet
  <2>10. HostWritesTracked'
    BY <1>27, <2>a DEF InvalidateRead, HostWritesTracked
  <2> QED BY <2>1, <2>2, <2>3, <2>4, <2>5, <2>6, <2>7, <2>8, <2>9, <2>10
<1>28. CASE InvalidateFill
  <2>a. \A k \in Loc : shadow'[k] = IF PageOf[k] \in batch THEN payload[k] ELSE shadow[k]
    BY <1>28 DEF InvalidateFill
  <2>1. CallSets' BY <1>28, <2>a DEF InvalidateFill, CallSets
  <2>2. StampsBound' BY <1>28, <2>a DEF InvalidateFill, StampsBound
  <2>3. StoreAlone' BY <1>28, <2>a DEF InvalidateFill, StoreAlone
  <2>4. OpenPagesTracked' BY <1>28, <2>a DEF InvalidateFill, OpenPagesTracked
  <2>5. FlushRangesClosed'
    BY <1>28, <2>a DEF InvalidateFill, FlushRangesClosed
  <2>6. WaitRangesClean' BY <1>28, <2>a DEF InvalidateFill, WaitRangesClean
  <2>7. MessageContents' BY <1>28, <2>a DEF InvalidateFill, MessageContents
  <2>8. NoShadowUnmapped'
    <3>1. call = "fill" /\ call' = "close" /\ UNCHANGED <<mapped, batch>>
      BY <1>28 DEF InvalidateFill
    <3>2. batch \subseteq PagesOf(mapped) BY <3>1 DEF WaitRangesClean
    <3> QED BY <2>a, <3>1, <3>2 DEF NoShadowUnmapped
  <2>9. SubmitQuiet' BY <1>28, <2>a DEF InvalidateFill, SubmitQuiet
  <2>10. HostWritesTracked'
    <3> SUFFICES ASSUME NEW k \in Loc, MemOf[PageOf[k]] \in mapped',
                        k \notin undelivered',
                        shadow'[k] > server'[k]
                 PROVE  PageOf[k] \in dirty'
      BY DEF HostWritesTracked
    <3>1. UNCHANGED <<mapped, server, dirty, undelivered>> /\ call = "fill"
      BY <1>28 DEF InvalidateFill
    <3>2. shadow'[k] = shadow[k] \/ shadow'[k] <= server[k]
      BY <2>a, <3>1 DEF WaitRangesClean
    <3> QED BY <3>1, <3>2 DEF HostWritesTracked
  <2> QED BY <2>1, <2>2, <2>3, <2>4, <2>5, <2>6, <2>7, <2>8, <2>9, <2>10
<1>29. CASE InvalidateClose
  <2>1. CallSets' BY <1>29 DEF InvalidateClose, CallSets
  <2>2. StampsBound' BY <1>29 DEF InvalidateClose, StampsBound
  <2>3. StoreAlone' BY <1>29 DEF InvalidateClose, StoreAlone
  <2>4. OpenPagesTracked' BY <1>29 DEF InvalidateClose, OpenPagesTracked
  <2>5. FlushRangesClosed' BY <1>29 DEF InvalidateClose, FlushRangesClosed
  <2>6. WaitRangesClean' BY <1>29 DEF InvalidateClose, WaitRangesClean
  <2>7. MessageContents' BY <1>29 DEF InvalidateClose, MessageContents
  <2>8. NoShadowUnmapped' BY <1>29 DEF InvalidateClose, NoShadowUnmapped
  <2>9. SubmitQuiet' BY <1>29 DEF InvalidateClose, SubmitQuiet
  <2>10. HostWritesTracked' BY <1>29 DEF InvalidateClose, HostWritesTracked
  <2> QED BY <2>1, <2>2, <2>3, <2>4, <2>5, <2>6, <2>7, <2>8, <2>9, <2>10
<1>30. CASE InvalidateClear
  <2>a. batch \cap rw = {} BY <1>30 DEF InvalidateClear, WaitRangesClean
  <2>1. CallSets' BY <1>30, <2>a DEF InvalidateClear, CallSets
  <2>2. StampsBound' BY <1>30, <2>a DEF InvalidateClear, StampsBound
  <2>3. StoreAlone' BY <1>30, <2>a DEF InvalidateClear, StoreAlone
  <2>4. OpenPagesTracked' BY <1>30, <2>a DEF InvalidateClear, OpenPagesTracked
  <2>5. FlushRangesClosed'
    BY <1>30, <2>a DEF InvalidateClear, FlushRangesClosed
  <2>6. WaitRangesClean' BY <1>30, <2>a DEF InvalidateClear, WaitRangesClean
  <2>7. MessageContents' BY <1>30, <2>a DEF InvalidateClear, MessageContents
  <2>8. NoShadowUnmapped' BY <1>30, <2>a DEF InvalidateClear, NoShadowUnmapped
  <2>9. SubmitQuiet' BY <1>30, <2>a DEF InvalidateClear, SubmitQuiet
  <2>10. HostWritesTracked'
    BY <1>30, <2>a DEF InvalidateClear, HostWritesTracked
  <2> QED BY <2>1, <2>2, <2>3, <2>4, <2>5, <2>6, <2>7, <2>8, <2>9, <2>10
<1>31. ASSUME NEW l \in Loc, BeginStore(l) PROVE TrackingInv'
  <2>1. CallSets'
    BY <1>31 DEF BeginStore, Accessible, Overlap, StampsLeft, CallSets
  <2>2. StampsBound'
    BY <1>31 DEF BeginStore, Accessible, Overlap, StampsLeft, StampsBound
  <2>3. StoreAlone'
    BY <1>31 DEF BeginStore, Accessible, Overlap, StampsLeft, StoreAlone
  <2>4. OpenPagesTracked'
    BY <1>31 DEF BeginStore, Accessible, Overlap, StampsLeft, OpenPagesTracked
  <2>5. FlushRangesClosed'
    BY <1>31 DEF BeginStore, Accessible, Overlap, StampsLeft, FlushRangesClosed
  <2>6. WaitRangesClean'
    BY <1>31 DEF BeginStore, Accessible, Overlap, StampsLeft, WaitRangesClean
  <2>7. MessageContents'
    BY <1>31 DEF BeginStore, Accessible, Overlap, StampsLeft, MessageContents
  <2>8. NoShadowUnmapped'
    BY <1>31 DEF BeginStore, Accessible, Overlap, StampsLeft, NoShadowUnmapped
  <2>9. SubmitQuiet'
    BY <1>31 DEF BeginStore, Accessible, Overlap, StampsLeft, SubmitQuiet
  <2>10. HostWritesTracked'
    BY <1>31 DEF BeginStore, Accessible, Overlap, StampsLeft, HostWritesTracked
  <2> QED BY <2>1, <2>2, <2>3, <2>4, <2>5, <2>6, <2>7, <2>8, <2>9, <2>10
<1>32. ASSUME NEW l \in Loc, HostRead(l) PROVE TrackingInv'
  <2>1. CallSets' BY <1>32 DEF HostRead, CallSets
  <2>2. StampsBound' BY <1>32 DEF HostRead, StampsBound
  <2>3. StoreAlone' BY <1>32 DEF HostRead, StoreAlone
  <2>4. OpenPagesTracked' BY <1>32 DEF HostRead, OpenPagesTracked
  <2>5. FlushRangesClosed' BY <1>32 DEF HostRead, FlushRangesClosed
  <2>6. WaitRangesClean' BY <1>32 DEF HostRead, WaitRangesClean
  <2>7. MessageContents' BY <1>32 DEF HostRead, MessageContents
  <2>8. NoShadowUnmapped' BY <1>32 DEF HostRead, NoShadowUnmapped
  <2>9. SubmitQuiet' BY <1>32 DEF HostRead, SubmitQuiet
  <2>10. HostWritesTracked' BY <1>32 DEF HostRead, HostWritesTracked
  <2> QED BY <2>1, <2>2, <2>3, <2>4, <2>5, <2>6, <2>7, <2>8, <2>9, <2>10
<1>33. ASSUME NEW l \in Loc, GpuWrite(l) PROVE TrackingInv'
  <2>a. \A k \in Loc : server'[k] >= server[k] /\ server'[k] <= stamp'
    BY <1>33 DEF GpuWrite, StampsBound, Contents
  <2>1. CallSets' BY <1>33, <2>a DEF GpuWrite, CallSets
  <2>2. StampsBound' BY <1>33, <2>a DEF GpuWrite, StampsBound
  <2>3. StoreAlone' BY <1>33, <2>a DEF GpuWrite, StoreAlone
  <2>4. OpenPagesTracked' BY <1>33, <2>a DEF GpuWrite, OpenPagesTracked
  <2>5. FlushRangesClosed' BY <1>33, <2>a DEF GpuWrite, FlushRangesClosed
  <2>6. WaitRangesClean' BY <1>33, <2>a DEF GpuWrite, WaitRangesClean
  <2>7. MessageContents' BY <1>33, <2>a DEF GpuWrite, MessageContents
  <2>8. NoShadowUnmapped' BY <1>33, <2>a DEF GpuWrite, NoShadowUnmapped
  <2>9. SubmitQuiet' BY <1>33, <2>a DEF GpuWrite, SubmitQuiet
  <2>10. HostWritesTracked' BY <1>33, <2>a DEF GpuWrite, HostWritesTracked
  <2> QED BY <2>1, <2>2, <2>3, <2>4, <2>5, <2>6, <2>7, <2>8, <2>9, <2>10
<1>34. ASSUME NEW m \in Mem, MapMemory(m) PROVE TrackingInv'
  <2>a. call = "idle" BY <1>34 DEF MapMemory, CanCall, Overlap
  <2>1. CallSets' BY <1>34, <2>a DEF MapMemory, CanCall, Overlap, CallSets
  <2>2. StampsBound'
    BY <1>34, <2>a DEF MapMemory, CanCall, Overlap, StampsBound
  <2>3. StoreAlone' BY <1>34, <2>a DEF MapMemory, CanCall, Overlap, StoreAlone
  <2>4. OpenPagesTracked'
    BY <1>34, <2>a DEF MapMemory, CanCall, Overlap, OpenPagesTracked
  <2>5. FlushRangesClosed'
    BY <1>34, <2>a DEF MapMemory, CanCall, Overlap, FlushRangesClosed
  <2>6. WaitRangesClean'
    BY <1>34, <2>a DEF MapMemory, CanCall, Overlap, WaitRangesClean
  <2>7. MessageContents'
    BY <1>34, <2>a DEF MapMemory, CanCall, Overlap, MessageContents
  <2>8. NoShadowUnmapped'
    BY <1>34, <2>a DEF MapMemory, CanCall, Overlap, NoShadowUnmapped
  <2>9. SubmitQuiet'
    BY <1>34, <2>a DEF MapMemory, CanCall, Overlap, SubmitQuiet
  <2>10. HostWritesTracked'
    <3> SUFFICES ASSUME NEW k \in Loc, MemOf[PageOf[k]] \in mapped',
                        k \notin undelivered',
                        shadow'[k] > server'[k]
                 PROVE  PageOf[k] \in dirty'
      BY DEF HostWritesTracked
    <3>1. /\ UNCHANGED <<shadow, server, dirty, undelivered>>
         /\ mapped' = mapped \cup {m}
      BY <1>34 DEF MapMemory
    <3>2. shadow[k] # 0 BY <3>1
    <3>3. MemOf[PageOf[k]] \in mapped BY <2>a, <3>2 DEF NoShadowUnmapped
    <3> QED BY <3>1, <3>3 DEF HostWritesTracked
  <2> QED BY <2>1, <2>2, <2>3, <2>4, <2>5, <2>6, <2>7, <2>8, <2>9, <2>10
<1>35. ASSUME NEW m \in Mem, UnmapMemory(m) PROVE TrackingInv'
  <2>1. CallSets' BY <1>35 DEF UnmapMemory, CanCall, Overlap, CallSets
  <2>2. StampsBound' BY <1>35 DEF UnmapMemory, CanCall, Overlap, StampsBound
  <2>3. StoreAlone' BY <1>35 DEF UnmapMemory, CanCall, Overlap, StoreAlone
  <2>4. OpenPagesTracked'
    BY <1>35 DEF UnmapMemory, CanCall, Overlap, OpenPagesTracked
  <2>5. FlushRangesClosed'
    BY <1>35 DEF UnmapMemory, CanCall, Overlap, FlushRangesClosed
  <2>6. WaitRangesClean'
    BY <1>35 DEF UnmapMemory, CanCall, Overlap, WaitRangesClean
  <2>7. MessageContents'
    BY <1>35 DEF UnmapMemory, CanCall, Overlap, MessageContents
  <2>8. NoShadowUnmapped'
    BY <1>35 DEF UnmapMemory, CanCall, Overlap, NoShadowUnmapped
  <2>9. SubmitQuiet' BY <1>35 DEF UnmapMemory, CanCall, Overlap, SubmitQuiet
  <2>10. HostWritesTracked'
    BY <1>35 DEF UnmapMemory, CanCall, Overlap, HostWritesTracked
  <2> QED BY <2>1, <2>2, <2>3, <2>4, <2>5, <2>6, <2>7, <2>8, <2>9, <2>10
<1>36. ASSUME NEW m \in Mem, FlushRanges(m) PROVE TrackingInv'
  <2>1. CallSets' BY <1>36 DEF FlushRanges, CanCall, Overlap, CallSets
  <2>2. StampsBound' BY <1>36 DEF FlushRanges, CanCall, Overlap, StampsBound
  <2>3. StoreAlone' BY <1>36 DEF FlushRanges, CanCall, Overlap, StoreAlone
  <2>4. OpenPagesTracked'
    BY <1>36 DEF FlushRanges, CanCall, Overlap, OpenPagesTracked
  <2>5. FlushRangesClosed'
    BY <1>36 DEF FlushRanges, CanCall, Overlap, FlushRangesClosed
  <2>6. WaitRangesClean'
    BY <1>36 DEF FlushRanges, CanCall, Overlap, WaitRangesClean
  <2>7. MessageContents'
    BY <1>36 DEF FlushRanges, CanCall, Overlap, MessageContents
  <2>8. NoShadowUnmapped'
    BY <1>36 DEF FlushRanges, CanCall, Overlap, NoShadowUnmapped
  <2>9. SubmitQuiet' BY <1>36 DEF FlushRanges, CanCall, Overlap, SubmitQuiet
  <2>10. HostWritesTracked'
    BY <1>36 DEF FlushRanges, CanCall, Overlap, HostWritesTracked
  <2> QED BY <2>1, <2>2, <2>3, <2>4, <2>5, <2>6, <2>7, <2>8, <2>9, <2>10
<1>37. ASSUME NEW m \in Mem, InvalidateRanges(m) PROVE TrackingInv'
  <2>1. CallSets' BY <1>37 DEF InvalidateRanges, CanCall, Overlap, CallSets
  <2>2. StampsBound'
    BY <1>37 DEF InvalidateRanges, CanCall, Overlap, StampsBound
  <2>3. StoreAlone'
    BY <1>37 DEF InvalidateRanges, CanCall, Overlap, StoreAlone
  <2>4. OpenPagesTracked'
    BY <1>37 DEF InvalidateRanges, CanCall, Overlap, OpenPagesTracked
  <2>5. FlushRangesClosed'
    BY <1>37 DEF InvalidateRanges, CanCall, Overlap, FlushRangesClosed
  <2>6. WaitRangesClean'
    BY <1>37 DEF InvalidateRanges, CanCall, Overlap, WaitRangesClean
  <2>7. MessageContents'
    BY <1>37 DEF InvalidateRanges, CanCall, Overlap, MessageContents
  <2>8. NoShadowUnmapped'
    BY <1>37 DEF InvalidateRanges, CanCall, Overlap, NoShadowUnmapped
  <2>9. SubmitQuiet'
    BY <1>37 DEF InvalidateRanges, CanCall, Overlap, SubmitQuiet
  <2>10. HostWritesTracked'
    BY <1>37 DEF InvalidateRanges, CanCall, Overlap, HostWritesTracked
  <2> QED BY <2>1, <2>2, <2>3, <2>4, <2>5, <2>6, <2>7, <2>8, <2>9, <2>10
<1>38. ASSUME NEW W \in SUBSET Loc, Submit(W) PROVE TrackingInv'
  <2>1. CallSets' BY <1>38 DEF Submit, CallSets
  <2>2. StampsBound' BY <1>38 DEF Submit, StampsBound
  <2>3. StoreAlone' BY <1>38 DEF Submit, StoreAlone
  <2>4. OpenPagesTracked' BY <1>38 DEF Submit, OpenPagesTracked
  <2>5. FlushRangesClosed' BY <1>38 DEF Submit, FlushRangesClosed
  <2>6. WaitRangesClean' BY <1>38 DEF Submit, WaitRangesClean
  <2>7. MessageContents' BY <1>38 DEF Submit, MessageContents
  <2>8. NoShadowUnmapped' BY <1>38 DEF Submit, NoShadowUnmapped
  <2>9. SubmitQuiet' BY <1>38 DEF Submit, SubmitQuiet
  <2>10. HostWritesTracked' BY <1>38 DEF Submit, HostWritesTracked
  <2> QED BY <2>1, <2>2, <2>3, <2>4, <2>5, <2>6, <2>7, <2>8, <2>9, <2>10
<1>39. ASSUME NEW W \in SUBSET busy, BeginWait(W) PROVE TrackingInv'
  <2>1. CallSets' BY <1>39
    DEF BeginWait, ReadBackRanges, CanCall, Overlap, CallSets
  <2>2. StampsBound' BY <1>39
    DEF BeginWait, ReadBackRanges, CanCall, Overlap, StampsBound
  <2>3. StoreAlone' BY <1>39
    DEF BeginWait, ReadBackRanges, CanCall, Overlap, StoreAlone
  <2>4. OpenPagesTracked'
    BY <1>39 DEF BeginWait, ReadBackRanges, CanCall, Overlap, OpenPagesTracked
  <2>5. FlushRangesClosed'
    BY <1>39 DEF BeginWait, ReadBackRanges, CanCall, Overlap, FlushRangesClosed
  <2>6. WaitRangesClean'
    BY <1>39 DEF BeginWait, ReadBackRanges, CanCall, Overlap, WaitRangesClean
  <2>7. MessageContents'
    BY <1>39 DEF BeginWait, ReadBackRanges, CanCall, Overlap, MessageContents
  <2>8. NoShadowUnmapped'
    BY <1>39 DEF BeginWait, ReadBackRanges, CanCall, Overlap, NoShadowUnmapped
  <2>9. SubmitQuiet' BY <1>39
    DEF BeginWait, ReadBackRanges, CanCall, Overlap, SubmitQuiet
  <2>10. HostWritesTracked'
    BY <1>39 DEF BeginWait, ReadBackRanges, CanCall, Overlap, HostWritesTracked
  <2> QED BY <2>1, <2>2, <2>3, <2>4, <2>5, <2>6, <2>7, <2>8, <2>9, <2>10
<1>41. ASSUME NEW W \in SUBSET busy, Poll(W) PROVE TrackingInv'
  <2>1. CallSets' BY <1>41 DEF Poll, CanCall, CallSets
  <2>2. StampsBound' BY <1>41 DEF Poll, CanCall, StampsBound
  <2>3. StoreAlone' BY <1>41 DEF Poll, CanCall, StoreAlone
  <2>4. OpenPagesTracked' BY <1>41 DEF Poll, CanCall, OpenPagesTracked
  <2>5. FlushRangesClosed' BY <1>41 DEF Poll, CanCall, FlushRangesClosed
  <2>6. WaitRangesClean' BY <1>41 DEF Poll, CanCall, WaitRangesClean
  <2>7. MessageContents' BY <1>41 DEF Poll, CanCall, MessageContents
  <2>8. NoShadowUnmapped' BY <1>41 DEF Poll, CanCall, NoShadowUnmapped
  <2>9. SubmitQuiet' BY <1>41 DEF Poll, CanCall, SubmitQuiet
  <2>10. HostWritesTracked' BY <1>41 DEF Poll, CanCall, HostWritesTracked
  <2> QED BY <2>1, <2>2, <2>3, <2>4, <2>5, <2>6, <2>7, <2>8, <2>9, <2>10
<1>40. CASE UNCHANGED vars
  BY <1>40 DEF CallSets, StampsBound, StoreAlone, OpenPagesTracked,
      FlushRangesClosed, WaitRangesClean, MessageContents, NoShadowUnmapped,
      SubmitQuiet, HostWritesTracked
<1> QED BY <1>40, <1>41,
     <1>11, <1>12, <1>13, <1>14, <1>15, <1>16, <1>17, <1>18,
     <1>19, <1>20, <1>21, <1>22, <1>23, <1>24, <1>25, <1>26,
     <1>27, <1>28, <1>29, <1>30, <1>31, <1>32, <1>33, <1>34,
     <1>35, <1>36, <1>37, <1>38, <1>39
     DEF Next, Application, Mapping, Ranges, Flushing, Waiting

-----------------------------------------------------------------------------
\* The inductive invariant holds in every run of an application whose stores
\* and calls do not overlap.
THEOREM TrackingHolds == ~Overlap => (Spec => [](TypeOK /\ TrackingInv))
<1> SUFFICES ASSUME ~Overlap PROVE Spec => [](TypeOK /\ TrackingInv)
  OBVIOUS
<1>1. TypeOK /\ TrackingInv /\ [Next]_vars => TrackingInv' BY TrackingStep
<1> QED BY <1>1, TrackingInit, TypeCorrect, PTL DEF Spec

\* No store of the application is lost between the fault handler that marks its
\* page and the flush that sends it, whatever fails and whatever the GPU does.
THEOREM HostWritesAreTracked == ~Overlap => (Spec => []HostWritesTracked)
<1> SUFFICES ASSUME ~Overlap PROVE Spec => []HostWritesTracked
  OBVIOUS
<1>1. TrackingInv => HostWritesTracked BY DEF TrackingInv
<1> QED BY <1>1, TrackingHolds, PTL

\* Work handed over by vkQueueSubmit finds on the server every store made
\* before the call, those of a failed flush excepted.
THEOREM SubmitIsUpToDate == ~Overlap => (Spec => []SubmitSeesHostWrites)
<1> SUFFICES ASSUME ~Overlap PROVE Spec => []SubmitSeesHostWrites
  OBVIOUS
<1>1. TypeOK /\ TrackingInv => SubmitSeesHostWrites
  <2> SUFFICES ASSUME TypeOK, TrackingInv, call = "submit",
                      NEW k \in LocsOf(mapped) \ undelivered
               PROVE  server[k] >= owed[k]
    BY DEF SubmitSeesHostWrites
  <2>1. k \in Loc /\ shadow[k] \in Nat /\ server[k] \in Nat
    BY ConstantsAssumption DEF TypeOK, Contents, LocsOf, LocsOn
  <2>2. PageOf[k] \in PagesOf(mapped) BY DEF LocsOf, LocsOn
  <2>3. owed = shadow /\ PageOf[k] \notin dirty
    BY <2>2 DEF TrackingInv, SubmitQuiet
  <2>4. ~(shadow[k] > server[k]) BY <2>3 DEF TrackingInv, HostWritesTracked
  <2> QED BY <2>1, <2>3, <2>4
<1> QED BY <1>1, TrackingHolds, PTL

\* No read-back replaces a store of the application by older contents, when the
\* application does not itself ask for one on coherent memory.
THEOREM HostWritesAreKept ==
    ~Overlap /\ "reread" \notin AppMay => (Spec => HostWritesKept)
<1> SUFFICES ASSUME ~Overlap, "reread" \notin AppMay
             PROVE  Spec => HostWritesKept
  OBVIOUS
<1> DEFINE Kept == \A l \in LocsOf(mapped \cap mapped') \ undelivered :
                        shadow'[l] >= shadow[l]
<1>1. TypeOK /\ TrackingInv /\ [Next]_vars => [Kept]_vars
  <2> SUFFICES ASSUME TypeOK, TrackingInv, Next,
                      NEW k \in LocsOf(mapped \cap mapped') \ undelivered
               PROVE  shadow'[k] >= shadow[k]
    OBVIOUS
  <2>1. /\ k \in Loc /\ shadow[k] \in 0..MaxStamp /\ server[k] \in 0..MaxStamp
        /\ payload[k] \in 0..MaxStamp /\ stamp \in Nat
        /\ shadow \in Contents /\ server \in Contents /\ payload \in Contents
        /\ MaxStamp \in Nat
    BY ConstantsAssumption DEF TypeOK, Contents, LocsOf, LocsOn
  <2>2. PageOf[k] \in PagesOf(mapped) /\ PageOf[k] \in PagesOf(mapped')
    BY DEF LocsOf, LocsOn, PagesOf
  <2>3. CASE UNCHANGED shadow BY <2>1, <2>3
  <2>4. CASE TryStore
    <3>1. \/ UNCHANGED shadow
          \/ shadow' = [shadow EXCEPT ![store.loc] = stamp + 1]
      BY <2>4 DEF TryStore
    <3>2. shadow[k] <= stamp BY <2>1 DEF TrackingInv, StampsBound
    <3>3. CASE shadow' = [shadow EXCEPT ![store.loc] = stamp + 1]
      BY ONLY <2>1, <3>2, <3>3 DEF Contents
    <3> QED BY <3>1, <3>3, <2>3
  <2>5. CASE MapRead
    <3>1. shadow' = Overwrite(shadow, server, LocsOf({target})) /\ call = "map"
      BY <2>5 DEF MapRead
    <3>2. CASE k \in LocsOf({target})
      <4>1. MemOf[PageOf[k]] = target BY <3>2 DEF LocsOf, LocsOn, PagesOf
      <4>2. shadow[k] = 0
        BY <2>1, <3>1, <4>1 DEF TrackingInv, NoShadowUnmapped
      <4>3. shadow'[k] = server[k] BY <2>1, <3>1, <3>2, OverwriteContents
      <4> QED BY <2>1, <4>2, <4>3
    <3>3. CASE k \notin LocsOf({target})
      <4>1. shadow'[k] = shadow[k] BY <2>1, <3>1, <3>3, OverwriteContents
      <4> QED BY <2>1, <4>1
    <3> QED BY <3>2, <3>3
  <2>6. CASE MapFail \/ UnmapWritten
    <3>1. target \notin mapped'
      BY <2>6 DEF MapFail, UnmapWritten, TrackingInv, MessageContents
    <3>2. shadow' = Overwrite(shadow, Zero, LocsOf({target}))
      BY <2>6 DEF MapFail, UnmapWritten, FreeMapping
    <3>3. k \notin LocsOf({target}) BY <2>2, <3>1 DEF LocsOf, LocsOn, PagesOf
    <3>4. shadow'[k] = shadow[k]
      BY <2>1, <3>2, <3>3, OverwriteContents, ZeroContents
    <3> QED BY <2>1, <3>4
  <2>7. CASE InvalidateRangesFill
    BY <2>7 DEF InvalidateRangesFill, TrackingInv, MessageContents
  <2>8. CASE InvalidateFill
    <3>1. /\ call = "fill"
          /\ shadow' = Overwrite(shadow, payload, LocsOn(batch))
      BY <2>8 DEF InvalidateFill
    <3>2. k \in LocsOn(batch) => payload[k] >= shadow[k]
      BY <3>1 DEF TrackingInv, WaitRangesClean, WaitCalls
    <3>3. shadow'[k] = IF k \in LocsOn(batch) THEN payload[k] ELSE shadow[k]
      BY <2>1, <3>1, OverwriteContents
    <3> QED BY <2>1, <3>2, <3>3
  <2>9. UNCHANGED shadow \/ TryStore \/ MapRead \/ MapFail \/ UnmapWritten
           \/ InvalidateRangesFill \/ InvalidateFill
    BY DEF Next, Application, Mapping, Ranges, Flushing, Waiting, BeginStore,
           HostRead, FaultMark, FaultFlag, FaultProtect, GpuWrite, MapMemory,
           UnmapMemory, FlushRanges, FlushRangesWritten, InvalidateRanges,
           BeginSubmit, FlushPrepare, FlushProtect, FlushCopy, FlushTransfer,
           FlushFinalize, Submit, BeginWait, Poll, InvalidateOpen,
           InvalidateRead,
           InvalidateClose, InvalidateClear
  <2> QED BY <2>3, <2>4, <2>5, <2>6, <2>7, <2>8, <2>9
<1> QED BY <1>1, TrackingHolds, PTL DEF HostWritesKept, Spec

-----------------------------------------------------------------------------
(* ShadowBuffer implements CoherentMemory for an application that leaves   *)
(* mapped memory alone while its work runs.                                *)

\* The invariant holds initially.
LEMMA CoherenceInit == Disciplined /\ Init => CoherenceInv
  BY ConstantsAssumption
  DEF Disciplined, Init, CoherenceInv, QuietWhileBusy, AwaitedIsRead,
      CurrentUnlessBusy, WaitCalls, FlushCalls, PagesOf, LocsOn, LocsOf

\* Every step of a disciplined application preserves it.
LEMMA CoherenceStep ==
    ASSUME Disciplined, TypeOK, TrackingInv, CoherenceInv, [Next]_vars
    PROVE  CoherenceInv'
<1>1. TypeOK' BY TypeStep
<1>2. \A k \in Loc :
        /\ shadow[k] \in Nat /\ server[k] \in Nat /\ payload[k] \in Nat
        /\ shadow'[k] \in Nat /\ server'[k] \in Nat /\ payload'[k] \in Nat
        /\ PageOf[k] \in Page
  BY <1>1, ConstantsAssumption DEF TypeOK, Contents
<1>3. stamp \in Nat /\ stamp' \in Nat BY <1>1, ConstantsAssumption DEF TypeOK
<1>4. /\ shadow \in Contents /\ server \in Contents /\ payload \in Contents
      /\ dirty \subseteq Page /\ batch \subseteq Page /\ store \in Stores
      /\ mapped \subseteq Mem /\ MemOf \in [Page -> Mem]
  BY ConstantsAssumption DEF TypeOK
<1>5. AppMay = {} /\ ~TransfersFail /\ AutoInvalidate = Mem BY DEF Disciplined
<1> USE <1>2, <1>3, <1>4, OverwriteContents, ZeroContents
    DEF CoherenceInv, vars, tracking, gpuVars, callVars, history,
        PagesOf, LocsOn, LocsOf, WaitCalls, FlushCalls, NoStore
<1>11. CASE TryStore
  <2>1. store # NoStore /\ store.loc \in Loc BY <1>11 DEF TryStore, Stores
  <2>2. call = "idle" BY <1>11, <2>1 DEF TryStore, StoreAlone, TrackingInv
  <2>3. \A k \in Loc : shadow'[k] >= shadow[k]
    <3>1. CASE PageOf[store.loc] \in rw
      <4>1. shadow' = [shadow EXCEPT ![store.loc] = stamp + 1]
        BY <1>11, <3>1 DEF TryStore
      <4>2. shadow[store.loc] <= stamp BY <2>1 DEF TrackingInv, StampsBound
      <4> QED BY ONLY <4>1, <4>2, <1>2, <1>3, shadow \in Contents DEF Contents
    <3>2. CASE PageOf[store.loc] \notin rw
      <4>1. UNCHANGED shadow BY <1>11, <3>2 DEF TryStore
      <4> QED BY <4>1
    <3> QED BY <3>1, <3>2
  <2>4. QuietWhileBusy'
    BY <1>11, <2>1, <2>2 DEF TryStore, QuietWhileBusy
  <2>5. AwaitedIsRead' BY <1>11, <2>2 DEF TryStore, AwaitedIsRead
  <2>6. CurrentUnlessBusy'
    <3>1. UNCHANGED <<mapped, server, busy, call, target, payload>>
      BY <1>11 DEF TryStore
    <3> QED BY <3>1, <2>2, <2>3 DEF CurrentUnlessBusy
  <2> QED BY <2>4, <2>5, <2>6
<1>12. CASE FaultMark
  <2>1. store # NoStore /\ store.loc \in Loc BY <1>12 DEF FaultMark, Stores
  <2>2. call = "idle" /\ MemOf[PageOf[store.loc]] \in mapped
    BY <1>12, <2>1 DEF FaultMark, StoreAlone, TrackingInv
  <2>3. QuietWhileBusy'
    BY <1>12, <2>1, <2>2 DEF FaultMark, QuietWhileBusy
  <2>4. AwaitedIsRead' BY <1>12, <2>2 DEF FaultMark, AwaitedIsRead
  <2>5. CurrentUnlessBusy' BY <1>12, <2>2 DEF FaultMark, CurrentUnlessBusy
  <2> QED BY <2>3, <2>4, <2>5
<1>13. CASE FaultFlag
  <2>1. QuietWhileBusy' BY <1>13 DEF FaultFlag, QuietWhileBusy
  <2>2. AwaitedIsRead' BY <1>13 DEF FaultFlag, AwaitedIsRead
  <2>3. CurrentUnlessBusy' BY <1>13 DEF FaultFlag, CurrentUnlessBusy
  <2> QED BY <2>1, <2>2, <2>3
<1>14. CASE FaultProtect
  <2>1. QuietWhileBusy' BY <1>14 DEF FaultProtect, QuietWhileBusy
  <2>2. AwaitedIsRead' BY <1>14 DEF FaultProtect, AwaitedIsRead
  <2>3. CurrentUnlessBusy' BY <1>14 DEF FaultProtect, CurrentUnlessBusy
  <2> QED BY <2>1, <2>2, <2>3
<1>15. CASE MapRead
  <2>1. QuietWhileBusy' BY <1>15 DEF MapRead, QuietWhileBusy
  <2>2. AwaitedIsRead' BY <1>15 DEF MapRead, AwaitedIsRead
  <2>3. CurrentUnlessBusy' BY <1>15 DEF MapRead, CurrentUnlessBusy
  <2> QED BY <2>1, <2>2, <2>3
<1>16. CASE UnmapWritten
  <2>1. QuietWhileBusy' BY <1>16 DEF UnmapWritten, FreeMapping, QuietWhileBusy
  <2>2. AwaitedIsRead' BY <1>16 DEF UnmapWritten, FreeMapping, AwaitedIsRead
  <2>3. CurrentUnlessBusy'
    BY <1>16
    DEF UnmapWritten, FreeMapping, CurrentUnlessBusy, TrackingInv,
        MessageContents
  <2> QED BY <2>1, <2>2, <2>3
<1>17. CASE FlushRangesWritten
  <2>1. QuietWhileBusy' BY <1>17 DEF FlushRangesWritten, QuietWhileBusy
  <2>2. AwaitedIsRead' BY <1>17 DEF FlushRangesWritten, AwaitedIsRead
  <2>3. CurrentUnlessBusy'
    BY <1>17
    DEF FlushRangesWritten, CurrentUnlessBusy, TrackingInv, MessageContents
  <2> QED BY <2>1, <2>2, <2>3
<1>18. CASE BeginSubmit
  <2>1. QuietWhileBusy'
    BY <1>18 DEF BeginSubmit, CanCall, Overlap, DirtyRanges, QuietWhileBusy
  <2>2. AwaitedIsRead'
    BY <1>18 DEF BeginSubmit, CanCall, Overlap, DirtyRanges, AwaitedIsRead
  <2>3. CurrentUnlessBusy'
    BY <1>18 DEF BeginSubmit, CanCall, Overlap, DirtyRanges, CurrentUnlessBusy
  <2> QED BY <2>1, <2>2, <2>3
<1>19. CASE FlushPrepare
  <2>1. QuietWhileBusy' BY <1>19 DEF FlushPrepare, QuietWhileBusy
  <2>2. AwaitedIsRead' BY <1>19 DEF FlushPrepare, AwaitedIsRead
  <2>3. CurrentUnlessBusy' BY <1>19 DEF FlushPrepare, CurrentUnlessBusy
  <2> QED BY <2>1, <2>2, <2>3
<1>20. CASE FlushProtect
  <2>1. QuietWhileBusy' BY <1>20 DEF FlushProtect, QuietWhileBusy
  <2>2. AwaitedIsRead' BY <1>20 DEF FlushProtect, AwaitedIsRead
  <2>3. CurrentUnlessBusy' BY <1>20 DEF FlushProtect, CurrentUnlessBusy
  <2> QED BY <2>1, <2>2, <2>3
<1>21. CASE FlushCopy
  <2>1. QuietWhileBusy' BY <1>21 DEF FlushCopy, QuietWhileBusy
  <2>2. AwaitedIsRead' BY <1>21 DEF FlushCopy, AwaitedIsRead
  <2>3. CurrentUnlessBusy' BY <1>21 DEF FlushCopy, CurrentUnlessBusy
  <2> QED BY <2>1, <2>2, <2>3
<1>22. CASE FlushTransfer
  <2>1. QuietWhileBusy' BY <1>22, <1>5 DEF FlushTransfer, QuietWhileBusy
  <2>2. AwaitedIsRead' BY <1>22 DEF FlushTransfer, AwaitedIsRead
  <2>3. CurrentUnlessBusy'
    BY <1>22, <1>5
    DEF FlushTransfer, CurrentUnlessBusy, QuietWhileBusy, TrackingInv,
        FlushRangesClosed
  <2> QED BY <2>1, <2>2, <2>3
<1>23. CASE FlushFinalize
  <2>1. QuietWhileBusy' BY <1>23 DEF FlushFinalize, QuietWhileBusy
  <2>2. AwaitedIsRead' BY <1>23 DEF FlushFinalize, AwaitedIsRead
  <2>3. CurrentUnlessBusy' BY <1>23 DEF FlushFinalize, CurrentUnlessBusy
  <2> QED BY <2>1, <2>2, <2>3
<1>24. CASE InvalidateOpen
  <2>1. QuietWhileBusy' BY <1>24 DEF InvalidateOpen, QuietWhileBusy
  <2>2. AwaitedIsRead' BY <1>24 DEF InvalidateOpen, AwaitedIsRead
  <2>3. CurrentUnlessBusy' BY <1>24 DEF InvalidateOpen, CurrentUnlessBusy
  <2> QED BY <2>1, <2>2, <2>3
<1>25. CASE InvalidateRead
  <2>1. QuietWhileBusy' BY <1>25, <1>5 DEF InvalidateRead, QuietWhileBusy
  <2>2. AwaitedIsRead' BY <1>25, <1>5 DEF InvalidateRead, AwaitedIsRead
  <2>3. CurrentUnlessBusy' BY <1>25 DEF InvalidateRead, CurrentUnlessBusy
  <2> QED BY <2>1, <2>2, <2>3
<1>26. CASE InvalidateFill
  <2>1. QuietWhileBusy' BY <1>26 DEF InvalidateFill, QuietWhileBusy
  <2>2. AwaitedIsRead' BY <1>26 DEF InvalidateFill, AwaitedIsRead
  <2>3. CurrentUnlessBusy'
    BY <1>26
    DEF InvalidateFill, CurrentUnlessBusy, QuietWhileBusy, TrackingInv,
        WaitRangesClean
  <2> QED BY <2>1, <2>2, <2>3
<1>27. CASE InvalidateClose
  <2>1. QuietWhileBusy' BY <1>27 DEF InvalidateClose, QuietWhileBusy
  <2>2. AwaitedIsRead' BY <1>27 DEF InvalidateClose, AwaitedIsRead
  <2>3. CurrentUnlessBusy' BY <1>27 DEF InvalidateClose, CurrentUnlessBusy
  <2> QED BY <2>1, <2>2, <2>3
<1>28. CASE InvalidateClear
  <2>1. QuietWhileBusy' BY <1>28 DEF InvalidateClear, QuietWhileBusy
  <2>2. AwaitedIsRead' BY <1>28 DEF InvalidateClear, AwaitedIsRead
  <2>3. CurrentUnlessBusy'
    BY <1>28 DEF InvalidateClear, CurrentUnlessBusy, AwaitedIsRead
  <2> QED BY <2>1, <2>2, <2>3
<1>29. ASSUME NEW l \in Loc, BeginStore(l) PROVE CoherenceInv'
  <2>1. QuietWhileBusy'
    BY <1>29, <1>5 DEF BeginStore, MayTouch, Accessible, QuietWhileBusy
  <2>2. AwaitedIsRead'
    BY <1>29 DEF BeginStore, MayTouch, Accessible, AwaitedIsRead
  <2>3. CurrentUnlessBusy'
    BY <1>29 DEF BeginStore, MayTouch, Accessible, CurrentUnlessBusy
  <2> QED BY <2>1, <2>2, <2>3
<1>30. ASSUME NEW l \in Loc, HostRead(l) PROVE CoherenceInv'
  <2>1. QuietWhileBusy' BY <1>30 DEF HostRead, QuietWhileBusy
  <2>2. AwaitedIsRead' BY <1>30 DEF HostRead, AwaitedIsRead
  <2>3. CurrentUnlessBusy' BY <1>30 DEF HostRead, CurrentUnlessBusy
  <2> QED BY <2>1, <2>2, <2>3
<1>31. ASSUME NEW l \in Loc, GpuWrite(l) PROVE CoherenceInv'
  <2>1. QuietWhileBusy' BY <1>31 DEF GpuWrite, QuietWhileBusy
  <2>2. AwaitedIsRead'
    BY <1>31 DEF GpuWrite, AwaitedIsRead, TrackingInv, CallSets
  <2>3. CurrentUnlessBusy'
    BY <1>31
    DEF GpuWrite, CurrentUnlessBusy, QuietWhileBusy, TrackingInv, CallSets
  <2> QED BY <2>1, <2>2, <2>3
<1>32. ASSUME NEW m \in Mem, MapMemory(m) PROVE CoherenceInv'
  <2>1. QuietWhileBusy'
    BY <1>32 DEF MapMemory, CanCall, Overlap, QuietWhileBusy
  <2>2. AwaitedIsRead' BY <1>32 DEF MapMemory, CanCall, Overlap, AwaitedIsRead
  <2>3. CurrentUnlessBusy'
    BY <1>32 DEF MapMemory, CanCall, Overlap, CurrentUnlessBusy
  <2> QED BY <2>1, <2>2, <2>3
<1>33. ASSUME NEW m \in Mem, UnmapMemory(m) PROVE CoherenceInv'
  <2>1. QuietWhileBusy'
    BY <1>33, <1>5 DEF UnmapMemory, MayTouch, CanCall, Overlap, QuietWhileBusy
  <2>2. AwaitedIsRead'
    BY <1>33 DEF UnmapMemory, MayTouch, CanCall, Overlap, AwaitedIsRead
  <2>3. CurrentUnlessBusy'
    BY <1>33, <1>5
    DEF UnmapMemory, MayTouch, CanCall, Overlap, CurrentUnlessBusy
  <2> QED BY <2>1, <2>2, <2>3
<1>34. ASSUME NEW m \in Mem, FlushRanges(m) PROVE CoherenceInv'
  <2>1. QuietWhileBusy'
    BY <1>34, <1>5 DEF FlushRanges, MayTouch, CanCall, Overlap, QuietWhileBusy
  <2>2. AwaitedIsRead'
    BY <1>34 DEF FlushRanges, MayTouch, CanCall, Overlap, AwaitedIsRead
  <2>3. CurrentUnlessBusy'
    BY <1>34 DEF FlushRanges, MayTouch, CanCall, Overlap, CurrentUnlessBusy
  <2> QED BY <2>1, <2>2, <2>3
<1>35. ASSUME NEW W \in SUBSET Loc, Submit(W) PROVE CoherenceInv'
  <2>1. QuietWhileBusy'
    BY <1>35 DEF Submit, QuietWhileBusy, TrackingInv, SubmitQuiet, StoreAlone
  <2>2. AwaitedIsRead' BY <1>35 DEF Submit, AwaitedIsRead
  <2>3. CurrentUnlessBusy' BY <1>35 DEF Submit, CurrentUnlessBusy
  <2> QED BY <2>1, <2>2, <2>3
<1>36. ASSUME NEW W \in SUBSET busy, BeginWait(W) PROVE CoherenceInv'
  <2>1. QuietWhileBusy'
    BY <1>36 DEF BeginWait, CanCall, Overlap, ReadBackRanges, QuietWhileBusy
  <2>2. AwaitedIsRead'
    BY <1>36, <1>5
    DEF BeginWait, CanCall, Overlap, ReadBackRanges, AwaitedIsRead,
        QuietWhileBusy
  <2>3. CurrentUnlessBusy'
    BY <1>36, <1>5
    DEF BeginWait, CanCall, Overlap, ReadBackRanges, CurrentUnlessBusy,
        QuietWhileBusy
  <2> QED BY <2>1, <2>2, <2>3
<1>37. CASE UNCHANGED vars
  BY <1>37 DEF QuietWhileBusy, AwaitedIsRead, CurrentUnlessBusy
<1>38. ~MapFail /\ ~InvalidateRangesFill
       /\ (\A m \in Mem : ~InvalidateRanges(m))
       /\ (\A W \in SUBSET busy : ~Poll(W))
  BY <1>5 DEF MapFail, InvalidateRangesFill, InvalidateRanges, Poll,
              TrackingInv, MessageContents
<1> QED BY <1>11, <1>12, <1>13, <1>14, <1>15, <1>16, <1>17, <1>18, <1>19,
     <1>20, <1>21, <1>22, <1>23, <1>24, <1>25, <1>26, <1>27, <1>28, <1>29,
     <1>30, <1>31, <1>32, <1>33, <1>34, <1>35, <1>36, <1>37, <1>38
     DEF Next, Application, Mapping, Ranges, Flushing, Waiting

-----------------------------------------------------------------------------
\* The invariant holds in every run of a disciplined application.
LEMMA CoherenceHolds ==
    Disciplined => (Spec => [](TypeOK /\ TrackingInv /\ CoherenceInv))
<1> SUFFICES ASSUME Disciplined
             PROVE  Spec => [](TypeOK /\ TrackingInv /\ CoherenceInv)
  OBVIOUS
<1>1. ~Overlap BY DEF Disciplined, Overlap
<1>2. Init => CoherenceInv BY CoherenceInit
<1>3. TypeOK /\ TrackingInv /\ CoherenceInv /\ [Next]_vars => CoherenceInv'
  BY CoherenceStep
<1> QED BY <1>1, <1>2, <1>3, TrackingHolds, PTL DEF Spec

\* After a wait an application that leaves mapped memory alone while its work
\* runs reads what that work wrote (invalidate_host_coherent_mappings).
THEOREM WaitsMakeVisible == Disciplined => (Spec => []WaitMakesVisible)
<1> SUFFICES ASSUME Disciplined PROVE Spec => []WaitMakesVisible
  OBVIOUS
<1>1. CoherenceInv => WaitMakesVisible
  BY DEF CoherenceInv, CurrentUnlessBusy, WaitMakesVisible, LocsOf, LocsOn,
         PagesOf
<1> QED BY <1>1, CoherenceHolds, PTL

\* What a message to the server overwrites is nowhere newer than the message.
LEMMA TransfersAreCurrent ==
    ASSUME Disciplined, TypeOK, TrackingInv, CoherenceInv
    PROVE  /\ call = "unmap" =>
                \A l \in LocsOf({target}) :
                    payload[l] = shadow[l] /\ shadow[l] >= server[l]
           /\ call = "flushranges" =>
                \A l \in LocsOf({target}) :
                    payload[l] = shadow[l] /\ shadow[l] >= server[l]
           /\ call = "send" =>
                \A l \in LocsOn(batch) :
                    payload[l] = shadow[l] /\ shadow[l] >= server[l]
<1>1. call = "unmap" =>
        \A l \in LocsOf({target}) :
            payload[l] = shadow[l] /\ shadow[l] >= server[l]
  BY DEF CoherenceInv, CurrentUnlessBusy
<1>2. ASSUME call \in {"flushranges", "send"} PROVE busy = {}
  BY <1>2 DEF CoherenceInv, QuietWhileBusy, FlushCalls
<1>3. ASSUME call = "flushranges", NEW l \in LocsOf({target})
      PROVE  payload[l] = shadow[l] /\ shadow[l] >= server[l]
  <2>1. target \in mapped BY <1>3 DEF TrackingInv, MessageContents
  <2>2. payload[l] = shadow[l] BY <1>3 DEF TrackingInv, MessageContents
  <2>3. l \in LocsOf(mapped) \ busy
    BY <1>2, <1>3, <2>1 DEF LocsOf, LocsOn, PagesOf
  <2> QED BY <1>3, <2>2, <2>3 DEF CoherenceInv, CurrentUnlessBusy
<1>4. ASSUME call = "send", NEW l \in LocsOn(batch)
      PROVE  payload[l] = shadow[l] /\ shadow[l] >= server[l]
  <2>1. batch \subseteq PagesOf(mapped) /\ todo = {}
    BY <1>4 DEF TrackingInv, FlushRangesClosed, FlushCalls
  <2>2. payload[l] = shadow[l]
    BY <1>4, <2>1 DEF TrackingInv, FlushRangesClosed, FlushCalls
  <2>3. l \in LocsOf(mapped) \ busy
    BY <1>2, <1>4, <2>1 DEF LocsOf, LocsOn
  <2> QED BY <1>4, <2>2, <2>3 DEF CoherenceInv, CurrentUnlessBusy
<1> QED BY <1>1, <1>3, <1>4

\* The copies of a location are numbers.
LEMMA CopiesAreNumbers ==
    ASSUME TypeOK
    PROVE  /\ \A k \in Loc : /\ shadow[k] \in Nat /\ server[k] \in Nat
                             /\ payload[k] \in Nat
           /\ shadow \in Contents /\ server \in Contents /\ payload \in Contents
           /\ stamp \in Nat /\ store \in Stores
  BY ConstantsAssumption DEF TypeOK, Contents

\* How a step changes the two copies of a location: not at all, by one write of
\* the application or of the GPU, or by moving the newer copy over the older.
LEMMA StepChangesCopies ==
    ASSUME Disciplined, TypeOK, TrackingInv, CoherenceInv, [Next]_vars
    PROVE  \/ UNCHANGED <<shadow, server>>
           \/ \E l \in Loc :
                /\ shadow' = [shadow EXCEPT ![l] = stamp + 1]
                /\ UNCHANGED <<server, seen>>
           \/ \E l \in Loc :
                /\ server' = [server EXCEPT ![l] = stamp + 1]
                /\ UNCHANGED <<shadow, seen>>
           \/ /\ \A k \in Loc :
                    /\ server'[k] >= server[k]
                    /\ Max2(shadow'[k], server'[k]) = Max2(shadow[k], server[k])
              /\ UNCHANGED seen
<1>1. AppMay = {} /\ ~TransfersFail /\ AutoInvalidate = Mem BY DEF Disciplined
<1> USE CopiesAreNumbers, OverwriteContents, ZeroContents
    DEF vars, tracking, gpuVars, callVars, history
<1>2. CASE TryStore
  <2>1. store.loc \in Loc BY <1>2 DEF TryStore, Stores, NoStore
  <2> QED BY <1>2, <2>1 DEF TryStore
<1>3. ASSUME NEW l \in Loc, GpuWrite(l)
      PROVE  /\ server' = [server EXCEPT ![l] = stamp + 1]
             /\ UNCHANGED <<shadow, seen>>
  BY <1>3 DEF GpuWrite
<1>4. CASE MapRead
  <2>1. /\ shadow' = Overwrite(shadow, server, LocsOf({target}))
        /\ UNCHANGED <<server, seen>> /\ call = "map"
    BY <1>4 DEF MapRead
  <2>2. ASSUME NEW k \in Loc
        PROVE  /\ server'[k] >= server[k]
               /\ Max2(shadow'[k], server'[k]) = Max2(shadow[k], server[k])
    <3>1. shadow'[k] = IF k \in LocsOf({target}) THEN server[k] ELSE shadow[k]
      BY <2>1
    <3>2. k \in LocsOf({target}) => shadow[k] = 0
      BY <2>1 DEF TrackingInv, NoShadowUnmapped, LocsOf, LocsOn, PagesOf
    <3> QED BY <2>1, <3>1, <3>2 DEF Max2
  <2> QED BY <2>1, <2>2
<1>5. CASE UnmapWritten
  <2>1. /\ shadow' = Overwrite(shadow, Zero, LocsOf({target}))
        /\ server' = Overwrite(server, payload, LocsOf({target}))
        /\ UNCHANGED seen /\ call = "unmap"
    BY <1>1, <1>5 DEF UnmapWritten, FreeMapping
  <2>2. ASSUME NEW k \in Loc
        PROVE  /\ server'[k] >= server[k]
               /\ Max2(shadow'[k], server'[k]) = Max2(shadow[k], server[k])
    <3>1. /\ shadow'[k] = IF k \in LocsOf({target}) THEN 0 ELSE shadow[k]
          /\ server'[k] =
                IF k \in LocsOf({target}) THEN payload[k] ELSE server[k]
      BY <2>1
    <3>2. k \in LocsOf({target}) =>
            payload[k] = shadow[k] /\ shadow[k] >= server[k]
      BY <2>1, TransfersAreCurrent
    <3> QED BY <3>1, <3>2 DEF Max2
  <2> QED BY <2>1, <2>2
<1>6. CASE FlushRangesWritten
  <2>1. /\ server' = Overwrite(server, payload, LocsOf({target}))
        /\ UNCHANGED <<shadow, seen>> /\ call = "flushranges"
    BY <1>1, <1>6 DEF FlushRangesWritten
  <2>2. ASSUME NEW k \in Loc
        PROVE  /\ server'[k] >= server[k]
               /\ Max2(shadow'[k], server'[k]) = Max2(shadow[k], server[k])
    <3>1. server'[k] = IF k \in LocsOf({target}) THEN payload[k] ELSE server[k]
      BY <2>1
    <3>2. k \in LocsOf({target}) =>
            payload[k] = shadow[k] /\ shadow[k] >= server[k]
      BY <2>1, TransfersAreCurrent
    <3> QED BY <2>1, <3>1, <3>2 DEF Max2
  <2> QED BY <2>1, <2>2
<1>7. CASE FlushTransfer
  <2>1. /\ server' = Overwrite(server, payload, LocsOn(batch))
        /\ UNCHANGED <<shadow, seen>> /\ call = "send"
    BY <1>1, <1>7 DEF FlushTransfer
  <2>2. ASSUME NEW k \in Loc
        PROVE  /\ server'[k] >= server[k]
               /\ Max2(shadow'[k], server'[k]) = Max2(shadow[k], server[k])
    <3>1. server'[k] = IF k \in LocsOn(batch) THEN payload[k] ELSE server[k]
      BY <2>1
    <3>2. k \in LocsOn(batch) =>
            payload[k] = shadow[k] /\ shadow[k] >= server[k]
      BY <2>1, TransfersAreCurrent
    <3> QED BY <2>1, <3>1, <3>2 DEF Max2
  <2> QED BY <2>1, <2>2
<1>8. CASE InvalidateFill
  <2>1. /\ shadow' = Overwrite(shadow, payload, LocsOn(batch))
        /\ UNCHANGED <<server, seen>> /\ call = "fill"
    BY <1>8 DEF InvalidateFill
  <2>2. ASSUME NEW k \in Loc
        PROVE  /\ server'[k] >= server[k]
               /\ Max2(shadow'[k], server'[k]) = Max2(shadow[k], server[k])
    <3>1. shadow'[k] = IF k \in LocsOn(batch) THEN payload[k] ELSE shadow[k]
      BY <2>1
    <3>2. k \in LocsOn(batch) =>
            payload[k] <= server[k] /\ payload[k] >= shadow[k]
      BY <2>1 DEF TrackingInv, WaitRangesClean, WaitCalls, CoherenceInv,
                  QuietWhileBusy
    <3> QED BY <2>1, <3>1, <3>2 DEF Max2
  <2> QED BY <2>1, <2>2
<1>9. ~MapFail /\ ~InvalidateRangesFill
  BY <1>1 DEF MapFail, InvalidateRangesFill, TrackingInv, MessageContents
<1>10. \/ UNCHANGED <<shadow, server>> \/ TryStore \/ MapRead \/ UnmapWritten
       \/ FlushRangesWritten \/ FlushTransfer \/ InvalidateFill
       \/ \E l \in Loc : GpuWrite(l)
  BY <1>9 DEF Next, Application, Mapping, Ranges, Flushing, Waiting, BeginStore,
         HostRead, FaultMark, FaultFlag, FaultProtect, MapMemory,
         UnmapMemory, FlushRanges, InvalidateRanges,
         BeginSubmit, FlushPrepare, FlushProtect, FlushCopy,
         FlushFinalize, Submit, BeginWait, Poll, InvalidateOpen,
         InvalidateRead, InvalidateClose, InvalidateClear
<1> QED BY <1>2, <1>3, <1>4, <1>5, <1>6, <1>7, <1>8, <1>10

\* No transfer replaces what the GPU wrote by older contents of the shadow.
THEOREM GpuWritesAreKept == Disciplined => (Spec => GpuWritesKept)
<1> SUFFICES ASSUME Disciplined PROVE Spec => GpuWritesKept
  OBVIOUS
<1>1. TypeOK /\ TrackingInv /\ CoherenceInv /\ [Next]_vars
        => [\A l \in Loc : server'[l] >= server[l]]_server
  <2> SUFFICES ASSUME TypeOK, TrackingInv, CoherenceInv, [Next]_vars,
                      NEW k \in Loc
               PROVE  server'[k] >= server[k]
    OBVIOUS
  <2>1. server[k] <= stamp BY DEF TrackingInv, StampsBound
  <2>2. ASSUME NEW l \in Loc, server' = [server EXCEPT ![l] = stamp + 1]
        PROVE  server'[k] >= server[k]
    BY ONLY <2>1, <2>2, CopiesAreNumbers, TypeOK, k \in Loc DEF Contents
  <2> QED BY <2>2, StepChangesCopies, CopiesAreNumbers
<1> QED BY <1>1, CoherenceHolds, PTL DEF GpuWritesKept, Spec

\* A host read returns the newer of the two copies.
LEMMA ReadIsCurrent ==
    ASSUME Disciplined, TypeOK, TrackingInv, CoherenceInv, [Next]_vars
    PROVE  \/ UNCHANGED seen
           \/ \E l \in Loc : /\ seen' = <<l, Max2(shadow[l], server[l])>>
                             /\ UNCHANGED <<shadow, server>>
<1>1. AppMay = {} BY DEF Disciplined
<1>2. ASSUME NEW l \in Loc, HostRead(l)
      PROVE  /\ seen' = <<l, Max2(shadow[l], server[l])>>
             /\ UNCHANGED <<shadow, server>>
  <2>1. call = "idle" /\ l \in LocsOf(mapped) \ busy
    BY <1>1, <1>2, ConstantsAssumption
    DEF HostRead, Accessible, MayTouch, Overlap, LocsOf, LocsOn, PagesOf
  <2>2. shadow[l] >= server[l]
    BY <2>1 DEF CoherenceInv, CurrentUnlessBusy
  <2>3. Max2(shadow[l], server[l]) = shadow[l]
    BY <2>2, CopiesAreNumbers DEF Max2
  <2> QED BY <1>2, <2>3 DEF HostRead
<1>3. UNCHANGED seen \/ \E l \in Loc : HostRead(l)
  BY DEF Next, Application, Mapping, Ranges, Flushing, Waiting, BeginStore,
         TryStore, FaultMark, FaultFlag, FaultProtect, GpuWrite, MapMemory,
         MapRead, MapFail, UnmapMemory, UnmapWritten, FlushRanges,
         FlushRangesWritten, InvalidateRanges, InvalidateRangesFill,
         BeginSubmit, FlushPrepare, FlushProtect, FlushCopy, FlushTransfer,
         FlushFinalize, Submit, BeginWait, Poll, InvalidateOpen,
         InvalidateRead, InvalidateFill, InvalidateClose, InvalidateClear,
         vars, history
<1> QED BY <1>2, <1>3

\* The emulation is a coherent memory to a disciplined application: a write
\* changes one location to a newer stamp, a read returns the latest write, and
\* no other step of client or server can be seen.
THEOREM RefinesCoherentMemory == Disciplined => (Spec => ImplementsCoherentMemory)
<1> SUFFICES ASSUME Disciplined PROVE Spec => ImplementsCoherentMemory
  OBVIOUS
<1>1. Init => Coherent!Init
  <2> SUFFICES ASSUME Init PROVE Coherent!Init
    OBVIOUS
  <2>1. \A l \in Loc : Max2(shadow[l], server[l]) = 0 BY DEF Init, Max2
  <2> QED BY <2>1 DEF Init, Coherent!Init
<1>2. TypeOK /\ TrackingInv /\ CoherenceInv /\ [Next]_vars
        => [Coherent!Next]_(Coherent!vars)
  <2> SUFFICES ASSUME TypeOK, TrackingInv, CoherenceInv, [Next]_vars
               PROVE  Coherent!Next \/ UNCHANGED Coherent!vars
    OBVIOUS
  <2> DEFINE Mem1 == [l \in Loc |-> Max2(shadow[l], server[l])]
             Mem2 == [l \in Loc |-> Max2(shadow'[l], server'[l])]
  <2>1. CASE UNCHANGED <<shadow, server, seen>>
    BY <2>1 DEF Coherent!vars
  <2>2. ASSUME NEW l \in Loc, seen' = <<l, Max2(shadow[l], server[l])>>,
               UNCHANGED <<shadow, server>>
        PROVE  Coherent!Next
    <3>1. Coherent!Read(l) BY <2>2 DEF Coherent!Read
    <3> QED BY <3>1 DEF Coherent!Next
  <2>3. ASSUME NEW l \in Loc,
               \/ /\ shadow' = [shadow EXCEPT ![l] = stamp + 1]
                  /\ UNCHANGED <<server, seen>>
               \/ /\ server' = [server EXCEPT ![l] = stamp + 1]
                  /\ UNCHANGED <<shadow, seen>>
        PROVE  Coherent!Next
    <3>1. shadow[l] <= stamp /\ server[l] <= stamp
      BY DEF TrackingInv, StampsBound
    <3>2. \A k \in Loc \ {l} : shadow'[k] = shadow[k] /\ server'[k] = server[k]
      BY ONLY <2>3, CopiesAreNumbers, TypeOK DEF Contents
    <3>3. \/ shadow'[l] = stamp + 1 /\ server'[l] = server[l]
          \/ server'[l] = stamp + 1 /\ shadow'[l] = shadow[l]
      BY ONLY <2>3, CopiesAreNumbers, TypeOK DEF Contents
    <3>4. Max2(shadow'[l], server'[l]) > Max2(shadow[l], server[l])
      BY <3>1, <3>3, CopiesAreNumbers DEF Max2
    <3>5. Mem2 = [Mem1 EXCEPT ![l] = Mem2[l]] BY <3>2
    <3>6. Mem2[l] > Mem1[l] BY <3>4
    <3>7. UNCHANGED seen BY <2>3
    <3>8. Coherent!Write(l) BY <3>5, <3>6, <3>7 DEF Coherent!Write
    <3> QED BY <3>8 DEF Coherent!Next
  <2>4. ASSUME \A k \in Loc :
                  Max2(shadow'[k], server'[k]) = Max2(shadow[k], server[k]),
               UNCHANGED seen
        PROVE  UNCHANGED Coherent!vars
    BY <2>4 DEF Coherent!vars
  <2> QED BY <2>1, <2>2, <2>3, <2>4, StepChangesCopies, ReadIsCurrent
<1> QED
  BY <1>1, <1>2, CoherenceHolds, PTL
  DEF ImplementsCoherentMemory, Coherent!Spec, Spec

-----------------------------------------------------------------------------
(* Stores.  That a store completes is liveness; without fairness it can be *)
(* said how many steps of its own it has left.                             *)

\* A page whose writable flag is set is open, or is just about to be: the fault
\* handler has flagged it, or a wait has closed it and has yet to clear it.
FlaggedIsOpen ==
    \A p \in writable :
        \/ p \in rw
        \/ call = "clear" /\ p \in batch
        \/ store.step = "protect" /\ p = PageOf[store.loc]

\* The handler is at work on a closed page.
FaultIsClosed ==
    store.step \in {"mark", "flag", "protect"} => PageOf[store.loc] \notin rw

FaultInv == FlaggedIsOpen /\ FaultIsClosed

\* The steps a store has left: with its page closed the fault, the three of the
\* handler, and the store again.
StepsLeft ==
    IF store = NoStore THEN 0
    ELSE IF PageOf[store.loc] \in rw THEN 1
    ELSE CASE store.step = "try"     -> 5
           [] store.step = "mark"    -> 4
           [] store.step = "flag"    -> 3
           [] store.step = "protect" -> 2

\* A store in progress loses a step with each of its own steps, and keeps them
\* with every other: it faults at most once, and what happens meanwhile neither
\* closes its page nor makes the handler return early.
StoreAdvances ==
    store # NoStore =>
        /\ StoreStep  => StepsLeft' < StepsLeft
        /\ ~StoreStep => StepsLeft' = StepsLeft

LEMMA InitFault == Init => FaultInv
BY DEF Init, FaultInv, FlaggedIsOpen, FaultIsClosed, NoStore

\* Steps that leave the protection, the flags and the store alone.
LEMMA FaultQuiet ==
    ASSUME FaultInv, UNCHANGED <<writable, rw, store>>, call # "clear"
    PROVE  FaultInv'
BY DEF FaultInv, FlaggedIsOpen, FaultIsClosed

LEMMA FaultStep ==
    ASSUME ~Overlap, TypeOK, TrackingInv, FaultInv, [Next]_vars
    PROVE  FaultInv'
<1> USE DEF FaultInv, FlaggedIsOpen, FaultIsClosed, tracking
<1>0. store # NoStore => call = "idle" /\ store.step \in {"try", "mark", "flag", "protect"}
  BY DEF TypeOK, Stores, TrackingInv, StoreAlone
<1>1. CASE TryStore
  BY <1>0, <1>1 DEF TryStore, NoStore, TypeOK, Stores, callVars
<1>2. CASE FaultMark
  BY <1>2 DEF FaultMark, TypeOK, Stores, NoStore, callVars
<1>3. CASE FaultFlag
  BY <1>0, <1>3 DEF FaultFlag, TypeOK, Stores, NoStore, callVars
<1>4. CASE FaultProtect
  BY <1>0, <1>4 DEF FaultProtect, TypeOK, Stores, NoStore, callVars
<1>5. ASSUME NEW l \in Loc, BeginStore(l) PROVE FaultInv'
  BY <1>5 DEF BeginStore, NoStore, callVars
<1>6. CASE \/ \E l \in Loc : HostRead(l) \/ GpuWrite(l)
           \/ \E W \in SUBSET busy : Poll(W)
  <2>1. UNCHANGED <<writable, rw, store, call, batch>>
    BY <1>6 DEF HostRead, GpuWrite, Poll, callVars
  <2> QED
    BY <2>1
<1>7. CASE \/ \E m \in Mem : UnmapMemory(m) \/ FlushRanges(m) \/ InvalidateRanges(m)
           \/ BeginSubmit \/ \E W \in SUBSET busy : BeginWait(W)
  <2>1. UNCHANGED <<writable, rw, store>> /\ call # "clear"
    BY <1>7 DEF UnmapMemory, FlushRanges, InvalidateRanges, BeginSubmit, BeginWait, CanCall
  <2> QED
    BY <2>1, FaultQuiet
<1>8. CASE \/ FlushRangesWritten \/ FlushCopy \/ FlushTransfer \/ FlushFinalize
           \/ \E W \in SUBSET Loc : Submit(W)
           \/ InvalidateRead \/ InvalidateFill
  <2>1. UNCHANGED <<writable, rw, store>> /\ call # "clear"
    BY <1>8 DEF FlushRangesWritten, FlushCopy, FlushTransfer, FlushFinalize, Submit,
          InvalidateRead, InvalidateFill
  <2> QED
    BY <2>1, FaultQuiet
<1>9. ASSUME NEW m \in Mem, MapMemory(m) PROVE FaultInv'
  BY <1>0, <1>9 DEF MapMemory, CanCall, NoStore
<1>10. CASE MapRead
  BY <1>0, <1>10 DEF MapRead, NoStore
<1>11. CASE MapFail
  BY <1>0, <1>11 DEF MapFail, FreeMapping, NoStore
<1>12. CASE UnmapWritten
  BY <1>0, <1>12 DEF UnmapWritten, FreeMapping, NoStore
<1>13. CASE InvalidateRangesFill
  BY <1>0, <1>13 DEF InvalidateRangesFill, NoStore
<1>14. CASE FlushPrepare
  BY <1>0, <1>14 DEF FlushPrepare, NoStore
<1>15. CASE FlushProtect
  <2>1. unprot \subseteq run /\ run \cap writable = {}
    BY <1>15 DEF FlushProtect, TrackingInv, CallSets, FlushRangesClosed, FlushCalls
  <2> QED
    BY <1>0, <1>15, <2>1 DEF FlushProtect, NoStore
<1>16. CASE InvalidateOpen
  BY <1>0, <1>16 DEF InvalidateOpen, NoStore
<1>17. CASE InvalidateClose
  BY <1>0, <1>17 DEF InvalidateClose, NoStore
<1>18. CASE InvalidateClear
  BY <1>0, <1>18 DEF InvalidateClear, NoStore
<1>19. CASE UNCHANGED vars
  BY <1>19 DEF vars, callVars
<1> QED
  BY <1>1, <1>2, <1>3, <1>4, <1>5, <1>6, <1>7, <1>8, <1>9, <1>10, <1>11,
     <1>12, <1>13, <1>14, <1>15, <1>16, <1>17, <1>18, <1>19
     DEF Next, Application, Mapping, Ranges, Flushing, Waiting

\* While a store is in progress, no call of the same thread is.
LEMMA OnlyTheStore ==
    ASSUME ~Overlap, TypeOK, TrackingInv, [Next]_vars, store # NoStore, ~StoreStep
    PROVE  UNCHANGED <<store, rw>>
<1>1. call = "idle"
  BY DEF TrackingInv, StoreAlone
<1>2. ~CanCall
  BY DEF CanCall
<1>3. CASE Application
  BY <1>3 DEF Application, StoreStep, BeginStore, HostRead, tracking
<1>4. CASE Mapping \/ Ranges
  BY <1>1, <1>2, <1>4 DEF Mapping, Ranges, MapMemory, UnmapMemory, MapRead, MapFail,
        UnmapWritten, FlushRanges, InvalidateRanges, FlushRangesWritten, InvalidateRangesFill
<1>5. CASE Flushing
  BY <1>1, <1>2, <1>5 DEF Flushing, BeginSubmit, FlushPrepare, FlushProtect, FlushCopy,
        FlushTransfer, FlushFinalize, Submit
<1>6. CASE Waiting
  BY <1>1, <1>2, <1>6 DEF Waiting, BeginWait, Poll, InvalidateOpen, InvalidateRead,
        InvalidateFill, InvalidateClose, InvalidateClear
<1>7. CASE \E l \in Loc : GpuWrite(l)
  BY <1>7 DEF GpuWrite, tracking
<1>8. CASE UNCHANGED vars
  BY <1>8 DEF vars, tracking
<1> QED
  BY <1>3, <1>4, <1>5, <1>6, <1>7, <1>8 DEF Next

LEMMA StoreLosesStep ==
    ASSUME ~Overlap, TypeOK, TrackingInv, FaultInv, store # NoStore, StoreStep
    PROVE  StepsLeft' < StepsLeft
<1> DEFINE p == PageOf[store.loc]
<1>0. /\ store \in [step : {"try", "mark", "flag", "protect"}, loc : Loc]
      /\ call = "idle"
  BY DEF TypeOK, Stores, TrackingInv, StoreAlone
<1>1. CASE TryStore /\ p \in rw
  <2>1. StepsLeft = 1
    BY <1>1 DEF StepsLeft
  <2>2. StepsLeft' = 0
    BY <1>1 DEF StepsLeft, TryStore
  <2> QED
    BY <2>1, <2>2
<1>2. CASE TryStore /\ p \notin rw
  <2>1. StepsLeft = 5
    BY <1>2 DEF StepsLeft, TryStore
  <2>2. /\ store'.step = "mark" /\ store'.loc = store.loc /\ store' # NoStore
        /\ rw' = rw
    BY <1>0, <1>2 DEF TryStore, NoStore, tracking
  <2>3. StepsLeft' = 4
    BY <1>2, <2>2 DEF StepsLeft
  <2> QED
    BY <2>1, <2>3
<1>3. CASE FaultMark
  <2>0. p \notin rw
    BY <1>3 DEF FaultInv, FaultIsClosed, FaultMark
  <2>1. StepsLeft = 4
    BY <1>3, <2>0 DEF StepsLeft, FaultMark
  <2>2. /\ store'.step = "flag" /\ store'.loc = store.loc /\ store' # NoStore
        /\ rw' = rw
    BY <1>0, <1>3 DEF FaultMark, NoStore
  <2>3. StepsLeft' = 3
    BY <2>0, <2>2 DEF StepsLeft
  <2> QED
    BY <2>1, <2>3
<1>4. CASE FaultFlag
  <2>0. p \notin rw
    BY <1>4 DEF FaultInv, FaultIsClosed, FaultFlag
  <2>1. StepsLeft = 3
    BY <1>4, <2>0 DEF StepsLeft, FaultFlag
  <2>2. p \notin writable
    BY <1>0, <1>4, <2>0 DEF FaultInv, FlaggedIsOpen, FaultFlag
  <2>3. /\ store'.step = "protect" /\ store'.loc = store.loc /\ store' # NoStore
        /\ rw' = rw
    BY <1>0, <1>4, <2>2 DEF FaultFlag, NoStore
  <2>4. StepsLeft' = 2
    BY <2>0, <2>3 DEF StepsLeft
  <2> QED
    BY <2>1, <2>4
<1>5. CASE FaultProtect
  <2>0. p \notin rw
    BY <1>5 DEF FaultInv, FaultIsClosed, FaultProtect
  <2>1. StepsLeft = 2
    BY <1>5, <2>0 DEF StepsLeft, FaultProtect
  <2>2. store'.loc = store.loc /\ store' # NoStore /\ p \in rw'
    BY <1>0, <1>5 DEF FaultProtect, NoStore
  <2>3. StepsLeft' = 1
    BY <2>2 DEF StepsLeft
  <2> QED
    BY <2>1, <2>3
<1> QED
  BY <1>1, <1>2, <1>3, <1>4, <1>5 DEF StoreStep

\* With calls and stores that alternate, a store into mapped memory completes
\* within five steps of its own: it faults at most once, and
\* shadow_fault_handler never returns early and leaves the page closed.  Each
\* of these steps can be taken: the processor and the handler wait for nobody.
THEOREM StoresAdvance == ~Overlap => (Spec => [][StoreAdvances]_vars)
<1> SUFFICES ASSUME ~Overlap PROVE Spec => [][StoreAdvances]_vars
  OBVIOUS
<1>1. Init => FaultInv
  BY InitFault
<1>2. TypeOK /\ TrackingInv /\ FaultInv /\ [Next]_vars => FaultInv'
  BY FaultStep
<1>3. TypeOK /\ TrackingInv /\ FaultInv /\ [Next]_vars => [StoreAdvances]_vars
  <2>1. ASSUME UNCHANGED <<store, rw>> PROVE StepsLeft' = StepsLeft
    BY <2>1 DEF StepsLeft
  <2> QED
    BY <2>1, OnlyTheStore, StoreLosesStep DEF StoreAdvances
<1>4. Spec => [](TypeOK /\ TrackingInv)
  BY TrackingHolds
<1> QED
  BY <1>1, <1>2, <1>3, <1>4, PTL DEF Spec
=============================================================================
