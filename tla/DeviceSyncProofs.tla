-------------------------- MODULE DeviceSyncProofs --------------------------
(***************************************************************************)
(* Proofs about DeviceSync: types, that a fence or an idle wait never      *)
(* tells of work that is not done, and that a wait whose submissions are   *)
(* fed is never stuck, for any number of queues, fences, semaphores and    *)
(* submissions.                                                            *)
(***************************************************************************)
EXTENDS DeviceSync, WellFoundedInduction, TLAPS

\* A fence the driver has signaled stands for executed submissions only.
SignaledIsDone == \A f \in Fence : fence[f] = "signaled" => covers[f] \subseteq done

\* A pending submission's fence is unsignaled and stands for just what the
\* queue has up to that submission.
PendingFence ==
    \A w \in Pending, f \in Fence :
        log[w].fence = f => fence[f] = "unsignaled" /\ covers[f] = Before(w)

\* A fence that does not exist stands for nothing.
AbsentCoversNothing == \A f \in Fence : fence[f] = "absent" => covers[f] = {}

SyncInv ==
    /\ TypeOK
    /\ SignaledIsDone
    /\ PendingFence
    /\ AbsentCoversNothing
    /\ FencePromisesKept

-----------------------------------------------------------------------------
LEMMA WorkOfLog ==
    ASSUME TypeOK
    PROVE  /\ Len(log) \in Nat
           /\ \A w \in Work : log[w] \in Submission /\ w \in Before(w)
           /\ \A w \in Work : Before(w) \subseteq Work
<1>1. log \in Seq(Submission)
  BY DEF TypeOK
<1> QED
  BY <1>1 DEF Work, Before

LEMMA InitSync == Init => SyncInv
<1> SUFFICES ASSUME Init PROVE SyncInv
  OBVIOUS
<1>1. log \in Seq(Submission) /\ Len(log) = 0
  BY DEF Init
<1>2. Work = {}
  BY <1>1 DEF Work
<1>3. TypeOK
  BY <1>1, <1>2, SyncAssumption DEF Init, TypeOK, Nobody, Wait, NoWait, Work
<1> QED
  BY <1>2, <1>3 DEF Init, SyncInv, SignaledIsDone, PendingFence,
        AbsentCoversNothing, FencePromisesKept, Nobody, Pending

-----------------------------------------------------------------------------
(* Steps that leave submissions and fences alone.                          *)

LEMMA QuietStep ==
    ASSUME SyncInv, UNCHANGED <<log, done, fence, covers>>, TypeOK',
           told'.by = "fence" => told'.works \subseteq done
    PROVE  SyncInv'
<1>1. Work' = Work /\ Pending' = Pending
  BY DEF Work, Pending
<1>2. \A w \in Work : Before(w)' = Before(w)
  BY DEF Before
<1>3. PendingFence'
  BY <1>1, <1>2 DEF SyncInv, PendingFence, Pending
<1> QED
  BY <1>3 DEF SyncInv, SignaledIsDone, AbsentCoversNothing, FencePromisesKept

\* What such a step has to show of the types.
LEMMA QuietTypes ==
    ASSUME TypeOK, UNCHANGED <<log, done, payload, fence, covers>>,
           counter' \in [Timeline -> 0..MaxValue], wait' \in Wait,
           acquired' \subseteq Binary,
           told'.by \in {"nobody", "fence", "timeline"}, told'.works \subseteq Work,
           told' = [by |-> told'.by, works |-> told'.works]
    PROVE  TypeOK'
<1>1. Work' = Work
  BY DEF Work
<1>2. told' \in [by : {"nobody", "fence", "timeline"}, works : SUBSET Work']
  BY <1>1
<1> QED
  BY <1>1, <1>2 DEF TypeOK

LEMMA AcquireStep ==
    ASSUME SyncInv, NEW s \in Binary, AcquireNextImage(s)
    PROVE  SyncInv'
<1>1. TypeOK'
  BY QuietTypes DEF SyncInv, TypeOK, AcquireNextImage, Silent, Nobody
<1> QED
  BY <1>1, QuietStep DEF AcquireNextImage, Silent, Nobody

LEMMA StatusStep ==
    ASSUME SyncInv, NEW f \in Fence, GetFenceStatus(f)
    PROVE  SyncInv'
<1>1. covers[f] \subseteq done /\ covers[f] \subseteq Work
  BY DEF SyncInv, TypeOK, SignaledIsDone, GetFenceStatus, Signaled
<1>2. TypeOK'
  BY <1>1, QuietTypes DEF SyncInv, TypeOK, GetFenceStatus, Tell
<1> QED
  BY <1>1, <1>2, QuietStep DEF GetFenceStatus, Tell

LEMMA WaitStep ==
    ASSUME SyncInv,
           \/ \E F \in SUBSET Fence, all, finite \in BOOLEAN : WaitForFences(F, all, finite)
           \/ \E Q \in SUBSET Queue : WaitIdle(Q)
           \/ TimesOut
    PROVE  SyncInv'
<1>1. /\ UNCHANGED <<log, done, payload, fence, counter, acquired, covers>>
      /\ Silent
  BY DEF WaitForFences, WaitIdle, TimesOut
<1>2. wait' \in Wait
  BY DEF WaitForFences, WaitIdle, TimesOut, Wait, NoWait
<1>3. TypeOK'
  BY <1>1, <1>2, QuietTypes DEF SyncInv, TypeOK, Silent, Nobody
<1> QED
  BY <1>1, <1>3, QuietStep DEF Silent, Nobody

LEMMA ReturnStep ==
    ASSUME SyncInv, FencesSignaled \/ IsIdle
    PROVE  SyncInv'
<1>1. /\ UNCHANGED <<log, done, payload, fence, counter, acquired, covers>>
      /\ wait' \in Wait
  BY DEF FencesSignaled, IsIdle, Wait, NoWait
<1>2. PICK by \in {"nobody", "fence"}, works \in SUBSET Work :
        told' = [by |-> by, works |-> works] /\ works \subseteq done
  <2>1. CASE FencesSignaled
    <3>1. CASE wait.all
      <4>1. wait.fences \subseteq Fence
        BY <2>1 DEF FencesSignaled, SyncInv, TypeOK, Wait, NoWait
      <4>2. \A f \in wait.fences : covers[f] \subseteq done /\ covers[f] \subseteq Work
        BY <2>1, <3>1, <4>1 DEF FencesSignaled, SyncInv, TypeOK, SignaledIsDone, Signaled
      <4> QED
        BY <2>1, <3>1, <4>2 DEF FencesSignaled, Tell
    <3>2. CASE ~wait.all
      BY <2>1, <3>2 DEF FencesSignaled, Silent, Nobody
    <3> QED
      BY <3>1, <3>2
  <2>2. CASE IsIdle
    <3> DEFINE awaited == UNION {OnQueue(q) : q \in wait.queues}
    <3>1. awaited \subseteq Work
      BY DEF OnQueue
    <3> QED
      BY <2>2, <3>1 DEF IsIdle, Tell
  <2> QED
    BY <2>1, <2>2
<1>3. TypeOK'
  BY <1>1, <1>2, QuietTypes DEF SyncInv, TypeOK
<1> QED
  BY <1>1, <1>2, <1>3, QuietStep

LEMMA TimelineStep ==
    ASSUME SyncInv, NEW t \in Timeline,
           \/ \E value \in 1..MaxValue : SignalSemaphore(t, value) \/ WaitSemaphores(t, value)
           \/ GetSemaphoreCounterValue(t)
    PROVE  SyncInv'
<1>1. UNCHANGED <<log, done, payload, fence, wait, acquired, covers>>
  BY DEF SignalSemaphore, WaitSemaphores, GetSemaphoreCounterValue
<1>2. counter' \in [Timeline -> 0..MaxValue]
  <2>1. \A value \in 1..MaxValue : Advanced(t, value) \in [Timeline -> 0..MaxValue]
    BY SyncAssumption DEF Advanced, SyncInv, TypeOK
  <2> QED
    BY <2>1 DEF SignalSemaphore, WaitSemaphores, GetSemaphoreCounterValue, SyncInv, TypeOK
<1>3. \A value : Reaching(t, value) \subseteq Work
  BY WorkOfLog DEF Reaching, SyncInv
<1>4. PICK by \in {"nobody", "timeline"}, works \in SUBSET Work :
        told' = [by |-> by, works |-> works]
  BY <1>3 DEF SignalSemaphore, WaitSemaphores, GetSemaphoreCounterValue, Tell, Silent, Nobody
<1>5. TypeOK'
  BY <1>1, <1>2, <1>4, QuietTypes DEF SyncInv, TypeOK
<1> QED
  BY <1>1, <1>4, <1>5, QuietStep

-----------------------------------------------------------------------------
(* Fences.                                                                 *)

\* A fence that stands for nothing pending is not the fence of a pending
\* submission.
LEMMA FreeFence ==
    ASSUME SyncInv, NEW f \in Fence, covers[f] \subseteq done
    PROVE  \A w \in Pending : log[w].fence # f
BY WorkOfLog DEF SyncInv, PendingFence, Pending

LEMMA FenceStep ==
    ASSUME SyncInv, NEW F \in SUBSET Fence,
           \A f \in F : covers[f] \subseteq done,
           \A f \in Fence : covers'[f] = IF f \in F THEN {} ELSE covers[f],
           \A f \in Fence \ F : fence'[f] = fence[f],
           fence' \in [Fence -> {"absent", "unsignaled", "signaled"}],
           covers' \in [Fence -> SUBSET Work],
           UNCHANGED <<log, done, payload, counter, wait, acquired>>, Silent
    PROVE  SyncInv'
<1>1. Work' = Work /\ Pending' = Pending
  BY DEF Work, Pending
<1>2. \A w \in Work : Before(w)' = Before(w)
  BY DEF Before
<1>3. TypeOK'
  BY <1>1 DEF SyncInv, TypeOK, Silent, Nobody
<1>4. SignaledIsDone'
  BY DEF SyncInv, SignaledIsDone
<1>5. PendingFence'
  <2> SUFFICES ASSUME NEW w \in Pending, NEW f \in Fence, log[w].fence = f
               PROVE  fence'[f] = "unsignaled" /\ covers'[f] = Before(w)
    BY <1>1, <1>2 DEF PendingFence, Pending
  <2>1. f \notin F
    BY FreeFence
  <2> QED
    BY <2>1 DEF SyncInv, PendingFence
<1> QED
  BY <1>3, <1>4, <1>5 DEF AbsentCoversNothing, SyncInv, FencePromisesKept, Silent, Nobody

LEMMA CreateFenceStep ==
    ASSUME SyncInv, NEW f \in Fence, NEW signaled \in BOOLEAN, CreateFence(f, signaled)
    PROVE  SyncInv'
<1>1. covers[f] = {}
  BY DEF CreateFence, SyncInv, AbsentCoversNothing
<1>2. /\ \A g \in Fence : covers'[g] = IF g \in {f} THEN {} ELSE covers[g]
      /\ \A g \in Fence \ {f} : fence'[g] = fence[g]
      /\ fence' \in [Fence -> {"absent", "unsignaled", "signaled"}]
      /\ covers' \in [Fence -> SUBSET Work]
  BY DEF CreateFence, SyncInv, TypeOK
<1>3. {f} \in SUBSET Fence /\ \A g \in {f} : covers[g] \subseteq done
  BY <1>1
<1> QED
  BY <1>2, <1>3, FenceStep DEF CreateFence

LEMMA DestroyFenceStep ==
    ASSUME SyncInv, NEW f \in Fence, DestroyFence(f)
    PROVE  SyncInv'
<1>2. /\ \A g \in Fence : covers'[g] = IF g \in {f} THEN {} ELSE covers[g]
      /\ \A g \in Fence \ {f} : fence'[g] = fence[g]
      /\ fence' \in [Fence -> {"absent", "unsignaled", "signaled"}]
      /\ covers' \in [Fence -> SUBSET Work]
  BY DEF DestroyFence, SyncInv, TypeOK
<1>3. {f} \in SUBSET Fence /\ \A g \in {f} : covers[g] \subseteq done
  BY DEF DestroyFence
<1> QED
  BY <1>2, <1>3, FenceStep DEF DestroyFence

LEMMA ResetFencesStep ==
    ASSUME SyncInv, NEW F \in SUBSET Fence, ResetFences(F)
    PROVE  SyncInv'
<1>2. /\ \A g \in Fence : covers'[g] = IF g \in F THEN {} ELSE covers[g]
      /\ \A g \in Fence \ F : fence'[g] = fence[g]
      /\ fence' \in [Fence -> {"absent", "unsignaled", "signaled"}]
      /\ covers' \in [Fence -> SUBSET Work]
  BY DEF ResetFences, SyncInv, TypeOK
<1>3. \A g \in F : covers[g] \subseteq done
  BY DEF ResetFences
<1> QED
  BY <1>2, <1>3, FenceStep DEF ResetFences

-----------------------------------------------------------------------------
(* Submissions.                                                            *)

LEMMA SubmitStep ==
    ASSUME SyncInv, NEW q \in Queue, NEW await \in SemaphoreOp,
           NEW signal \in SemaphoreOp, NEW f \in Fence \cup {NoFence},
           Submit(q, await, signal, f)
    PROVE  SyncInv'
<1> DEFINE new == Len(log) + 1
           work == [queue |-> q, await |-> await, signal |-> signal, fence |-> f]
<1>1. /\ log \in Seq(Submission) /\ work \in Submission
      /\ log' = Append(log, work)
  BY DEF Submit, RealFence, SyncInv, TypeOK, Submission
<1>2. /\ Len(log) \in Nat
      /\ Work' = Work \cup {new} /\ new \notin Work
      /\ log'[new] = work
      /\ \A w \in Work : log'[w] = log[w]
      /\ log' \in Seq(Submission)
  BY <1>1 DEF Work
<1>3. Pending' = Pending \cup {new}
  BY <1>2 DEF Pending, Submit, SyncInv, TypeOK
<1>4. \A w \in Work : Before(w)' = Before(w)
  BY <1>2 DEF Before, Work
<1>5. ASSUME NEW w, w = new
      PROVE  Before(w)' = OnQueue(q) \cup {new}
  <2>1. 1..w = Work \cup {w} /\ log'[w] = work /\ work.queue = q
    BY <1>2, <1>5 DEF Work
  <2> HIDE DEF work, new
  <2>2. \A v \in Work : log'[v] = log[v]
    BY <1>2
  <2> QED
    BY <1>5, <2>1, <2>2 DEF Before, OnQueue
<1>6. covers' \in [Fence -> SUBSET (Work')]
  BY <1>2 DEF Submit, OnQueue, SyncInv, TypeOK
<1>7. TypeOK'
  <2>1. Len(log') <= MaxWork
    BY <1>1, <1>2, SyncAssumption DEF Submit
  <2>2. done' \subseteq Work' /\ told' \in [by : {"nobody", "fence", "timeline"}, works : SUBSET (Work')]
    BY <1>2 DEF Submit, SyncInv, TypeOK, Silent, Nobody
  <2> QED
    BY <1>2, <1>6, <2>1, <2>2 DEF Submit, SyncInv, TypeOK
<1>8. f \in Fence => fence[f] = "unsignaled" /\ covers[f] = {}
  BY NullAssumption DEF Submit
<1>9. \A g \in Fence \ {f} : covers'[g] = covers[g]
  BY DEF Submit
<1>10. SignaledIsDone' /\ AbsentCoversNothing'
  BY <1>8, <1>9 DEF Submit, SyncInv, SignaledIsDone, AbsentCoversNothing
<1>11. PendingFence'
  <2> SUFFICES ASSUME NEW w \in Pending', NEW g \in Fence, log'[w].fence = g
               PROVE  fence'[g] = "unsignaled" /\ covers'[g] = Before(w)'
    BY DEF PendingFence
  <2>1. CASE w = new
    <3>1. log'[w] = work /\ work.fence = f
      BY <2>1, <1>2
    <3>2. g = f
      BY <3>1
    <3>3. Before(w)' = OnQueue(q) \cup {new}
      BY <2>1, <1>5
    <3>4. covers'[g] = OnQueue(q) \cup {new} /\ fence' = fence
      BY <3>2 DEF Submit
    <3> QED
      BY <3>2, <3>3, <3>4, <1>8
  <2>2. CASE w # new
    <3>1. w \in Pending /\ w \in Work /\ log[w].fence = g
      BY <2>2, <1>2, <1>3 DEF Pending
    <3>2. fence[g] = "unsignaled" /\ covers[g] = Before(w)
      BY <3>1 DEF SyncInv, PendingFence
    <3>3. g # f
      BY <3>1, <1>8, FreeFence
    <3> QED
      BY <3>1, <3>2, <3>3, <1>4, <1>9 DEF Submit
  <2> QED
    BY <2>1, <2>2
<1> QED
  BY <1>7, <1>10, <1>11 DEF Submit, SyncInv, FencePromisesKept, Silent, Nobody

LEMMA ExecuteStep ==
    ASSUME SyncInv, NEW q \in Queue, Execute(q)
    PROVE  SyncInv'
<1>1. PICK w \in OnQueue(q) \ done :
        /\ Before(w) \ {w} \subseteq done
        /\ payload' = [s \in Semaphore |->
                IF s = log[w].signal.sem THEN log[w].signal.value
                ELSE IF s = log[w].await.sem /\ s \in Binary THEN 0 ELSE payload[s]]
        /\ fence' = [f \in Fence |-> IF f = log[w].fence THEN "signaled"
                                     ELSE fence[f]]
        /\ done' = done \cup {w}
  BY DEF Execute
<1>2. UNCHANGED <<log, counter, wait, acquired, covers>> /\ told' = Nobody
  BY DEF Execute, Silent
<1>3. w \in Pending /\ w \in Work
  BY <1>1 DEF Pending, OnQueue
<1>4. Work' = Work /\ Pending' = Pending \ {w}
  BY <1>1, <1>2 DEF Work, Pending
<1>5. \A v \in Work : Before(v)' = Before(v)
  BY <1>2 DEF Before
<1>6. \A f \in Fence : log[w].fence = f => covers[f] = Before(w) /\ Before(w) \subseteq done'
  BY <1>1, <1>3 DEF SyncInv, PendingFence
<1>7. TypeOK'
  <2>1. log[w] \in Submission
    BY <1>3, WorkOfLog DEF SyncInv
  <2>2. \A s \in Semaphore : s = log[w].signal.sem => log[w].signal.value \in 0..MaxValue
    <3>1. log[w].signal \in SemaphoreOp
      BY <2>1 DEF Submission
    <3> QED
      BY <3>1, SyncAssumption DEF SemaphoreOp, Nothing
  <2>3. payload' \in [Semaphore -> 0..MaxValue]
    BY <1>1, <2>2, SyncAssumption DEF SyncInv, TypeOK
  <2>4. fence' \in [Fence -> {"absent", "unsignaled", "signaled"}]
    BY <1>1 DEF SyncInv, TypeOK
  <2>5. told' \in [by : {"nobody", "fence", "timeline"}, works : SUBSET (Work')]
    BY <1>2 DEF Nobody
  <2> QED
    BY <1>1, <1>2, <1>3, <1>4, <2>3, <2>4, <2>5 DEF SyncInv, TypeOK
<1>8. SignaledIsDone'
  BY <1>1, <1>2, <1>6 DEF SyncInv, SignaledIsDone
<1>9. AbsentCoversNothing'
  BY <1>1, <1>2 DEF SyncInv, AbsentCoversNothing
<1>10. PendingFence'
  <2> SUFFICES ASSUME NEW v \in Pending \ {w}, NEW f \in Fence, log[v].fence = f
               PROVE  fence'[f] = "unsignaled" /\ covers[f] = Before(v)
    BY <1>2, <1>4, <1>5 DEF PendingFence, Pending
  <2>1. fence[f] = "unsignaled" /\ covers[f] = Before(v) /\ v \in Before(v) /\ v \notin done
    BY WorkOfLog DEF SyncInv, PendingFence, Pending
  <2>2. log[w].fence # f
    BY <1>1, <1>6, <2>1
  <2> QED
    BY <1>1, <2>1, <2>2
<1> QED
  BY <1>2, <1>7, <1>8, <1>9, <1>10 DEF SyncInv, FencePromisesKept, Nobody

-----------------------------------------------------------------------------
LEMMA StutterStep == SyncInv /\ UNCHANGED vars => SyncInv'
<1> SUFFICES ASSUME SyncInv, UNCHANGED vars PROVE SyncInv'
  OBVIOUS
<1>1. Work' = Work
  BY DEF vars, Work
<1>2. TypeOK'
  BY <1>1 DEF SyncInv, TypeOK, vars
<1> QED
  BY <1>2, QuietStep DEF vars, SyncInv, FencePromisesKept

LEMMA NextStep == SyncInv /\ [Next]_vars => SyncInv'
<1> SUFFICES ASSUME SyncInv, [Next]_vars PROVE SyncInv'
  OBVIOUS
<1>1. CASE Requests
  <2>1. CASE \E f \in Fence : \/ \E signaled \in BOOLEAN : CreateFence(f, signaled)
                              \/ DestroyFence(f) \/ GetFenceStatus(f)
    BY <2>1, CreateFenceStep, DestroyFenceStep, StatusStep
  <2>2. CASE \E F \in SUBSET Fence : ResetFences(F)
    BY <2>2, ResetFencesStep
  <2>3. CASE \E F \in SUBSET Fence : \E all, finite \in BOOLEAN : WaitForFences(F, all, finite)
    BY <2>3, WaitStep
  <2>4. CASE \E r \in Queue, await, signal \in SemaphoreOp, f \in Fence \cup {NoFence} :
                Submit(r, await, signal, f)
    BY <2>4, SubmitStep
  <2>5. CASE \E Q \in SUBSET Queue : WaitIdle(Q)
    BY <2>5, WaitStep
  <2>6. CASE \E s \in Binary : AcquireNextImage(s)
    BY <2>6, AcquireStep
  <2>7. CASE \E t \in Timeline :
                \/ \E value \in 1..MaxValue : SignalSemaphore(t, value) \/ WaitSemaphores(t, value)
                \/ GetSemaphoreCounterValue(t)
    BY <2>7, TimelineStep
  <2> QED
    BY <1>1, <2>1, <2>2, <2>3, <2>4, <2>5, <2>6, <2>7 DEF Requests
<1>2. CASE Return
  BY <1>2, ReturnStep, WaitStep DEF Return
<1>3. CASE \E q \in Queue : Execute(q)
  BY <1>3, ExecuteStep
<1>4. CASE UNCHANGED vars
  BY <1>4, StutterStep
<1> QED
  BY <1>1, <1>2, <1>3, <1>4 DEF Next

\* Fences and waits keep the invariant that the two theorems below rest on:
\* what a signaled fence stands for is executed, and a pending submission's
\* fence stands for what its queue holds up to it.
LEMMA SyncAlways == Spec => []SyncInv
BY InitSync, NextStep, PTL DEF Spec

\* Every variable keeps its type: submissions and fences name existing work,
\* and no semaphore passes MaxValue.
THEOREM TypeCorrect == Spec => []TypeOK
<1>1. SyncInv => TypeOK
  BY DEF SyncInv
<1> QED
  BY <1>1, SyncAlways, PTL

\* vkGetFenceStatus, vkWaitForFences, vkQueueWaitIdle and vkDeviceWaitIdle
\* report only work the GPU has executed, whatever the number of queues,
\* fences and submissions.
THEOREM FencesKeepTheirPromise == Spec => []FencePromisesKept
<1>1. SyncInv => FencePromisesKept
  BY DEF SyncInv
<1> QED
  BY <1>1, SyncAlways, PTL
-----------------------------------------------------------------------------
(* Waits.  That a wait ends is liveness; what can be said of it without    *)
(* fairness is that it is never stuck, that only the GPU moves while it    *)
(* lasts, one submission at a time, and that what is fed stays fed.        *)

\* Of pending submissions that signal a timeline semaphore, the later signals
\* the greater value, on the same queue, and all values are still to come.
SignalsGrow ==
    \A v, w \in Pending : \A t \in Timeline :
        log[v].signal.sem = t =>
            /\ payload[t] < log[v].signal.value
            /\ log[w].signal.sem = t =>
                 /\ log[v].queue = log[w].queue
                 /\ v < w => log[v].signal.value < log[w].signal.value

\* At most one pending submission waits for a binary semaphore.
OneAwaits ==
    \A v, w \in Pending : \A b \in Binary :
        log[v].await.sem = b /\ log[w].await.sem = b => v = w

\* A fence that stands for something unsignaled was given to a pending
\* submission.
UnsignaledIsPending ==
    \A f \in Fence : fence[f] = "unsignaled" /\ covers[f] # {} =>
        \E w \in Pending : log[w].fence = f

\* Without a time limit the server waits only for fences that are signaled or
\* stand for something.
WaitIsMeant ==
    wait.kind = "fences" =>
        /\ wait.fences # {}
        /\ \A f \in wait.fences : fence[f] # "absent"
        /\ ~wait.finite => \A f \in wait.fences : fence[f] = "signaled" \/ covers[f] # {}

FedInv == SignalsGrow /\ OneAwaits /\ UnsignaledIsPending /\ WaitIsMeant

Blocked == wait # NoWait
AllFed  == \A w \in Pending : Fed(w)

\* Can the wait return, can the GPU execute the next submission of a queue?
CanReturn ==
    \/ wait.kind = "fences" /\ wait.finite
    \/ wait.kind = "fences" /\ IF wait.all THEN \A f \in wait.fences : Signaled(f)
                                           ELSE \E f \in wait.fences : Signaled(f)
    \/ wait.kind = "idle" /\ UNION {OnQueue(q) : q \in wait.queues} \subseteq done

CanExecute(q) ==
    \E w \in OnQueue(q) \ done :
        /\ Before(w) \ {w} \subseteq done
        /\ log[w].await # Nothing => payload[log[w].await.sem] >= log[w].await.value

\* A blocked server whose submissions are fed comes back, or the GPU has
\* something to execute.
NotStuck == Blocked /\ AllFed => CanReturn \/ \E q \in Queue : CanExecute(q)

\* A step of a blocked server is its return, or one submission more is done.
Advances ==
    Blocked /\ AllFed =>
        \/ wait' = NoWait
        \/ /\ wait' = wait /\ log' = log /\ AllFed'
           /\ \E w \in Pending : done' = done \cup {w}


LEMMA LeastNat ==
    ASSUME NEW T \in SUBSET Nat, T # {}
    PROVE  \E n \in T : \A m \in T : n <= m
<1> DEFINE R == {ss \in Nat \X Nat : ss[1] < ss[2]}
<1>1. IsWellFoundedOn(R, Nat)
  BY NatLessThanWellFounded DEF OpToRel
<1>2. \E x \in T : \A y \in T : ~ (<<y, x>> \in R)
  <2> HIDE DEF R
  <2> QED
    BY <1>1, WFMin, Zenon
<1>3. PICK x \in T : \A y \in T : <<y, x>> \notin R
  BY <1>2
<1>4. ASSUME NEW y \in T, y < x PROVE FALSE
  <2>1. y \in Nat /\ x \in Nat
    OBVIOUS
  <2>2. <<y, x>> \in R
    BY <1>4, <2>1
  <2> QED
    BY <1>3, <2>2
<1> QED
  BY <1>4

LEMMA OpOfNothing ==
    ASSUME NEW op \in SemaphoreOp
    PROVE  /\ op.sem \in Semaphore => op # Nothing
           /\ op # Nothing => op.sem \in Semaphore
           /\ op.sem \in Binary => op.value = 1
           /\ op.sem \in Timeline => op.value \in 1..MaxValue
BY NullAssumption, SyncAssumption DEF SemaphoreOp, Nothing, Semaphore

LEMMA InitFed == Init => FedInv
<1> SUFFICES ASSUME Init PROVE FedInv
  OBVIOUS
<1>1. Work = {} /\ Pending = {}
  BY DEF Init, Work, Pending
<1> QED
  BY <1>1 DEF Init, FedInv, SignalsGrow, OneAwaits, UnsignaledIsPending,
        WaitIsMeant, NoWait

\* Steps that touch neither submissions, semaphores nor fences.
LEMMA FedQuiet ==
    ASSUME FedInv, UNCHANGED <<log, done, payload, fence, covers>>, WaitIsMeant'
    PROVE  FedInv'
<1>1. Work' = Work /\ Pending' = Pending
  BY DEF Work, Pending
<1>2. SignalsGrow'
  BY <1>1 DEF FedInv, SignalsGrow
<1>3. OneAwaits'
  BY <1>1 DEF FedInv, OneAwaits
<1>4. UnsignaledIsPending'
  BY <1>1 DEF FedInv, UnsignaledIsPending
<1> QED
  BY <1>2, <1>3, <1>4 DEF FedInv

\* Steps on fences: those that stand for nothing unsignaled are let alone.
LEMMA FedFence ==
    ASSUME FedInv, wait = NoWait, UNCHANGED <<log, done, payload, wait>>,
           \A f \in Fence : fence'[f] = "unsignaled" /\ covers'[f] # {} =>
                fence[f] = "unsignaled" /\ covers[f] # {}
    PROVE  FedInv'
<1>1. Work' = Work /\ Pending' = Pending
  BY DEF Work, Pending
<1>2. SignalsGrow'
  BY <1>1 DEF FedInv, SignalsGrow
<1>3. OneAwaits'
  BY <1>1 DEF FedInv, OneAwaits
<1>4. UnsignaledIsPending'
  BY <1>1 DEF FedInv, UnsignaledIsPending
<1>5. WaitIsMeant'
  BY DEF WaitIsMeant, NoWait
<1> QED
  BY <1>2, <1>3, <1>4, <1>5 DEF FedInv

LEMMA FedSubmit ==
    ASSUME SyncInv, FedInv, NEW q \in Queue, NEW await \in SemaphoreOp,
           NEW signal \in SemaphoreOp, NEW f \in Fence \cup {NoFence},
           Submit(q, await, signal, f)
    PROVE  FedInv'
<1> DEFINE new == Len(log) + 1
           work == [queue |-> q, await |-> await, signal |-> signal, fence |-> f]
<1>1. /\ log \in Seq(Submission) /\ work \in Submission
      /\ log' = Append(log, work)
  BY DEF Submit, RealFence, SyncInv, TypeOK, Submission
<1>2. /\ Len(log) \in Nat /\ new \in Nat
      /\ new \notin Work
      /\ Work' = Work \cup {new}
      /\ log'[new] = work
      /\ \A w \in Work : log'[w] = log[w] /\ w < new /\ w \in Nat
  BY <1>1 DEF Work
<1>3. Pending' = Pending \cup {new} /\ Pending \subseteq Work
  BY <1>2 DEF Pending, Submit, SyncInv, TypeOK
<1>4. work.queue = q /\ work.await = await /\ work.signal = signal /\ work.fence = f
  OBVIOUS
<1> HIDE DEF work, new
<1>5. \A w \in Pending : log'[w] = log[w] /\ w < new /\ w \in Nat
  BY <1>2, <1>3
<1>6. payload' = payload /\ fence' = fence /\ wait' = wait /\ wait = NoWait
  BY DEF Submit, Serving
<1>7. ASSUME NEW t \in Timeline, signal.sem = t
      PROVE  /\ payload[t] < signal.value
             /\ \A w \in Pending : log[w].signal.sem = t =>
                    log[w].queue = q /\ log[w].signal.value < signal.value
  <2>1. signal # Nothing /\ signal.sem \notin Binary
    BY <1>7, OpOfNothing, SyncAssumption DEF Semaphore
  <2>2. MaySignal(signal, q)
    BY DEF Submit
  <2> QED
    BY <1>7, <2>1, <2>2 DEF MaySignal, Signaling
<1>8. SignalsGrow'
  <2> SUFFICES ASSUME NEW v \in Pending', NEW w \in Pending', NEW t \in Timeline,
                      log'[v].signal.sem = t
               PROVE  /\ payload[t] < log'[v].signal.value
                      /\ log'[w].signal.sem = t =>
                           /\ log'[v].queue = log'[w].queue
                           /\ v < w => log'[v].signal.value < log'[w].signal.value
    BY <1>6 DEF SignalsGrow
  <2>1. CASE v \in Pending /\ w \in Pending
    BY <2>1, <1>5 DEF FedInv, SignalsGrow
  <2>2. CASE v \in Pending /\ w = new
    BY <2>2, <1>2, <1>4, <1>5, <1>7 DEF FedInv, SignalsGrow
  <2>3. CASE v = new /\ w \in Pending
    <3>1. ~ v < w
      BY <2>3, <1>2, <1>5
    <3> QED
      BY <2>3, <3>1, <1>2, <1>4, <1>5, <1>7
  <2>4. CASE v = new /\ w = new
    <3>1. ~ v < w
      BY <2>4, <1>2
    <3> QED
      BY <2>4, <3>1, <1>2, <1>4, <1>7
  <2> QED
    BY <2>1, <2>2, <2>3, <2>4, <1>3
<1>9. ASSUME NEW b \in Binary, await.sem = b
      PROVE  \A w \in Pending : log[w].await.sem # b
  <2>1. await # Nothing /\ await.sem \notin Timeline
    BY <1>9, OpOfNothing, SyncAssumption DEF Semaphore
  <2>2. MayAwait(await)
    BY DEF Submit
  <2> QED
    BY <1>9, <2>1, <2>2 DEF MayAwait, Awaiting
<1>10. OneAwaits'
  <2> SUFFICES ASSUME NEW v \in Pending', NEW w \in Pending', NEW b \in Binary,
                      log'[v].await.sem = b, log'[w].await.sem = b
               PROVE  v = w
    BY DEF OneAwaits
  <2> QED
    BY <1>2, <1>3, <1>4, <1>5, <1>9 DEF FedInv, OneAwaits
<1>11. UnsignaledIsPending'
  <2> SUFFICES ASSUME NEW g \in Fence, fence[g] = "unsignaled", covers'[g] # {}
               PROVE  \E w \in Pending' : log'[w].fence = g
    BY <1>6 DEF UnsignaledIsPending
  <2>1. CASE g = f
    BY <2>1, <1>2, <1>3, <1>4
  <2>2. CASE g # f
    <3>1. covers'[g] = covers[g]
      BY <2>2 DEF Submit
    <3> QED
      BY <3>1, <1>3, <1>5 DEF FedInv, UnsignaledIsPending
  <2> QED
    BY <2>1, <2>2
<1>12. WaitIsMeant'
  BY <1>6 DEF WaitIsMeant, NoWait
<1> QED
  BY <1>8, <1>10, <1>11, <1>12 DEF FedInv

-----------------------------------------------------------------------------
(* The GPU executes the submission w, the first pending one of its queue.  *)

Executes(w) ==
    /\ w \in Pending
    /\ Before(w) \ {w} \subseteq done
    /\ log[w].await # Nothing => payload[log[w].await.sem] >= log[w].await.value
    /\ payload' = [s \in Semaphore |->
            IF s = log[w].signal.sem THEN log[w].signal.value
            ELSE IF s = log[w].await.sem /\ s \in Binary THEN 0 ELSE payload[s]]
    /\ fence' = [f \in Fence |-> IF f = log[w].fence THEN "signaled" ELSE fence[f]]
    /\ done' = done \cup {w}
    /\ log' = log /\ wait' = wait /\ covers' = covers

LEMMA ExecuteIs ==
    ASSUME NEW q \in Queue, Execute(q)
    PROVE  \E w \in Pending : Executes(w)
BY DEF Execute, Executes, Pending, OnQueue

LEMMA ExecutesFacts ==
    ASSUME TypeOK, NEW w \in Pending, Executes(w)
    PROVE  /\ Work' = Work /\ Pending' = Pending \ {w} /\ Work \subseteq Nat
           /\ \A v \in Pending : log[v] \in Submission
           /\ \A v \in Pending \ {w} : log[v].queue = log[w].queue => w < v
           /\ \A s \in Semaphore :
                /\ payload[s] \in 0..MaxValue
                /\ s = log[w].signal.sem => payload'[s] = log[w].signal.value
                /\ s # log[w].signal.sem /\ ~ (s = log[w].await.sem /\ s \in Binary)
                     => payload'[s] = payload[s]
<1>1. Work' = Work /\ Pending' = Pending \ {w}
  BY DEF Executes, Work, Pending
<1>2. Work \subseteq Nat /\ \A v \in Pending : log[v] \in Submission
  BY WorkOfLog DEF Work, Pending
<1>3. ASSUME NEW v \in Pending \ {w}, log[v].queue = log[w].queue
      PROVE  w < v
  <2>1. v \in Nat /\ w \in Nat /\ v # w /\ 1 <= v
    BY <1>2 DEF Pending, Work
  <2>2. v \notin Before(w)
    BY DEF Executes, Pending
  <2> QED
    BY <1>3, <2>1, <2>2 DEF Before
<1>4. \A s \in Semaphore :
        /\ payload[s] \in 0..MaxValue
        /\ s = log[w].signal.sem => payload'[s] = log[w].signal.value
        /\ s # log[w].signal.sem /\ ~ (s = log[w].await.sem /\ s \in Binary)
             => payload'[s] = payload[s]
  BY DEF Executes, TypeOK
<1> QED
  BY <1>1, <1>2, <1>3, <1>4

LEMMA FedExecute ==
    ASSUME SyncInv, FedInv, NEW w \in Pending, Executes(w)
    PROVE  FedInv'
<1>1. /\ Work' = Work /\ Pending' = Pending \ {w} /\ Work \subseteq Nat
      /\ \A v \in Pending : log[v] \in Submission
      /\ \A v \in Pending \ {w} : log[v].queue = log[w].queue => w < v
      /\ \A s \in Semaphore :
            /\ payload[s] \in 0..MaxValue
            /\ s = log[w].signal.sem => payload'[s] = log[w].signal.value
            /\ s # log[w].signal.sem /\ ~ (s = log[w].await.sem /\ s \in Binary)
                 => payload'[s] = payload[s]
  BY ExecutesFacts DEF SyncInv
<1>2. log' = log /\ wait' = wait /\ covers' = covers
  BY DEF Executes
<1>3. SignalsGrow'
  <2> SUFFICES ASSUME NEW v \in Pending \ {w}, NEW x \in Pending \ {w}, NEW t \in Timeline,
                      log[v].signal.sem = t
               PROVE  /\ payload'[t] < log[v].signal.value
                      /\ log[x].signal.sem = t =>
                           /\ log[v].queue = log[x].queue
                           /\ v < x => log[v].signal.value < log[x].signal.value
    BY <1>1, <1>2 DEF SignalsGrow
  <2>1. t \in Semaphore /\ t \notin Binary
    BY SyncAssumption DEF Semaphore
  <2>2. CASE log[w].signal.sem = t
    <3>1. payload'[t] = log[w].signal.value
      BY <1>1, <2>1, <2>2
    <3>2. log[w].queue = log[v].queue
      BY <2>2 DEF FedInv, SignalsGrow
    <3>3. w < v
      BY <1>1, <3>2
    <3>4. log[w].signal.value < log[v].signal.value
      BY <2>2, <3>3 DEF FedInv, SignalsGrow
    <3> QED
      BY <3>1, <3>4 DEF FedInv, SignalsGrow
  <2>3. CASE log[w].signal.sem # t
    <3>1. payload'[t] = payload[t]
      BY <1>1, <2>1, <2>3
    <3> QED
      BY <3>1 DEF FedInv, SignalsGrow
  <2> QED
    BY <2>2, <2>3
<1>4. OneAwaits'
  BY <1>1, <1>2 DEF FedInv, OneAwaits
<1>5. \A f \in Fence : fence'[f] = IF f = log[w].fence THEN "signaled" ELSE fence[f]
  BY DEF Executes
<1>6. UnsignaledIsPending'
  <2> SUFFICES ASSUME NEW f \in Fence, fence'[f] = "unsignaled", covers[f] # {}
               PROVE  \E v \in Pending \ {w} : log[v].fence = f
    BY <1>1, <1>2 DEF UnsignaledIsPending
  <2>1. f # log[w].fence /\ fence[f] = "unsignaled"
    BY <1>5
  <2> QED
    BY <2>1 DEF FedInv, UnsignaledIsPending
<1>7. WaitIsMeant'
  <2> SUFFICES ASSUME wait.kind = "fences"
               PROVE  /\ wait.fences # {}
                      /\ \A f \in wait.fences : fence'[f] # "absent"
                      /\ ~wait.finite => \A f \in wait.fences :
                                            fence'[f] = "signaled" \/ covers[f] # {}
    BY <1>2 DEF WaitIsMeant
  <2>1. wait.fences \subseteq Fence
    BY DEF SyncInv, TypeOK, Wait, NoWait
  <2> QED
    BY <1>5, <2>1 DEF FedInv, WaitIsMeant
<1> QED
  BY <1>3, <1>4, <1>6, <1>7 DEF FedInv

\* What is fed stays fed.
LEMMA FedStays ==
    ASSUME SyncInv, FedInv, AllFed, NEW w \in Pending, Executes(w)
    PROVE  AllFed'
<1>1. /\ Work' = Work /\ Pending' = Pending \ {w} /\ Work \subseteq Nat
      /\ \A v \in Pending : log[v] \in Submission
      /\ \A v \in Pending \ {w} : log[v].queue = log[w].queue => w < v
      /\ \A s \in Semaphore :
            /\ payload[s] \in 0..MaxValue
            /\ s = log[w].signal.sem => payload'[s] = log[w].signal.value
            /\ s # log[w].signal.sem /\ ~ (s = log[w].await.sem /\ s \in Binary)
                 => payload'[s] = payload[s]
  BY ExecutesFacts DEF SyncInv
<1>2. log' = log
  BY DEF Executes
<1> SUFFICES ASSUME NEW v \in Pending \ {w} PROVE Fed(v)'
  BY <1>1 DEF AllFed
<1> DEFINE op == log[v].await
<1> SUFFICES ASSUME op # Nothing
             PROVE  \/ payload'[op.sem] >= op.value
                    \/ \E u \in Pending \ {w} : /\ log[u].signal.sem = op.sem
                                                /\ u < v /\ log[u].signal.value >= op.value
  BY <1>1, <1>2 DEF Fed, Signaling
<1>3. op \in SemaphoreOp /\ log[w].signal \in SemaphoreOp /\ log[w].await \in SemaphoreOp
  BY <1>1 DEF Submission
<1>4. op.sem \in Semaphore
  BY <1>3, OpOfNothing
<1>5. log[w].signal.sem = op.sem => op.value \in Nat /\ log[w].signal.value \in Nat
  BY <1>3, <1>4, OpOfNothing, SyncAssumption DEF Semaphore
<1>6. Fed(v)
  BY DEF AllFed
<1>7. CASE \E u \in Signaling(op.sem) : u < v /\ log[u].signal.value >= op.value
  <2>1. PICK u \in Pending : /\ log[u].signal.sem = op.sem
                             /\ u < v /\ log[u].signal.value >= op.value
    BY <1>7 DEF Signaling
  <2>2. CASE u = w
    BY <2>1, <2>2, <1>1, <1>4
  <2>3. CASE u # w
    BY <2>1, <2>3
  <2> QED
    BY <2>2, <2>3
<1>8. CASE payload[op.sem] >= op.value
  <2>1. CASE op.sem = log[w].signal.sem /\ op.sem \in Timeline
    <3>1. payload[op.sem] < log[w].signal.value
      BY <2>1 DEF FedInv, SignalsGrow
    <3>2. payload'[op.sem] = log[w].signal.value
      BY <2>1, <1>1, <1>4
    <3>3. payload[op.sem] \in Nat
      BY <1>1, <1>4, SyncAssumption
    <3> QED
      BY <3>1, <3>2, <3>3, <2>1, <1>5, <1>8
  <2>2. CASE op.sem = log[w].signal.sem /\ op.sem \in Binary
    <3>1. op.value = 1 /\ log[w].signal.value = 1
      BY <2>2, <1>3, OpOfNothing
    <3>2. payload'[op.sem] = log[w].signal.value
      BY <2>2, <1>1, <1>4
    <3> QED
      BY <3>1, <3>2
  <2>3. CASE op.sem # log[w].signal.sem
    <3>1. ~ (op.sem = log[w].await.sem /\ op.sem \in Binary)
      BY DEF FedInv, OneAwaits
    <3>2. payload'[op.sem] = payload[op.sem]
      BY <2>3, <3>1, <1>1, <1>4
    <3> QED
      BY <3>2, <1>8
  <2> QED
    BY <2>1, <2>2, <2>3, <1>4 DEF Semaphore
<1> QED
  BY <1>6, <1>7, <1>8 DEF Fed

-----------------------------------------------------------------------------
LEMMA FedNext == SyncInv /\ FedInv /\ [Next]_vars => FedInv'
<1> SUFFICES ASSUME SyncInv, FedInv, [Next]_vars PROVE FedInv'
  OBVIOUS
<1>0. wait' = wait /\ wait = NoWait => WaitIsMeant'
  BY DEF WaitIsMeant, NoWait
<1>a. wait' = NoWait => WaitIsMeant'
  BY DEF WaitIsMeant, NoWait
<1>1. CASE Requests
  <2>1. CASE \E f \in Fence : \/ \E signaled \in BOOLEAN : CreateFence(f, signaled)
                              \/ DestroyFence(f)
    <3>1. PICK f \in Fence : (\E signaled \in BOOLEAN : CreateFence(f, signaled)) \/ DestroyFence(f)
      BY <2>1
    <3>2. \A g \in Fence : /\ covers'[g] = IF g = f THEN {} ELSE covers[g]
                           /\ g # f => fence'[g] = fence[g]
      BY <3>1 DEF CreateFence, DestroyFence, SyncInv, TypeOK
    <3>3. wait = NoWait /\ UNCHANGED <<log, done, payload, wait>>
      BY <3>1 DEF CreateFence, DestroyFence, Serving
    <3> QED
      BY <3>2, <3>3, FedFence
  <2>2. CASE \E F \in SUBSET Fence : ResetFences(F)
    <3>1. PICK F \in SUBSET Fence : ResetFences(F)
      BY <2>2
    <3>2. \A g \in Fence : /\ covers'[g] = IF g \in F THEN {} ELSE covers[g]
                           /\ g \notin F => fence'[g] = fence[g]
      BY <3>1 DEF ResetFences
    <3>3. wait = NoWait /\ UNCHANGED <<log, done, payload, wait>>
      BY <3>1 DEF ResetFences, Serving
    <3> QED
      BY <3>2, <3>3, FedFence
  <2>3. CASE \E F \in SUBSET Fence : \E all, finite \in BOOLEAN : WaitForFences(F, all, finite)
    <3>1. PICK F \in SUBSET Fence, all \in BOOLEAN, finite \in BOOLEAN :
            WaitForFences(F, all, finite)
      BY <2>3
    <3>2. /\ F # {} /\ UNCHANGED <<log, done, payload, fence, covers>>
          /\ \A f \in F : fence[f] # "absent" /\ (finite \/ fence[f] = "signaled" \/ covers[f] # {})
      BY <3>1 DEF WaitForFences
    <3>3. wait'.fences = F /\ wait'.finite = finite
      BY <3>1 DEF WaitForFences
    <3>4. WaitIsMeant'
      BY <3>2, <3>3 DEF WaitIsMeant
    <3> QED
      BY <3>2, <3>4, FedQuiet
  <2>4. CASE \E r \in Queue, await, signal \in SemaphoreOp, f \in Fence \cup {NoFence} :
                Submit(r, await, signal, f)
    BY <2>4, FedSubmit
  <2>5. CASE \E Q \in SUBSET Queue : WaitIdle(Q)
    <3>1. UNCHANGED <<log, done, payload, fence, covers>> /\ wait'.kind = "idle"
      BY <2>5 DEF WaitIdle
    <3> QED
      BY <3>1, FedQuiet DEF WaitIsMeant
  <2>6. CASE \/ \E s \in Binary : AcquireNextImage(s)
             \/ \E f \in Fence : GetFenceStatus(f)
             \/ \E t \in Timeline :
                  \/ \E value \in 1..MaxValue : SignalSemaphore(t, value) \/ WaitSemaphores(t, value)
                  \/ GetSemaphoreCounterValue(t)
    <3>1. UNCHANGED <<log, done, payload, fence, covers>> /\ wait = NoWait /\ wait' = wait
      BY <2>6 DEF AcquireNextImage, GetFenceStatus, SignalSemaphore, WaitSemaphores,
            GetSemaphoreCounterValue, Serving
    <3> QED
      BY <3>1, <1>0, FedQuiet
  <2> QED
    BY <1>1, <2>1, <2>2, <2>3, <2>4, <2>5, <2>6 DEF Requests
<1>2. CASE Return
  <2>1. UNCHANGED <<log, done, payload, fence, covers>> /\ wait' = NoWait
    BY <1>2 DEF Return, FencesSignaled, TimesOut, IsIdle
  <2> QED
    BY <2>1, <1>a, FedQuiet
<1>3. CASE \E q \in Queue : Execute(q)
  BY <1>3, ExecuteIs, FedExecute
<1>4. CASE UNCHANGED vars
  <2>1. WaitIsMeant'
    BY <1>4 DEF vars, FedInv, WaitIsMeant
  <2> QED
    BY <1>4, <2>1, FedQuiet DEF vars
<1> QED
  BY <1>1, <1>2, <1>3, <1>4 DEF Next

LEMMA FedAlways == Spec => [](SyncInv /\ FedInv)
<1>1. Init => SyncInv /\ FedInv
  BY InitSync, InitFed
<1>2. SyncInv /\ FedInv /\ [Next]_vars => (SyncInv /\ FedInv)'
  BY NextStep, FedNext
<1> QED
  BY <1>1, <1>2, PTL DEF Spec

\* The earliest pending submission can be executed; with nothing pending the
\* wait can return.
LEMMA FedIsNotStuck == SyncInv /\ FedInv => NotStuck
<1> SUFFICES ASSUME SyncInv, FedInv, Blocked, AllFed
             PROVE  CanReturn \/ \E q \in Queue : CanExecute(q)
  BY DEF NotStuck
<1>1. CASE Pending # {}
  <2>1. Pending \subseteq Work /\ Work \subseteq Nat
    BY DEF Pending, Work
  <2>2. PICK w \in Pending : \A v \in Pending : w <= v
    BY <1>1, <2>1, LeastNat
  <2>3. w \in Work /\ w \notin done /\ log[w] \in Submission /\ Before(w) \subseteq Work
    BY <2>1, WorkOfLog DEF SyncInv, Pending
  <2>4. log[w].queue \in Queue /\ w \in OnQueue(log[w].queue) \ done
    BY <2>3 DEF Submission, OnQueue
  <2>5. Before(w) \ {w} \subseteq done
    <3> SUFFICES ASSUME NEW v \in Before(w), v # w, v \notin done PROVE FALSE
      OBVIOUS
    <3>1. v \in Pending /\ v \in 1..w
      BY <2>3 DEF Pending, Before
    <3> QED
      BY <3>1, <2>1, <2>2
  <2>6. log[w].await # Nothing => payload[log[w].await.sem] >= log[w].await.value
    <3>1. Fed(w)
      BY DEF AllFed
    <3>2. \A v \in Pending : ~ v < w
      BY <2>1, <2>2
    <3> QED
      BY <3>1, <3>2 DEF Fed, Signaling
  <2>7. CanExecute(log[w].queue)
    BY <2>4, <2>5, <2>6 DEF CanExecute
  <2> QED
    BY <2>4, <2>7
<1>2. CASE Pending = {}
  <2>1. Work \subseteq done
    BY <1>2 DEF Pending
  <2>2. CASE wait.kind = "idle"
    BY <2>1, <2>2 DEF CanReturn, OnQueue
  <2>3. CASE wait.kind = "fences" /\ wait.finite
    BY <2>3 DEF CanReturn
  <2>4. CASE wait.kind = "fences" /\ ~wait.finite
    <3>1. /\ wait.fences # {}
          /\ \A f \in wait.fences : /\ fence[f] # "absent"
                                    /\ fence[f] = "signaled" \/ covers[f] # {}
      BY <2>4 DEF FedInv, WaitIsMeant
    <3>2. wait.fences \subseteq Fence
      BY <2>4 DEF SyncInv, TypeOK, Wait, NoWait
    <3>3. \A f \in Fence : fence[f] \in {"absent", "unsignaled", "signaled"}
      BY DEF SyncInv, TypeOK
    <3>4. \A f \in wait.fences : fence[f] = "signaled"
      BY <1>2, <3>1, <3>2, <3>3 DEF FedInv, UnsignaledIsPending
    <3> QED
      BY <2>4, <3>1, <3>4 DEF CanReturn, Signaled
  <2> QED
    BY <2>2, <2>3, <2>4 DEF SyncInv, TypeOK, Wait, Blocked, NoWait
<1> QED
  BY <1>1, <1>2

LEMMA FedAdvances == SyncInv /\ FedInv /\ [Next]_vars => [Advances]_vars
<1> SUFFICES ASSUME SyncInv, FedInv, Next, Blocked, AllFed
             PROVE  \/ wait' = NoWait
                    \/ /\ wait' = wait /\ log' = log /\ AllFed'
                       /\ \E w \in Pending : done' = done \cup {w}
  BY DEF Advances
<1>1. CASE Requests
  BY <1>1 DEF Blocked, Requests, CreateFence, DestroyFence, GetFenceStatus, ResetFences,
        WaitForFences, Submit, WaitIdle, AcquireNextImage, SignalSemaphore,
        WaitSemaphores, GetSemaphoreCounterValue, Serving
<1>2. CASE Return
  BY <1>2 DEF Return, FencesSignaled, TimesOut, IsIdle
<1>3. CASE \E q \in Queue : Execute(q)
  <2>1. PICK w \in Pending : Executes(w)
    BY <1>3, ExecuteIs
  <2>2. AllFed'
    BY <2>1, FedStays
  <2> QED
    BY <2>1, <2>2 DEF Executes
<1> QED
  BY <1>1, <1>2, <1>3 DEF Next

\* A server blocked in vkWaitForFences, vkQueueWaitIdle or vkDeviceWaitIdle is
\* never stuck when each pending submission waits only for what is there or an
\* earlier one signals: its wait can return, or some queue can execute its next
\* submission.
THEOREM FedWaitsAreNotStuck == Spec => []NotStuck
<1> QED
  BY FedAlways, FedIsNotStuck, PTL

\* While it is blocked so, no step but the wait's return leaves it where it
\* is: each executes one pending submission more, the log does not grow, and
\* what is fed stays fed.  With the theorem before, at most Len(log) steps of
\* the GPU separate a wait from what lets it return.
THEOREM FedWaitsAdvance == Spec => [][Advances]_vars
<1> QED
  BY FedAlways, FedAdvances, PTL DEF Spec
=============================================================================
