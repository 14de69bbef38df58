------------------------------ MODULE DeviceSync ------------------------------
(***************************************************************************)
(* Submissions, fences and semaphores, as the server plays them to the     *)
(* driver, and the waits it performs for the application.                  *)
(*                                                                         *)
(* The server has one thread and serves one request at a time: while it is *)
(* blocked in vkWaitForFences, vkQueueWaitIdle or vkDeviceWaitIdle (also   *)
(* called to present an image) no other request is served.  The driver's   *)
(* fences and semaphores change when the GPU executes a submission; the    *)
(* server's own idea of a timeline semaphore (SyncManager::timeline_value) *)
(* changes only when the application asks, waits or signals.               *)
(*                                                                         *)
(* The application uses fences and semaphores as Vulkan demands.  The      *)
(* flags "signaled" that client and server keep for fences and binary      *)
(* semaphores are never read and are left out.                             *)
(***************************************************************************)
EXTENDS Naturals, FiniteSets, Sequences

CONSTANTS
    Queue, Fence,
    Binary,         \* binary semaphores
    Timeline,       \* timeline semaphores, created with the value 0
    AppMay,         \* what the application does, see below
    MaxWork,        \* bound on the number of submissions
    MaxValue        \* bound on the value of a timeline semaphore

(***************************************************************************)
(* "acquire": let a submission wait for the semaphore it has given to      *)
(*            vkAcquireNextImageKHR;                                       *)
(* "ahead":   submit a wait before what signals it;                        *)
(* "host":    ask for, wait for and signal timeline semaphores itself.     *)
(***************************************************************************)
ASSUME SyncAssumption ==
    /\ Binary \cap Timeline = {}
    /\ AppMay \subseteq {"acquire", "ahead", "host"}
    /\ MaxWork \in Nat /\ MaxValue \in Nat \ {0}

VARIABLES
    log,        \* the submissions, in the order the driver got them
    done,       \* those the GPU has executed
    payload,    \* the driver's semaphores
    fence,      \* the driver's fences
    counter,    \* SyncManager: timeline_value
    wait,       \* what the server is blocked in
    acquired,   \* history: semaphores given to vkAcquireNextImageKHR
    covers,     \* history: the submissions a fence stands for
    told        \* history: the submissions the latest step told the
                \* application are done, and what told it

vars == <<log, done, payload, fence, counter, wait,
          acquired, covers, told>>

Semaphore == Binary \cup Timeline
Nothing == [sem |-> "none", value |-> 0]
NoFence == "none"
NoWait  == [kind |-> "none"]
Nobody  == [by |-> "nobody", works |-> {}]

\* VK_NULL_HANDLE is no fence and no semaphore.
ASSUME NullAssumption == NoFence \notin Fence /\ Nothing.sem \notin Semaphore

\* What a submission waits for or signals: at most one semaphore.
SemaphoreOp ==
    [sem : Binary, value : {1}] \cup [sem : Timeline, value : 1..MaxValue]
    \cup {Nothing}

Submission ==
    [queue : Queue, await : SemaphoreOp, signal : SemaphoreOp,
     fence : Fence \cup {NoFence}]

Wait ==
    [kind : {"fences"}, fences : SUBSET Fence, all : BOOLEAN, finite : BOOLEAN]
    \cup [kind : {"idle"}, queues : SUBSET Queue]
    \cup {NoWait}

Work    == 1..Len(log)
Pending == Work \ done

TypeOK ==
    /\ log \in Seq(Submission) /\ Len(log) <= MaxWork
    /\ done \subseteq Work
    /\ payload \in [Semaphore -> 0..MaxValue]
    /\ fence \in [Fence -> {"absent", "unsignaled", "signaled"}]
    /\ counter \in [Timeline -> 0..MaxValue]
    /\ wait \in Wait
    /\ acquired \subseteq Binary
    /\ covers \in [Fence -> SUBSET Work]
    /\ told \in [by : {"nobody", "fence", "timeline"}, works : SUBSET Work]

Init ==
    /\ log = <<>> /\ done = {}
    /\ payload = [s \in Semaphore |-> 0]
    /\ fence = [f \in Fence |-> "absent"]
    /\ counter = [t \in Timeline |-> 0]
    /\ wait = NoWait
    /\ acquired = {}
    /\ covers = [f \in Fence |-> {}]
    /\ told = Nobody

-----------------------------------------------------------------------------
(* What the application knows of its submissions.                          *)

OnQueue(q)  == {w \in Work : log[w].queue = q}

\* A submission stands for everything submitted to its queue before it.
Before(w)   == {v \in 1..w : log[v].queue = log[w].queue}

Awaiting(s)  == {w \in Pending : log[w].await.sem = s}
Signaling(s) == {w \in Pending : log[w].signal.sem = s}

\* What is done when a timeline semaphore reaches a value.
Reaching(t, value) ==
    UNION {Before(w) : w \in {v \in Work : /\ log[v].signal.sem = t
                                           /\ log[v].signal.value <= value}}

MayAwait(op) ==
    \/ op = Nothing
    \/ /\ op.sem \in Binary
       /\ Awaiting(op.sem) = {}
       /\ \/ payload[op.sem] = 1 \/ Signaling(op.sem) # {}
          \/ op.sem \in acquired
    \/ /\ op.sem \in Timeline
       /\ \/ "ahead" \in AppMay \/ payload[op.sem] >= op.value
          \/ \E w \in Signaling(op.sem) : log[w].signal.value >= op.value

\* The values of a timeline semaphore only grow.
MaySignal(op, q) ==
    \/ op = Nothing
    \/ /\ op.sem \in Binary
       /\ payload[op.sem] = 0 /\ op.sem \notin acquired
       /\ Signaling(op.sem) \cup Awaiting(op.sem) = {}
    \/ /\ op.sem \in Timeline
       /\ payload[op.sem] < op.value
       /\ \A w \in Signaling(op.sem) :
            log[w].queue = q /\ log[w].signal.value < op.value

-----------------------------------------------------------------------------
(* Requests.  They are served one at a time.                               *)

Serving == wait = NoWait

Tell(by, works) == told' = [by |-> by, works |-> works]
Silent == told' = Nobody

CreateFence(f, signaled) ==
    /\ Serving /\ fence[f] = "absent"
    /\ fence' = [fence EXCEPT ![f] = IF signaled THEN "signaled" ELSE "unsignaled"]
    /\ covers' = [covers EXCEPT ![f] = {}]
    /\ UNCHANGED <<log, done, payload, counter, wait, acquired>>
    /\ Silent

DestroyFence(f) ==
    /\ Serving /\ fence[f] # "absent" /\ covers[f] \subseteq done
    /\ fence' = [fence EXCEPT ![f] = "absent"]
    /\ covers' = [covers EXCEPT ![f] = {}]
    /\ UNCHANGED <<log, done, payload, counter, wait, acquired>>
    /\ Silent

ResetFences(F) ==
    /\ Serving /\ F # {}
    /\ \A f \in F : fence[f] # "absent" /\ covers[f] \subseteq done
    /\ fence' = [f \in Fence |-> IF f \in F THEN "unsignaled" ELSE fence[f]]
    /\ covers' = [f \in Fence |-> IF f \in F THEN {} ELSE covers[f]]
    /\ UNCHANGED <<log, done, payload, counter, wait, acquired>>
    /\ Silent

\* Mutation: the server does not find the fence and submits without one.
NoRealFence(f) == NoFence

\* get_real_fence.
RealFence(f) == f

\* vkQueueSubmit and vkQueueSubmit2: the handles are translated and the driver
\* gets the submission as it is.
Submit(q, await, signal, f) ==
    /\ Serving /\ Len(log) < MaxWork
    /\ MayAwait(await) /\ MaySignal(signal, q)
    /\ await.sem = signal.sem /\ await # Nothing => await.value < signal.value
    /\ f # NoFence => fence[f] = "unsignaled" /\ covers[f] = {}
    /\ log' = Append(log, [queue |-> q, await |-> await, signal |-> signal,
                           fence |-> RealFence(f)])
    /\ covers' = [g \in Fence |-> IF g = f THEN OnQueue(q) \cup {Len(log) + 1}
                                  ELSE covers[g]]
    /\ acquired' = acquired \ {await.sem}
    /\ UNCHANGED <<done, payload, fence, counter, wait>>
    /\ Silent

\* vkAcquireNextImageKHR: the semaphore is ignored, and so is the fence.
AcquireNextImage(s) ==
    /\ Serving /\ "acquire" \in AppMay
    /\ payload[s] = 0 /\ Signaling(s) \cup Awaiting(s) = {}
    /\ acquired' = acquired \cup {s}
    /\ UNCHANGED <<log, done, payload, fence, counter, wait, covers>>
    /\ Silent

\* Mutation: the flag the client sets when it submits the fence.
SubmittedFlag(f) == fence[f] = "signaled" \/ covers[f] # {}

\* vkGetFenceStatus of the driver.
Signaled(f) == fence[f] = "signaled"

GetFenceStatus(f) ==
    /\ Serving /\ fence[f] # "absent" /\ Signaled(f)
    /\ Tell("fence", covers[f])
    /\ UNCHANGED <<log, done, payload, fence, counter, wait, acquired, covers>>

\* vkWaitForFences with a finite timeout, or for fences that will be signaled.
WaitForFences(F, all, finite) ==
    /\ Serving /\ F # {}
    /\ \A f \in F : /\ fence[f] # "absent"
                    /\ finite \/ fence[f] = "signaled" \/ covers[f] # {}
    /\ wait' = [kind |-> "fences", fences |-> F, all |-> all, finite |-> finite]
    /\ UNCHANGED <<log, done, payload, fence, counter, acquired, covers>>
    /\ Silent

\* vkQueueWaitIdle, vkDeviceWaitIdle and the wait of a present.
WaitIdle(Q) ==
    /\ Serving /\ (Q = Queue \/ Cardinality(Q) = 1)
    /\ wait' = [kind |-> "idle", queues |-> Q]
    /\ UNCHANGED <<log, done, payload, fence, counter, acquired, covers>>
    /\ Silent

\* vkWaitForFences returns VK_SUCCESS: with waitAll all fences are signaled,
\* without it one of them, and the application has to ask which.
FencesSignaled ==
    /\ wait.kind = "fences"
    /\ IF wait.all
       THEN /\ \A f \in wait.fences : Signaled(f)
            /\ Tell("fence", UNION {covers[f] : f \in wait.fences})
       ELSE /\ \E f \in wait.fences : Signaled(f)
            /\ Silent
    /\ wait' = NoWait
    /\ UNCHANGED <<log, done, payload, fence, counter, acquired, covers>>

\* vkWaitForFences returns VK_TIMEOUT.
TimesOut ==
    /\ wait.kind = "fences" /\ wait.finite
    /\ wait' = NoWait
    /\ UNCHANGED <<log, done, payload, fence, counter, acquired, covers>>
    /\ Silent

IsIdle ==
    /\ wait.kind = "idle"
    /\ LET awaited == UNION {OnQueue(q) : q \in wait.queues} IN
        /\ awaited \subseteq done
        /\ Tell("fence", awaited)
    /\ wait' = NoWait
    /\ UNCHANGED <<log, done, payload, fence, counter, acquired, covers>>

\* Mutation: the values are added up.
Added(t, value) == [counter EXCEPT ![t] = @ + value]

\* SyncManager: std::max(timeline_value, value).
Advanced(t, value) ==
    [counter EXCEPT ![t] = IF @ < value THEN value ELSE @]

\* vkSignalSemaphore and vkWaitSemaphores change the server's value only; the
\* driver's semaphore is neither signaled nor waited for.
SignalSemaphore(t, value) ==
    /\ Serving /\ "host" \in AppMay
    /\ counter' = Advanced(t, value)
    /\ UNCHANGED <<log, done, payload, fence, wait, acquired, covers>>
    /\ Silent

WaitSemaphores(t, value) ==
    /\ Serving /\ "host" \in AppMay
    /\ counter' = Advanced(t, value)
    /\ Tell("timeline", Reaching(t, value))
    /\ UNCHANGED <<log, done, payload, fence, wait, acquired, covers>>

GetSemaphoreCounterValue(t) ==
    /\ Serving /\ "host" \in AppMay
    /\ Tell("timeline", Reaching(t, counter[t]))
    /\ UNCHANGED <<log, done, payload, fence, counter, wait, acquired, covers>>

-----------------------------------------------------------------------------
(* The GPU executes the first pending submission of a queue.               *)

Execute(q) ==
    \E w \in OnQueue(q) \ done :
        LET await  == log[w].await
            signal == log[w].signal
        IN
        /\ Before(w) \ {w} \subseteq done
        /\ await # Nothing => payload[await.sem] >= await.value
        /\ payload' = [s \in Semaphore |->
                IF s = signal.sem THEN signal.value
                ELSE IF s = await.sem /\ s \in Binary THEN 0 ELSE payload[s]]
        /\ fence' = [f \in Fence |-> IF f = log[w].fence THEN "signaled"
                                     ELSE fence[f]]
        /\ done' = done \cup {w}
        /\ Silent
        /\ UNCHANGED <<log, counter, wait, acquired, covers>>

-----------------------------------------------------------------------------
Requests ==
    \/ \E f \in Fence :
        \/ \E signaled \in BOOLEAN : CreateFence(f, signaled)
        \/ DestroyFence(f) \/ GetFenceStatus(f)
    \/ \E F \in SUBSET Fence :
        \/ ResetFences(F)
        \/ \E all, finite \in BOOLEAN : WaitForFences(F, all, finite)
    \/ \E q \in Queue, await, signal \in SemaphoreOp, f \in Fence \cup {NoFence} :
        Submit(q, await, signal, f)
    \/ \E Q \in SUBSET Queue : WaitIdle(Q)
    \/ \E s \in Binary : AcquireNextImage(s)
    \/ \E t \in Timeline :
        \/ \E value \in 1..MaxValue :
            SignalSemaphore(t, value) \/ WaitSemaphores(t, value)
        \/ GetSemaphoreCounterValue(t)

Return == FencesSignaled \/ TimesOut \/ IsIdle

Next == Requests \/ Return \/ \E q \in Queue : Execute(q)

Spec == Init /\ [][Next]_vars

\* The GPU goes on with what it can do, and a wait of the driver returns when
\* its condition holds or its time is up.
FairSpec == Spec /\ WF_vars(Return) /\ \A q \in Queue : WF_vars(Execute(q))

-----------------------------------------------------------------------------
(* Properties.                                                             *)

\* A fence or an idle wait never tells of work that is not done: with this the
\* read-back after the wait finds the results (vkWaitForFences,
\* vkGetFenceStatus, vkQueueWaitIdle, vkDeviceWaitIdle).
FencePromisesKept == told.by = "fence" => told.works \subseteq done

\* Nor does a timeline semaphore (vkWaitSemaphores, vkGetSemaphoreCounterValue).
TimelinePromisesKept == told.by = "timeline" => told.works \subseteq done

\* The server comes back from every wait and serves the next request.
WaitsEnd == wait # NoWait ~> wait = NoWait

\* What a submission waits for is there, or some earlier submission signals it.
Fed(w) ==
    LET op == log[w].await IN
    \/ op = Nothing
    \/ payload[op.sem] >= op.value
    \/ \E v \in Signaling(op.sem) : v < w /\ log[v].signal.value >= op.value

\* The server comes back from every wait begun when each pending submission
\* waits only for what an earlier one signals: fences and semaphores of the
\* driver are never lost on the way (vkQueueSubmit, vkWaitForFences).
WaitsEndWhenFed ==
    (wait # NoWait /\ \A w \in Pending : Fed(w)) ~> wait = NoWait
=============================================================================
