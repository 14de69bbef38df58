------------------------------ MODULE Swapchain ------------------------------
(***************************************************************************)
(* Swapchains on both ends: the client's table (SwapchainState), the       *)
(* server's table (ServerSwapchainManager), the images of the driver and   *)
(* the tracker's entries for them, through create, acquire, present and    *)
(* destroy, failing drivers, windows that cannot be set up, a lost         *)
(* connection and the next client of a server that forgets nothing.  The   *)
(* results of the driver are ignored while an image is copied.             *)
(*                                                                         *)
(* The server handles one request at a time under the lock of its manager, *)
(* so a handler is one action; the client's half of a call is cut at the   *)
(* request it sends and the answer it waits for.  The GPU works at any     *)
(* time.  What an image holds is the number of renderings to it.           *)
(***************************************************************************)
EXTENDS Naturals, Sequences, FiniteSets, SequencesExt

CONSTANTS
  Handles,     \* values of VkImage the driver gives out, again after an end
  Counts,      \* image counts the application asks for
  MaxImages,   \* kVenusMaxSwapchainImages
  MaxId,       \* bound: swapchains a client creates
  MaxClient,   \* bound: clients that connect, one after the other
  MaxRender,   \* bound: renderings to one image
  AppMay,      \* liberties of the application: "reorder", "hoard"
  MaxFailures  \* bound: presents during which the driver fails

ASSUME SwapchainAssumption ==
  /\ Counts \subseteq Nat \ {0} /\ MaxImages \in Nat
  /\ MaxId \in Nat /\ MaxClient \in Nat \ {0} /\ MaxRender \in Nat
  /\ AppMay \subseteq {"reorder", "hoard"} /\ MaxFailures \in Nat

VARIABLES
  client,      \* which client process is connected, or was last
  connected,   \* the socket of that client is open
  next_id,     \* SwapchainState::next_id_
  known,       \* SwapchainState::swapchains_: remote images, by id
  held,        \* images the application acquired and has not presented
  call,        \* the call the application is in
  request,     \* the request on its way to the server
  reply,       \* the answer on its way back
  swapchains,  \* ServerSwapchainManager::swapchains_
  registered,  \* external images of the ResourceTracker
  alive,       \* images the driver has
  contents,    \* what the driver's images hold
  work,        \* renderings submitted and not executed, in order
  staging,     \* what the staging buffers of the images hold
  signaled,    \* swapchains whose copy_fence an earlier copy has left signaled
  blocked,     \* the server waits for a fence that nothing will signal
  failures,    \* how often the driver failed while an image was copied
  rendered,    \* history: renderings submitted for an image
  shown,       \* history: the last frame handed to a window, the due one, and
               \* whether every call that made its copy did its work
  abandoned    \* history: ids the client gave up although the server has them

clientVars == <<next_id, known, held>>
serverVars == <<swapchains, registered, alive>>
copyVars   == <<staging, signaled, blocked, failures>>
gpuVars    == <<contents, work, rendered, copyVars>>
vars == <<client, connected, clientVars, call, request, reply, serverVars,
          gpuVars, shown, abandoned>>

Ids == 1 .. MaxId

None    == [op |-> "none"]
Nothing == [got |-> 0, want |-> 0, made |-> TRUE]
Unknown == [session |-> 0, images |-> <<>>, next_image |-> 0]
Images(entry) == ToSet(entry.images)

IsKnown(id) == known[id].session # 0
CountOf(id) == Len(known[id].images)
Idle == call = None

Init ==
  /\ client = 1 /\ connected = TRUE
  /\ next_id = 1
  /\ known = [id \in Ids |-> Unknown]
  /\ held = [id \in Ids |-> <<>>]
  /\ call = None /\ request = None /\ reply = None
  /\ swapchains = [id \in Ids |-> Unknown]
  /\ registered = {} /\ alive = {}
  /\ contents = [h \in Handles |-> 0]
  /\ work = <<>>
  /\ rendered = [h \in Handles |-> 0]
  /\ staging = [h \in Handles |-> 0]
  /\ signaled = {} /\ blocked = FALSE /\ failures = 0
  /\ shown = [id \in Ids |-> Nothing]
  /\ abandoned = {}

-----------------------------------------------------------------------------
(* The application's calls, up to the request.                             *)

\* Mutation: a number no longer counted as in use is given again.
LowestId == 1 + Cardinality({id \in Ids : IsKnown(id)})
\* SwapchainState::allocate_swapchain_id
AllocateId == next_id

\* First half of send_swapchain_command; it passes the ring by.
Send(msg) == request' = msg /\ call' = msg

CreateSwapchain(n) ==
  /\ Idle /\ connected /\ AllocateId \in Ids
  /\ next_id' = next_id + 1
  /\ Send([op |-> "create", id |-> AllocateId, count |-> n])
  /\ UNCHANGED <<client, connected, known, held, reply, serverVars, gpuVars,
                 shown, abandoned>>

\* The application has waited for its work on the images, as it must.  When
\* the connection is lost the server is not told.
DestroySwapchain(id) ==
  /\ Idle /\ IsKnown(id)
  /\ \A i \in DOMAIN work : work[i] \notin Images(known[id])
  /\ known' = [known EXCEPT ![id] = Unknown]
  /\ held' = [held EXCEPT ![id] = <<>>]
  /\ IF connected
     THEN Send([op |-> "destroy", id |-> id]) /\ UNCHANGED abandoned
     ELSE abandoned' = abandoned \cup {id} /\ UNCHANGED <<request, call>>
  /\ UNCHANGED <<client, connected, next_id, reply, serverVars, gpuVars, shown>>

\* Timeout, semaphore and fence are ignored.
AcquireNextImage(id) ==
  /\ Idle /\ connected /\ IsKnown(id)
  /\ "hoard" \in AppMay \/ Len(held[id]) < CountOf(id)
  /\ Send([op |-> "acquire", id |-> id])
  /\ UNCHANGED <<client, connected, clientVars, reply, serverVars, gpuVars,
                 shown, abandoned>>

\* Which of the images it holds the application may present.
Presentable(id) ==
  IF "reorder" \in AppMay THEN DOMAIN held[id] ELSE DOMAIN held[id] \cap {1}

\* vkQueuePresentKHR for the swapchains ids, of each the image held at
\* pos[id]: the requests go out one after the other.
QueuePresent(ids, pos) ==
  LET todo == [k \in DOMAIN ids |->
                 [op |-> "present", id |-> ids[k],
                  index |-> held[ids[k]][pos[ids[k]]]]]
  IN  /\ Idle /\ connected
      /\ held' = [id \in Ids |-> IF id \in ToSet(ids)
                                 THEN RemoveAt(held[id], pos[id]) ELSE held[id]]
      /\ call' = [op |-> "present", todo |-> todo]
      /\ request' = Head(todo)
      /\ UNCHANGED <<client, connected, next_id, known, reply, serverVars,
                     gpuVars, shown, abandoned>>

\* A submission that renders to an image the application holds.  The server
\* finds the image in its tracker.
Render(id, index) ==
  LET image == known[id].images[index + 1]
  IN  /\ Idle /\ connected
      /\ image \in registered
      /\ rendered[image] < MaxRender
      /\ work' = Append(work, image)
      /\ rendered' = [rendered EXCEPT ![image] = @ + 1]
      /\ UNCHANGED <<client, connected, clientVars, call, request, reply,
                     serverVars, contents, copyVars, shown, abandoned>>

-----------------------------------------------------------------------------
(* The server and the GPU.                                                 *)

\* send_to_client; without a connection the answer is lost.
Answer(msg) ==
  /\ request' = None
  /\ reply' = IF connected THEN msg ELSE None

\* allocate_resources: images 1..Len(hs) are created; when it fails, the last
\* of them is not registered yet.
AllocateResources(hs, complete) ==
  [alive |-> alive \cup ToSet(hs),
   registered |-> registered \cup
     ToSet(IF complete \/ hs = <<>> THEN hs ELSE Front(hs))]

\* Mutation: the tracker keeps the entries.
FreeKeepsEntries(res, images) ==
  [alive |-> res.alive \ images, registered |-> res.registered]
\* free_resources
FreeResources(res, images) ==
  [alive |-> res.alive \ images, registered |-> res.registered \ images]

Install(res) == alive' = res.alive /\ registered' = res.registered

\* Handles the driver may give to n new images.
NewImages(n) == {hs \in [1 .. n -> Handles \ alive] : IsInjective(hs)}

\* create_swapchain: an entry of the same id is overwritten.
ServerCreates ==
  /\ request.op = "create"
  /\ \E hs \in NewImages(request.count) :
       /\ Install(AllocateResources(hs, TRUE))
       /\ swapchains' = [swapchains EXCEPT ![request.id] =
            [session |-> client, images |-> hs, next_image |-> 0]]
       /\ contents' = [h \in Handles |-> IF h \in ToSet(hs) THEN 0 ELSE contents[h]]
       /\ rendered' = [h \in Handles |-> IF h \in ToSet(hs) THEN 0 ELSE rendered[h]]
       /\ staging' = [h \in Handles |-> IF h \in ToSet(hs) THEN 0 ELSE staging[h]]
       /\ signaled' = signaled \ {request.id}
       /\ Answer([op |-> "created", id |-> request.id, ok |-> TRUE,
                  count |-> request.count,
                  images |-> SubSeq(hs, 1, IF Len(hs) < MaxImages THEN Len(hs)
                                                                  ELSE MaxImages)])
  /\ UNCHANGED <<client, connected, clientVars, call, work, blocked, failures,
                 shown, abandoned>>

\* The driver fails, at any of the images or before the first.
ServerCreateFails ==
  /\ request.op = "create"
  /\ \E k \in 0 .. request.count : \E hs \in NewImages(k) :
       Install(FreeResources(AllocateResources(hs, FALSE), ToSet(hs)))
  /\ Answer([op |-> "created", id |-> request.id, ok |-> FALSE,
             count |-> request.count, images |-> <<>>])
  /\ UNCHANGED <<client, connected, clientVars, call, swapchains, gpuVars,
                 shown, abandoned>>

\* Mutation: the entry outlives its images.
ForgetNothing(id) == swapchains
\* destroy_swapchain erases the entry.
Forget(id) == [swapchains EXCEPT ![id] = Unknown]

ServerDestroys ==
  /\ request.op = "destroy"
  /\ Install(FreeResources([alive |-> alive, registered |-> registered],
                           Images(swapchains[request.id])))
  /\ swapchains' = Forget(request.id)
  /\ Answer([op |-> "destroyed"])
  /\ UNCHANGED <<client, connected, clientVars, call, gpuVars, shown, abandoned>>

\* Mutation: the counter runs past the images.
NextImageUnbounded(index, n) == index + 1
\* acquire_image: round robin, whoever holds the image.
NextImage(index, n) == (index + 1) % n

ServerAcquires ==
  LET chain == swapchains[request.id]
      ok    == chain.session # 0
  IN  /\ request.op = "acquire"
      /\ swapchains' = IF ok
                       THEN [swapchains EXCEPT ![request.id].next_image =
                               NextImage(@, Len(chain.images))]
                       ELSE swapchains
      /\ Answer([op |-> "acquired", id |-> request.id, ok |-> ok,
                 index |-> chain.next_image])
      /\ UNCHANGED <<client, connected, clientVars, call, registered, alive,
                     gpuVars, shown, abandoned>>

\* What images hold once the first n renderings in work are executed.
Executed(n) ==
  [h \in Handles |-> contents[h] + Cardinality({i \in 1 .. n : work[i] = h})]

\* Mutation: the copy does not wait.
NoWait == 0
\* vkDeviceWaitIdle: how many renderings are executed before the copy.
DeviceWaitIdle == Len(work)

\* Whether the driver does what it is asked.
DriverDoes == IF failures < MaxFailures THEN BOOLEAN ELSE {TRUE}

\* present: what the server has an image for.
PresentsImage ==
  /\ request.op = "present"
  /\ request.index < Len(swapchains[request.id].images)

\* present: an unknown id and a bad index are errors.
RefusesImage ==
  /\ Answer([op |-> "presented", id |-> request.id, ok |-> FALSE,
             frame |-> 0, made |-> FALSE])
  /\ UNCHANGED <<client, connected, clientVars, call, serverVars, gpuVars,
                 shown, abandoned>>

\* present: the image is copied and what the staging buffer holds is answered,
\* with success, whatever has become of the calls that wait for the device,
\* record and submit the copy, wait for its fence and reset it.  A fence that
\* is signaled before the copy, or that an earlier copy still signals, is
\* waited for in vain.  The semaphores of the present are ignored.
CopiesImage ==
  LET id    == request.id
      image == swapchains[id].images[request.index + 1]
  IN  /\ \E waited, recorded, submitted, awaited, reset \in DriverDoes :
           LET served   == awaited /\ id \notin signaled
               finished == recorded /\ submitted /\ served
           IN /\ submitted \/ ~awaited \/ id \in signaled
              /\ LET n == IF waited THEN DeviceWaitIdle ELSE 0
                 IN  /\ contents' = Executed(n)
                     /\ work' = SubSeq(work, n + 1, Len(work))
              /\ \E copied \in BOOLEAN :
                   /\ finished => copied
                   /\ copied => submitted
                   /\ staging' = IF copied
                                 THEN [staging EXCEPT ![image] = contents'[image]]
                                 ELSE staging
              /\ \E left \in BOOLEAN :
                   /\ left => submitted \/ id \in signaled
                   /\ left /\ reset => ~served
                   /\ (submitted \/ id \in signaled) /\ ~reset => left
                   /\ signaled' = IF left THEN signaled \cup {id} ELSE signaled \ {id}
              /\ failures' = IF waited /\ recorded /\ submitted /\ awaited /\ reset
                             THEN failures ELSE failures + 1
              /\ Answer([op |-> "presented", id |-> id, ok |-> TRUE,
                         frame |-> staging'[image],
                         made |-> waited /\ finished])
      /\ UNCHANGED <<client, connected, clientVars, call, serverVars, rendered,
                     blocked, shown, abandoned>>

ServerPresents ==
  /\ request.op = "present"
  /\ IF PresentsImage THEN CopiesImage ELSE RefusesImage

\* present: the copy was not submitted, the device is not lost, and the fence
\* is waited for without end: nothing is answered, nobody is served again.
ServerBlocks ==
  /\ PresentsImage
  /\ FALSE \in DriverDoes /\ request.id \notin signaled
  /\ blocked' = TRUE /\ failures' = failures + 1 /\ request' = None
  /\ UNCHANGED <<client, connected, clientVars, call, reply, serverVars,
                 contents, work, rendered, staging, signaled, shown, abandoned>>

GpuExecutes ==
  /\ work # <<>>
  /\ contents' = Executed(1)
  /\ work' = Tail(work)
  /\ UNCHANGED <<client, connected, clientVars, call, request, reply,
                 serverVars, rendered, copyVars, shown, abandoned>>

-----------------------------------------------------------------------------
(* The application's calls, from the answer on.                            *)

Return == call' = None /\ reply' = None

\* vkCreateSwapchainKHR, the server having failed.
CreateRefused ==
  /\ reply.op = "created" /\ ~reply.ok
  /\ Return
  /\ UNCHANGED <<client, connected, clientVars, request, serverVars, gpuVars,
                 shown, abandoned>>

\* vkCreateSwapchainKHR takes the images and sets up the window.
CreateReturns ==
  /\ reply.op = "created" /\ reply.ok /\ reply.count <= MaxImages
  /\ known' = [known EXCEPT ![reply.id] =
       [session |-> client, images |-> reply.images, next_image |-> 0]]
  /\ shown' = [shown EXCEPT ![reply.id] = Nothing]
  /\ Return
  /\ UNCHANGED <<client, connected, next_id, held, request, serverVars,
                 gpuVars, abandoned>>

\* Too many images, or the window cannot be set up: an error is returned and
\* the server keeps what it made.
CreateGivesUp ==
  /\ reply.op = "created" /\ reply.ok
  /\ abandoned' = abandoned \cup {reply.id}
  /\ Return
  /\ UNCHANGED <<client, connected, clientVars, request, serverVars, gpuVars,
                 shown>>

DestroyReturns ==
  /\ reply.op = "destroyed"
  /\ Return
  /\ UNCHANGED <<client, connected, clientVars, request, serverVars, gpuVars,
                 shown, abandoned>>

AcquireReturns ==
  /\ reply.op = "acquired"
  /\ held' = IF reply.ok THEN [held EXCEPT ![reply.id] = Append(@, reply.index)]
                         ELSE held
  /\ Return
  /\ UNCHANGED <<client, connected, next_id, known, request, serverVars,
                 gpuVars, shown, abandoned>>

\* A frame goes to the window; the next swapchain's request follows.
PresentReturns ==
  LET image == known[reply.id].images[Head(call.todo).index + 1]
      rest  == Tail(call.todo)
  IN  /\ reply.op = "presented"
      /\ shown' = IF reply.ok
                  THEN [shown EXCEPT ![reply.id] =
                          [got |-> reply.frame, want |-> rendered[image],
                           made |-> reply.made]]
                  ELSE shown
      /\ reply' = None
      /\ call' = IF rest = <<>> THEN None ELSE [call EXCEPT !.todo = rest]
      /\ request' = IF rest = <<>> THEN None ELSE Head(rest)
      /\ UNCHANGED <<client, connected, clientVars, serverVars, gpuVars,
                     abandoned>>

-----------------------------------------------------------------------------
(* The connection.                                                         *)

\* The connection ends, in the middle of a call or not.  The call returns an
\* error; the server may still find its request in the socket.
Disconnect ==
  /\ connected
  /\ connected' = FALSE
  /\ call' = None /\ reply' = None
  /\ abandoned' = IF call.op \in {"create", "destroy"}
                  THEN abandoned \cup {call.id} ELSE abandoned
  /\ UNCHANGED <<client, clientVars, request, serverVars, gpuVars, shown>>

DropRequest ==
  /\ ~connected /\ request # None
  /\ request' = None
  /\ UNCHANGED <<client, connected, clientVars, call, reply, serverVars,
                 gpuVars, shown, abandoned>>

\* NetworkServer::run accepts the next client; a client does not come back.
Connect ==
  /\ ~connected /\ request = None /\ ~blocked
  /\ client < MaxClient
  /\ client' = client + 1
  /\ connected' = TRUE
  /\ next_id' = 1
  /\ known' = [id \in Ids |-> Unknown]
  /\ held' = [id \in Ids |-> <<>>]
  /\ shown' = [id \in Ids |-> Nothing]
  /\ abandoned' = {}
  /\ UNCHANGED <<call, request, reply, serverVars, gpuVars>>

-----------------------------------------------------------------------------
Application ==
  \/ \E n \in Counts : CreateSwapchain(n)
  \/ \E id \in Ids :
       \/ DestroySwapchain(id)
       \/ AcquireNextImage(id)
       \/ \E index \in ToSet(held[id]) : Render(id, index)
       \/ \E p \in Presentable(id) : QueuePresent(<<id>>, [i \in {id} |-> p])
       \/ \E other \in Ids \ {id} : \E p \in Presentable(id), q \in Presentable(other) :
            QueuePresent(<<id, other>>, [i \in {id, other} |-> IF i = id THEN p ELSE q])

Returns ==
  \/ CreateRefused \/ CreateReturns \/ CreateGivesUp \/ DestroyReturns
  \/ AcquireReturns \/ PresentReturns

Server ==
  \/ ServerCreates \/ ServerCreateFails \/ ServerDestroys
  \/ ServerAcquires \/ ServerPresents \/ ServerBlocks
  \/ GpuExecutes

Connection == Disconnect \/ DropRequest \/ Connect

\* The bound: the last client is gone and its last request with it; or no
\* other is served.
Finished ==
  /\ client = MaxClient \/ blocked
  /\ ~connected /\ request = None
  /\ UNCHANGED vars

Next == Application \/ Returns \/ Server \/ Connection \/ Finished

Spec == Init /\ [][Next]_vars

-----------------------------------------------------------------------------
(* Properties.                                                             *)

Chain == [session : 0 .. MaxClient, images : Seq(Handles), next_image : Nat]

\* Types; the server's counter names an image of its swapchain.
TypeOK ==
  /\ client \in 1 .. MaxClient /\ connected \in BOOLEAN
  /\ next_id \in 1 .. MaxId + 1
  /\ known \in [Ids -> Chain] /\ swapchains \in [Ids -> Chain]
  /\ held \in [Ids -> Seq(Nat)]
  /\ registered \subseteq Handles /\ alive \subseteq Handles
  /\ contents \in [Handles -> 0 .. MaxRender]
  /\ rendered \in [Handles -> 0 .. MaxRender]
  /\ work \in Seq(Handles)
  /\ staging \in [Handles -> 0 .. MaxRender]
  /\ signaled \subseteq Ids /\ blocked \in BOOLEAN
  /\ failures \in 0 .. MaxFailures
  /\ abandoned \subseteq Ids
  /\ \A id \in Ids : swapchains[id].session # 0 =>
       swapchains[id].next_image < Len(swapchains[id].images)

\* A swapchain the client knows is the one the server has under its id, made
\* for this client, image by image; no two share an image.  Ids are chosen by
\* the client (wsi_commands.cpp:298), the server overwrites without a look
\* (swapchain_manager.cpp:99) and keeps what earlier clients left.
ClientServed ==
  connected =>
    \A id \in Ids : IsKnown(id) =>
      /\ swapchains[id].session = client
      /\ swapchains[id].images = known[id].images
      /\ \A other \in Ids \ {id} : Images(known[id]) \cap Images(swapchains[other]) = {}

\* Every image the driver has for swapchains is registered with the tracker
\* and every registered image exists: neither a failed creation nor an end
\* leaves an entry that names a dead image, which the driver may give again.
RegisteredAreAlive == registered = alive

\* An image handed out is not handed out again before it was presented, although
\* acquire_image looks at nothing but its counter: if the application presents
\* in the order it acquired.
ImageHeldOnce == \A id \in Ids : IsInjective(held[id])

\* A frame handed to the window holds everything the application submitted for
\* the image before it presented it, although neither semaphore nor fence of
\* the present is looked at (swapchain_manager.cpp:157): if every call that made
\* its copy did its work, whatever failed for frames before.  If one did not, or
\* an earlier failure left the fence signaled and it is waited for in vain, an
\* earlier frame may be shown and be called a success.
ShownIsRendered == \A id \in Ids : shown[id].made => shown[id].got = shown[id].want

\* The swapchain the server keeps under id is on its way to or from the client.
InCall(id) == "id" \in DOMAIN call /\ call.id = id

\* What the server holds for the present client is known to that client, on
\* its way, or was given up by a call that returned an error: nothing else is
\* leaked, and a destroyed swapchain is gone.
LeaksOnlyGivenUp ==
  connected =>
    \A id \in Ids : swapchains[id].session = client =>
      IsKnown(id) \/ InCall(id) \/ id \in abandoned

=============================================================================
