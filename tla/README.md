# A verification project for Venus Plus (g-conx)

Venus Plus lets an application use the GPU of another machine.  The client is
a Vulkan driver (ICD) that encodes every call and sends it over TCP; the server
decodes the calls and makes them on a real driver.  This directory holds TLA+
modules of the parts where the two ends have to agree, the TLC configurations
that check them, and proofs checked by TLAPS.

    tlc -workers 2 -config ShadowBuffer_tracking.cfg MCShadowBuffer.tla
    tlapm ShadowBufferProofs.tla      (and CommandBuffersProofs, CommandRingProofs,
                                    DeviceSyncProofs, SwapchainProofs,
                                    ResourceBindingProofs, AtomicRingProofs,
                                    LinuxWSIProofs)

`PROJECT.json` lists components, runs, the mutant that shows each property is
able to fail, the source lines of each definition, findings, hazards and
theorems.  Paths below are relative to the repository.

## 1  The system

| Component | State | Operations | What is hard | What makes it correct |
|---|---|---|---|---|
| Host-coherent memory emulation: `client/state/shadow_buffer.*`, `client/icd/commands/memory_commands.cpp`, `flush_`/`invalidate_host_coherent_mappings` in `commands_common.h` | a shadow copy per mapped allocation; per page a dirty flag, a writable flag, the real page protection | map, unmap, explicit flush and invalidate, flush at submit, read-back after a wait, the SIGSEGV handler | the handler runs between any two instructions of a call; flags and protection change in separate steps; transfers fail half-way | no store is lost, no read-back replaces a newer store, a submission sees every earlier store, after a wait the results are there |
| Memory transfer: `server/memory/memory_transfer.cpp` | none of its own (mappings of the driver) | batch write, batch read, single write and read | a batch stops at the first error; bounds of ranges | what it acknowledges is written; a read answers all or nothing |
| Command ring and transport: `common/protocol/venus_ring.cpp`, `common/network/*`, `server/main.cpp`, loop of `renderer_decoder.c` | `pending_buffer` on the client, two streams of messages, the reply encoder | append, flush at the threshold, flush for a reply, send past the ring, receive, perform, answer | which message answers which call; overtaking; loss of the connection; no lock between the append, the send and the clear | of one thread: commands are performed in order, a call gets its own reply, every call returns |
| Command pools and buffers: `client/state/command_buffer_state.*`, `client/icd/commands/command_buffer_commands.cpp`, `server/state/command_buffer_state.*`, `server/state/command_validator.*` | two records of pools, buffers and their states; handles; real buffers | create, destroy, reset a pool; allocate, free, begin, record, end, reset, submit a buffer | recording and freeing are performed after the call has returned; two state machines with checks of their own | the two records never contradict, no handle is lost or used after its end, a submission executes what was recorded and not skipped |
| Submission and synchronisation: `client/icd/commands/sync_commands.cpp`, `server/state/sync_manager.*`, `server/server_state.cpp` | fences, semaphores, events: flags on the client, entries and driver objects on the server | create, destroy, reset, ask, wait, signal, submit | the GPU changes fences and semaphores at any time; one server thread blocks in waits; the server keeps timeline values of its own | what is reported done is done; waits end |
| Swapchain: `client/icd/commands/wsi_commands.cpp`, `client/state/swapchain_state.*`, `server/wsi/swapchain_manager.*` | image indices, staging memory, registered images; two tables by id | create, destroy, acquire, present | ids chosen by the client, reused by other clients; errors after the server has succeeded; no check that an image is free; semaphores ignored; results of the driver ignored while an image is copied | both tables agree, an image has one holder, only what an error gave up is leaked, a frame shown is complete |
| Window systems and frames: `client/wsi/*`, `compress_frame` in `swapchain_manager.cpp` | buffers of a window with their flags, the events of X11 or Wayland | set up, handle a frame, wait for a buffer, shut down; code and decode frames | the window system gives buffers back whenever it likes; waits inside a present; frames that are dropped | a buffer shown is not written, a present returns, the frame decoded is the frame coded |
| Resources and binding: `client/state/resource_state.*`, `client/icd/commands/resource_commands.cpp`, `server/state/resource_tracker.*`, `binding_validator.*`, `memory_requirements.*` | buffers, images, views, memory, what is bound where, on both sides | create, destroy, allocate, free, requirements, bind | free with bindings left; checks in 64-bit arithmetic; requirements that were never asked for, and are guessed too large or too small | a binding lies within live memory, is aligned and does not overlap |
| Descriptors, pipelines: `descriptor_commands.cpp`, `pipeline_commands.cpp`, `pipeline_state.*` and the tracker | tables of handles, pools of sets | create, destroy, allocate, free, reset, update | a pool destroyed between the two locks of an allocation | a set belongs to a live pool, on both sides |
| Queries: `query_commands.cpp`, `query_state.*` | tables of pools | create, destroy, results | results tell of finished work but read no mapping back | as for waits |
| Instance, device, queues: `instance_commands.cpp`, `device_commands.cpp`, `physical_device_commands.cpp`, `vulkan_context.cpp` | tables; the connection | create, destroy, properties | the order of destruction; `DeviceState` has no lock | nothing is used after its device is gone |
| Handles: `handle_allocator.*`, `handle_map.h` | a counter; tables | allocate, look up | none found beyond reuse of addresses | a handle is given out once |
| Entry points, Venus protocol, made-up GPU data, logging, test applications | tables and generated code | | | not modelled: no state of their own, generated, or output only |

**How they interact.**  Nearly everything a call does passes the ring.  Calls
without a result stay in the ring's buffer; calls with a result, memory
transfers and swapchain requests use the same socket and wait for the next
message the server sends.  `vkQueueSubmit` first sends dirty pages, then the
submission; waits first get the result, then read mappings back.  The server
has a single thread that serves one message at a time, so a wait that blocks
in the driver blocks every request behind it.

The list of what is hard to test here, each at its line and with the
properties that would catch it, is under `hazards` in `PROJECT.json`.

## 2  The modules

| Module | Models | Used by |
|---|---|---|
| `CoherentMemory` | what `HOST_COHERENT` memory promises (abstract) | refined by `ShadowBuffer` |
| `ShadowBuffer` | shadow memory, page tracking and transfers | `MCShadowBuffer`, `ShadowBufferProofs` |
| `ShadowBufferProofs` | theorems about `ShadowBuffer` and `CoherentMemory` | |
| `CommandStream` | constants, commands and messages | `CommandRing`, `AtomicRing` |
| `CommandRing` | ring, socket, server loop, step by step | `MCCommandRing`, `CommandRingProofs` |
| `AtomicRing` | the same with appending and flushing in one step (abstract) | refined by `CommandRing` with one thread |
| `CommandService` | what the connection promises (abstract) | refined by `AtomicRing` |
| `AtomicRingProofs` | theorems about `AtomicRing` and `CommandService` | `CommandRingProofs` |
| `CommandRingProofs` | theorems about `CommandRing` | |
| `CommandBuffers` | command pools and buffers on both ends | `MCCommandBuffers`, `CommandBuffersProofs` |
| `CommandBuffersProofs` | theorems about `CommandBuffers` | |
| `ResourceBinding` | buffers, images, memory and bindings on both ends | `MCResourceBinding`, `ResourceBindingProofs` |
| `ResourceBindingProofs` | theorems about `ResourceBinding` | |
| `DeviceSync` | submissions, fences, semaphores, waits | `MCDeviceSync`, `DeviceSyncProofs` |
| `DeviceSyncProofs` | theorems about `DeviceSync` | |
| `Swapchain` | swapchains on both ends, several clients, the images | `MCSwapchain`, `SwapchainProofs` |
| `SwapchainProofs` | theorems about `Swapchain` | |
| `FrameCodec` | the run-length code of frames | `LinuxWSI` |
| `LinuxWSI` | what becomes of a frame on the client: backends, buffers, events | `MCLinuxWSI`, `LinuxWSIProofs` |
| `LinuxWSIProofs` | theorems about `FrameCodec` and `LinuxWSI` | |

`LinuxWSI` contains `FrameCodec`: every frame it handles goes through the
code.  The other modules are composed by their interfaces rather than in one state space:
`CommandBuffers` and `ResourceBinding` assume of the ring what `CommandService`
promises (in order, and a call returns after everything before it was
performed); `ShadowBuffer`
assumes of a wait what `FencePromisesKept` of `DeviceSync` says; `LinuxWSI`
gets whole frames, as `ShownIsRendered` of `Swapchain` says, of images that are
presented in turn.  Where such
an assumption fails (threads sharing the ring, a call that crosses the
threshold, timeline semaphores, a driver that fails while a frame is copied) a
finding or section 3 says so.  `ResourceBinding` in particular has two threads
and takes the promise of `CommandService` for the calls of both, which the ring
keeps for one thread only.

### ShadowBuffer
State: `mapped` is `ShadowBufferManager::mappings_`; `shadow` the copies;
`dirty` and `writable` the atomics of `HostCoherentTracking`; `rw` the
protection the operating system enforces; `server` the contents on the other
side.  Contents are stamps, one for each store ever made, so "newer" can be
said.  `call` is where the calling thread is inside a Vulkan call, `store`
where the application's store instruction is.  A call is cut at every place
where the handler or the server may act: collecting ranges (`BeginSubmit`),
clearing writable flags and then protecting (`FlushPrepare`, `FlushProtect`),
the memcpy (`FlushCopy`), the transfer, clearing dirty flags
(`FlushFinalize`), the submission (`Submit`); a wait (`BeginWait`), opening
the pages, reading, the memcpy, closing, clearing flags.  A transfer may fail
before, after or between ranges; the code then clears the dirty flags
nevertheless, and the model does too (`undelivered` remembers which stores
were reported as lost).  Early errors that change nothing (a message over the
size limit, for example) are stuttering steps.  `Poll` learns that work is
done by asking for a counter, an event or a query result, which reads nothing
back.  `AppMay` names the liberties
the application takes.  An application that never does what Vulkan forbids is
assumed: it does not touch locations the GPU is writing.

The mutated forms next to some operators (`FlushPrepareKeepsFlags` and the
like) are bugs the code does not have; no specification uses them.

### CommandRing
Commands are numbers in the order they enter the buffer, with sizes in units of
the threshold.  No lock protects the buffer or the socket, so every step of a
call that reads or writes them is an action, and another thread may come in
between: `SubmitCommand` appends, `CheckSize` compares with the threshold,
`FlushPending` sends what is in the buffer, `ClearPending` erases what is in it
by then (the end of `vn_ring_submit_command`, or of `vn_ring_flush_pending`);
`NothingToFlush`, `FlushForReply`, `VerifyFlushed`, `Receive` and
`ReceiveFails` are the steps of `vn_ring_get_command_reply`.  `call` says at
which step a thread is and where the function it is in returns to.  `Perform`
executes one command of the message in progress and sends the replies at the end
of the message, as `venus_renderer_handle` and `handle_client_message` do.
`Break` is any end of the connection, also in the middle of a message.  The flush
at the end of `vkDestroyDevice` and `vkDestroyInstance`, which sends a buffer
below the threshold, is left out.

With more than one thread the code loses and repeats commands, and the model
shows it (section 3).  The properties and the runs are therefore about one
thread.  `AtomicRing` is what such a thread sees: a command is appended, flushed
and cleared in one step, and how full the buffer is when it is flushed is left
open.

### CommandBuffers
`client` and `server` are the two tables of buffers; `ring` holds the
asynchronous commands on their way, and a synchronous call is possible only
when they have been performed.  `Mishaps` names what may go wrong.  Handles of
the server are never reused (`next_buffer_handle_`); addresses of the client
are.  `recorded`, `skipped` and `executed` are history: what the application
recorded since a buffer was begun, which of it a side has skipped, and what a
submission ran.  A command is skipped when its handles cannot be translated or a
copy of its parameters cannot be allocated (`renderer_decoder.c:2000`, `:2022`, the
early returns of `vkCmd*` on the client): nobody is told, and the buffer runs
without it, although `docs/PHASE_05.md:78` has an error during recording make
the buffer invalid.  A command the server's checks reject does make it invalid.

### ResourceBinding
`known`, `null`, `cached` and `cbound` are the client's `ResourceState`; `live`,
`valid`, `sbound` and `bindings` the server's `ResourceTracker`, where
`bindings` joins the lists of buffers and of images a memory has.  A call with
a result is cut in three: what the client checks before it sends the command
(`BindMemory`), what the server does when its turn comes (`PerformBind`), and
what the client records when the answer is there (`BindReturns`); another
thread may act in between.  Ends (`Destroy`, `Free`) are forgotten at once and
performed later.  Handles are never used again on either side, so an object
has one name.  `told`, `backed` and `refused` are history: how the application
learned the requirements, what was bound once, and which legal binds were
refused although the driver was willing.  The application is legal but for
aliasing, which it may try and which counts as a legal bind for nobody.
`Size` is what the driver asks for, `Reckoned` what `memory_requirements.cpp`
computes: the size of a buffer, and of an image its texels times the bytes of its
format, which the table gives as four for every format it lacks, and nothing of
tiling.  `Guess` rounds that up; it may be more than the driver asks for or less.
`Counted` are the resources with which the server counts at full size.

### DeviceSync
`log` is the sequence of submissions as the driver got them, `done` those
executed; `payload` and `fence` are the driver's objects, `counter` is
`SemaphoreEntry::timeline_value`.  `wait` is what the server's only thread is
blocked in; while it is, no request is served.  `covers` records which
submissions a fence stands for, `told` what the latest answer told the
application.  `Execute` is the GPU.  The flags the client and the server keep
for fences and binary semaphores are left out: nothing reads them to answer.

### Swapchain
`known` is the client's `SwapchainState`, `swapchains` the server's table,
`registered` what the tracker knows of swapchain images and `alive` what the
driver has; the driver may give a handle out again once its image is gone.  A
call of the client is cut where it sends its request and where it has the
answer; a handler of the server, which holds the lock of the manager, is one
action.  Creation may fail at any image on the server, and on the client after
the server has succeeded (`CreateGivesUp`).  The connection may end anywhere,
with the last request lost or still performed, and another client may follow:
it counts its ids from one again while the server has forgotten nothing.
`present` ignores the results of the driver: `CopiesImage` chooses for the wait
for the device, the recording, the submission, the wait for the fence and its
reset whether they succeed, and answers what the staging buffer then holds with
success.  `signaled` are the swapchains whose fence an earlier copy left signaled,
so that the next wait for it waits for nothing; `ServerBlocks` is a submission
that fails on a device that is not lost, whose fence is waited for without end.
Contents of an image are the number of renderings to it, so that a frame can
be said to miss one.  `rendered`, `shown` and `abandoned` are history; `shown.made`
says whether every call that made the copy did its work.  The
application presents images in the order it acquired them and waits for its
work before it destroys a swapchain; `AppMay` can relax the first.

### FrameCodec and LinuxWSI
`Encode` is the loop of `compress_frame`, `Compress` the choice between the
coded and the plain frame, `Decode` is `decompress_rle` and `Decompress` adds
the checks of `handle_frame`.  The limits 255, 4 and 4 of the code are
constants.  In `LinuxWSI`, `buffers` are those of the backend with `in_use`
(`busy` on Wayland) and `mapped`; `queue` and `screen` belong to the window
system, which shows a present from its buffer, copies it, or skips it for a
later one, and then sends an event; `events` are those nobody has read.  A
present that has to wait is cut at the events it reads: `Dispatch` is a turn of
the loop around `wl_display_dispatch`, `StartPump` and `Pump` are
`process_events(true)`, which handles one event and waits for another.  Before a
present `process_events(false)` polls one event, which may not have arrived
(`Early`).
`dropped` is history: a frame of this window was lost because a buffer could
not be mapped.  The images of a swapchain are presented in turn, as the
server gives them out.  After a shutdown the window system's share of the old
buffers is forgotten; whether a Wayland compositor may still need them is left
out.

## 3  The runs

| Run | Question | Answer |
|---|---|---|
| `shadow_tracking` | With failing transfers, pages shared with the GPU and explicit invalidations, is every store marked until the server has it, and does every store complete? | yes; `TrackingInv`, the inductive invariant of the proofs, holds too |
| `shadow_disciplined` | Does an application that leaves mapped memory alone while work runs get coherent memory? | yes: `ShadowBuffer` implements `CoherentMemory`, results are visible after a wait, no older data replaces newer |
| `ring_order` | One thread, commands that cross the threshold anywhere, messages past the ring, a lost connection: are ring commands performed in order, once, does a message past the ring overtake only what nothing has waited for, and are the steps of a call as good as one (`AtomicRing`)? | yes |
| `ring_replies` | One thread, when no call itself reaches the threshold: own replies, no stray reply, errors only when the connection is lost, every call returns, `CommandService` implemented? | yes |
| `ring_crossing` | And when a call reaches the threshold? | no: it returns without its reply, and the next call takes it |
| `cmdbuf_life` | With failing drivers, rejected and skipped commands, late frees and reused addresses: do the two records agree, do handles match, does a submission run what was recorded but for what was skipped, and never a buffer with a rejected command? | yes |
| `binding_records` | Two threads, objects ending while others are bound, failing drivers: do the records agree, do the server's two views of a binding, do the bindings of resources the server counts with stay apart, is a legal bind accepted after a plain question? | yes; one that is guessed too small may share memory (below) |
| `binding_guess` | And when the question was `vkGetBufferMemoryRequirements2`? | no: neither side remembers the answer and the server checks the bind against a guess |
| `sync_fences` | Is what a fence or an idle wait reports really done, and do waits for fed work end? | yes |
| `sync_acquire` | Does a frame that waits for the semaphore of `vkAcquireNextImageKHR` ever run? | no: nobody signals it, and the server blocks |
| `swap_life` | With failing drivers and windows, lost requests and a second client: do both tables agree, does the tracker name live images only, is a shown frame complete if every call that made its copy did its work, what does the present client leak? | they agree, it does, it is; only what a failed call gave up is leaked; other frames may be old (below) |
| `wsi_frames` | With four backends, late events, failing maps and a lost display: are buffers left alone while they are shown, are their flags true, does the code of frames lose nothing, do presents return? | yes, presents with every backend but `"gbm"` and as long as no frame was dropped |

**Bounds.**  `ShadowBuffer`: one mapping of two pages, two locations on one
and one on the other, two or three stamps.  Two pages are the least for a
batch of two ranges or one contiguous range and for a half-done transfer; two
locations on a page the least for false sharing; two stamps the least for one
write to replace another; the implementation of `CoherentMemory` uses three.
What depends on the number of mappings is a union over mappings that the
code treats one by one; the proofs hold for any number.  `CommandRing`: the
threshold is four units, commands have one or two, so that it is met exactly
and passed; one thread, and five or six commands, which leave room for a call
before, at and after it.  `CommandBuffers`: a pool of each kind, two
addresses, three handles (so that an address is used again), two commands per
buffer, two in the ring.  `ResourceBinding`: two buffers of one unit and an
image of two in two memories of three units, so that ranges can touch, overlap
in part and fill a memory; a guess is right for the buffers and half of what the
image needs (`binding_records`), or too long and misaligned (`binding_guess`); two
commands on their way.  `DeviceSync`: two queues, two fences, a semaphore
of each kind, two submissions with at most one semaphore on each side;
instances with three submissions and one fence were run by hand, too.
`Swapchain`: two clients with two swapchains each, of one or two images, and
three handles, so that leaked images leave too few for the next and handles are
given out again; one rendering to an image is the least that can be missed, and
one failure of the driver the least after which a copy goes wrong: it may leave
the fence signaled, so that later copies go wrong too.  `LinuxWSI`: three images, so that one can be
on the screen, one queued and one on its way back, and two frames, one of
which is coded; two and four images were run by hand.  `FrameCodec`: runs of
up to four, coded from three on, and all 2047 frames of up to ten bytes of two
values, so that a literal and a run are split and a literal swallows a run.
Symmetry is declared only where no liveness property is checked.  The failures
of `"create"`, `"allocate"`, `"bind"` and `"driver"` are not bounded.

**Instances run by hand.**  Some things the code does are not findings of a
run but can be seen by changing a constant, or by checking another property of
the same module:

| Change | What TLC shows |
|---|---|
| `"overlap"` in `AppMay` of `shadow_tracking`, `SubmitSeesHostWrites` alone | a store of a second thread after the memcpy of a flush loses its dirty mark (`finalize_coherent_range_flush` clears the flags after the transfer), and no later submission sends it; `docs/ARCHITECTURE.md:475` has modified regions sent |
| `"busy"` in `AppMay` of `shadow_disciplined`, `WaitMakesVisible` alone | one dirty page keeps a whole mapping from being read back after a wait |
| the same, `GpuWritesKept` alone | a flush sends whole pages, the GPU's part of them included |
| `"poll"` in `AppMay` of `shadow_disciplined`, `WaitMakesVisible` alone | the application learns from `vkGetSemaphoreCounterValue` that its work is done (`instance_commands.cpp:787`) and reads old contents; `vkGetFenceStatus` does read the mappings back |
| the same, `GpuWritesKept` alone | `vkUnmapMemory` of a mapping the application never stored into replaces what the GPU wrote by the old contents of the shadow |
| `Thread = {t1, t2}`, `AsyncSize = {2}`, `SyncSize = {1}`, `MaxCommands = 4` in `ring_order`, `PerformedInOrder` alone | two flushes send the same buffer (`venus_ring.cpp:53-61`): commands 1, 2, 1 are performed |
| the same under `FairSpec`, deadlock | a command appended between the send and the clear of the other thread is erased unsent, and the call that waits for its reply never returns |
| `Thread = {t1, t2}` in `ring_replies`, `ReplyIsOwn` alone | a call receives the reply of the other thread's; `docs/ARCHITECTURE.md:300` shows a `socket_mutex_` that `network_client.h` does not have |
| the invariant `executed.skipped = {}` in `cmdbuf_life` | a buffer is executed without a command the server has skipped (`renderer_decoder.c:2000`), though `docs/PHASE_05.md:78` has an error during recording make it invalid |
| `AppMay = {"host"}` and `MaxValue = 2` in `sync_fences`, `TimelinePromisesKept` alone | `vkWaitSemaphores` raises the server's own value and returns, whatever the GPU has done (`sync_manager.cpp:293`; `docs/PHASE_06.md:72` asks for a real wait) |
| `"reorder"` in `AppMay` of `swap_life`, `ImageHeldOnce` alone | an image is handed out while the application holds it, also when the application holds no more images than Vulkan allows; with `AppMay = {}` the same instance satisfies it |
| `ShownIsRendered` without `shown[id].made` in `swap_life` | a call of the driver fails while an image is copied (`swapchain_manager.cpp:157`, `:235-237`), and the frame before is shown with `VK_SUCCESS` |
| the invariant `~blocked` in `swap_life` | the submission of a copy fails, its fence is waited for without end (`swapchain_manager.cpp:236`), and the server serves nobody any more |
| `BindingsSeparate` without `Counted` in `binding_records` | an image asked about with `vkGetImageMemoryRequirements2` is recorded with the size of a guess, half of what it needs (`memory_requirements.cpp:36-79`), and another resource is bound into its end |
| `IdleEndsWait` in `wsi_frames`, `CHECK_DEADLOCK FALSE` | `process_events(true)` handles the idle event that was waited for and then waits for one more (`linux_wsi.cpp:381`); `docs/PHASE_10_LINUX.md:177` has the idle event end the use of the buffer |
| `Images = 2` in `wsi_frames` and no `dropped` in `PresentReturns` | after one dropped frame the next one but one waits for the buffer that is on the screen, which no later present replaces |

**Deadlock** is checked, except in `ResourceBinding`, where an application has
nothing left to do when every handle is used up and every object ended, and in
`DeviceSync` under `FairSpec`: there the
server may wait for ever for a fence whose work waits for a semaphore nobody
signals, and `sync_acquire` is about just that.  In `CommandRing` the action
`Finished` lets a run end at the bound only when no call is in progress, and
in `Swapchain` only when the last client is gone, or the one in whose present
the server has blocked.  In `LinuxWSI` the display can
always go away, so the endless wait of `"gbm"` is no deadlock of the model; it
is what `IdleEndsWait` is about.

**Fairness.**  `CommandRing`: the server performs what it has received, and a
thread inside a call takes its next step when it can; nothing says the
application makes another call.  `ShadowBuffer`: the processor retries a
faulting store and the handler runs to its end.  `DeviceSync`: the GPU
executes a submission whose semaphores are ready, and a wait of the driver
returns once its condition holds (or, with a finite timeout, at some time).
`LinuxWSI`: the calling thread goes on when its wait can end, and the window
system gets to every present, as X11 and Wayland promise for a window that is
there; it need not skip, and the application need not read events.
Weak fairness is enough for all of them, and all of it comes from the
processor, the GPU or the operating system; none of it from a choice the
application makes.

## 4  What is proved

### ShadowBuffer

`ShadowBufferProofs` proves, for every finite or infinite set of allocations,
pages and locations and every number of stores:

| Theorem | Statement |
|---|---|
| `TypeCorrect` | `Spec => []TypeOK` |
| `TrackingHolds` | `Spec => []TrackingInv` |
| `HostWritesAreTracked` | a store the server does not have is on a dirty page |
| `SubmitIsUpToDate` | a submission finds every earlier store on the server |
| `HostWritesAreKept` | no read-back replaces a store by older contents |
| `StoresAdvance` | `Spec => [][StoreAdvances]_vars`: a store completes within five steps of its own |

Assumptions: `ConstantsAssumption` of `ShadowBuffer`, and for all but the
first that stores and calls do not overlap (`"overlap" \notin AppMay`),
without which TLC refutes `SubmitSeesHostWrites` (section 3).  Transfers may fail and the
application may do everything else in `AppMay`.  `HostWritesAreKept` also
excludes `"reread"`, as the statement before the theorem explains: an explicit
invalidation of coherent memory does replace stores.

**The argument.**  `HostWritesTracked` is not inductive: that a store into an
*open* page needs no fault, and so sets no mark, is right only because an open
page is already dirty.  So `OpenPagesTracked` says that an open page is dirty
and flagged writable, except pages a call has opened on purpose.  The flag
matters because `make_pages_readonly` passes over pages without it: a page
open without the flag would be sent, lose its dirty mark and stay open.  For
the flush, `FlushRangesClosed` says that ranges already copied are closed and
that the message equals the shadow there, so clearing the marks at the end is
right.  For a wait, `WaitRangesClean` says that what is read back is clean
and therefore not older than the shadow.  `StoreAlone` is where the
assumption about overlap enters: during a call no store is in the handler.
`TrackingInv` is the conjunction; one step per action shows that it is
preserved, and TLC checks it as an invariant of `shadow_tracking`.

`StoresAdvance` is the part of `StoreCompletes` that needs no fairness.
`shadow_fault_handler` returns early when the page is flagged writable, and the
store would fault again and again if it were nevertheless closed.  `FaultInv`
excludes that: a flagged page is open, or the handler is about to open it
(`"protect"`), or a wait has closed it and is about to clear its flag
(`FlaggedIsOpen`); and the handler works on closed pages only (`FaultIsClosed`).
`StepsLeft` counts the steps a store has to go, at most five; each of its own
steps lowers it, no other step changes it.  With overlapping calls and stores a
flush or a wait may close the page again behind the handler, and TLC refutes it.

Its second half goes on for an application that leaves mapped memory
alone while its work runs, a connection that does not fail and mappings small
enough to be read back (`Disciplined`: `AppMay = {}`, no failing transfers,
`AutoInvalidate = Mem`):

| Theorem | Statement |
|---|---|
| `WaitsMakeVisible` | after a wait the application reads what the awaited work wrote |
| `GpuWritesAreKept` | no transfer replaces what the GPU wrote |
| `RefinesCoherentMemory` | `Spec` implements `CoherentMemory` |

Each part of the assumption is needed: with `"busy"` or `"poll"` TLC refutes
the first two (section 3), and a mapping that is not read back is sent back
old.  `CurrentUnlessBusy` says where a shadow may be older than the server:
only where outstanding work writes.  To keep it, a wait must read back what it
awaited, so nothing may be dirty then: `QuietWhileBusy` says that nothing is
dirty or on its way to the server while work is outstanding, because a
submission leaves no dirty page and the application then keeps still.
`AwaitedIsRead` carries the contents from the server's answer to the shadow.
For the implementation, every step leaves both copies alone, is one write of
the application or of the GPU with a new stamp, or moves the newer of two
copies over the older; and a read finds no outstanding work, so that the
shadow is the newer copy.  TLC has checked the three parts on the instance of
`shadow_disciplined` and on one with two mappings.

### CommandRing

`CommandRingProofs` proves, for every sizes of commands, threshold and number
of commands, with and without messages past the ring and with a connection
that may break:

| Theorem | Statement |
|---|---|
| `TypeCorrect` | `Spec => []TypeOK`, any threads |
| `AtomicRingImplemented` | `OneThread => (Spec => ImplementsAtomicRing)` |
| `PerformedInIssueOrder` | `OneThread => (Spec => []PerformedInOrder)` |
| `OvertakesSafely` | `OneThread => (Spec => []OvertakesOnlyPending)` |
| `RepliesAreOwn` | `OneThread => (Spec /\ []CallsStayBuffered => []ReplyIsOwn)` |
| `ErrorsAreLosses`, `RepliesAreConsumed` | under the same conditions `ErrorOnlyWhenBroken`, `NoStrayReply` |
| `ServiceImplemented` | under the same conditions `ImplementsService`: `Spec` implements `CommandService` |
| `CallsAreNotStuck` | `OneThread => (Spec => []NotStuck)` |
| `CallsAdvance` | `OneThread => (Spec => [][Advances]_vars)` |

**Assumptions.**  `StreamAssumption`.  `OneThread` (`\A t, u \in Thread : t = u`)
is needed everywhere but for the types: the code takes no lock, and with two
threads TLC refutes each of the properties (section 3).  `CallsStayBuffered` says
that the command of a call with a reply does not itself take the buffer to the
threshold, so that `vn_ring_get_command_reply` finds it there and flushes it.  It
is an assumption about a behaviour and not about the constants: with the sizes of
the real commands and 256 KiB a buffer of asynchronous commands can always be
filled so far that the next call crosses, which is what `ring_crossing` shows.
What the theorems say is that nothing but such a crossing gives a call the reply
of another.

**From steps to calls.**  `StepInv` says what the steps of `CommandRing` may rely
on with one thread: between the append and the end of `vn_ring_submit_command`
the command is the last one issued and the last in the buffer, a flush for a
reply finds something to send, and a buffer that is still full after it could not
be sent.  The refinement mapping leaves the last command out while it is being
submitted, and the whole buffer while it is sent and not yet cleared; `Submitted`
maps the step of a call.  Every step is then one of `AtomicRing`, or none:
`CheckSize` that keeps the command and `FlushPending` that sends it are the
`Async` or `BeginCall` of the abstraction, clearing is no step of it.  The rest is
proved of `AtomicRing`, in `AtomicRingProofs`, and carried over.

**The argument for the order.**  (Of `AtomicRing`, as are the next ones.)  That
what is performed is in order says nothing about the next command to be
performed, so `Increasing` orders the whole way of a command, what is performed before what is on the
wire before what is in the buffer, and `Complete` says that while the
connection is up no command of the ring is missing from the three.
Appending, flushing and performing only move commands along that way; a message
past the ring is put into it out of turn but is not a command of the ring; a
lost connection removes the middle and nothing is performed afterwards.

**The argument for overtaking.**  `OvertakesOnlyPending` speaks of what is
performed; to keep it, `Followed` says of each command on the wire that every
earlier one is performed, before it on the wire, or without a reply and with no
call after it (`Unawaited`), and `Waiting` that the buffer holds only such
commands whenever no call is between its append and its flush.  In `AtomicRing` one thread is needed just there: a
second thread's message past the ring could pass the call of the first.

**The argument for the replies.**  `CallInv` (with `Served`) follows the one
call there can be through its life: in the buffer as the last of its commands
(`AtTheEnd`); flushed, as the last command of a message, with nothing else on
the wire that is answered and nothing on its way back (`OnItsWay`); performed,
its answer the only message on its way back (`Replied`).  Between calls nothing
on the wire is answered (`Quiet`) and nothing comes back.  So the next message
received is the call's own.  When the connection is lost what came back may
still be read, but it is that answer or nothing.  `ReplyInv` joins these with
`RingInv`.

**The service.**  `performed` is mapped to the set of what was performed,
the rest of the service's state is that of the ring.  `Async`, `BeginCall` and
`SendDirect` are `Issue`, or `Refuse` when a message past the ring cannot be
sent; `Perform` is `Perform`; `Receive` is an `Answer` with the reply,
`NothingToFlush`, `ReceiveFails` and a `FlushForReply` that fails are an
`Answer` with an error; every other step is none of the service.
`PerformedInOrder` and `OvertakesOnlyPending`, after the step, say that the
service may perform the command just then, `CallInv` that a reply received is
the call's own and its command performed, and `CallsKnown` that a call is
answered once.

**Progress.**  The last two theorems are the part of `CallsReturn` that needs no
fairness, for one thread and also when calls cross the threshold: a call may then
take a reply that is not its own, but it does not wait for one that cannot come.
`NotStuck`: a call that waits for a reply has one on its way back, or the server
has a command to perform, or the connection is lost; at every other step a call
can always go on.  `Advances`: a step during a call ends it or takes it to a later
of the eight stages of a call (`Stage`), or leaves it alone and has the server
perform one of the commands on the wire or the connection break.  Once a call
waits nothing is added, so at most `Len(up)` commands and the one loss come before
its reply.  The invariant
is `ProgressInv`: what waits for a reply has one on its way, kept by the server
for the rest of a message, or a command on the wire that is answered; what has
still to flush finds in the buffer, last, a command that is answered, or
nothing (`Owed`); and the server keeps replies back only while the rest of a
message is on the wire, which ends (`MessagesEnd`).

### CommandBuffers

`CommandBuffersProofs` proves, for every number of pools, buffers, handles and
commands:

| Theorem | Statement |
|---|---|
| `TypeCorrect` | `Spec => []TypeOK` |
| `HandlesAreMatched` | `Spec => []HandlesMatch` |
| `ClientIsNeverAhead` | `Spec => []StatesAgree` |
| `SubmissionsRunAllButSkipped` | `Spec => []RunsAllButSkipped` |

Assumption: `LifecycleAssumption`; `Slot` is finite because an allocation
counts the handles it asks for, and that an injection into as many handles as
buffers leaves none over is a fact about finite sets.  `Mishaps` is any set: the
driver and the checks of the server may fail, and commands may be skipped on
either side, in all four.

**The argument.**  `HandlesMatch` is close to inductive: the client forgets
buffers in the very step that sends the command which removes just their
handles (`ForgetStep`), and performing the command removes what was condemned
already (`RemoveStep`).  `StatesAgree` also needs `RecordsOfRecording`: only a
buffer the client still records has recorded commands in the ring, so
performing one, which may make the server's buffer invalid, never spoils an
executable or an initial one.  For the contents, `WholeBuffers` says of a
buffer both sides record that the commands recorded but not skipped are exactly
those the server's buffer has and those for its handle in the ring (`Exactly`),
the former before the latter and each part in order (`InOrder`).
`vkEndCommandBuffer` finds the ring empty, so nothing is on the way and the
server has them all; from then on neither side changes until the buffer begins
anew.  A rejected command leaves the server's buffer invalid, and
`StatesAgree` keeps the client from submitting it.

### ResourceBinding

`ResourceBindingProofs` proves, for every number of threads, resources,
allocations and commands on their way, every size and alignment, and whatever
the driver may fail:

| Theorem | Statement |
|---|---|
| `TypeCorrect` | `Spec => []TypeOK` |
| `RecordsAlwaysAgree` | `Spec => []RecordsAgree` |
| `ViewsAlwaysMatch` | `Spec => []ViewsMatch` |
| `SharedMemoryIsDivided` | `Spec => []BindingsSeparate` |
| `PlainBindsAreAccepted` | `Spec => []PlainBindsAccepted` |

Assumption: `BindingAssumption`, which says nothing of how guesses relate to what
the driver asks for.  `BindingsSeparate` itself is about two resources the server
counts with (`Counted`): asked about the plain way, or guessed not too small; of
others the overlap check compares sizes that are too small, and TLC refutes it
(section 3).

**The argument.**  `RecordInv` says what each call that has not returned
promises of the tables (`CallsSay`): that an object being created is on the
server just when the answer says so, that one being asked about or bound, and
the memory it is bound to, stay.  `Paired` and `OneEach` tie these calls to the
commands on the ring: each is answered once, and no object ends twice, so that
performing an end takes the object out of `Leaving`.  With this `Tables`
accounts for everything alive on the server, and `Agreement` says that a
binding looks the same on both sides unless its memory is leaving or its answer
is on the way.  `Bound` is about the server alone and gives `ViewsMatch`;
`Divided` adds that the recorded ranges of an allocation do not overlap, and that
those of resources whose guess is large enough are at least what they need; for
one told the plain way the server has what the driver said (`Asked`).

For `PlainBindsAreAccepted` the invariant `Room` looks along the ring: when a
legal bind is sent to a place that is free for the application, whatever still
lies there on the server has its end ahead of the bind in the ring, and no bind
ahead of it goes there.  Performing the head keeps this true, and at the
head there is nothing ahead: the place is free.

### DeviceSync

`DeviceSyncProofs` proves, for every set of fences and semaphores, every number
of submissions and timeline values:

| Theorem | Statement |
|---|---|
| `TypeCorrect` | `Spec => []TypeOK` |
| `FencesKeepTheirPromise` | `Spec => []FencePromisesKept` |
| `FedWaitsAreNotStuck` | `Spec => []NotStuck` |
| `FedWaitsAdvance` | `Spec => [][Advances]_vars` |

Assumption: `NullAssumption`, that the values which stand for "no fence" and "no
semaphore" (`VK_NULL_HANDLE`) are none.  **The argument.**  What a call reported
of a fence is right when the work the fence stands for is done.
`SignaledIsDone` says that of every signaled fence, `PendingFence` that a fence
with work outstanding belongs to exactly the submission that will signal it (so
that executing it signals the right one), and `AbsentCoversNothing` that a fence
that does not exist stands for nothing, so that one created anew, signaled or
not, promises nothing old.

The last two theorems are the part of `WaitsEndWhenFed` that needs no fairness.
`NotStuck`: while the server is blocked and every pending submission is fed
(waits for nothing, for what is there, or for what an earlier one signals), the
wait can return or some queue can execute its next submission; `CanReturn` and
`CanExecute` spell the guards of these steps out.  `Advances`: a step of a server
blocked so is the return of its wait, or it executes one pending submission and
adds none, and what is fed stays fed.  So at most as many steps of the GPU as
submissions are pending separate such a wait from being able to return; that
these steps are taken is what fairness adds, and what TLC checks.  The invariant
is `FedInv`: the pending signals of a timeline semaphore are on one queue and
grow (`SignalsGrow`), so that no signal takes away what was there; a binary
semaphore has one pending waiter (`OneAwaits`), so that no other consumes it; a
fence that stands for something and is not signaled was given to a pending
submission (`UnsignaledIsPending`); and a wait without a time limit is for such
fences or signaled ones (`WaitIsMeant`).  With nothing pending every fence waited
for is therefore signaled, and with something pending the earliest submission is
executable.

### Swapchain

`SwapchainProofs` proves, for every number of handles, swapchains, images,
clients and frames, and whichever failures are allowed:

| Theorem | Statement |
|---|---|
| `TypeCorrect` | `Spec => []TypeOK` |
| `ClientIsServed` | `Spec => []ClientServed` |
| `TrackerIsExact` | `Spec => []RegisteredAreAlive` |
| `ShowsWhatWasRendered` | `Spec => []ShownIsRendered` |
| `NothingElseLeaks` | `Spec => []LeaksOnlyGivenUp` |
| `ImagesAreHeldOnce` | `Polite => (Spec => []ImageHeldOnce)` |

Assumption: `SwapchainAssumption`.  **The argument.**  The two tables differ while a
request or its answer is under way, so the invariant `ChainInv` says what each
message promises: `Messages` and `Underway` tie a request to the call that
sent it and an answer to what the server has done for it; `Agreed` is
`ClientServed` for the swapchains no call is changing.  `Owned` says that the
images of the server's swapchains exist, that no two swapchains share one and
that the tracker has just the images the driver has; `Accounted` counts: what
an image holds and what is still queued for it add up to what was submitted.  So
a wait for the device that succeeds leaves everything submitted in the image, and
a copy that is recorded, submitted and waited for with a fence that was not
signaled before has it in the staging buffer; an answer that says so is carried
to the window by `Underway`.  Whatever else fails only changes what `made` says.
When the server blocks, a call has neither a request nor an answer under way
(`Exchange`), and stays so until the client gives up.
`LeaksOnlyGivenUp`
follows because a swapchain leaves the client's table only by a destroy the
server performs, or by an error that is recorded as giving it up.

`ImagesAreHeldOnce` is for an application that presents images in the order it
acquired them and holds no more than there are (`Polite`: `AppMay = {}`);
without the first TLC refutes it (section 3).  The server looks at nothing but
its counter, so the invariant `TurnInv` says where the held images are: on the
ring of a swapchain's images they are those just before the counter, in order,
the one on its way to the client included.  At most as many places in a row as
the ring has are different places.

### FrameCodec

`LinuxWSIProofs` proves, for every largest count, shortest run and gain that
`CodecAssumption` allows:

| Theorem | Statement |
|---|---|
| `CodeIsExact` | `\A s \in Seq(Nat) : CodedFaithfully(s)` |

that is: a frame of any length and any bytes is decoded as it was coded,
compressed or not, and a payload cut short is refused.  **The argument.**
`Encode` and `Decode` are recursive functions; `EncodesExists` and
`DecodesExists` prove, by induction from the end (a `from[i]` uses later places
only), that there are such functions.  `WrittenAsTokens` says what `Encode`
writes from each place of the frame: one token, a run or a literal, for the
next `c` bytes with `c` between one and the largest count (`StartsWithToken`),
and then what it writes from `c` places further on.  `ReadToken` says what
`Decode` makes of a payload that holds the first `m` values of that at some
offset: nothing when `m` is 0, a refusal when the token is cut, and otherwise
the `c` bytes before what it makes of the rest.  `ReadsWhatIsWritten` puts the
two together by induction from the end of the frame: all of it when the payload
is whole, otherwise a refusal or fewer bytes than the frame has, which
`handle_frame` refuses by their number.

### LinuxWSI

`LinuxWSIProofs` proves, for every set of backends and frames, every number of
images and every set of mishaps:

| Theorem | Statement |
|---|---|
| `TypeCorrect` | `Spec => []TypeOK` |
| `ShownFramesStayIntact` | `Spec => []FramesStayIntact` |
| `InUseMarksAreTrue` | `Spec => []InUseIsAccounted` |
| `FramesComeThrough` | `Spec => []RoundTrip`, for every bound `MaxSize` |
| `PresentsAreNotStuck` | `Spec => []NotStuck` |
| `PresentsAdvance` | `Spec => [][Advances]_vars` |

Assumptions: `WSIAssumption` and `CodecAssumption`; that a frame is decoded as
it was coded is `CodeIsExact`.
**The argument.**  `Out` lists the buffers given away and not taken back in the
order in which they come back: those whose event is unread, those shown, those
queued.  The invariant `IInv` says that no buffer is in `Out` twice (`Once`)
and that, while the window system is there, those in it are those marked in use
(`Marked`).  A present adds an unmarked buffer at the end, events that are
handled are taken from the front, a flip or a copy leaves the list as it is and
a skip only changes its order.  A buffer that is written is unmarked, hence not
in the list, so what is shown or queued stays as it was (`Shows`).  `TypeOK`
bounds what is out by the number of buffers because `Out` is an injection.
Without a window system the marks say nothing, but then nothing is shown.

The last two theorems are the part of `PresentReturns` that needs no fairness.
`NotStuck`: a present in progress can go on or the window system has presents
to show, except with `"gbm"`, where the wait goes on after the event it waited
for (section 3), and after a frame of the window was dropped.  The buffer that stays
on the screen is never given back, so what has to be shown is that a present
does not wait for that one with nothing queued behind it.  `InTurn` says
why: images take turns, so the last present, the last to be shown, is of
the image before the expected one, and there are at least two images.
`Advances`: a step during a present ends it, shows a queued present, reads the
events, or is the one loss of the connection; `Left`, two for each queued present
and one for unread events, decreases with every step but the last kind, so that
at most that many steps separate a present from its end.

### Only model-checked

Every invariant the passing runs check is stated by a theorem; of `CommandRing`
and `ShadowBuffer`, and of the swapchain's `ImagesAreHeldOnce`, with the conditions
named there.  What is left to
TLC are the liveness properties `StoreCompletes`, `CallsReturn`,
`WaitsEndWhenFed` and `PresentReturns`: fairness and `ENABLED` are out of the
prover's reach.  Of each the part that needs neither is proved, under the
assumptions named there: that what is in progress is not stuck, and that a
measure of what separates it from its end decreases.  Induction over data is not
out of reach, in the form of sets of numbers described above.  The theorems
about the ring are about one thread; for several the properties do not hold.

## 5  What is not modelled, and the plan

Not modelled: contents of commands and structures (the Venus encoding is
generated), logging, what a window backend asks of X11, Wayland and GBM to set
itself up, property queries, pipelines and shaders;
secondary command buffers; events, which are handed to the driver as they are;
two clients at a time, which the server does not serve; views,
samplers and the other objects that are a table entry each.  `vkFreeMemory` of
mapped memory sends the whole mapping as `vkUnmapMemory` does (`ShadowBuffer`)
and then frees (`ResourceBinding`); the two halves are modelled apart.
`offset + size` in 64 bits wraps only for offsets a legal application does not
use, so `ResourceBinding` computes in unbounded numbers.

Hazards seen and left without a property: the ring's buffer is kept when a
flush fails and grows without bound (`venus_ring.cpp:56`); `read` and `write`
interrupted by a signal count as a broken connection (`socket_utils.cpp:15`);
`offset + size` in `vkMapMemory` is compared without a check for overflow
(`memory_commands.cpp:292`); whether a mapping of more than 16 MiB is read
back after waits is decided once, by what is bound when it is mapped
(`memory_commands.cpp:329`); the copy of a present names `COLOR_ATTACHMENT_OPTIMAL` as
the layout of an image that `docs/PHASE_10_BASE.md:246` has in
`PRESENT_SRC_KHR`.

Planned extensions: calls of two
threads in `CommandBuffers` over the ring of `CommandRing`; pools of descriptor sets, of which a pool
destroyed between the two locks of an allocation is the case to check.
