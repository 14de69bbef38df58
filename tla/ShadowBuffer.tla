---------------------------- MODULE ShadowBuffer ----------------------------
(***************************************************************************)
(* Emulation of host-coherent memory by the client ICD.                    *)
(*                                                                         *)
(* A mapped allocation is a private copy (the shadow) in the application's *)
(* address space.  The pages of the copy are kept read-only; a store into  *)
(* one raises SIGSEGV, and the handler marks the page dirty and opens it.  *)
(* vkQueueSubmit sends the dirty pages to the server before the work       *)
(* (flush_host_coherent_mappings); a successful wait reads the mappings    *)
(* back (invalidate_host_coherent_mappings).  vkMapMemory reads the        *)
(* allocation, vkUnmapMemory writes all of it.                             *)
(*                                                                         *)
(* Contents are stamps: every store, by the application or by the GPU,     *)
(* writes a stamp never used before, so a larger stamp is newer data.      *)
(*                                                                         *)
(* One thread of the application makes the Vulkan calls; its position in a *)
(* call is `call'.  A store of the application is `store'.  Unless         *)
(* "overlap" is in AppMay both are one thread: calls and stores alternate. *)
(***************************************************************************)
EXTENDS Naturals

CONSTANTS
    Mem,            \* the VkDeviceMemory allocations, all HOST_COHERENT
    Page,           \* the pages of their shadows, numbered
    Loc,            \* the locations the application and the GPU write
    MemOf,          \* MemOf[p]: the allocation page p belongs to
    PageOf,         \* PageOf[l]: the page location l is in
    AutoInvalidate, \* allocations a wait reads back: invalidate_on_wait is
                    \* set and the mapping is within kMaxInvalidateBytes
    AppMay,         \* liberties the application takes, see below
    TransfersFail,  \* TRUE when a transfer to or from the server may fail
    MaxStamp        \* bound on the number of stores and GPU writes

(***************************************************************************)
(* "overlap":  another thread stores into and reads mapped memory while a  *)
(*             Vulkan call is in progress;                                 *)
(* "busy":     the application touches mapped memory, or unmaps it, while  *)
(*             submitted work it has not waited for is outstanding (never  *)
(*             the locations that work writes: that would be a data race); *)
(* "reread":   it calls vkInvalidateMappedMemoryRanges on coherent memory; *)
(* "poll":     it learns that work has finished by asking, without a wait. *)
(* Vulkan allows each of them.                                             *)
(***************************************************************************)
ASSUME ConstantsAssumption ==
    /\ Page \subseteq Nat
    /\ MemOf \in [Page -> Mem]
    /\ PageOf \in [Loc -> Page]
    /\ AutoInvalidate \subseteq Mem
    /\ AppMay \subseteq {"overlap", "busy", "reread", "poll"}
    /\ TransfersFail \in BOOLEAN
    /\ MaxStamp \in Nat

PagesOf(M) == {p \in Page : MemOf[p] \in M}
LocsOn(P)  == {l \in Loc : PageOf[l] \in P}
LocsOf(M)  == LocsOn(PagesOf(M))

VARIABLES
    mapped,         \* ShadowBufferManager::mappings_
    shadow,         \* the client's copies
    dirty,          \* HostCoherentTracking::dirty
    writable,       \* HostCoherentTracking::writable
    rw,             \* pages whose actual protection is PROT_READ|PROT_WRITE
    server,         \* the allocations' contents on the server
    gpu,            \* locations the submitted work has yet to write
    busy,           \* locations of submitted work not waited for
    waited,         \* locations of the work the wait in progress is for
    call,           \* where the calling thread is
    target,         \* the allocation the call is about
    batch,          \* pages of the ranges in the call's transfer
    todo,           \* pages of the ranges not yet copied into the message
    run,            \* the range being prepared and copied
    unprot,         \* pages of run whose writable flag has just been cleared
    payload,        \* contents carried by the call's message
    ok,             \* the result of the call's transfer
    store,          \* the application's store in progress
    stamp,          \* the latest stamp
    owed,           \* history: the shadow when vkQueueSubmit was entered
    undelivered,    \* history: locations of transfers that reported an error
    seen            \* history: the application's latest read

tracking == <<dirty, writable, rw>>
callVars == <<call, target, batch, todo, run, unprot, payload, ok>>
gpuVars  == <<gpu, busy, waited>>
history  == <<owed, undelivered, seen>>
vars == <<mapped, shadow, tracking, server, gpuVars, callVars, store, stamp,
          history>>

Calls == {"idle", "map", "unmap", "flushranges", "reread",
          "prepare", "protect", "copy", "send", "finalize", "submit",
          "open", "read", "fill", "close", "clear"}

NoStore == [step |-> "none"]
Stores  == {NoStore} \cup
           [step : {"try", "mark", "flag", "protect"}, loc : Loc]

Contents == [Loc -> 0..MaxStamp]

TypeOK ==
    /\ mapped \subseteq Mem
    /\ shadow \in Contents
    /\ dirty \subseteq Page /\ writable \subseteq Page /\ rw \subseteq Page
    /\ server \in Contents
    /\ gpu \subseteq Loc /\ busy \subseteq Loc /\ waited \subseteq Loc
    /\ call \in Calls /\ target \in Mem
    /\ batch \subseteq Page /\ todo \subseteq Page
    /\ run \subseteq Page /\ unprot \subseteq Page
    /\ payload \in Contents
    /\ ok \in BOOLEAN
    /\ store \in Stores
    /\ stamp \in 0..MaxStamp /\ (store # NoStore => stamp < MaxStamp)
    /\ owed \in Contents /\ undelivered \subseteq Loc
    /\ seen \in Loc \X (0..MaxStamp)

Init ==
    /\ mapped = {}
    /\ shadow = [l \in Loc |-> 0]
    /\ dirty = {} /\ writable = {} /\ rw = {}
    /\ server = [l \in Loc |-> 0]
    /\ gpu = {} /\ busy = {} /\ waited = {}
    /\ call = "idle" /\ target \in Mem
    /\ batch = {} /\ todo = {} /\ run = {} /\ unprot = {}
    /\ payload = [l \in Loc |-> 0]
    /\ ok = TRUE
    /\ store = NoStore
    /\ stamp = 0
    /\ owed = [l \in Loc |-> 0] /\ undelivered = {}
    /\ seen \in Loc \X {0}

-----------------------------------------------------------------------------
(* What the application may do, and when.                                  *)

Overlap == "overlap" \in AppMay

\* A call starts when the calling thread is in no other one.
CanCall == call = "idle" /\ (Overlap \/ store = NoStore)

\* Mapped memory may be used when no outstanding work forbids it.
MayTouch == "busy" \in AppMay \/ busy = {}

\* The application holds a pointer to a location it may access: vkMapMemory
\* has returned and vkUnmapMemory has not been called.
Accessible(l) ==
    /\ MemOf[PageOf[l]] \in mapped
    /\ ~(call = "map" /\ target = MemOf[PageOf[l]])
    /\ l \notin busy
    /\ MayTouch
    /\ Overlap \/ call = "idle"

\* The bound MaxStamp; a store in progress has its stamp set aside.
StampsLeft == stamp + (IF store = NoStore THEN 0 ELSE 1) < MaxStamp

\* Mutation: a transfer that keeps nothing but what it carried.
OverwriteDropsRest(f, g, L) == [l \in L |-> g[l]]

\* f overwritten by g on the locations L.
Overwrite(f, g, L) == [l \in Loc |-> IF l \in L THEN g[l] ELSE f[l]]

Zero == [l \in Loc |-> 0]

\* The maximal contiguous ranges of a set of pages, per allocation.
Contiguous(R) ==
    \A p, q \in R : MemOf[p] = MemOf[q] /\ p..q \subseteq R

Runs(S) ==
    {R \in SUBSET S :
        /\ R # {} /\ Contiguous(R)
        /\ \A T \in SUBSET S : Contiguous(T) /\ R \subseteq T => T = R}

-----------------------------------------------------------------------------
(* Stores and reads of the application, and the SIGSEGV handler.           *)

BeginStore(l) ==
    /\ store = NoStore /\ Accessible(l) /\ StampsLeft
    /\ store' = [step |-> "try", loc |-> l]
    /\ UNCHANGED <<mapped, shadow, tracking, server, gpuVars, callVars, stamp,
                   history>>

\* The store instruction: it completes on an open page and faults otherwise.
TryStore ==
    /\ store.step = "try"
    /\ IF PageOf[store.loc] \in rw
       THEN /\ shadow' = [shadow EXCEPT ![store.loc] = stamp + 1]
            /\ stamp' = stamp + 1
            /\ store' = NoStore
       ELSE /\ store' = [store EXCEPT !.step = "mark"]
            /\ UNCHANGED <<shadow, stamp>>
    /\ UNCHANGED <<mapped, tracking, server, gpuVars, callVars, history>>

\* shadow_fault_handler: dirty[page] = 1.
FaultMark ==
    /\ store.step = "mark"
    /\ dirty' = dirty \cup {PageOf[store.loc]}
    /\ store' = [store EXCEPT !.step = "flag"]
    /\ UNCHANGED <<mapped, shadow, writable, rw, server, gpuVars, callVars,
                   stamp, history>>

\* writable[page].exchange(1); when it was 1 already the handler returns at
\* once, and the store is tried again.
FaultFlag ==
    /\ store.step = "flag"
    /\ store' = [store EXCEPT !.step =
                    IF PageOf[store.loc] \in writable THEN "try" ELSE "protect"]
    /\ writable' = writable \cup {PageOf[store.loc]}
    /\ UNCHANGED <<mapped, shadow, dirty, rw, server, gpuVars, callVars,
                   stamp, history>>

\* make_pages_writable: mprotect, and the store is tried again.
FaultProtect ==
    /\ store.step = "protect"
    /\ rw' = rw \cup {PageOf[store.loc]}
    /\ store' = [store EXCEPT !.step = "try"]
    /\ UNCHANGED <<mapped, shadow, dirty, writable, server, gpuVars, callVars,
                   stamp, history>>

\* A read never faults: a shadow page is always readable.
HostRead(l) ==
    /\ store = NoStore /\ Accessible(l)
    /\ seen' = <<l, shadow[l]>>
    /\ UNCHANGED <<mapped, shadow, tracking, server, gpuVars, callVars, store,
                   stamp, owed, undelivered>>

\* External: the GPU performs one write of the submitted work.
GpuWrite(l) ==
    /\ l \in gpu /\ StampsLeft
    /\ server' = [server EXCEPT ![l] = stamp + 1]
    /\ stamp' = stamp + 1
    /\ gpu' = gpu \ {l}
    /\ UNCHANGED <<mapped, shadow, tracking, busy, waited, callVars, store,
                   history>>

-----------------------------------------------------------------------------
(* vkMapMemory and vkUnmapMemory.                                          *)

\* create_mapping: fresh zeroed pages, open, with clear flags.
MapMemory(m) ==
    /\ CanCall /\ m \notin mapped
    /\ mapped' = mapped \cup {m}
    /\ rw' = rw \cup PagesOf({m})
    /\ call' = "map" /\ target' = m
    /\ UNCHANGED <<shadow, dirty, writable, server, gpuVars, batch, todo, run,
                   unprot, payload, ok, store, stamp, history>>

\* Mutation: the mapping is left open after it was filled.
MapReadLeavesOpen ==
    /\ call = "map"
    /\ shadow' = Overwrite(shadow, server, LocsOf({target}))
    /\ undelivered' = undelivered \ LocsOf({target})
    /\ call' = "idle"
    /\ UNCHANGED <<mapped, tracking, server, gpuVars, target, batch, todo, run,
                   unprot, payload, ok, store, stamp, owed, seen>>

\* read_memory_data into the shadow, then reset_host_coherent_mapping.
MapRead ==
    /\ call = "map"
    /\ shadow' = Overwrite(shadow, server, LocsOf({target}))
    /\ dirty' = dirty \ PagesOf({target})
    /\ writable' = writable \ PagesOf({target})
    /\ rw' = rw \ PagesOf({target})
    /\ undelivered' = undelivered \ LocsOf({target})
    /\ call' = "idle"
    /\ UNCHANGED <<mapped, server, gpuVars, target, batch, todo, run, unprot,
                   payload, ok, store, stamp, owed, seen>>

\* The shadow of m is unmapped from the address space and forgotten.
FreeMapping(m) ==
    /\ shadow' = Overwrite(shadow, Zero, LocsOf({m}))
    /\ dirty' = dirty \ PagesOf({m})
    /\ writable' = writable \ PagesOf({m})
    /\ rw' = rw \ PagesOf({m})
    /\ undelivered' = undelivered \ LocsOf({m})

\* read_memory_data failed: the mapping is removed and vkMapMemory fails.
MapFail ==
    /\ call = "map" /\ TransfersFail
    /\ mapped' = mapped \ {target}
    /\ FreeMapping(target)
    /\ call' = "idle"
    /\ UNCHANGED <<server, gpuVars, target, batch, todo, run, unprot, payload,
                   ok, store, stamp, owed, seen>>

\* vkUnmapMemory removes the mapping, then sends the whole of it.
UnmapMemory(m) ==
    /\ CanCall /\ m \in mapped /\ MayTouch
    /\ store # NoStore => MemOf[PageOf[store.loc]] # m
    /\ mapped' = mapped \ {m}
    /\ payload' = Overwrite(payload, shadow, LocsOf({m}))
    /\ call' = "unmap" /\ target' = m
    /\ UNCHANGED <<shadow, tracking, server, gpuVars, batch, todo, run, unprot,
                   ok, store, stamp, history>>

\* Mutation: the shadow is freed without having been sent.
UnmapForgetsTransfer ==
    /\ call = "unmap"
    /\ FreeMapping(target)
    /\ call' = "idle"
    /\ payload' = Zero
    /\ UNCHANGED <<mapped, server, gpuVars, target, batch, todo, run, unprot, ok,
                   store, stamp, owed, seen>>

\* The server writes the allocation and answers, and the shadow is freed.  A
\* failed transfer is only logged: vkUnmapMemory returns nothing.
UnmapWritten ==
    /\ call = "unmap"
    /\ \/ server' = Overwrite(server, payload, LocsOf({target}))
       \/ TransfersFail /\ UNCHANGED server
    /\ FreeMapping(target)
    /\ call' = "idle"
    /\ payload' = Zero
    /\ UNCHANGED <<mapped, gpuVars, target, batch, todo, run, unprot, ok, store,
                   stamp, owed, seen>>

-----------------------------------------------------------------------------
(* vkFlushMappedMemoryRanges and vkInvalidateMappedMemoryRanges on the     *)
(* whole of a coherent mapping.  Neither looks at the tracking flags.      *)

FlushRanges(m) ==
    /\ CanCall /\ m \in mapped /\ MayTouch
    /\ payload' = Overwrite(payload, shadow, LocsOf({m}))
    /\ call' = "flushranges" /\ target' = m
    /\ UNCHANGED <<mapped, shadow, tracking, server, gpuVars, batch, todo, run,
                   unprot, ok, store, stamp, history>>

FlushRangesWritten ==
    /\ call = "flushranges"
    /\ \/ server' = Overwrite(server, payload, LocsOf({target}))
       \/ TransfersFail /\ UNCHANGED server
    /\ call' = "idle"
    /\ payload' = Zero
    /\ UNCHANGED <<mapped, shadow, tracking, gpuVars, target, batch, todo, run,
                   unprot, ok, store, stamp, history>>

InvalidateRanges(m) ==
    /\ "reread" \in AppMay
    /\ CanCall /\ m \in mapped
    /\ payload' = Overwrite(payload, server, LocsOf({m}))
    /\ call' = "reread" /\ target' = m
    /\ UNCHANGED <<mapped, shadow, tracking, server, gpuVars, batch, todo, run,
                   unprot, ok, store, stamp, history>>

\* The memcpy of the reply faults on every read-only page it reaches, and the
\* handler marks and opens the page as it does for the application.
InvalidateRangesFill ==
    /\ call = "reread"
    /\ LET closed == PagesOf({target}) \ rw IN
       \/ /\ shadow' = Overwrite(shadow, payload, LocsOf({target}))
          /\ dirty' = dirty \cup closed
          /\ writable' = writable \cup closed
          /\ rw' = rw \cup (closed \ writable)
       \/ TransfersFail /\ UNCHANGED <<shadow, tracking>>
    /\ call' = "idle"
    /\ payload' = Zero
    /\ UNCHANGED <<mapped, server, gpuVars, target, batch, todo, run, unprot,
                   ok, store, stamp, history>>

-----------------------------------------------------------------------------
(* vkQueueSubmit: flush_host_coherent_mappings, then the submission.       *)

\* Mutation: every mapped page is sent, dirty or not.
AllRanges == PagesOf(mapped)

\* collect_dirty_coherent_ranges.
DirtyRanges == dirty \cap PagesOf(mapped)

BeginSubmit ==
    /\ CanCall
    /\ batch' = DirtyRanges
    /\ todo' = batch'
    /\ call' = IF batch' = {} THEN "submit" ELSE "prepare"
    /\ owed' = shadow
    /\ UNCHANGED <<mapped, shadow, tracking, server, gpuVars, target, run,
                   unprot, payload, ok, store, stamp, undelivered, seen>>

\* Mutation: the writable flags are not cleared.
FlushPrepareKeepsFlags ==
    /\ call = "prepare"
    /\ run' \in Runs(todo)
    /\ unprot' = run' \cap writable
    /\ call' = "protect"
    /\ UNCHANGED <<mapped, shadow, tracking, server, gpuVars, target, batch, todo,
                   payload, ok, store, stamp, history>>

\* make_pages_readonly on the next range: pages whose writable flag is clear
\* are passed over, the others lose the flag ...
FlushPrepare ==
    /\ call = "prepare"
    /\ run' \in Runs(todo)
    /\ unprot' = run' \cap writable
    /\ writable' = writable \ run'
    /\ call' = "protect"
    /\ UNCHANGED <<mapped, shadow, dirty, rw, server, gpuVars, target, batch,
                   todo, payload, ok, store, stamp, history>>

\* Mutation: the pages stay open.
FlushProtectForgotten ==
    /\ call = "protect"
    /\ call' = "copy"
    /\ UNCHANGED <<mapped, shadow, tracking, server, gpuVars, target, batch, todo,
                   run, unprot, payload, ok, store, stamp, history>>

\* ... and then the write permission.
FlushProtect ==
    /\ call = "protect"
    /\ rw' = rw \ unprot
    /\ call' = "copy"
    /\ UNCHANGED <<mapped, shadow, dirty, writable, server, gpuVars, target,
                   batch, todo, run, unprot, payload, ok, store, stamp, history>>

\* memcpy of the range into the message.
FlushCopy ==
    /\ call = "copy"
    /\ payload' = Overwrite(payload, shadow, LocsOn(run))
    /\ todo' = todo \ run
    /\ run' = {} /\ unprot' = {}
    /\ call' = IF todo' = {} THEN "send" ELSE "prepare"
    /\ UNCHANGED <<mapped, shadow, tracking, server, gpuVars, target, batch,
                   ok, store, stamp, history>>

\* handle_transfer_batch_command writes range after range and stops at the
\* first error; an error may also be a failed send (no range written) or a
\* lost reply (all of them written).
FlushTransfer ==
    /\ call = "send"
    /\ \/ /\ server' = Overwrite(server, payload, LocsOn(batch))
          /\ ok' = TRUE
       \/ /\ TransfersFail
          /\ \E done \in SUBSET Runs(batch) :
                server' = Overwrite(server, payload, LocsOn(UNION done))
          /\ ok' = FALSE
    /\ call' = "finalize"
    /\ payload' = Zero
    /\ UNCHANGED <<mapped, shadow, tracking, gpuVars, target, batch, todo, run,
                   unprot, store, stamp, history>>

\* finalize_coherent_range_flush clears the dirty flags, whatever the result;
\* on an error vkQueueSubmit returns it and submits nothing.
FlushFinalize ==
    /\ call = "finalize"
    /\ dirty' = dirty \ batch
    /\ batch' = {}
    /\ IF ok
       THEN /\ call' = "submit"
            /\ undelivered' = undelivered \ LocsOn(batch)
            /\ UNCHANGED owed
       ELSE /\ call' = "idle"
            /\ undelivered' = undelivered \cup LocsOn(batch)
            /\ owed' = Zero
    /\ ok' = TRUE
    /\ UNCHANGED <<mapped, shadow, writable, rw, server, gpuVars, target, todo,
                   run, unprot, payload, store, stamp, seen>>

\* vn_call_vkQueueSubmit hands over work that will write the locations W, or
\* vkQueueSubmit returns an error without submitting (W = {}).
Submit(W) ==
    /\ call = "submit"
    /\ gpu' = gpu \cup W
    /\ busy' = busy \cup W
    /\ call' = "idle"
    /\ owed' = Zero
    /\ UNCHANGED <<mapped, shadow, tracking, server, waited, target, batch, todo,
                   run, unprot, payload, ok, store, stamp, undelivered,
                   seen>>

-----------------------------------------------------------------------------
(* A successful wait (a fence, a timeline semaphore, the queue, the        *)
(* device) for finished work, then invalidate_host_coherent_mappings.      *)

\* Mutation: dirty pages are read back, too.
ReadBackDirtyToo == PagesOf(mapped \cap AutoInvalidate)

\* The ranges to read back: a mapping with a dirty page is left out entirely.
ReadBackRanges == PagesOf({m \in mapped \cap AutoInvalidate :
                              PagesOf({m}) \cap dirty = {}})

\* Mutation: the mappings are read back before the work has finished.
BeginWaitTooEarly(W) ==
    /\ CanCall
    /\ batch' = ReadBackRanges
    /\ IF batch' = {}
       THEN call' = "idle" /\ busy' = busy \ W /\ UNCHANGED waited
       ELSE call' = "open" /\ waited' = W /\ UNCHANGED busy
    /\ UNCHANGED <<mapped, shadow, tracking, server, gpu, target, todo, run,
                   unprot, payload, ok, store, stamp, history>>

\* The wait is for the work that wrote the locations W.
BeginWait(W) ==
    /\ CanCall /\ W \subseteq busy \ gpu
    /\ batch' = ReadBackRanges
    /\ IF batch' = {}
       THEN call' = "idle" /\ busy' = busy \ W /\ UNCHANGED waited
       ELSE call' = "open" /\ waited' = W /\ UNCHANGED busy
    /\ UNCHANGED <<mapped, shadow, tracking, server, gpu, target, todo, run,
                   unprot, payload, ok, store, stamp, history>>

\* vkGetSemaphoreCounterValue, vkGetEventStatus or vkGetQueryPoolResults tells
\* that the work which wrote W is done.  None of them reads a mapping back.
Poll(W) ==
    /\ "poll" \in AppMay
    /\ CanCall /\ W \subseteq busy \ gpu
    /\ busy' = busy \ W
    /\ UNCHANGED <<mapped, shadow, tracking, server, gpu, waited, callVars,
                   store, stamp, history>>

\* prepare_coherent_range_invalidate: mprotect only, the flags stay.
InvalidateOpen ==
    /\ call = "open"
    /\ rw' = rw \cup batch
    /\ call' = "read"
    /\ UNCHANGED <<mapped, shadow, dirty, writable, server, gpuVars, target,
                   batch, todo, run, unprot, payload, ok, store, stamp, history>>

\* handle_read_batch_command answers with all the ranges or with an error.
InvalidateRead ==
    /\ call = "read"
    /\ \/ /\ payload' = Overwrite(payload, server, LocsOn(batch))
          /\ ok' = TRUE /\ call' = "fill"
       \/ /\ TransfersFail
          /\ ok' = FALSE /\ call' = "close" /\ UNCHANGED payload
    /\ UNCHANGED <<mapped, shadow, tracking, server, gpuVars, target, batch,
                   todo, run, unprot, store, stamp, history>>

\* memcpy of the reply over the shadows.
InvalidateFill ==
    /\ call = "fill"
    /\ shadow' = Overwrite(shadow, payload, LocsOn(batch))
    /\ call' = "close"
    /\ payload' = Zero
    /\ UNCHANGED <<mapped, tracking, server, gpuVars, target, batch, todo, run,
                   unprot, ok, store, stamp, history>>

\* finalize_coherent_range_invalidate: mprotect(PROT_READ) ...
InvalidateClose ==
    /\ call = "close"
    /\ rw' = rw \ batch
    /\ call' = "clear"
    /\ UNCHANGED <<mapped, shadow, dirty, writable, server, gpuVars, target,
                   batch, todo, run, unprot, payload, ok, store, stamp, history>>

\* ... then the writable flags; the dirty flags are not touched.
InvalidateClear ==
    /\ call = "clear"
    /\ writable' = writable \ batch
    /\ batch' = {}
    /\ call' = "idle"
    /\ busy' = IF ok THEN busy \ waited ELSE busy
    /\ waited' = {}
    /\ ok' = TRUE
    /\ UNCHANGED <<mapped, shadow, dirty, rw, server, gpu, target, todo, run,
                   unprot, payload, store, stamp, history>>

-----------------------------------------------------------------------------
Application ==
    \/ \E l \in Loc : BeginStore(l) \/ HostRead(l)
    \/ TryStore \/ FaultMark \/ FaultFlag \/ FaultProtect

Mapping ==
    \/ \E m \in Mem : MapMemory(m) \/ UnmapMemory(m)
    \/ MapRead \/ MapFail \/ UnmapWritten

Ranges ==
    \/ \E m \in Mem : FlushRanges(m) \/ InvalidateRanges(m)
    \/ FlushRangesWritten \/ InvalidateRangesFill

Flushing ==
    \/ BeginSubmit \/ FlushPrepare \/ FlushProtect \/ FlushCopy
    \/ FlushTransfer \/ FlushFinalize
    \/ \E W \in SUBSET Loc : Submit(W)

Waiting ==
    \/ \E W \in SUBSET busy : BeginWait(W) \/ Poll(W)
    \/ InvalidateOpen \/ InvalidateRead \/ InvalidateFill
    \/ InvalidateClose \/ InvalidateClear

Next ==
    \/ Application \/ Mapping \/ Ranges \/ Flushing \/ Waiting
    \/ \E l \in Loc : GpuWrite(l)

Spec == Init /\ [][Next]_vars

\* The processor retries a faulting store as long as it takes, and the signal
\* handler runs to its end each time.
StoreStep == TryStore \/ FaultMark \/ FaultFlag \/ FaultProtect
FairSpec == Spec /\ WF_vars(StoreStep)

-----------------------------------------------------------------------------
(* Properties.                                                             *)

Max2(a, b) == IF a > b THEN a ELSE b

\* Every store of the application that the server does not have yet is on a
\* page marked dirty, so that the next vkQueueSubmit sends it; excepted are
\* stores of a flush that reported an error (shadow_fault_handler and
\* finalize_coherent_range_flush).
HostWritesTracked ==
    \A l \in LocsOf(mapped) \ undelivered :
        shadow[l] > server[l] => PageOf[l] \in dirty

\* When vkQueueSubmit hands its work over, the server holds every store that
\* was made before vkQueueSubmit was entered (flush_host_coherent_mappings
\* precedes vn_call_vkQueueSubmit), errors excepted.
SubmitSeesHostWrites ==
    call = "submit" =>
        \A l \in LocsOf(mapped) \ undelivered : server[l] >= owed[l]

\* Reading a mapping back after a wait never replaces a store of the
\* application by older contents (range_has_dirty_pages), errors excepted.
HostWritesKept ==
    [][\A l \in LocsOf(mapped \cap mapped') \ undelivered :
            shadow'[l] >= shadow[l]]_vars

\* After a wait the application reads what the awaited work wrote
\* (invalidate_host_coherent_mappings).
WaitMakesVisible ==
    call = "idle" =>
        \A l \in LocsOf(mapped \cap AutoInvalidate) \ busy :
            shadow[l] >= server[l]

\* A transfer to the server never replaces what the GPU wrote by the older
\* contents of the shadow.
GpuWritesKept == [][\A l \in Loc : server'[l] >= server[l]]_server

\* A store into mapped memory completes: the fault handler never returns for
\* ever without having opened the page (the early return of
\* shadow_fault_handler when the writable flag is set already).
StoreCompletes == (store # NoStore) ~> (store = NoStore)

\* The inductive invariant behind the properties above, for one thread.

FlushCalls == {"prepare", "protect", "copy", "send", "finalize"}
WaitCalls  == {"open", "read", "fill", "close", "clear"}

\* A call's sets are nested, and empty outside of the steps that use them.
CallSets ==
    /\ todo \subseteq batch /\ run \subseteq todo /\ unprot \subseteq run
    /\ waited \subseteq busy \ gpu /\ gpu \subseteq busy
    /\ call \notin {"prepare", "protect", "copy"} => todo = {}
    /\ call \in {"idle", "prepare"} => run = {}
    /\ call \notin WaitCalls => waited = {}

\* No copy is newer than the latest stamp.
StampsBound ==
    \A l \in Loc : /\ shadow[l] <= stamp /\ server[l] <= stamp
                   /\ payload[l] <= stamp

\* Calls and stores alternate, and a store is into a mapped page; the steps of
\* the fault handler have marked and flagged the page.
StoreAlone ==
    store # NoStore =>
        LET p == PageOf[store.loc] IN
        /\ call = "idle" /\ MemOf[p] \in mapped
        /\ store.step \in {"flag", "protect"} => p \in dirty
        /\ store.step = "protect" => p \in writable

\* Pages a call has opened on purpose.
OpenedByCall ==
    IF call = "map" THEN PagesOf({target})
    ELSE IF call \in {"read", "fill", "close"} THEN batch ELSE {}

\* An open page is dirty, and it is flagged writable, so that the next flush
\* both sends it and closes it.
OpenPagesTracked ==
    \A p \in (PagesOf(mapped) \cap rw) \ OpenedByCall :
        /\ p \in dirty
        /\ p \in writable \/ (call = "protect" /\ p \in unprot)

\* The ranges of a flush are the dirty pages; those copied already are closed
\* and the message holds what the shadow holds.
FlushRangesClosed ==
    call \in FlushCalls =>
        /\ batch = dirty \cap PagesOf(mapped)
        /\ (batch \ todo) \cap rw = {}
        /\ call = "protect" => run \cap writable = {}
        /\ call = "copy" => run \cap rw = {}
        /\ call \in {"send", "finalize"} => todo = {}
        /\ call # "finalize" =>
                \A l \in LocsOn(batch \ todo) : payload[l] = shadow[l]
        /\ call = "finalize" /\ ok =>
                \A l \in LocsOn(batch) : server[l] >= shadow[l]

\* The ranges a wait reads back are clean, and what was read is as new as the
\* shadow.
WaitRangesClean ==
    call \in WaitCalls =>
        /\ batch \subseteq PagesOf(mapped) /\ batch \cap dirty = {}
        /\ call = "clear" => batch \cap rw = {}
        /\ call = "fill" =>
                \A l \in LocsOn(batch) :
                    /\ payload[l] <= server[l]
                    /\ payload[l] >= shadow[l] \/ l \in undelivered

\* What the other messages carry.
MessageContents ==
    /\ call \in {"map", "flushranges", "reread"} => target \in mapped
    /\ call = "unmap" => target \notin mapped
    /\ call = "flushranges" =>
            \A l \in LocsOf({target}) : payload[l] = shadow[l]
    /\ call = "reread" => "reread" \in AppMay
    /\ call = "reread" =>
            \A l \in LocsOf({target}) : payload[l] <= server[l]

\* Memory that is not mapped, or is being mapped, has an empty shadow.
NoShadowUnmapped ==
    \A l \in Loc :
        \/ shadow[l] = 0
        \/ MemOf[PageOf[l]] \in mapped /\ (call = "map" => target # MemOf[PageOf[l]])
        \/ call = "unmap" /\ target = MemOf[PageOf[l]]

\* While vkQueueSubmit runs the shadow does not change, and when it submits no
\* dirty page is left.
SubmitQuiet ==
    /\ call \in FlushCalls \cup {"submit"} => owed = shadow
    /\ call = "submit" => dirty \cap PagesOf(mapped) = {}

TrackingInv ==
    /\ CallSets
    /\ StampsBound
    /\ StoreAlone
    /\ OpenPagesTracked
    /\ FlushRangesClosed
    /\ WaitRangesClean
    /\ MessageContents
    /\ NoShadowUnmapped
    /\ SubmitQuiet
    /\ HostWritesTracked

\* The inductive invariant for an application that does not touch mapped
\* memory while its work runs, on a connection that does not fail.

Disciplined == AppMay = {} /\ ~TransfersFail /\ AutoInvalidate = Mem

\* Nothing is lost, and while work is outstanding nothing is dirty, no store is
\* in progress and nothing is on its way to the server.
QuietWhileBusy ==
    /\ undelivered = {} /\ ok
    /\ dirty \subseteq
            PagesOf(mapped \cup (IF call = "unmap" THEN {target} ELSE {}))
    /\ busy # {} =>
            /\ dirty = {} /\ store = NoStore
            /\ call \notin FlushCalls \cup {"unmap", "flushranges"}

\* A wait reads every mapping back, and what it read is older than the server's
\* contents only where other work still writes.
AwaitedIsRead ==
    /\ call \in WaitCalls /\ waited # {} => batch = PagesOf(mapped)
    /\ call = "fill" =>
            \A l \in LocsOn(batch) : payload[l] < server[l] => l \in busy \ waited
    /\ call \in {"close", "clear"} =>
            \A l \in LocsOf(mapped) \cap waited : shadow[l] >= server[l]

\* A shadow is older than the server's contents only where outstanding work
\* writes, or before vkMapMemory has filled it.
CurrentUnlessBusy ==
    /\ \A l \in LocsOf(mapped) \ busy :
            \/ shadow[l] >= server[l]
            \/ call = "map" /\ MemOf[PageOf[l]] = target
    /\ call = "unmap" =>
            \A l \in LocsOf({target}) :
                payload[l] = shadow[l] /\ shadow[l] >= server[l]

CoherenceInv == QuietWhileBusy /\ AwaitedIsRead /\ CurrentUnlessBusy

\* Client and server together are a coherent memory: the contents of a
\* location are the newer of its two copies.
Coherent == INSTANCE CoherentMemory WITH
                mem <- [l \in Loc |-> Max2(shadow[l], server[l])]
ImplementsCoherentMemory == Coherent!Spec
=============================================================================
