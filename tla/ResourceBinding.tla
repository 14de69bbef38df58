--------------------------- MODULE ResourceBinding ---------------------------
(***************************************************************************)
(* Buffers, images and the memory behind them, kept twice.                 *)
(*                                                                         *)
(* The client ICD (ResourceState) knows the handles it gave out, what they *)
(* are bound to and the memory requirements it was told; the server        *)
(* (ResourceTracker) keeps the same next to the driver's objects, and      *)
(* rejects a binding that is misaligned, too long or overlaps another.     *)
(* vkDestroyBuffer, vkDestroyImage and vkFreeMemory forget the object at   *)
(* once and tell the server without waiting; every other call waits for    *)
(* its answer behind all that was sent before (module CommandService).     *)
(*                                                                         *)
(* Neither HandleAllocator nor ResourceTracker uses a handle twice: an     *)
(* object has one name here, and is created at most once.                  *)
(*                                                                         *)
(* Sizes and offsets are in units of the alignment the driver asks for at  *)
(* least.  The application obeys Vulkan's rules: it uses an object from    *)
(* one thread at a time, binds at offsets the driver's requirements allow, *)
(* and never binds a resource a second time.                               *)
(***************************************************************************)
EXTENDS Integers, SequencesExt

CONSTANTS
    Thread,         \* threads of the application
    Buffer, Image,  \* resources of the two kinds
    Memory,         \* allocations
    MemorySize,     \* size of an allocation
    Size,           \* size the driver asks for, by resource
    Alignment,      \* alignment the driver asks for, by resource
    Reckoned,       \* bytes memory_requirements.cpp reckons with, see below
    GuessAlignment, \* alignment memory_requirements.cpp assumes, by resource
    Query,          \* how the application asks for requirements, see below
    Mishaps,        \* what the driver may fail: "create", "allocate", "bind"
    MaxRing         \* bound on the number of commands on their way

Resource == Buffer \cup Image
Object   == Resource \cup Memory
None     == [bound |-> FALSE]

(***************************************************************************)
(* What memory_requirements.cpp reckons with is the size of a buffer, and  *)
(* of an image its texels times bytes per texel, which come from a table   *)
(* that has four for every format it does not know and nothing of tiling:  *)
(* it may be more than the driver asks for, or less.                       *)
(*                                                                         *)
(* "plain": vkGetBufferMemoryRequirements, vkGetImageMemoryRequirements;   *)
(* "two":   vkGetBufferMemoryRequirements2, vkGetImageMemoryRequirements2. *)
(***************************************************************************)
ASSUME BindingAssumption ==
    /\ Buffer \cap Image = {} /\ Resource \cap Memory = {}
    /\ MemorySize \in Nat /\ MaxRing \in Nat
    /\ Size \in [Resource -> Nat \ {0}] /\ Reckoned \in [Resource -> Nat \ {0}]
    /\ Alignment \in [Resource -> Nat \ {0}]
    /\ GuessAlignment \in [Resource -> Nat \ {0}]
    /\ Query \subseteq {"plain", "two"}
    /\ Mishaps \subseteq {"create", "allocate", "bind"}

VARIABLES
    used,       \* handles given out by HandleAllocator, or about to be
    known,      \* client: buffers_, images_, memories_ of ResourceState
    null,       \* client: the resources whose remote_handle is VK_NULL_HANDLE
    cached,     \* client: resources with requirements_cached
    cbound,     \* client: bound_memory and bound_offset
    ring,       \* commands sent and not yet performed
    call,       \* what a thread waits for, and the answer once it is there
    live,       \* server: buffers_, images_, memories_ of ResourceTracker
    valid,      \* server: requirements, where requirements_valid
    sbound,     \* server: bound_memory and bound_offset
    bindings,   \* server: buffer_bindings and image_bindings of a memory
    told,       \* history: how the application came to know the requirements
    backed,     \* history: resources that were bound once
    refused     \* history: legal binds refused though the driver was willing

clientVars == <<known, null, cached, cbound>>
serverVars == <<live, valid, sbound, bindings>>
history    == <<told, backed, refused>>
vars       == <<used, clientVars, ring, call, serverVars, history>>

-----------------------------------------------------------------------------
(* Requirements and ranges.                                                *)

RoundUp(n, a) == ((n + a - 1) \div a) * a

\* What the driver says.
Needs(r) == [size |-> Size[r], align |-> Alignment[r]]

\* make_buffer_memory_requirements, make_image_memory_requirements: what the
\* server assumes of a resource nobody asked the driver about.
Guess(r) == [size  |-> RoundUp(Reckoned[r], GuessAlignment[r]),
             align |-> GuessAlignment[r]]

Requirements == {Needs(r) : r \in Resource} \cup {Guess(r) : r \in Resource}

Offset == 0..(MemorySize - 1)
Place  == [memory : Memory, offset : Offset]

\* validate_common on the server, validate_memory_offset on the client.
Fits(req, offset) ==
    /\ offset % req.align = 0
    /\ offset + req.size <= MemorySize

RangesOverlap(o1, s1, o2, s2) == o1 < o2 + s2 /\ o2 < o1 + s1

\* Mutation: buffers are compared with buffers and images with images only.
OverlapsItsKind(r, offset, size, m) ==
    \E b \in bindings[m] :
        /\ (b.resource \in Buffer) = (r \in Buffer)
        /\ RangesOverlap(offset, size, b.offset, b.size)

\* check_memory_overlap_locked.
Overlaps(r, offset, size, m) ==
    \E b \in bindings[m] : RangesOverlap(offset, size, b.offset, b.size)

-----------------------------------------------------------------------------
(* Calls.                                                                  *)

Idle    == [op |-> "idle"]
Bind    == [op : {"bind"}, object : Resource, place : Place, alone : BOOLEAN]
Simple  == [op : {"create", "ask", "ask2"}, object : Resource] \cup
           [op : {"allocate"}, object : Memory]
Async   == [op : {"destroy"}, object : Object]
Answer  == {"waiting", "ok", "null", "failed"}

Command == [thread : Thread, what : Simple \cup Bind] \cup [what : Async]

Busy(x) == \E t \in Thread : call[t] # Idle /\ call[t].what.object = x

\* Bindings to m that are being made.
BindsTo(m) ==
    {t \in Thread : /\ call[t] # Idle /\ call[t].what.op = "bind"
                    /\ call[t].what.place.memory = m}

\* vn_call_*: the command joins the others, the thread waits.
Issue(t, what) ==
    /\ Len(ring) < MaxRing
    /\ ring' = Append(ring, [thread |-> t, what |-> what])
    /\ call' = [call EXCEPT ![t] = [op |-> "call", what |-> what,
                                    answer |-> "waiting"]]

\* vn_async_*.
SendAsync(what) ==
    /\ Len(ring) < MaxRing
    /\ ring' = Append(ring, [what |-> what])
    /\ UNCHANGED call

TypeOK ==
    /\ used \subseteq Object /\ known \subseteq used /\ live \subseteq used
    /\ null \subseteq (known \cap Resource)
    /\ cached \subseteq (known \cap Resource)
    /\ cbound \in [Resource -> Place \cup {None}]
    /\ ring \in Seq(Command)
    /\ call \in [Thread ->
                    [op : {"call"}, what : Simple \cup Bind, answer : Answer]
                    \cup {Idle}]
    /\ valid \in [Resource -> Requirements \cup {None}]
    /\ sbound \in [Resource -> Place \cup {None}]
    /\ \A m \in Memory : \A b \in bindings[m] :
           b.resource \in Resource /\ b.offset \in Offset /\ b.size \in Nat
    /\ told \in [Resource -> {"never", "plain", "two"}]
    /\ backed \subseteq Resource /\ refused \subseteq Resource

Init ==
    /\ used = {} /\ known = {} /\ null = {} /\ cached = {} /\ live = {}
    /\ cbound = [r \in Resource |-> None]
    /\ ring = <<>>
    /\ call = [t \in Thread |-> Idle]
    /\ valid = [r \in Resource |-> None]
    /\ sbound = [r \in Resource |-> None]
    /\ bindings = [m \in Memory |-> {}]
    /\ told = [r \in Resource |-> "never"]
    /\ backed = {} /\ refused = {}

-----------------------------------------------------------------------------
(* Creating and asking.                                                    *)

\* vkCreateBuffer, vkCreateImage.
Create(t, r) ==
    /\ call[t] = Idle /\ r \notin used
    /\ used' = used \cup {r}
    /\ Issue(t, [op |-> "create", object |-> r])
    /\ UNCHANGED <<clientVars, serverVars, history>>

\* vkAllocateMemory.
Allocate(t, m) ==
    /\ call[t] = Idle /\ m \notin used
    /\ used' = used \cup {m}
    /\ Issue(t, [op |-> "allocate", object |-> m])
    /\ UNCHANGED <<clientVars, serverVars, history>>

\* Whether the driver does what the server asks of it.
DriverDoes(op) == IF op \in Mishaps THEN BOOLEAN ELSE {TRUE}

\* The answer joins the call that waits for it.
Reply(answer) == call' = [call EXCEPT ![Head(ring).thread].answer = answer]

\* create_buffer, create_image: when the driver fails, the answer is VK_SUCCESS
\* and no handle.
PerformCreate(what) ==
    \E created \in DriverDoes("create") :
        /\ live' = IF created THEN live \cup {what.object} ELSE live
        /\ Reply(IF created THEN "ok" ELSE "null")
        /\ UNCHANGED <<valid, sbound, bindings, refused>>

\* allocate_memory: a failure is reported.
PerformAllocate(what) ==
    \E created \in DriverDoes("allocate") :
        /\ live' = IF created THEN live \cup {what.object} ELSE live
        /\ Reply(IF created THEN "ok" ELSE "failed")
        /\ UNCHANGED <<valid, sbound, bindings, refused>>

\* The client's side of the same calls, once the answer is there.
CreateReturns(t) ==
    LET what == call[t].what IN
    /\ what.op \in {"create", "allocate"}
    /\ known' = IF call[t].answer = "failed"
                THEN known ELSE known \cup {what.object}
    /\ null' = IF call[t].answer = "null" THEN null \cup {what.object} ELSE null
    /\ UNCHANGED <<cached, cbound, told, backed>>

\* vkGet*MemoryRequirements: without a remote handle the application is told
\* zeros.
Ask(t, r) ==
    /\ call[t] = Idle /\ r \in known /\ ~Busy(r)
    /\ "plain" \in Query /\ told[r] = "never"
    /\ IF r \in null
       THEN told' = [told EXCEPT ![r] = "plain"] /\ UNCHANGED <<ring, call>>
       ELSE Issue(t, [op |-> "ask", object |-> r]) /\ UNCHANGED told
    /\ UNCHANGED <<used, clientVars, serverVars, backed, refused>>

\* The same question asked the newer way.
Ask2(t, r) ==
    /\ call[t] = Idle /\ r \in known \ null /\ ~Busy(r)
    /\ "two" \in Query /\ told[r] = "never"
    /\ Issue(t, [op |-> "ask2", object |-> r])
    /\ UNCHANGED <<used, clientVars, serverVars, history>>

\* get_buffer_requirements and get_image_requirements remember the answer; the
\* handlers of the newer calls ask the driver and remember nothing.
PerformAsk(what) ==
    /\ valid' = IF what.op = "ask" /\ what.object \in live
                THEN [valid EXCEPT ![what.object] = Needs(what.object)]
                ELSE valid
    /\ Reply("ok")
    /\ UNCHANGED <<live, sbound, bindings, refused>>

AskReturns(t) ==
    LET what == call[t].what IN
    /\ what.op \in {"ask", "ask2"}
    /\ cached' = IF what.op = "ask" THEN cached \cup {what.object} ELSE cached
    /\ told' = [told EXCEPT ![what.object] =
                    IF what.op = "ask" THEN "plain" ELSE "two"]
    /\ UNCHANGED <<known, null, cbound, backed>>

-----------------------------------------------------------------------------
(* Binding.                                                                *)

\* Where the application has put r, or is putting it.
Taken(r) ==
    IF cbound[r] # None THEN {cbound[r]}
    ELSE {call[t].what.place : t \in {u \in Thread :
             /\ call[u] # Idle
             /\ call[u].what.op = "bind" /\ call[u].what.object = r}}

\* Nothing else of the application lies there.
Alone(r, place) ==
    \A other \in Resource \ {r} : \A p \in Taken(other) :
        \/ p.memory # place.memory
        \/ ~RangesOverlap(place.offset, Needs(r).size,
                          p.offset, Needs(other).size)

\* The client's own checks: not bound, within the requirements it was told,
\* known to the server.
ClientAccepts(r, place) ==
    /\ cbound[r] = None
    /\ r \in cached => Fits(Needs(r), place.offset)
    /\ r \notin null

\* vkBindBufferMemory, vkBindImageMemory up to the call of the server.
BindMemory(t, r, place) ==
    /\ call[t] = Idle /\ ~Busy(r)
    /\ r \in known \ backed /\ told[r] # "never" /\ place.memory \in known
    /\ Fits(Needs(r), place.offset)
    /\ IF ClientAccepts(r, place)
       THEN /\ Issue(t, [op |-> "bind", object |-> r, place |-> place,
                         alone |-> Alone(r, place)])
            /\ UNCHANGED refused
       ELSE /\ refused' = IF Alone(r, place) /\ r \notin null
                         THEN refused \cup {r} ELSE refused
            /\ UNCHANGED <<ring, call>>
    /\ UNCHANGED <<used, clientVars, serverVars, told, backed>>

\* What the server knows of r's requirements, or guesses when nobody asked.
Recorded(r) == IF valid[r] = None THEN Guess(r) ELSE valid[r]

Tracked(r, m) == r \in live /\ m \in live /\ sbound[r] = None

\* The checks of bind_buffer_memory and bind_image_memory.
ServerAccepts(r, place) ==
    /\ Tracked(r, place.memory)
    /\ Fits(Recorded(r), place.offset)
    /\ ~Overlaps(r, place.offset, Recorded(r).size, place.memory)

\* bind_buffer_memory, bind_image_memory.  A guess is kept, whatever comes of
\* the binding.
PerformBind(what) ==
    LET r        == what.object
        place    == what.place
        accepted == ServerAccepts(r, place)
    IN \E done \in DriverDoes("bind") :
        /\ valid' = IF Tracked(r, place.memory)
                    THEN [valid EXCEPT ![r] = Recorded(r)] ELSE valid
        /\ IF accepted /\ done
           THEN /\ sbound' = [sbound EXCEPT ![r] = place]
                /\ bindings' = [bindings EXCEPT ![place.memory] = @ \cup
                       {[resource |-> r, offset |-> place.offset,
                         size |-> Recorded(r).size]}]
           ELSE UNCHANGED <<sbound, bindings>>
        /\ Reply(IF accepted /\ done THEN "ok" ELSE "failed")
        /\ refused' = IF what.alone /\ ~accepted THEN refused \cup {r}
                      ELSE refused
        /\ UNCHANGED live

\* ResourceState::bind_buffer, bind_image.
BindReturns(t) ==
    LET what == call[t].what IN
    /\ what.op = "bind"
    /\ IF call[t].answer = "ok"
       THEN /\ cbound' = [cbound EXCEPT ![what.object] = what.place]
            /\ backed' = backed \cup {what.object}
       ELSE UNCHANGED <<cbound, backed>>
    /\ UNCHANGED <<known, null, cached, told>>

-----------------------------------------------------------------------------
(* Destroying.                                                             *)

In(place, m) == place # None /\ place.memory = m

\* Mutation: the record of a resource that was never created stays.
ForgetOnlyCreated(r) ==
    /\ known' = known \ {r} /\ cached' = cached \ {r} /\ UNCHANGED null
    /\ cbound' = [cbound EXCEPT ![r] = None]

\* ResourceState::remove_buffer, remove_image.
Forget(r) ==
    /\ known' = known \ {r} /\ cached' = cached \ {r} /\ null' = null \ {r}
    /\ cbound' = [cbound EXCEPT ![r] = None]

\* vkDestroyBuffer, vkDestroyImage.
Destroy(r) ==
    /\ r \in known /\ ~Busy(r)
    /\ Forget(r)
    /\ IF r \in null THEN UNCHANGED <<ring, call>>
       ELSE SendAsync([op |-> "destroy", object |-> r])
    /\ UNCHANGED <<used, serverVars, history>>

\* Mutation: the list of the memory keeps the binding.
DestroyKeepsBinding(r) ==
    /\ live' = live \ {r}
    /\ sbound' = [sbound EXCEPT ![r] = None]
    /\ valid' = [valid EXCEPT ![r] = None]
    /\ UNCHANGED bindings

\* destroy_buffer, destroy_image: the binding leaves the list of its memory.
DestroyResource(r) ==
    /\ live' = live \ {r}
    /\ sbound' = [sbound EXCEPT ![r] = None]
    /\ valid' = [valid EXCEPT ![r] = None]
    /\ bindings' = [m \in Memory |->
                       {b \in bindings[m] : b.resource # r}]

\* Mutation: the resources stay bound to memory that is gone.
FreedStaysBound(m) == UNCHANGED cbound

\* ResourceState::remove_memory.
Unbind(m) ==
    cbound' = [r \in Resource |-> IF In(cbound[r], m) THEN None ELSE cbound[r]]

\* vkFreeMemory.
Free(m) ==
    /\ m \in known /\ BindsTo(m) = {}
    /\ known' = known \ {m}
    /\ Unbind(m)
    /\ SendAsync([op |-> "destroy", object |-> m])
    /\ UNCHANGED <<used, null, cached, serverVars, history>>

\* Mutation: free_memory only forgets the allocation.
FreeForgetsBindings(m) ==
    /\ live' = live \ {m}
    /\ bindings' = [bindings EXCEPT ![m] = {}]
    /\ UNCHANGED <<sbound, valid>>

\* free_memory: what was bound is no longer.
FreeMemory(m) ==
    /\ live' = live \ {m}
    /\ bindings' = [bindings EXCEPT ![m] = {}]
    /\ sbound' = [r \in Resource |->
                     IF \E b \in bindings[m] : b.resource = r
                     THEN None ELSE sbound[r]]
    /\ UNCHANGED valid

PerformDestroy(what) ==
    /\ IF what.object \notin live THEN UNCHANGED serverVars
       ELSE IF what.object \in Memory THEN FreeMemory(what.object)
       ELSE DestroyResource(what.object)
    /\ UNCHANGED <<call, refused>>

-----------------------------------------------------------------------------
(* The specification.                                                      *)

\* The server performs the next command.
Perform ==
    /\ ring # <<>>
    /\ LET what == Head(ring).what IN
       \/ what.op = "create" /\ PerformCreate(what)
       \/ what.op = "allocate" /\ PerformAllocate(what)
       \/ what.op \in {"ask", "ask2"} /\ PerformAsk(what)
       \/ what.op = "bind" /\ PerformBind(what)
       \/ what.op = "destroy" /\ PerformDestroy(what)
    /\ ring' = Tail(ring)
    /\ UNCHANGED <<used, clientVars, told, backed>>

\* A call returns to the application.
Return(t) ==
    /\ call[t] # Idle /\ call[t].answer # "waiting"
    /\ CreateReturns(t) \/ AskReturns(t) \/ BindReturns(t)
    /\ call' = [call EXCEPT ![t] = Idle]
    /\ UNCHANGED <<used, ring, serverVars, refused>>

Next ==
    \/ \E t \in Thread :
         \/ \E m \in Memory : Allocate(t, m)
         \/ \E r \in Resource :
              \/ Create(t, r) \/ Ask(t, r) \/ Ask2(t, r)
              \/ \E place \in Place : BindMemory(t, r, place)
         \/ Return(t)
    \/ \E r \in Resource : Destroy(r)
    \/ \E m \in Memory : Free(m)
    \/ Perform

Spec == Init /\ [][Next]_vars

-----------------------------------------------------------------------------
(* Properties.                                                             *)

\* A bind that Vulkan allows, of a resource that was created, to a place where
\* nothing else of the application lies, is refused by neither side's checks.
LegalBindsAccepted == refused = {}

\* So it is when requirements are asked for with vkGetBufferMemoryRequirements
\* and vkGetImageMemoryRequirements only, whatever was destroyed or freed just
\* before and is still on its way.
PlainBindsAccepted ==
    (\A r \in Resource : told[r] # "two") => LegalBindsAccepted

\* The objects whose end is on its way to the server.
Leaving == {x \in Object : \E i \in 1..Len(ring) :
                ring[i].what = [op |-> "destroy", object |-> x]}

\* The objects the server has created for a call that has not returned yet.
Arriving == {x \in Object : \E t \in Thread :
                /\ call[t] # Idle /\ call[t].answer = "ok"
                /\ call[t].what.op \in {"create", "allocate"}
                /\ call[t].what.object = x}

\* The client's tables are the server's, but for what is on its way: nothing
\* leaks, nothing is used after its end, and both know the same bindings.
RecordsAgree ==
    /\ live = (known \ null) \cup Leaving \cup Arriving
    /\ Leaving \cap known = {}
    /\ \A r \in Resource \cap (known \ null) : ~Busy(r) =>
        cbound[r] = IF sbound[r] # None /\ sbound[r].memory \in Leaving
                    THEN None ELSE sbound[r]

\* The server's two views of a binding, that of the resource and that of the
\* memory, are one: memory that is gone has nothing bound to it.
ViewsMatch ==
    \A m \in Memory :
        /\ m \notin live => bindings[m] = {}
        /\ {<<b.resource, b.offset>> : b \in bindings[m]} =
           {<<r, sbound[r].offset>> : r \in {s \in Resource : In(sbound[s], m)}}

\* The server counts with all the memory r needs: it was asked the plain way,
\* or what it guesses is not too little.
Counted(r) == told[r] = "plain" \/ Guess(r).size >= Needs(r).size

\* Resources the server counts with share no part of their memory, although
\* the application may try, from two threads at a time: check_memory_overlap
\* sees what bind_buffer_memory and bind_image_memory have recorded.  One that
\* is only guessed, and guessed too small, may share what was not counted.
BindingsSeparate ==
    \A r, s \in Resource :
        /\ r # s /\ sbound[r] # None /\ In(sbound[s], sbound[r].memory)
        /\ Counted(r) /\ Counted(s)
        => ~RangesOverlap(sbound[r].offset, Needs(r).size,
                          sbound[s].offset, Needs(s).size)
=============================================================================
