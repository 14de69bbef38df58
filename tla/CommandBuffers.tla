---------------------------- MODULE CommandBuffers ----------------------------
(***************************************************************************)
(* The life of command buffers, kept twice.                                *)
(*                                                                         *)
(* The client ICD knows its pools and buffers and the state of each buffer *)
(* (g_command_buffer_state); the server keeps the same for the handles it  *)
(* gave out (CommandBufferState), next to the real buffers of the driver.  *)
(* vkCmd*, vkFreeCommandBuffers and vkDestroyCommandPool are sent without  *)
(* a reply and are performed later, in order; every other call empties     *)
(* the ring and waits for its result (module CommandRing).                 *)
(*                                                                         *)
(* A client handle is the address of an IcdCommandBuffer and is used again *)
(* after a free; a server handle is never used again.                      *)
(*                                                                         *)
(* The application makes its calls one after the other, and only on pools  *)
(* and buffers it owns.  A vkCmd* call is known by its number among those  *)
(* made since the buffer was last begun.                                   *)
(***************************************************************************)
EXTENDS Naturals, SequencesExt

CONSTANTS
    Pool,           \* command pools
    Resettable,     \* those with VK_COMMAND_POOL_CREATE_RESET_COMMAND_BUFFER_BIT
    Slot,           \* the addresses of IcdCommandBuffer
    Mishaps,        \* what may go wrong, see below
    MaxHandle,      \* bound on the number of handles the server gives out
    MaxCommands,    \* bound on the number of commands in a buffer
    MaxRing         \* bound on the number of commands in the ring

(***************************************************************************)
(* "driver": the server's driver may fail any call;                        *)
(* "memory": the client may run out of memory in vkAllocateCommandBuffers; *)
(* "reject": the server may find a command invalid and say so;             *)
(* "drop":   the client or the server may skip a command whose handles it  *)
(*           cannot translate, or for which it has no memory: neither the  *)
(*           application nor the buffer is told.                           *)
(***************************************************************************)
ASSUME LifecycleAssumption ==
    /\ Resettable \subseteq Pool /\ IsFiniteSet(Slot)
    /\ Mishaps \subseteq {"driver", "memory", "reject", "drop"}
    /\ MaxHandle \in Nat /\ MaxCommands \in Nat /\ MaxRing \in Nat

VARIABLES
    clientPools,    \* client CommandBufferState::pools_
    client,         \* client CommandBufferState::buffers_
    ring,           \* commands sent or about to be sent, not yet performed
    serverPools,    \* server CommandBufferState::pools_
    server,         \* server CommandBufferState::buffers_ and real buffers
    next,           \* next_buffer_handle_
    recorded,       \* history: the vkCmd* calls since a buffer was begun
    skipped,        \* history: the numbers of those that a side has skipped
    executed        \* history: the latest submission: both, and what was run

history == <<recorded, skipped>>
vars == <<clientPools, client, ring, serverPools, server, next, history, executed>>

Handle == 1..MaxHandle
Number == 1..MaxCommands
Absent == [state |-> "absent"]
States == {"initial", "recording", "executable", "invalid"}

ClientBuffer == [state : States, pool : Pool, remote : Handle]
ServerBuffer == [state : States, pool : Pool, content : Seq(Number)]
AsyncCommand ==
    [op : {"record"}, handle : Handle, number : Number] \cup
    [op : {"free"}, handles : SUBSET Handle] \cup
    [op : {"destroy"}, pool : Pool]

Live == {c \in Slot : client[c] # Absent}
Held == {h \in Handle : server[h] # Absent}

\* Handles are given out in order: those from next on are unknown.
TypeOK ==
    /\ clientPools \subseteq Pool /\ serverPools \subseteq Pool
    /\ client \in [Slot -> ClientBuffer \cup {Absent}]
    /\ ring \in Seq(AsyncCommand)
    /\ server \in [Handle -> ServerBuffer \cup {Absent}]
    /\ next \in 1..(MaxHandle + 1)
    /\ \A h \in Held : h < next
    /\ recorded \in [Slot -> 0..MaxCommands]
    /\ skipped \in [Slot -> SUBSET Number]
    /\ executed \in [recorded : 0..MaxCommands, skipped : SUBSET Number, run : Seq(Number)]

Init ==
    /\ clientPools = {} /\ serverPools = {}
    /\ client = [c \in Slot |-> Absent]
    /\ ring = <<>>
    /\ server = [h \in Handle |-> Absent]
    /\ next = 1
    /\ recorded = [c \in Slot |-> 0]
    /\ skipped = [c \in Slot |-> {}]
    /\ executed = [recorded |-> 0, skipped |-> {}, run |-> <<>>]

-----------------------------------------------------------------------------
(* Helpers.                                                                *)

\* A call with a reply returns after everything in the ring was performed.
CanCall == ring = <<>>

\* vn_async_*, within the bound MaxRing.
SendAsync(command) ==
    /\ Len(ring) < MaxRing
    /\ ring' = Append(ring, command)

\* What the server answers to a call that its own checks let through or not.
Results(allowed) ==
    IF ~allowed THEN {FALSE}
    ELSE IF "driver" \in Mishaps THEN BOOLEAN ELSE {TRUE}

\* The check of a client and of the server before recording: not while
\* recording, and again only with VK_COMMAND_BUFFER_USAGE_SIMULTANEOUS_USE_BIT.
MayBegin(state, simultaneous) ==
    state = "initial" \/ (state = "executable" /\ simultaneous)

SlotsOf(p)   == {c \in Live : client[c].pool = p}
HandlesOf(p) == {h \in Held : server[h].pool = p}
Remote(c)    == client[c].remote

-----------------------------------------------------------------------------
(* Pools.                                                                  *)

CreatePool(p) ==
    /\ CanCall /\ p \notin clientPools \cup serverPools
    /\ clientPools' = clientPools \cup {p}
    /\ serverPools' = serverPools \cup {p}
    /\ UNCHANGED <<client, ring, server, next, history, executed>>

\* vkDestroyCommandPool forgets the pool and its buffers at once; the server
\* is told later.
DestroyPool(p) ==
    /\ p \in clientPools
    /\ clientPools' = clientPools \ {p}
    /\ client' = [c \in Slot |-> IF c \in SlotsOf(p) THEN Absent ELSE client[c]]
    /\ SendAsync([op |-> "destroy", pool |-> p])
    /\ UNCHANGED <<serverPools, server, next, history, executed>>

\* vkResetCommandPool: the buffers of the pool are initial again on both sides;
\* when the driver fails nothing changes on either side.
ResetPool(p) ==
    /\ CanCall /\ p \in clientPools
    /\ TRUE \in Results(p \in serverPools)
    /\ server' = [h \in Handle |->
                    IF h \in HandlesOf(p)
                    THEN [server[h] EXCEPT !.state = "initial", !.content = <<>>]
                    ELSE server[h]]
    /\ client' = [c \in Slot |->
                    IF c \in SlotsOf(p)
                    THEN [client[c] EXCEPT !.state = "initial"] ELSE client[c]]
    /\ UNCHANGED <<clientPools, ring, serverPools, next, history, executed>>

-----------------------------------------------------------------------------
(* Buffers.                                                                *)

\* Mutation: a handle is given out again.
GiveOutAgain(n) == UNCHANGED next

\* The server's CommandBufferState never gives a handle out twice.
GiveOut(n) == next' = next + n

\* Mutation: the handles of a failed allocation are not given back.
NothingToFree(handles) == UNCHANGED ring

\* The clean-up of vkAllocateCommandBuffers and of vkFreeCommandBuffers.
FreeRemote(handles) == SendAsync([op |-> "free", handles |-> handles])

\* vkAllocateCommandBuffers: the server creates as many handles as asked for;
\* the client then fills one free address for each, or, without memory, keeps
\* none of them and frees all the handles.
Allocate(p, S) ==
    LET n == Cardinality(S)
        handles == next..(next + n - 1)
    IN
    /\ CanCall /\ p \in clientPools
    /\ S # {} /\ S \cap Live = {} /\ handles \subseteq Handle
    /\ TRUE \in Results(p \in serverPools)
    /\ GiveOut(n)
    /\ server' = [h \in Handle |->
                    IF h \in handles
                    THEN [state |-> "initial", pool |-> p, content |-> <<>>]
                    ELSE server[h]]
    /\ \/ /\ \E f \in [S -> handles] :
                /\ IsInjective(f)
                /\ client' = [c \in Slot |->
                        IF c \in S
                        THEN [state |-> "initial", pool |-> p, remote |-> f[c]]
                        ELSE client[c]]
          /\ UNCHANGED ring
       \/ /\ "memory" \in Mishaps
          /\ FreeRemote(handles)
          /\ UNCHANGED client
    /\ UNCHANGED <<clientPools, serverPools, history, executed>>

\* vkFreeCommandBuffers.
Free(p, S) ==
    /\ S # {} /\ S \subseteq SlotsOf(p)
    /\ client' = [c \in Slot |-> IF c \in S THEN Absent ELSE client[c]]
    /\ FreeRemote({Remote(c) : c \in S})
    /\ UNCHANGED <<clientPools, serverPools, server, next, history, executed>>

\* vkBeginCommandBuffer: client and server make the same check; a failure
\* leaves the server's state alone and makes the client's buffer invalid.
Begin(c, simultaneous) ==
    /\ CanCall /\ c \in Live
    /\ MayBegin(client[c].state, simultaneous)
    /\ \E ok \in Results(MayBegin(server[Remote(c)].state, simultaneous)) :
        IF ok
        THEN /\ server' = [server EXCEPT ![Remote(c)].state = "recording",
                                         ![Remote(c)].content = <<>>]
             /\ client' = [client EXCEPT ![c].state = "recording"]
             /\ recorded' = [recorded EXCEPT ![c] = 0]
             /\ skipped' = [skipped EXCEPT ![c] = {}]
        ELSE /\ client' = [client EXCEPT ![c].state = "invalid"]
             /\ UNCHANGED <<server, history>>
    /\ UNCHANGED <<clientPools, ring, serverPools, next, executed>>

\* vkCmd*: sent when the client's buffer is recording; a command with a handle
\* the client does not know is skipped, and the application is not told.
Record(c) ==
    LET number == recorded[c] + 1 IN
    /\ c \in Live /\ client[c].state = "recording"
    /\ number <= MaxCommands
    /\ recorded' = [recorded EXCEPT ![c] = number]
    /\ \/ SendAsync([op |-> "record", handle |-> Remote(c), number |-> number])
          /\ UNCHANGED skipped
       \/ /\ "drop" \in Mishaps
          /\ skipped' = [skipped EXCEPT ![c] = @ \cup {number}]
          /\ UNCHANGED ring
    /\ UNCHANGED <<clientPools, client, serverPools, server, next, executed>>

\* Mutation: the result is not looked at.
EndIgnoresResult(c) ==
    /\ CanCall /\ c \in Live /\ client[c].state = "recording"
    /\ IF server[Remote(c)].state = "recording"
       THEN server' = [server EXCEPT ![Remote(c)].state = "executable"]
       ELSE UNCHANGED server
    /\ client' = [client EXCEPT ![c].state = "executable"]
    /\ UNCHANGED <<clientPools, ring, serverPools, next, history, executed>>

\* vkEndCommandBuffer: a failure leaves the server's state alone and makes the
\* client's buffer invalid.
End(c) ==
    /\ CanCall /\ c \in Live /\ client[c].state = "recording"
    /\ \E ok \in Results(server[Remote(c)].state = "recording") :
        IF ok
        THEN /\ server' = [server EXCEPT ![Remote(c)].state = "executable"]
             /\ client' = [client EXCEPT ![c].state = "executable"]
        ELSE /\ client' = [client EXCEPT ![c].state = "invalid"]
             /\ UNCHANGED server
    /\ UNCHANGED <<clientPools, ring, serverPools, next, history, executed>>

\* vkResetCommandBuffer, in any state of the buffer.
Reset(c) ==
    /\ CanCall /\ c \in Live /\ client[c].pool \in Resettable
    /\ \E ok \in Results(/\ server[Remote(c)].pool \in serverPools
                         /\ server[Remote(c)].pool \in Resettable) :
        IF ok
        THEN /\ server' = [server EXCEPT ![Remote(c)].state = "initial",
                                         ![Remote(c)].content = <<>>]
             /\ client' = [client EXCEPT ![c].state = "initial"]
        ELSE /\ client' = [client EXCEPT ![c].state = "invalid"]
             /\ UNCHANGED server
    /\ UNCHANGED <<clientPools, ring, serverPools, next, history, executed>>

\* vkQueueSubmit of one buffer, executable for the client: refused by the
\* server, or handed to the driver.
Submit(c) ==
    /\ CanCall /\ c \in Live /\ client[c].state = "executable"
    /\ server[Remote(c)].state = "executable"
    /\ executed' = [recorded |-> recorded[c], skipped |-> skipped[c],
                    run |-> server[Remote(c)].content]
    /\ UNCHANGED <<clientPools, client, ring, serverPools, server, next, history>>

-----------------------------------------------------------------------------
(* The server performs the next command of the ring.                       *)

\* Mutation: a command that fails its check is only logged.
RejectOnlyLogs(h) == UNCHANGED server

\* server_state_bridge_mark_command_buffer_invalid.
MarkInvalid(h) ==
    server' = IF h \in Held THEN [server EXCEPT ![h].state = "invalid"]
              ELSE server

\* server_dispatch_vkCmd*: a buffer that is not recording becomes invalid, and
\* so does one with a command that fails its check; a command whose handles
\* the server cannot translate is skipped.
PerformRecord ==
    /\ ring # <<>> /\ Head(ring).op = "record"
    /\ LET h == Head(ring).handle IN
       IF h \in Held /\ server[h].state = "recording"
       THEN \/ /\ server' = [server EXCEPT ![h].content = Append(@, Head(ring).number)]
               /\ UNCHANGED skipped
            \/ "reject" \in Mishaps /\ MarkInvalid(h) /\ UNCHANGED skipped
            \/ /\ "drop" \in Mishaps
               /\ skipped' = [c \in Slot |-> IF c \in Live /\ Remote(c) = h
                                             THEN skipped[c] \cup {Head(ring).number}
                                             ELSE skipped[c]]
               /\ UNCHANGED server
       ELSE MarkInvalid(h) /\ UNCHANGED skipped
    /\ ring' = Tail(ring)
    /\ UNCHANGED <<clientPools, client, serverPools, next, recorded, executed>>

\* server_dispatch_vkFreeCommandBuffers.
PerformFree ==
    /\ ring # <<>> /\ Head(ring).op = "free"
    /\ server' = [h \in Handle |->
                    IF h \in Head(ring).handles THEN Absent ELSE server[h]]
    /\ ring' = Tail(ring)
    /\ UNCHANGED <<clientPools, client, serverPools, next, history, executed>>

\* server_dispatch_vkDestroyCommandPool.
PerformDestroy ==
    /\ ring # <<>> /\ Head(ring).op = "destroy"
    /\ serverPools' = serverPools \ {Head(ring).pool}
    /\ server' = [h \in Handle |->
                    IF h \in HandlesOf(Head(ring).pool) THEN Absent ELSE server[h]]
    /\ ring' = Tail(ring)
    /\ UNCHANGED <<clientPools, client, next, history, executed>>

-----------------------------------------------------------------------------
Pools ==
    \E p \in Pool :
        \/ CreatePool(p) \/ DestroyPool(p) \/ ResetPool(p)
        \/ \E S \in SUBSET Slot : Allocate(p, S) \/ Free(p, S)

Buffers ==
    \E c \in Slot :
        \/ \E simultaneous \in BOOLEAN : Begin(c, simultaneous)
        \/ Record(c) \/ End(c) \/ Reset(c) \/ Submit(c)

Next == Pools \/ Buffers \/ PerformRecord \/ PerformFree \/ PerformDestroy

Spec == Init /\ [][Next]_vars

-----------------------------------------------------------------------------
(* Properties.                                                             *)

\* The client's idea of a buffer is never better than the server's: a call the
\* client lets through is one the server accepts, driver errors and rejected
\* commands excepted, which it reports at vkEndCommandBuffer.
StatesAgree ==
    \A c \in Live :
        LET state == server[Remote(c)].state IN
        /\ client[c].state = "initial" => state = "initial"
        /\ client[c].state = "recording" => state \in {"recording", "invalid"}
        /\ client[c].state = "executable" => state = "executable"

\* A submission runs what the application recorded since it last began the
\* buffer, each command once and in order, without those that the client or the
\* server has skipped (the early returns of vkCmd* and server_dispatch_vkCmd*).
\* A command the server finds invalid is not skipped: its buffer never runs.
RunsAllButSkipped ==
    LET run == executed.run IN
    /\ \A i, j \in DOMAIN run : i < j => run[i] < run[j]
    /\ Range(run) = 1..executed.recorded \ executed.skipped

\* Commands on their way that will make the server forget a handle.
Condemned(h) ==
    \E i \in 1..Len(ring) :
        \/ ring[i].op = "free" /\ h \in ring[i].handles
        \/ ring[i].op = "destroy" /\ server[h].pool = ring[i].pool

\* Handles are neither lost nor used after their end, in spite of frees that
\* are performed late: a buffer of the client has a handle of its own, which
\* the server knows and nothing on its way removes; a handle without such a
\* buffer is about to be removed (vkFreeCommandBuffers, vkDestroyCommandPool
\* and the clean-up of vkAllocateCommandBuffers).
HandlesMatch ==
    /\ \A c \in Live :
        /\ Remote(c) \in Held /\ ~Condemned(Remote(c))
        /\ client[c].pool = server[Remote(c)].pool
        /\ \A d \in Live : Remote(c) = Remote(d) => c = d
    /\ \A h \in Held : Condemned(h) \/ \E c \in Live : Remote(c) = h
=============================================================================
