------------------------ MODULE CommandBuffersProofs ------------------------
(***************************************************************************)
(* Proofs about CommandBuffers, for any number of pools, buffers, handles  *)
(* and commands and whatever may go wrong: types, that no handle is lost   *)
(* or used after its end, and that the client's idea of a buffer is never  *)
(* better than the server's; and that what is executed is what was         *)
(* recorded, without what a side has skipped.                              *)
(***************************************************************************)
EXTENDS CommandBuffers, FiniteSetTheorems, FunctionTheorems, TLAPS

\* Only buffers that are being recorded have recorded commands on their way.
RecordsOfRecording ==
    \A i \in 1..Len(ring), c \in Live :
        ring[i].op = "record" /\ ring[i].handle = Remote(c) => client[c].state = "recording"

BufferInv == TypeOK /\ HandlesMatch /\ StatesAgree /\ RecordsOfRecording

-----------------------------------------------------------------------------
(* Types.                                                                  *)

PoolTypes    == clientPools \subseteq Pool /\ serverPools \subseteq Pool
ClientTypes  == client \in [Slot -> ClientBuffer \cup {Absent}]
RingTypes    == ring \in Seq(AsyncCommand)
ServerTypes  == /\ server \in [Handle -> ServerBuffer \cup {Absent}]
                /\ next \in 1..(MaxHandle + 1)
                /\ \A h \in Held : h < next
HistoryTypes == /\ recorded \in [Slot -> 0..MaxCommands]
                /\ skipped \in [Slot -> SUBSET Number]
                /\ executed \in [recorded : 0..MaxCommands, skipped : SUBSET Number,
                                 run : Seq(Number)]

LEMMA TypeParts ==
    TypeOK <=> PoolTypes /\ ClientTypes /\ RingTypes /\ ServerTypes /\ HistoryTypes
BY DEF TypeOK, PoolTypes, ClientTypes, RingTypes, ServerTypes, HistoryTypes

LEMMA TypePartsPrimed ==
    TypeOK' <=> PoolTypes' /\ ClientTypes' /\ RingTypes' /\ ServerTypes' /\ HistoryTypes'
BY DEF TypeOK, PoolTypes, ClientTypes, RingTypes, ServerTypes, HistoryTypes

LEMMA LiveTypes ==
    ASSUME ClientTypes, NEW c \in Live
    PROVE  /\ c \in Slot /\ client[c] \in ClientBuffer
           /\ client[c].state \in States /\ client[c].pool \in Pool /\ Remote(c) \in Handle
BY DEF ClientTypes, Live, ClientBuffer, Remote

LEMMA HeldTypes ==
    ASSUME ServerTypes, NEW h \in Held
    PROVE  /\ h \in Handle /\ server[h] \in ServerBuffer
           /\ server[h].state \in States /\ server[h].pool \in Pool
           /\ server[h].content \in Seq(Number)
BY DEF ServerTypes, Held, ServerBuffer

LEMMA AbsentIsNoBuffer == Absent \notin ClientBuffer /\ Absent \notin ServerBuffer
BY DEF Absent, ClientBuffer, ServerBuffer, States

LEMMA InitTypes == Init => TypeOK
<1> SUFFICES ASSUME Init PROVE TypeOK
  OBVIOUS
<1>1. Held = {}
  BY DEF Init, Held
<1>2. PoolTypes /\ ClientTypes /\ RingTypes
  BY DEF Init, PoolTypes, ClientTypes, RingTypes
<1>3. ServerTypes
  BY <1>1, LifecycleAssumption DEF Init, ServerTypes
<1>4. HistoryTypes
  BY LifecycleAssumption DEF Init, HistoryTypes
<1> QED
  BY <1>2, <1>3, <1>4, TypeParts

-----------------------------------------------------------------------------
(* What the updates of a buffer do.                                        *)

\* The client gives the buffer c another state.
LEMMA ClientState ==
    ASSUME ClientTypes, NEW c \in Live, NEW st \in States,
           client' = [client EXCEPT ![c].state = st]
    PROVE  /\ ClientTypes' /\ Live' = Live
           /\ client'[c].state = st /\ client'[c].pool = client[c].pool
           /\ client'[c].remote = client[c].remote
           /\ \A d \in Slot \ {c} : client'[d] = client[d]
<1>1. c \in Slot /\ client[c] \in ClientBuffer
  BY LiveTypes
<1> DEFINE b == [client[c] EXCEPT !.state = st]
<1>2. b \in ClientBuffer /\ b.state = st /\ b.pool = client[c].pool /\ b.remote = client[c].remote
  BY <1>1 DEF ClientBuffer
<1>3. client' = [client EXCEPT ![c] = b]
  OBVIOUS
<1> HIDE DEF b
<1>4. /\ ClientTypes' /\ client'[c] = b /\ \A d \in Slot \ {c} : client'[d] = client[d]
  BY <1>1, <1>2, <1>3 DEF ClientTypes
<1>5. Live' = Live
  BY <1>1, <1>2, <1>4, AbsentIsNoBuffer DEF Live
<1> QED
  BY <1>2, <1>4, <1>5

\* The server changes the state or the contents of the buffer h.
LEMMA ServerChange ==
    ASSUME ServerTypes, NEW h \in Held, NEW b \in ServerBuffer, b.pool = server[h].pool,
           server' = [server EXCEPT ![h] = b], next' = next
    PROVE  /\ ServerTypes' /\ Held' = Held
           /\ server'[h] = b
           /\ \A k \in Handle \ {h} : server'[k] = server[k]
           /\ \A k \in Held : server'[k].pool = server[k].pool
<1>1. h \in Handle /\ server[h] \in ServerBuffer
  BY HeldTypes
<1>2. /\ server' \in [Handle -> ServerBuffer \cup {Absent}] /\ server'[h] = b
      /\ \A k \in Handle \ {h} : server'[k] = server[k]
  BY <1>1 DEF ServerTypes
<1>3. Held' = Held
  BY <1>1, <1>2, AbsentIsNoBuffer DEF Held
<1>4. \A k \in Held : server'[k].pool = server[k].pool
  BY <1>2 DEF Held
<1> QED
  BY <1>2, <1>3, <1>4 DEF ServerTypes

\* The forms in which the actions write it.
LEMMA ServerUpdates ==
    ASSUME ServerTypes, NEW h \in Held, NEW st \in States, NEW k \in Number
    PROVE  /\ \E b \in ServerBuffer :
                /\ b.pool = server[h].pool /\ b.state = st
                /\ [server EXCEPT ![h].state = st] = [server EXCEPT ![h] = b]
           /\ \E b \in ServerBuffer :
                /\ b.pool = server[h].pool /\ b.state = server[h].state
                /\ [server EXCEPT ![h].content = Append(@, k)] = [server EXCEPT ![h] = b]
<1>1. server[h] \in ServerBuffer /\ server[h].content \in Seq(Number)
  BY HeldTypes
<1>2. [server[h] EXCEPT !.state = st] \in ServerBuffer
  BY <1>1 DEF ServerBuffer
<1>3. [server[h] EXCEPT !.content = Append(@, k)] \in ServerBuffer
  <2>1. Append(server[h].content, k) \in Seq(Number)
    BY <1>1
  <2> QED
    BY <1>1, <2>1 DEF ServerBuffer
<1>4. /\ [server[h] EXCEPT !.state = st].pool = server[h].pool
      /\ [server[h] EXCEPT !.state = st].state = st
      /\ [server[h] EXCEPT !.content = Append(@, k)].pool = server[h].pool
      /\ [server[h] EXCEPT !.content = Append(@, k)].state = server[h].state
  BY <1>1 DEF ServerBuffer
<1> QED
  BY <1>2, <1>3, <1>4

LEMMA ServerRestart ==
    ASSUME ServerTypes, NEW h \in Held, NEW st \in States
    PROVE  \E b \in ServerBuffer :
                /\ b.pool = server[h].pool /\ b.state = st
                /\ [server EXCEPT ![h].state = st, ![h].content = <<>>]
                     = [server EXCEPT ![h] = b]
<1>1. server[h] \in ServerBuffer /\ h \in Handle
  BY HeldTypes
<1> DEFINE b == [server[h] EXCEPT !.state = st, !.content = <<>>]
<1>2. b \in ServerBuffer /\ b.pool = server[h].pool /\ b.state = st
  <2>1. <<>> \in Seq(Number)
    OBVIOUS
  <2>p. server[h].pool \in Pool
    BY HeldTypes
  <2>c. [server[h] EXCEPT !.state = st] = [state |-> st, pool |-> server[h].pool, content |-> server[h].content]
    BY <1>1 DEF ServerBuffer
  <2>d. b = [[server[h] EXCEPT !.state = st] EXCEPT !.content = <<>>]
    OBVIOUS
  <2>2. b = [state |-> st, pool |-> server[h].pool, content |-> <<>>]
    <3> DEFINE mid == [state |-> st, pool |-> server[h].pool, content |-> server[h].content]
    <3>1. b = [mid EXCEPT !.content = <<>>]
      BY <2>c, <2>d, Zenon
    <3>2. [mid EXCEPT !.content = <<>>] = [state |-> st, pool |-> server[h].pool, content |-> <<>>]
      OBVIOUS
    <3> QED
      BY <3>1, <3>2, Zenon
  <2> HIDE DEF b
  <2> QED
    BY <2>1, <2>2, <2>p DEF ServerBuffer
<1>3. [server EXCEPT ![h].state = st, ![h].content = <<>>] = [server EXCEPT ![h] = b]
  BY <1>1 DEF ServerTypes
<1> QED
  BY <1>2, <1>3

\* A step of the server that keeps the type of its records and its handles.
LEMMA TypesKept ==
    ASSUME TypeOK, ServerTypes', ClientTypes', RingTypes', HistoryTypes',
           UNCHANGED <<clientPools, serverPools>>
    PROVE  TypeOK'
BY TypePartsPrimed, TypeParts DEF PoolTypes

-----------------------------------------------------------------------------
(* The ring: what is about to be removed.                                  *)

\* The command makes the server forget the handle h.
Removes(command, h) ==
    \/ command.op = "free" /\ h \in command.handles
    \/ command.op = "destroy" /\ server[h].pool = command.pool

LEMMA CondemnedAppend ==
    ASSUME RingTypes, NEW command \in AsyncCommand, ring' = Append(ring, command),
           NEW h, server'[h].pool = server[h].pool
    PROVE  Condemned(h)' <=> Condemned(h) \/ Removes(command, h)
<1>1. /\ Len(ring) \in Nat /\ Len(ring') = Len(ring) + 1
      /\ \A i \in 1..Len(ring) : ring'[i] = ring[i]
      /\ ring'[Len(ring) + 1] = command
  BY DEF RingTypes
<1>2. ASSUME Condemned(h)' PROVE Condemned(h) \/ Removes(command, h)
  <2>1. PICK i \in 1..(Len(ring) + 1) :
            \/ ring'[i].op = "free" /\ h \in ring'[i].handles
            \/ ring'[i].op = "destroy" /\ server[h].pool = ring'[i].pool
    BY <1>1, <1>2 DEF Condemned
  <2>2. CASE i \in 1..Len(ring)
    BY <1>1, <2>1, <2>2 DEF Condemned
  <2>3. CASE i = Len(ring) + 1
    BY <1>1, <2>1, <2>3 DEF Removes
  <2> QED
    BY <1>1, <2>2, <2>3
<1>3. ASSUME Condemned(h) PROVE Condemned(h)'
  <2>1. PICK i \in 1..Len(ring) :
            \/ ring[i].op = "free" /\ h \in ring[i].handles
            \/ ring[i].op = "destroy" /\ server[h].pool = ring[i].pool
    BY <1>3 DEF Condemned
  <2>2. i \in 1..Len(ring') /\ ring'[i] = ring[i]
    BY <1>1
  <2> QED
    BY <2>1, <2>2 DEF Condemned
<1>4. ASSUME Removes(command, h) PROVE Condemned(h)'
  <2>1. Len(ring) + 1 \in 1..Len(ring')
    BY <1>1
  <2> QED
    BY <1>1, <1>4, <2>1 DEF Condemned, Removes
<1> QED
  BY <1>2, <1>3, <1>4

LEMMA CondemnedTail ==
    ASSUME RingTypes, ring # <<>>, ring' = Tail(ring),
           NEW h, server'[h].pool = server[h].pool
    PROVE  Condemned(h) <=> Removes(Head(ring), h) \/ Condemned(h)'
<1>1. /\ Len(ring) \in Nat \ {0} /\ Len(ring') = Len(ring) - 1 /\ Head(ring) = ring[1]
      /\ \A i \in 1..(Len(ring) - 1) : ring'[i] = ring[i + 1]
  BY DEF RingTypes
<1>2. ASSUME Condemned(h) PROVE Removes(Head(ring), h) \/ Condemned(h)'
  <2>1. PICK i \in 1..Len(ring) :
            \/ ring[i].op = "free" /\ h \in ring[i].handles
            \/ ring[i].op = "destroy" /\ server[h].pool = ring[i].pool
    BY <1>2 DEF Condemned
  <2>2. CASE i = 1
    BY <1>1, <2>1, <2>2 DEF Removes
  <2>3. CASE i # 1
    <3>1. i - 1 \in 1..Len(ring') /\ ring'[i - 1] = ring[i]
      BY <1>1, <2>3
    <3> QED
      BY <2>1, <3>1 DEF Condemned
  <2> QED
    BY <2>2, <2>3
<1>3. ASSUME Condemned(h)' PROVE Condemned(h)
  <2>1. PICK i \in 1..Len(ring') :
            \/ ring'[i].op = "free" /\ h \in ring'[i].handles
            \/ ring'[i].op = "destroy" /\ server[h].pool = ring'[i].pool
    BY <1>3 DEF Condemned
  <2>2. i + 1 \in 1..Len(ring) /\ ring'[i] = ring[i + 1]
    BY <1>1
  <2> QED
    BY <2>1, <2>2 DEF Condemned
<1>4. ASSUME Removes(Head(ring), h) PROVE Condemned(h)
  <2>1. 1 \in 1..Len(ring)
    BY <1>1
  <2> QED
    BY <1>1, <1>4, <2>1 DEF Condemned, Removes
<1> QED
  BY <1>2, <1>3, <1>4

\* Records on their way, before and after.
LEMMA RecordsAppend ==
    ASSUME RingTypes, NEW command \in AsyncCommand, ring' = Append(ring, command),
           RecordsOfRecording, Live' \subseteq Live,
           \A c \in Live' : client'[c] = client[c],
           \A c \in Live : command.op = "record" /\ command.handle = Remote(c)
                              => client[c].state = "recording"
    PROVE  RecordsOfRecording'
<1>1. /\ Len(ring) \in Nat /\ Len(ring') = Len(ring) + 1
      /\ \A i \in 1..Len(ring) : ring'[i] = ring[i]
      /\ ring'[Len(ring) + 1] = command
  BY DEF RingTypes
<1> SUFFICES ASSUME NEW i \in 1..Len(ring'), NEW c \in Live',
                    ring'[i].op = "record", ring'[i].handle = Remote(c)'
             PROVE  client'[c].state = "recording"
  BY DEF RecordsOfRecording
<1>2. c \in Live /\ client'[c] = client[c] /\ Remote(c)' = Remote(c)
  BY DEF Remote
<1>3. CASE i \in 1..Len(ring)
  BY <1>1, <1>2, <1>3 DEF RecordsOfRecording
<1>4. CASE i = Len(ring) + 1
  BY <1>1, <1>2, <1>4
<1> QED
  BY <1>1, <1>3, <1>4

LEMMA RecordsTail ==
    ASSUME RingTypes, ring # <<>>, ring' = Tail(ring), RecordsOfRecording, client' = client
    PROVE  RecordsOfRecording'
<1>1. /\ Len(ring) \in Nat \ {0} /\ Len(ring') = Len(ring) - 1
      /\ \A i \in 1..(Len(ring) - 1) : ring'[i] = ring[i + 1]
  BY DEF RingTypes
<1>2. Live' = Live /\ \A c \in Live : Remote(c)' = Remote(c)
  BY DEF Live, Remote
<1> SUFFICES ASSUME NEW i \in 1..Len(ring'), NEW c \in Live,
                    ring'[i].op = "record", ring'[i].handle = Remote(c)
             PROVE  client'[c].state = "recording"
  BY <1>2 DEF RecordsOfRecording
<1>3. i + 1 \in 1..Len(ring) /\ ring'[i] = ring[i + 1]
  BY <1>1
<1> QED
  BY <1>3 DEF RecordsOfRecording

LEMMA NoRecords ==
    ASSUME ring' = <<>>
    PROVE  RecordsOfRecording'
BY DEF RecordsOfRecording

-----------------------------------------------------------------------------
(* Steps that neither give out nor remove a handle.                        *)

\* HandlesMatch looks at the handles and the pools of the buffers only.
LEMMA SameHandles ==
    ASSUME HandlesMatch, Live' = Live, Held' = Held,
           \A c \in Live : client'[c].pool = client[c].pool /\ client'[c].remote = client[c].remote,
           \A h \in Held : server'[h].pool = server[h].pool,
           \A h \in Held : Condemned(h)' <=> Condemned(h)
    PROVE  HandlesMatch'
<1>1. \A c \in Live : Remote(c)' = Remote(c)
  BY DEF Remote
<1>2. ASSUME NEW c \in Live, NEW h, h = Remote(c)
      PROVE  /\ h \in Held /\ ~Condemned(h)'
             /\ client'[c].pool = server'[h].pool
             /\ \A d \in Live : h = Remote(d) => c = d
  <2>1. h \in Held /\ ~Condemned(h) /\ client[c].pool = server[h].pool
    BY <1>2 DEF HandlesMatch
  <2> QED
    BY <1>2, <2>1 DEF HandlesMatch
<1>3. ASSUME NEW h \in Held PROVE Condemned(h)' \/ \E c \in Live : Remote(c) = h
  BY DEF HandlesMatch
<1>4. ASSUME NEW c \in Live'
      PROVE  (/\ Remote(c) \in Held /\ ~Condemned(Remote(c))
              /\ client[c].pool = server[Remote(c)].pool
              /\ \A d \in Live : Remote(c) = Remote(d) => c = d)'
  <2>1. PICK h : h = Remote(c)
    OBVIOUS
  <2>2. h = Remote(c)' /\ c \in Live
    BY <1>1, <2>1
  <2> QED
    BY <1>1, <1>2, <2>1, <2>2
<1> QED
  BY <1>1, <1>3, <1>4 DEF HandlesMatch

LEMMA RingKept ==
    ASSUME ring' = ring, NEW h, server'[h].pool = server[h].pool
    PROVE  Condemned(h)' <=> Condemned(h)
BY DEF Condemned

LEMMA LiveIsHeld ==
    ASSUME HandlesMatch, NEW c \in Live
    PROVE  Remote(c) \in Held /\ client[c].pool = server[Remote(c)].pool
BY DEF HandlesMatch

\* A step that leaves buffers and ring alone.
LEMMA NoBuffer ==
    ASSUME BufferInv, UNCHANGED <<client, ring, server, next>>, PoolTypes', HistoryTypes'
    PROVE  BufferInv'
<1>1. TypeOK'
  BY TypeParts, TypePartsPrimed
     DEF BufferInv, ClientTypes, RingTypes, ServerTypes, Held
<1>2. Live' = Live /\ Held' = Held
  BY DEF Live, Held
<1>3. HandlesMatch'
  BY <1>2, RingKept, SameHandles DEF BufferInv
<1>4. StatesAgree' /\ RecordsOfRecording'
  BY DEF BufferInv, StatesAgree, RecordsOfRecording, Live, Remote
<1> QED
  BY <1>1, <1>3, <1>4 DEF BufferInv

\* A call about the buffer c: both records take the state st, or the call
\* fails and the client's becomes invalid.
LEMMA OneBuffer ==
    ASSUME BufferInv, ring = <<>>, NEW c \in Live, NEW st \in States,
           client' = [client EXCEPT ![c].state = st],
           \/ st = "invalid" /\ server' = server
           \/ \E b \in ServerBuffer :
                /\ b.pool = server[Remote(c)].pool /\ b.state = st
                /\ server' = [server EXCEPT ![Remote(c)] = b],
           UNCHANGED <<clientPools, ring, serverPools, next>>, HistoryTypes'
    PROVE  BufferInv'
<1>1. TypeOK /\ HandlesMatch /\ StatesAgree
  BY DEF BufferInv
<1>2. ClientTypes /\ ServerTypes /\ RingTypes
  BY <1>1, TypeParts
<1>3. /\ ClientTypes' /\ Live' = Live
      /\ client'[c].state = st
      /\ \A d \in Live : client'[d].pool = client[d].pool /\ client'[d].remote = client[d].remote
      /\ \A d \in Live \ {c} : client'[d] = client[d]
  <2>1. Live \subseteq Slot
    BY DEF Live
  <2> QED
    BY <1>2, <2>1, ClientState
<1>4. Remote(c) \in Held /\ \A d \in Live \ {c} : Remote(d) \in Held \ {Remote(c)}
  BY <1>1 DEF HandlesMatch
<1>5. /\ ServerTypes' /\ Held' = Held
      /\ \A h \in Held : server'[h].pool = server[h].pool
      /\ \A h \in Held \ {Remote(c)} : server'[h] = server[h]
      /\ st = "invalid" \/ server'[Remote(c)].state = st
  <2>1. CASE st = "invalid" /\ server' = server
    BY <1>2, <2>1 DEF ServerTypes, Held
  <2>2. ASSUME NEW b \in ServerBuffer, b.pool = server[Remote(c)].pool, b.state = st,
               server' = [server EXCEPT ![Remote(c)] = b]
        PROVE  /\ ServerTypes' /\ Held' = Held
               /\ \A h \in Held : server'[h].pool = server[h].pool
               /\ \A h \in Held \ {Remote(c)} : server'[h] = server[h]
               /\ server'[Remote(c)].state = st
    <3>1. Held \subseteq Handle
      BY DEF Held
    <3> QED
      BY <1>2, <1>4, <2>2, <3>1, ServerChange
  <2> QED
    BY <2>1, <2>2
<1>6. TypeOK'
  BY <1>1, <1>2, <1>3, <1>5, TypesKept DEF RingTypes
<1>7. HandlesMatch'
  <2>1. \A h \in Held : Condemned(h)' <=> Condemned(h)
    BY <1>5, RingKept
  <2> QED
    BY <1>1, <1>3, <1>5, <2>1, SameHandles
<1>8. StatesAgree'
  <2> SUFFICES ASSUME NEW d \in Live
               PROVE  /\ client'[d].state = "initial" => server'[Remote(d)].state = "initial"
                      /\ client'[d].state = "recording"
                            => server'[Remote(d)].state \in {"recording", "invalid"}
                      /\ client'[d].state = "executable" => server'[Remote(d)].state = "executable"
    BY <1>3 DEF StatesAgree, Remote
  <2>1. CASE d = c
    BY <1>3, <1>5, <2>1
  <2>2. CASE d # c
    BY <1>1, <1>3, <1>4, <1>5, <2>2 DEF StatesAgree
  <2> QED
    BY <2>1, <2>2
<1> QED
  BY <1>6, <1>7, <1>8, NoRecords DEF BufferInv

-----------------------------------------------------------------------------
(* The steps.                                                              *)

LEMMA BeginStep ==
    ASSUME BufferInv, NEW c \in Slot, NEW simultaneous, Begin(c, simultaneous)
    PROVE  BufferInv'
<1>1. TypeOK /\ HandlesMatch /\ ring = <<>> /\ c \in Live
  BY DEF BufferInv, Begin, CanCall
<1>2. ServerTypes /\ HistoryTypes /\ Remote(c) \in Held
  BY <1>1, TypeParts, LiveIsHeld
<1>3. PICK ok \in {TRUE, FALSE} :
        IF ok
        THEN /\ server' = [server EXCEPT ![Remote(c)].state = "recording",
                                         ![Remote(c)].content = <<>>]
             /\ client' = [client EXCEPT ![c].state = "recording"]
             /\ recorded' = [recorded EXCEPT ![c] = 0]
             /\ skipped' = [skipped EXCEPT ![c] = {}]
        ELSE /\ client' = [client EXCEPT ![c].state = "invalid"]
             /\ UNCHANGED <<server, history>>
  BY DEF Begin, Results
<1>4. UNCHANGED <<clientPools, ring, serverPools, next, executed>>
  BY DEF Begin
<1>5. HistoryTypes'
  <2>1. 0 \in 0..MaxCommands
    BY LifecycleAssumption
  <2> QED
    BY <1>2, <1>3, <1>4, <2>1 DEF HistoryTypes, history
<1>6. {"recording", "invalid"} \subseteq States
  BY DEF States
<1>7. CASE ok
  <2>1. PICK b \in ServerBuffer :
            /\ b.pool = server[Remote(c)].pool /\ b.state = "recording"
            /\ [server EXCEPT ![Remote(c)].state = "recording", ![Remote(c)].content = <<>>]
                 = [server EXCEPT ![Remote(c)] = b]
    BY <1>2, <1>6, ServerRestart
  <2>2. server' = [server EXCEPT ![Remote(c)] = b] /\ client' = [client EXCEPT ![c].state = "recording"]
    BY <1>3, <1>7, <2>1
  <2> QED
    BY <1>1, <1>4, <1>5, <1>6, <2>1, <2>2, OneBuffer
<1>8. CASE ~ok
  BY <1>1, <1>3, <1>4, <1>5, <1>6, <1>8, OneBuffer
<1> QED
  BY <1>7, <1>8

LEMMA EndStep ==
    ASSUME BufferInv, NEW c \in Slot, End(c)
    PROVE  BufferInv'
<1>1. TypeOK /\ HandlesMatch /\ ring = <<>> /\ c \in Live
  BY DEF BufferInv, End, CanCall
<1>2. ServerTypes /\ HistoryTypes /\ Remote(c) \in Held
  BY <1>1, TypeParts, LiveIsHeld
<1>3. \/ /\ server' = [server EXCEPT ![Remote(c)].state = "executable"]
         /\ client' = [client EXCEPT ![c].state = "executable"]
      \/ /\ client' = [client EXCEPT ![c].state = "invalid"]
         /\ server' = server
  BY DEF End
<1>4. UNCHANGED <<clientPools, ring, serverPools, next, history, executed>>
  BY DEF End
<1>5. HistoryTypes'
  BY <1>2, <1>4 DEF HistoryTypes, history
<1>6. {"executable", "invalid"} \subseteq States
  BY DEF States
<1>7. \E b \in ServerBuffer :
          /\ b.pool = server[Remote(c)].pool /\ b.state = "executable"
          /\ [server EXCEPT ![Remote(c)].state = "executable"] = [server EXCEPT ![Remote(c)] = b]
  <2>1. [server[Remote(c)] EXCEPT !.state = "executable"] \in ServerBuffer
    BY <1>2, <1>6, HeldTypes DEF ServerBuffer
  <2> QED
    BY <1>2, <2>1, HeldTypes DEF ServerBuffer
<1> QED
  BY <1>1, <1>3, <1>4, <1>5, <1>6, <1>7, OneBuffer

LEMMA ResetStep ==
    ASSUME BufferInv, NEW c \in Slot, Reset(c)
    PROVE  BufferInv'
<1>1. TypeOK /\ HandlesMatch /\ ring = <<>> /\ c \in Live
  BY DEF BufferInv, Reset, CanCall
<1>2. ServerTypes /\ HistoryTypes /\ Remote(c) \in Held
  BY <1>1, TypeParts, LiveIsHeld
<1>3. \/ /\ server' = [server EXCEPT ![Remote(c)].state = "initial",
                                      ![Remote(c)].content = <<>>]
         /\ client' = [client EXCEPT ![c].state = "initial"]
      \/ /\ client' = [client EXCEPT ![c].state = "invalid"]
         /\ server' = server
  BY DEF Reset
<1>4. UNCHANGED <<clientPools, ring, serverPools, next, history, executed>>
  BY DEF Reset
<1>5. HistoryTypes'
  BY <1>2, <1>4 DEF HistoryTypes, history
<1>6. {"initial", "invalid"} \subseteq States
  BY DEF States
<1>7. PICK b \in ServerBuffer :
          /\ b.pool = server[Remote(c)].pool /\ b.state = "initial"
          /\ [server EXCEPT ![Remote(c)].state = "initial", ![Remote(c)].content = <<>>]
               = [server EXCEPT ![Remote(c)] = b]
  BY <1>2, <1>6, ServerRestart
<1>8. \/ /\ server' = [server EXCEPT ![Remote(c)] = b]
         /\ client' = [client EXCEPT ![c].state = "initial"]
      \/ /\ client' = [client EXCEPT ![c].state = "invalid"]
         /\ server' = server
  BY <1>3, <1>7
<1> QED
  BY <1>1, <1>4, <1>5, <1>6, <1>7, <1>8, OneBuffer

\* Whatever is recorded is sent when the client's buffer is recording.
LEMMA RecordStep ==
    ASSUME BufferInv, NEW c \in Slot, Record(c)
    PROVE  BufferInv'
<1>1. /\ TypeOK /\ HandlesMatch /\ StatesAgree /\ RecordsOfRecording /\ c \in Live
      /\ client[c].state = "recording"
  BY DEF BufferInv, Record
<1>2. /\ PoolTypes /\ ClientTypes /\ RingTypes /\ ServerTypes /\ HistoryTypes
      /\ Remote(c) \in Held
  BY <1>1, TypeParts, LiveIsHeld
<1>3. UNCHANGED <<clientPools, client, serverPools, server, next, executed>>
  BY DEF Record
<1>4. HistoryTypes'
  <2>1. recorded[c] \in Nat /\ recorded[c] + 1 \in Number /\ Number \subseteq 0..MaxCommands
    BY <1>2, LifecycleAssumption DEF HistoryTypes, history, Record, Number
  <2>2. /\ recorded' = [recorded EXCEPT ![c] = recorded[c] + 1]
        /\ \/ skipped' = skipped
           \/ skipped' = [skipped EXCEPT ![c] = @ \cup {recorded[c] + 1}]
    BY DEF Record
  <2> QED
    BY <1>2, <1>3, <2>1, <2>2 DEF HistoryTypes, history
<1>5. CASE ring' = ring
  BY <1>2, <1>3, <1>4, <1>5, NoBuffer DEF PoolTypes
<1> DEFINE command == [op |-> "record", handle |-> Remote(c), number |-> recorded[c] + 1]
<1>6. CASE ring' = Append(ring, command)
  <2>1. command \in AsyncCommand
    <3>1. recorded[c] + 1 \in Number
      BY <1>2, LifecycleAssumption DEF HistoryTypes, history, Record, Number
    <3> QED
      BY <1>2, <3>1, HeldTypes DEF AsyncCommand
  <2>2. RingTypes'
    BY <1>2, <1>6, <2>1 DEF RingTypes
  <2>3. TypeOK'
    BY <1>1, <1>2, <1>3, <1>4, <2>2, TypesKept DEF ClientTypes, ServerTypes, Held
  <2>4. Live' = Live /\ Held' = Held
    BY <1>3 DEF Live, Held
  <2>5. \A h : ~Removes(command, h)
    BY DEF Removes
  <2>6. \A h \in Held : Condemned(h)' <=> Condemned(h)
    BY <1>2, <1>3, <1>6, <2>1, <2>5, CondemnedAppend
  <2>7. HandlesMatch'
    BY <1>1, <1>3, <2>4, <2>6, SameHandles
  <2>8. StatesAgree'
    BY <1>1, <1>3 DEF StatesAgree, Live, Remote
  <2>9. RecordsOfRecording'
    <3>1. \A d \in Live : Remote(c) = Remote(d) => client[d].state = "recording"
      BY <1>1 DEF HandlesMatch
    <3> QED
      BY <1>1, <1>2, <1>3, <1>6, <2>1, <2>4, <3>1, RecordsAppend
  <2> QED
    BY <2>3, <2>7, <2>8, <2>9 DEF BufferInv
<1> QED
  BY <1>5, <1>6 DEF Record, SendAsync

\* vkFreeCommandBuffers and vkDestroyCommandPool: the client forgets the
\* buffers of S, and what is sent removes just their handles.
LEMMA ForgetStep ==
    ASSUME BufferInv, NEW S \in SUBSET Live, NEW command \in AsyncCommand,
           client' = [c \in Slot |-> IF c \in S THEN Absent ELSE client[c]],
           command.op # "record", ring' = Append(ring, command),
           \A c \in Live : c \in S <=> Removes(command, Remote(c)),
           PoolTypes', UNCHANGED <<server, next, history, executed>>
    PROVE  BufferInv'
<1>1. TypeOK /\ HandlesMatch /\ StatesAgree /\ RecordsOfRecording
  BY DEF BufferInv
<1>2. ClientTypes /\ RingTypes /\ ServerTypes /\ HistoryTypes
  BY <1>1, TypeParts
<1>3. Live' = Live \ S /\ Held' = Held /\ \A c \in Live' : client'[c] = client[c]
  BY DEF Live, Held
<1>4. TypeOK'
  <2>1. ClientTypes'
    BY <1>2 DEF ClientTypes
  <2>2. RingTypes'
    BY <1>2 DEF RingTypes
  <2>3. ServerTypes' /\ HistoryTypes'
    BY <1>2 DEF ServerTypes, HistoryTypes, history, Held
  <2> QED
    BY <2>1, <2>2, <2>3, TypePartsPrimed
<1>5. \A h : Condemned(h)' <=> Condemned(h) \/ Removes(command, h)
  BY <1>2, CondemnedAppend
<1>6. HandlesMatch'
  <2>1. ASSUME NEW c \in Live', NEW h, h = Remote(c)
        PROVE  /\ h \in Held /\ ~Condemned(h)'
               /\ client'[c].pool = server'[h].pool
               /\ \A d \in Live : h = Remote(d) => c = d
    <3>1. c \in Live /\ c \notin S
      BY <1>3
    <3>2. h \in Held /\ ~Condemned(h) /\ client[c].pool = server[h].pool
      BY <1>1, <2>1, <3>1 DEF HandlesMatch
    <3>3. ~Removes(command, h)
      BY <2>1, <3>1
    <3> QED
      BY <1>1, <1>3, <1>5, <2>1, <3>1, <3>2, <3>3 DEF HandlesMatch
  <2>2. ASSUME NEW h \in Held PROVE Condemned(h)' \/ \E c \in Live' : Remote(c) = h
    <3>1. CASE Condemned(h)
      BY <1>5, <3>1
    <3>2. ASSUME NEW c \in Live, Remote(c) = h PROVE Condemned(h)' \/ c \in Live'
      BY <1>3, <1>5, <3>2
    <3> QED
      BY <1>1, <3>1, <3>2 DEF HandlesMatch
  <2>3. \A c \in Live' : Remote(c)' = Remote(c)
    BY <1>3 DEF Remote
  <2>4. ASSUME NEW c \in Live'
        PROVE  (/\ Remote(c) \in Held /\ ~Condemned(Remote(c))
                /\ client[c].pool = server[Remote(c)].pool
                /\ \A d \in Live : Remote(c) = Remote(d) => c = d)'
    <3>1. PICK h : h = Remote(c)
      OBVIOUS
    <3>2. h = Remote(c)'
      BY <2>3, <3>1
    <3> QED
      BY <1>3, <2>1, <2>3, <3>1, <3>2
  <2>5. \A h \in Held' : Condemned(h)' \/ \E c \in Live' : Remote(c)' = h
    BY <1>3, <2>2, <2>3
  <2> QED
    BY <2>4, <2>5 DEF HandlesMatch
<1>7. StatesAgree'
  <2>1. \A c \in Live' : Remote(c)' = Remote(c) /\ client'[c] = client[c] /\ c \in Live
    BY <1>3 DEF Remote
  <2> QED
    BY <1>1, <2>1 DEF StatesAgree
<1>8. RecordsOfRecording'
  <2>1. Live' \subseteq Live
    BY <1>3
  <2> QED
    BY <1>1, <1>2, <1>3, <2>1, RecordsAppend
<1> QED
  BY <1>4, <1>6, <1>7, <1>8 DEF BufferInv

LEMMA FreeStep ==
    ASSUME BufferInv, NEW p \in Pool, NEW S \in SUBSET Slot, Free(p, S)
    PROVE  BufferInv'
<1> DEFINE command == [op |-> "free", handles |-> {Remote(c) : c \in S}]
<1>1. TypeOK /\ HandlesMatch
  BY DEF BufferInv
<1>2. S \in SUBSET Live
  BY DEF Free, SlotsOf
<1>3. command \in AsyncCommand
  BY <1>1, <1>2, LiveTypes, TypeParts DEF AsyncCommand
<1>4. ring' = Append(ring, command)
  BY DEF Free, FreeRemote, SendAsync
<1>5. \A c \in Live : c \in S <=> Removes(command, Remote(c))
  BY <1>1, <1>2 DEF HandlesMatch, Removes
<1>6. PoolTypes'
  BY <1>1, TypeParts DEF Free, PoolTypes
<1>7. /\ client' = [c \in Slot |-> IF c \in S THEN Absent ELSE client[c]]
      /\ UNCHANGED <<server, next, history, executed>>
  BY DEF Free
<1>8. command.op # "record"
  OBVIOUS
<1> HIDE DEF command
<1> QED
  BY <1>2, <1>3, <1>4, <1>5, <1>6, <1>7, <1>8, ForgetStep

LEMMA DestroyStep ==
    ASSUME BufferInv, NEW p \in Pool, DestroyPool(p)
    PROVE  BufferInv'
<1> DEFINE command == [op |-> "destroy", pool |-> p]
           S == SlotsOf(p)
<1>1. TypeOK /\ HandlesMatch
  BY DEF BufferInv
<1>2. S \in SUBSET Live
  BY DEF SlotsOf
<1>3. command \in AsyncCommand
  BY DEF AsyncCommand
<1>4. ring' = Append(ring, command)
  BY DEF DestroyPool, SendAsync
<1>5. \A c \in Live : c \in S <=> Removes(command, Remote(c))
  BY <1>1 DEF HandlesMatch, Removes, SlotsOf
<1>6. PoolTypes'
  BY <1>1, TypeParts DEF DestroyPool, PoolTypes
<1>7. /\ client' = [c \in Slot |-> IF c \in S THEN Absent ELSE client[c]]
      /\ UNCHANGED <<server, next, history, executed>>
  BY DEF DestroyPool
<1>8. command.op # "record"
  OBVIOUS
<1> HIDE DEF command, S
<1> QED
  BY <1>2, <1>3, <1>4, <1>5, <1>6, <1>7, <1>8, ForgetStep

\* vkResetCommandPool.
LEMMA ResetPoolStep ==
    ASSUME BufferInv, NEW p \in Pool, ResetPool(p)
    PROVE  BufferInv'
<1>1. TypeOK /\ HandlesMatch /\ StatesAgree /\ ring = <<>>
  BY DEF BufferInv, ResetPool, CanCall
<1>2. ClientTypes /\ RingTypes /\ ServerTypes /\ HistoryTypes
  BY <1>1, TypeParts
<1>3. /\ server' = [h \in Handle |->
                    IF h \in HandlesOf(p)
                    THEN [server[h] EXCEPT !.state = "initial", !.content = <<>>]
                    ELSE server[h]]
      /\ client' = [c \in Slot |->
                    IF c \in SlotsOf(p)
                    THEN [client[c] EXCEPT !.state = "initial"] ELSE client[c]]
      /\ UNCHANGED <<clientPools, ring, serverPools, next, history, executed>>
  BY DEF ResetPool
<1>4. \A c \in Live : /\ client[c] \in ClientBuffer
                     /\ [client[c] EXCEPT !.state = "initial"] \in ClientBuffer
                     /\ [client[c] EXCEPT !.state = "initial"].pool = client[c].pool
                     /\ [client[c] EXCEPT !.state = "initial"].remote = client[c].remote
                     /\ [client[c] EXCEPT !.state = "initial"].state = "initial"
  BY <1>2, LiveTypes DEF ClientBuffer, States
<1>5. ASSUME NEW h \in Held
      PROVE  /\ server'[h] \in ServerBuffer /\ server'[h].pool = server[h].pool
             /\ h \in HandlesOf(p) => server'[h].state = "initial"
             /\ h \notin HandlesOf(p) => server'[h] = server[h]
  <2>1. h \in Handle /\ server[h] \in ServerBuffer /\ "initial" \in States
    BY <1>2, HeldTypes DEF States
  <2>2. PICK b \in ServerBuffer :
            /\ b.pool = server[h].pool /\ b.state = "initial"
            /\ [server EXCEPT ![h].state = "initial", ![h].content = <<>>]
                 = [server EXCEPT ![h] = b]
    BY <1>2, <2>1, ServerRestart
  <2>3. [server[h] EXCEPT !.state = "initial", !.content = <<>>] = b
    BY <1>2, <2>1, <2>2 DEF ServerTypes
  <2> QED
    BY <1>3, <2>1, <2>2, <2>3
<1>6. ASSUME NEW c \in Live
      PROVE  /\ client'[c] \in ClientBuffer
             /\ client'[c].pool = client[c].pool /\ client'[c].remote = client[c].remote
             /\ c \in SlotsOf(p) => client'[c].state = "initial"
             /\ c \notin SlotsOf(p) => client'[c].state = client[c].state
  BY <1>3, <1>4 DEF Live
<1>a. /\ \A c \in Live : client'[c].pool = client[c].pool /\ client'[c].remote = client[c].remote
      /\ \A c \in Live : c \in SlotsOf(p) => client'[c].state = "initial"
      /\ \A c \in Live : c \notin SlotsOf(p) => client'[c].state = client[c].state
  BY <1>6
<1>b. /\ \A h \in Held : server'[h].pool = server[h].pool
      /\ \A h \in Held : h \in HandlesOf(p) => server'[h].state = "initial"
      /\ \A h \in Held : h \notin HandlesOf(p) => server'[h].state = server[h].state
  BY <1>5
<1>7. Live' = Live /\ ClientTypes'
  <2>1. \A c \in Slot \ Live : client'[c] = Absent
    BY <1>3 DEF SlotsOf, Live
  <2>2. DOMAIN client' = Slot /\ client' = [c \in Slot |-> client'[c]]
    BY <1>3
  <2>3. \A c \in Live : client'[c] # Absent /\ client'[c] \in ClientBuffer
    BY <1>6, AbsentIsNoBuffer
  <2>4. Live' = Live
    BY <2>1, <2>3 DEF Live
  <2>5. \A c \in Slot : client'[c] \in ClientBuffer \cup {Absent}
    BY <2>1, <2>3
  <2> QED
    BY <2>2, <2>4, <2>5 DEF ClientTypes
<1>8. Held' = Held /\ ServerTypes'
  <2>1. \A h \in Handle \ Held : server'[h] = Absent
    BY <1>3 DEF HandlesOf, Held
  <2>2. DOMAIN server' = Handle /\ server' = [h \in Handle |-> server'[h]]
    BY <1>3
  <2>3. Held' = Held
    BY <1>5, <2>1, AbsentIsNoBuffer DEF Held
  <2>4. server' \in [Handle -> ServerBuffer \cup {Absent}]
    BY <1>5, <2>1, <2>2 DEF Held
  <2> QED
    BY <1>2, <1>3, <2>3, <2>4 DEF ServerTypes
<1>9. TypeOK'
  BY <1>1, <1>2, <1>3, <1>7, <1>8, TypesKept DEF RingTypes, HistoryTypes, history
<1>10. HandlesMatch'
  <2>1. \A h \in Held : Condemned(h)' <=> Condemned(h)
    BY <1>3, <1>b, RingKept
  <2> QED
    BY <1>1, <1>a, <1>b, <1>7, <1>8, <2>1, SameHandles
<1>11. StatesAgree'
  <2> SUFFICES ASSUME NEW d \in Live
               PROVE  /\ client'[d].state = "initial" => server'[Remote(d)].state = "initial"
                      /\ client'[d].state = "recording"
                            => server'[Remote(d)].state \in {"recording", "invalid"}
                      /\ client'[d].state = "executable" => server'[Remote(d)].state = "executable"
    <3>1. \A c \in Live : Remote(c)' = Remote(c)
      BY <1>a DEF Remote
    <3> QED
      BY <1>7, <3>1 DEF StatesAgree
  <2>1. Remote(d) \in Held /\ (d \in SlotsOf(p) <=> Remote(d) \in HandlesOf(p))
    BY <1>1, LiveIsHeld DEF SlotsOf, HandlesOf
  <2>2. CASE d \in SlotsOf(p)
    BY <1>a, <1>b, <2>1, <2>2
  <2>3. CASE d \notin SlotsOf(p)
    BY <1>1, <1>a, <1>b, <2>1, <2>3 DEF StatesAgree
  <2> QED
    BY <2>2, <2>3
<1> QED
  BY <1>1, <1>3, <1>9, <1>10, <1>11, NoRecords DEF BufferInv

\* A command that was recorded is performed: the buffer gets it, or becomes
\* invalid, or nothing happens.
LEMMA PerformRecordStep ==
    ASSUME BufferInv, PerformRecord
    PROVE  BufferInv'
<1> DEFINE h == Head(ring).handle
<1>1. TypeOK /\ HandlesMatch /\ StatesAgree /\ RecordsOfRecording
  BY DEF BufferInv
<1>2. ClientTypes /\ RingTypes /\ ServerTypes /\ HistoryTypes
  BY <1>1, TypeParts
<1>3. /\ ring # <<>> /\ Head(ring).op = "record" /\ ring' = Tail(ring)
      /\ UNCHANGED <<clientPools, client, serverPools, next, recorded, executed>>
  BY DEF PerformRecord
<1>4. Head(ring) \in AsyncCommand /\ ring' \in Seq(AsyncCommand) /\ Head(ring) = ring[1]
      /\ 1 \in 1..Len(ring)
  BY <1>2, <1>3 DEF RingTypes
<1>5. Head(ring).number \in Number
  BY <1>3, <1>4 DEF AsyncCommand
<1>6. \/ server' = server
      \/ h \in Held /\ server' = [server EXCEPT ![h].content = Append(@, Head(ring).number)]
      \/ h \in Held /\ server' = [server EXCEPT ![h].state = "invalid"]
  BY DEF PerformRecord, MarkInvalid
<1> HIDE DEF h
<1>7. /\ ServerTypes' /\ Held' = Held
      /\ \A k \in Held : server'[k].pool = server[k].pool
      /\ \A k \in Held : (k = h /\ server'[k].state = "invalid") \/ server'[k].state = server[k].state
  <2>1. CASE server' = server
    BY <1>2, <1>3, <2>1 DEF ServerTypes, Held
  <2>2. ASSUME h \in Held, NEW b \in ServerBuffer, b.pool = server[h].pool,
               b.state \in {server[h].state, "invalid"}, server' = [server EXCEPT ![h] = b]
        PROVE  /\ ServerTypes' /\ Held' = Held
               /\ \A k \in Held : server'[k].pool = server[k].pool
               /\ \A k \in Held : (k = h /\ server'[k].state = "invalid") \/ server'[k].state = server[k].state
    <3>1. \A k \in Held \ {h} : k \in Handle \ {h}
      BY DEF Held
    <3>2. /\ ServerTypes' /\ Held' = Held /\ server'[h] = b
          /\ \A k \in Handle \ {h} : server'[k] = server[k]
          /\ \A k \in Held : server'[k].pool = server[k].pool
      BY <1>2, <1>3, <2>2, ServerChange
    <3>3. \A k \in Held : (k = h /\ server'[k].state = "invalid") \/ server'[k].state = server[k].state
      BY <2>2, <3>1, <3>2
    <3> QED
      BY <3>2, <3>3
  <2>3. "invalid" \in States
    BY DEF States
  <2>4. CASE h \in Held /\ server' = [server EXCEPT ![h].content = Append(@, Head(ring).number)]
    <3>1. PICK b \in ServerBuffer :
            /\ b.pool = server[h].pool /\ b.state = server[h].state
            /\ [server EXCEPT ![h].content = Append(@, Head(ring).number)] = [server EXCEPT ![h] = b]
      BY <1>2, <1>5, <2>3, <2>4, ServerUpdates
    <3>2. server' = [server EXCEPT ![h] = b]
      BY <2>4, <3>1, Zenon
    <3> QED
      BY <2>2, <2>4, <3>1, <3>2
  <2>5. CASE h \in Held /\ server' = [server EXCEPT ![h].state = "invalid"]
    <3>1. PICK b \in ServerBuffer :
            /\ b.pool = server[h].pool /\ b.state = "invalid"
            /\ [server EXCEPT ![h].state = "invalid"] = [server EXCEPT ![h] = b]
      BY <1>2, <1>5, <2>3, <2>5, ServerUpdates
    <3>2. server' = [server EXCEPT ![h] = b]
      BY <2>5, <3>1, Zenon
    <3> QED
      BY <2>2, <2>5, <3>1, <3>2
  <2> QED
    BY <1>6, <2>1, <2>4, <2>5
<1>8. TypeOK'
  <2>1. \/ skipped' = skipped
        \/ skipped' = [c \in Slot |-> IF c \in Live /\ Remote(c) = h
                                      THEN skipped[c] \cup {Head(ring).number}
                                      ELSE skipped[c]]
    BY DEF PerformRecord, h
  <2>2. HistoryTypes'
    BY <1>2, <1>3, <1>5, <2>1 DEF HistoryTypes, history
  <2> QED
    BY <1>1, <1>2, <1>3, <1>4, <1>7, <2>2, TypesKept DEF ClientTypes, RingTypes
<1>9. Live' = Live /\ \A c \in Live : Remote(c)' = Remote(c)
  BY <1>3 DEF Live, Remote
<1>10. HandlesMatch'
  <2>1. \A k : ~Removes(Head(ring), k)
    BY <1>3 DEF Removes
  <2>2. \A k \in Held : Condemned(k)' <=> Condemned(k)
    BY <1>2, <1>3, <1>7, <2>1, CondemnedTail
  <2> QED
    BY <1>1, <1>3, <1>7, <1>9, <2>2, SameHandles
<1>11. StatesAgree'
  <2> SUFFICES ASSUME NEW c \in Live
               PROVE  /\ client[c].state = "initial" => server'[Remote(c)].state = "initial"
                      /\ client[c].state = "recording"
                            => server'[Remote(c)].state \in {"recording", "invalid"}
                      /\ client[c].state = "executable" => server'[Remote(c)].state = "executable"
    BY <1>3, <1>9 DEF StatesAgree
  <2>1. Remote(c) \in Held
    BY <1>1, LiveIsHeld
  <2>2. Remote(c) = h => client[c].state = "recording"
    BY <1>1, <1>3, <1>4 DEF RecordsOfRecording, h
  <2> QED
    BY <1>1, <1>7, <2>1, <2>2 DEF StatesAgree
<1> QED
  BY <1>1, <1>2, <1>3, <1>8, <1>10, <1>11, RecordsTail DEF BufferInv

\* The first command of the ring removes handles, as vkFreeCommandBuffers and
\* vkDestroyCommandPool do when they are performed.
LEMMA RemoveStep ==
    ASSUME BufferInv, ring # <<>>, Head(ring).op # "record", ring' = Tail(ring),
           server' = [h \in Handle |-> IF h \in Held /\ Removes(Head(ring), h)
                                       THEN Absent ELSE server[h]],
           PoolTypes', UNCHANGED <<client, next, history, executed>>
    PROVE  BufferInv'
<1>1. TypeOK /\ HandlesMatch /\ StatesAgree /\ RecordsOfRecording
  BY DEF BufferInv
<1>2. ClientTypes /\ RingTypes /\ ServerTypes /\ HistoryTypes
  BY <1>1, TypeParts
<1>3. Live' = Live /\ \A c \in Live : Remote(c)' = Remote(c)
  BY DEF Live, Remote
<1>4. /\ Held' = {h \in Held : ~Removes(Head(ring), h)}
      /\ \A h \in Held' : server'[h] = server[h]
  <2>1. \A h \in Handle : h \in Held /\ Removes(Head(ring), h) => server'[h] = Absent
    OBVIOUS
  <2>2. \A h \in Handle : ~(h \in Held /\ Removes(Head(ring), h)) => server'[h] = server[h]
    OBVIOUS
  <2> QED
    BY <2>1, <2>2 DEF Held
<1>5. TypeOK'
  <2>1. server' \in [Handle -> ServerBuffer \cup {Absent}]
    BY <1>2 DEF ServerTypes
  <2>2. ServerTypes'
    BY <1>2, <1>4, <2>1 DEF ServerTypes
  <2>3. RingTypes'
    BY <1>2 DEF RingTypes
  <2>4. ClientTypes' /\ HistoryTypes'
    BY <1>2 DEF ClientTypes, HistoryTypes, history
  <2> QED
    BY <2>2, <2>3, <2>4, TypePartsPrimed
<1>6. \A h \in Held' : Condemned(h) <=> Condemned(h)'
  BY <1>2, <1>4, CondemnedTail
<1>7. ASSUME NEW c \in Live, NEW h, h = Remote(c)
      PROVE  h \in Held' /\ ~Condemned(h)' /\ server'[h] = server[h]
  <2>1. h \in Held /\ ~Condemned(h)
    BY <1>1, <1>7 DEF HandlesMatch
  <2>2. ~Removes(Head(ring), h)
    <3>1. /\ Head(ring) = ring[1] /\ 1 \in 1..Len(ring)
      BY <1>2 DEF RingTypes
    <3> QED
      BY <2>1, <3>1 DEF Condemned, Removes
  <2>3. h \in Held' /\ server'[h] = server[h]
    BY <1>4, <2>1, <2>2
  <2> QED
    BY <1>6, <2>1, <2>3
<1>8. HandlesMatch'
  <2>1. ASSUME NEW c \in Live'
        PROVE  (/\ Remote(c) \in Held /\ ~Condemned(Remote(c))
                /\ client[c].pool = server[Remote(c)].pool
                /\ \A d \in Live : Remote(c) = Remote(d) => c = d)'
    <3>1. PICK h : h = Remote(c)
      OBVIOUS
    <3>2. h = Remote(c)' /\ c \in Live
      BY <1>3, <3>1
    <3>3. client'[c].pool = client[c].pool /\ client[c].pool = server[h].pool
      BY <1>1, <3>1, <3>2 DEF HandlesMatch
    <3>4. \A d \in Live : h = Remote(d) => c = d
      BY <1>1, <3>1, <3>2 DEF HandlesMatch
    <3> QED
      BY <1>3, <1>7, <3>1, <3>2, <3>3, <3>4
  <2>2. \A h \in Held' : Condemned(h)' \/ \E c \in Live' : Remote(c)' = h
    BY <1>1, <1>3, <1>4, <1>6 DEF HandlesMatch
  <2> QED
    BY <2>1, <2>2 DEF HandlesMatch
<1>9. StatesAgree'
  <2>1. \A c \in Live : server'[Remote(c)] = server[Remote(c)]
    BY <1>7
  <2> QED
    BY <1>1, <1>3, <2>1 DEF StatesAgree
<1> QED
  BY <1>1, <1>2, <1>5, <1>8, <1>9, RecordsTail DEF BufferInv

LEMMA PerformFreeStep ==
    ASSUME BufferInv, PerformFree
    PROVE  BufferInv'
<1>1. /\ ring # <<>> /\ Head(ring).op = "free" /\ ring' = Tail(ring)
      /\ server' = [h \in Handle |-> IF h \in Head(ring).handles THEN Absent ELSE server[h]]
      /\ UNCHANGED <<clientPools, serverPools, client, next, history, executed>>
  BY DEF PerformFree
<1>2. \A h \in Handle : h \notin Held => server[h] = Absent
  BY DEF Held
<1>3. \A h : Removes(Head(ring), h) <=> h \in Head(ring).handles
  BY <1>1 DEF Removes
<1>4. server' = [h \in Handle |-> IF h \in Held /\ Removes(Head(ring), h)
                                 THEN Absent ELSE server[h]]
  BY <1>1, <1>2, <1>3
<1>5. PoolTypes'
  BY <1>1, TypeParts DEF BufferInv, PoolTypes
<1> QED
  BY <1>1, <1>4, <1>5, RemoveStep

LEMMA PerformDestroyStep ==
    ASSUME BufferInv, PerformDestroy
    PROVE  BufferInv'
<1>1. /\ ring # <<>> /\ Head(ring).op = "destroy" /\ ring' = Tail(ring)
      /\ server' = [h \in Handle |->
                     IF h \in HandlesOf(Head(ring).pool) THEN Absent ELSE server[h]]
      /\ serverPools' = serverPools \ {Head(ring).pool}
      /\ UNCHANGED <<clientPools, client, next, history, executed>>
  BY DEF PerformDestroy
<1>2. \A h : h \in Held /\ Removes(Head(ring), h) <=> h \in HandlesOf(Head(ring).pool)
  BY <1>1 DEF Removes, HandlesOf
<1>3. server' = [h \in Handle |-> IF h \in Held /\ Removes(Head(ring), h)
                                 THEN Absent ELSE server[h]]
  BY <1>1, <1>2
<1>4. PoolTypes'
  BY <1>1, TypeParts DEF BufferInv, PoolTypes
<1> QED
  BY <1>1, <1>3, <1>4, RemoveStep

\* An injection into as many handles as there are buffers uses each of them.
LEMMA EveryHandleIsUsed ==
    ASSUME NEW S \in SUBSET Slot, NEW n \in Nat, n = Cardinality(S), NEW a \in Nat,
           NEW f \in [S -> a..(a + n - 1)], IsInjective(f)
    PROVE  \A h \in a..(a + n - 1) : \E c \in S : f[c] = h
<1> DEFINE T == a..(a + n - 1)
<1>1. IsFiniteSet(S)
  BY LifecycleAssumption, FS_Subset
<1>2. IsFiniteSet(T) /\ Cardinality(T) = n
  <2>1. PICK b \in Int : b = a + n - 1
    OBVIOUS
  <2>a. a \in Int
    OBVIOUS
  <2>2. IsFiniteSet(a..b) /\ Cardinality(a..b) = IF a > b THEN 0 ELSE b - a + 1
    BY <2>a, FS_Interval
  <2>3. (IF a > b THEN 0 ELSE b - a + 1) = n
    BY <2>1
  <2> QED
    BY <2>1, <2>2, <2>3
<1>3. f \in Injection(S, T)
  BY DEF Injection
<1> HIDE DEF T
<1>4. f \in Surjection(S, T)
  BY <1>1, <1>2, <1>3, FS_Injection
<1> QED
  BY <1>4 DEF Surjection, T

\* vkAllocateCommandBuffers, as far as the server goes: new handles, which
\* nothing on its way removes.
LEMMA AllocateOnServer ==
    ASSUME BufferInv, NEW p \in Pool, NEW S \in SUBSET Slot, Allocate(p, S)
    PROVE  LET n == Cardinality(S)
               handles == next..(next + n - 1)
           IN  /\ n \in Nat /\ n # 0 /\ ring = <<>>
               /\ handles \subseteq Handle /\ handles \cap Held = {}
               /\ Held' = Held \cup handles /\ ServerTypes'
               /\ \A h \in Held : server'[h] = server[h]
               /\ \A h \in handles : server'[h].pool = p /\ server'[h].state = "initial"
<1> DEFINE n == Cardinality(S)
           handles == next..(next + n - 1)
           fresh == [state |-> "initial", pool |-> p, content |-> <<>>]
<1>1. ServerTypes /\ next \in Nat /\ \A h \in Held : h \in Nat /\ h < next
  BY TypeParts, LifecycleAssumption DEF BufferInv, ServerTypes, Held, Handle
<1>2. n \in Nat /\ n # 0
  <2>1. IsFiniteSet(S) /\ S # {}
    BY LifecycleAssumption, FS_Subset DEF Allocate
  <2> QED
    BY <2>1, FS_CardinalityType, FS_EmptySet
<1>3. /\ ring = <<>> /\ handles \subseteq Handle
      /\ next' = next + n
      /\ server' = [h \in Handle |-> IF h \in handles THEN fresh ELSE server[h]]
  BY DEF Allocate, CanCall, GiveOut
<1>4. handles \cap Held = {}
  BY <1>1, <1>2
<1>5. fresh \in ServerBuffer /\ fresh.pool = p /\ fresh.state = "initial"
  <2>1. <<>> \in Seq(Number)
    OBVIOUS
  <2> QED
    BY <2>1 DEF ServerBuffer, States
<1>6. \A h \in handles : h < next + n /\ h \in Nat
  BY <1>1, <1>2
<1>7. next + n - 1 \in handles
  BY <1>1, <1>2
<1>8. next' \in 1..(MaxHandle + 1)
  <2>1. next + n - 1 \in 1..MaxHandle
    BY <1>3, <1>7 DEF Handle
  <2> QED
    BY <1>1, <1>2, <1>3, <2>1, LifecycleAssumption
<1> HIDE DEF fresh, handles, n
<1>9. /\ \A h \in handles : server'[h] = fresh
      /\ \A h \in Handle \ handles : server'[h] = server[h]
  BY <1>3
<1>10. Held' = Held \cup handles
  BY <1>3, <1>5, <1>9, AbsentIsNoBuffer DEF Held
<1>11. \A h \in Held : server'[h] = server[h]
  BY <1>4, <1>9 DEF Held
<1>12. ServerTypes'
  <2>1. server' \in [Handle -> ServerBuffer \cup {Absent}]
    BY <1>1, <1>3, <1>5 DEF ServerTypes
  <2>2. \A h \in Held' : h < next'
    BY <1>1, <1>2, <1>3, <1>6, <1>10
  <2> QED
    BY <1>8, <2>1, <2>2 DEF ServerTypes
<1>13. \A h \in handles : server'[h].pool = p /\ server'[h].state = "initial"
  BY <1>5, <1>9
<1> QED
  BY <1>2, <1>3, <1>4, <1>10, <1>11, <1>12, <1>13 DEF handles, n

LEMMA AllocateStep ==
    ASSUME BufferInv, NEW p \in Pool, NEW S \in SUBSET Slot, Allocate(p, S)
    PROVE  BufferInv'
<1> DEFINE n == Cardinality(S)
           handles == next..(next + n - 1)
<1>1. TypeOK /\ HandlesMatch /\ StatesAgree
  BY DEF BufferInv
<1>2. PoolTypes /\ ClientTypes /\ RingTypes /\ ServerTypes /\ HistoryTypes /\ next \in Nat
  BY <1>1, TypeParts, LifecycleAssumption DEF ServerTypes
<1>3. /\ n \in Nat /\ n # 0 /\ ring = <<>>
      /\ handles \subseteq Handle /\ handles \cap Held = {}
      /\ Held' = Held \cup handles /\ ServerTypes'
      /\ \A h \in Held : server'[h] = server[h]
      /\ \A h \in handles : server'[h].pool = p /\ server'[h].state = "initial"
  BY AllocateOnServer
<1>4. /\ S \cap Live = {} /\ UNCHANGED <<clientPools, serverPools, history, executed>>
  BY DEF Allocate
<1>5. PoolTypes' /\ HistoryTypes'
  BY <1>2, <1>4 DEF PoolTypes, HistoryTypes, history
<1>6. \A h : ~Condemned(h)
  BY <1>3 DEF Condemned
<1>7. \A c \in Live : \A h : h = Remote(c) =>
        /\ h \in Held /\ h \notin handles
        /\ client[c].pool = server'[h].pool
        /\ \A d \in Live : h = Remote(d) => c = d
  BY <1>1, <1>3 DEF HandlesMatch
<1>8. \A h \in Held : \E c \in Live : Remote(c) = h
  BY <1>1, <1>6 DEF HandlesMatch
<1>9. ASSUME NEW f \in [S -> handles], IsInjective(f), ring' = ring,
             client' = [c \in Slot |->
                        IF c \in S
                        THEN [state |-> "initial", pool |-> p, remote |-> f[c]]
                        ELSE client[c]]
      PROVE  BufferInv'
  <2>1. \A h \in handles : \E c \in S : f[c] = h
    <3>1. S \in SUBSET Slot /\ n \in Nat /\ n = Cardinality(S) /\ next \in Nat
      BY <1>2, <1>3
    <3>2. f \in [S -> next..(next + n - 1)] /\ IsInjective(f)
      BY <1>9
    <3> HIDE DEF n
    <3> QED
      BY <3>1, <3>2, EveryHandleIsUsed
  <2> HIDE DEF handles
  <2>2. \A c \in S : f[c] \in handles /\ f[c] \in Handle
    BY <1>3
  <2>3. \A c \in S : client'[c] = [state |-> "initial", pool |-> p, remote |-> f[c]]
    BY <1>9
  <2>4. ASSUME NEW c \in S
        PROVE  /\ client'[c] \in ClientBuffer /\ client'[c].state = "initial"
               /\ client'[c].pool = p /\ client'[c].remote = f[c]
    <3>1. PICK r \in Handle : r = f[c]
      BY <2>2
    <3>2. [state |-> "initial", pool |-> p, remote |-> r] \in ClientBuffer
      BY DEF ClientBuffer, States
    <3> QED
      BY <2>3, <3>1, <3>2
  <2>5. \A c \in Slot \ S : client'[c] = client[c]
    BY <1>9
  <2>6. Live' = Live \cup S
    BY <1>4, <2>4, <2>5, AbsentIsNoBuffer DEF Live
  <2>7. ClientTypes'
    BY <1>2, <1>9, <2>4, <2>5 DEF ClientTypes
  <2>8. TypeOK'
    BY <1>2, <1>3, <1>5, <1>9, <2>7, TypePartsPrimed DEF RingTypes
  <2>9. /\ \A c \in S : Remote(c)' = f[c]
        /\ \A c \in Live : c \notin S /\ client'[c] = client[c] /\ Remote(c)' = Remote(c)
    <3>1. \A c \in Live : c \in Slot \ S
      BY <1>4 DEF Live
    <3> QED
      BY <2>4, <2>5, <3>1 DEF Remote
  <2>10. \A h : ~Condemned(h)'
    BY <1>3, <1>9 DEF Condemned
  <2>11. \A c \in S, d \in S : f[c] = f[d] => c = d
    BY <1>9 DEF IsInjective
  <2>12. ASSUME NEW c \in Live', NEW h, h = Remote(c)'
         PROVE  /\ h \in Held'
                /\ client'[c].pool = server'[h].pool
                /\ \A d \in Live' : h = Remote(d)' => c = d
    <3>1. CASE c \in S
      <4>1. h = f[c] /\ h \in handles /\ client'[c].pool = p
        BY <2>2, <2>4, <2>9, <2>12, <3>1
      <4>2. \A d \in Live : Remote(d)' # h
        BY <1>7, <2>9, <4>1
      <4> QED
        BY <1>3, <2>6, <2>9, <2>11, <3>1, <4>1, <4>2
    <3>2. CASE c \in Live
      <4>1. h = Remote(c) /\ client'[c] = client[c]
        BY <2>9, <2>12, <3>2
      <4>2. h \in Held /\ h \notin handles /\ client[c].pool = server'[h].pool
        BY <1>7, <3>2, <4>1
      <4>3. \A d \in S : Remote(d)' # h
        BY <2>2, <2>9, <4>2
      <4>4. \A d \in Live : h = Remote(d)' => c = d
        BY <1>7, <2>9, <3>2, <4>1
      <4> QED
        BY <1>3, <2>6, <4>1, <4>2, <4>3, <4>4
    <3> QED
      BY <2>6, <3>1, <3>2
  <2>13. \A h \in Held' : \E c \in Live' : Remote(c)' = h
    BY <1>3, <1>8, <2>1, <2>6, <2>9
  <2>14. HandlesMatch'
    BY <2>10, <2>12, <2>13 DEF HandlesMatch
  <2>15. StatesAgree'
    <3>1. ASSUME NEW c \in S, NEW h, h = Remote(c)'
          PROVE  client'[c].state = "initial" /\ server'[h].state = "initial"
      BY <1>3, <2>2, <2>4, <2>9, <3>1
    <3>2. ASSUME NEW c \in Live, NEW h, h = Remote(c)'
          PROVE  client'[c].state = client[c].state /\ server'[h].state = server[h].state
                 /\ h = Remote(c)
      BY <1>3, <1>7, <2>9, <3>2
    <3>3. ASSUME NEW c \in Live', NEW h, h = Remote(c)'
          PROVE  /\ client'[c].state = "initial" => server'[h].state = "initial"
                 /\ client'[c].state = "recording" => server'[h].state \in {"recording", "invalid"}
                 /\ client'[c].state = "executable" => server'[h].state = "executable"
      <4>1. CASE c \in S
        BY <3>1, <3>3, <4>1
      <4>2. CASE c \in Live
        BY <1>1, <3>2, <3>3, <4>2 DEF StatesAgree
      <4> QED
        BY <2>6, <4>1, <4>2
    <3> QED
      BY <3>3 DEF StatesAgree
  <2>16. RecordsOfRecording'
    BY <1>3, <1>9, NoRecords
  <2> QED
    BY <2>8, <2>14, <2>15, <2>16 DEF BufferInv
<1>10. ASSUME FreeRemote(handles), client' = client PROVE BufferInv'
  <2> DEFINE command == [op |-> "free", handles |-> handles]
  <2>1. ring' = Append(<<>>, command)
    BY <1>3, <1>10 DEF FreeRemote, SendAsync
  <2>2. command \in AsyncCommand
    BY <1>3 DEF AsyncCommand
  <2> HIDE DEF handles
  <2>3. Len(ring') = 1 /\ ring'[1] = command /\ RingTypes'
    <3>1. <<>> \in Seq(AsyncCommand)
      OBVIOUS
    <3> HIDE DEF command
    <3> QED
      BY <2>1, <2>2, <3>1 DEF RingTypes
  <2>4. TypeOK'
    BY <1>2, <1>3, <1>5, <1>10, <2>3, TypePartsPrimed DEF ClientTypes
  <2>5. Live' = Live /\ \A c \in Live : Remote(c)' = Remote(c)
    BY <1>10 DEF Live, Remote
  <2>6. \A h : Condemned(h)' <=> h \in handles
    BY <2>3 DEF Condemned
  <2>7. ASSUME NEW c \in Live', NEW h, h = Remote(c)'
        PROVE  /\ h \in Held' /\ ~Condemned(h)'
               /\ client'[c].pool = server'[h].pool
               /\ \A d \in Live' : h = Remote(d)' => c = d
    BY <1>3, <1>7, <1>10, <2>5, <2>6, <2>7
  <2>8. \A h \in Held' : Condemned(h)' \/ \E c \in Live' : Remote(c)' = h
    BY <1>3, <1>8, <2>5, <2>6
  <2>9. HandlesMatch'
    BY <2>7, <2>8 DEF HandlesMatch
  <2>10. StatesAgree'
    <3>1. \A c \in Live : server'[Remote(c)] = server[Remote(c)]
      BY <1>3, <1>7
    <3> QED
      BY <1>1, <1>10, <2>5, <3>1 DEF StatesAgree
  <2>11. RecordsOfRecording'
    BY <2>3 DEF RecordsOfRecording
  <2> QED
    BY <2>4, <2>9, <2>10, <2>11 DEF BufferInv
<1> QED
  BY <1>9, <1>10 DEF Allocate

LEMMA CreateOrSubmitStep ==
    ASSUME BufferInv, (\E p \in Pool : CreatePool(p)) \/ (\E c \in Slot : Submit(c))
    PROVE  BufferInv'
<1>1. PoolTypes /\ ServerTypes /\ HistoryTypes /\ HandlesMatch
  BY TypeParts DEF BufferInv
<1>2. UNCHANGED <<client, ring, server, next, history>>
  BY DEF CreatePool, Submit
<1>3. CASE \E p \in Pool : CreatePool(p)
  BY <1>1, <1>2, <1>3, NoBuffer DEF CreatePool, PoolTypes, HistoryTypes, history
<1>4. ASSUME NEW c \in Slot, Submit(c) PROVE BufferInv'
  <2>1. c \in Live /\ UNCHANGED <<clientPools, serverPools>>
        /\ executed' = [recorded |-> recorded[c], skipped |-> skipped[c],
                        run |-> server[Remote(c)].content]
    BY <1>4 DEF Submit
  <2>2. /\ server[Remote(c)].content \in Seq(Number)
        /\ recorded[c] \in 0..MaxCommands /\ skipped[c] \in SUBSET Number
    BY <1>1, <2>1, LiveIsHeld, HeldTypes DEF HistoryTypes, history, Live
  <2>3. HistoryTypes'
    BY <1>1, <1>2, <2>1, <2>2 DEF HistoryTypes, history
  <2>4. PoolTypes'
    BY <1>1, <2>1 DEF PoolTypes
  <2> QED
    BY <1>2, <2>3, <2>4, NoBuffer
<1> QED
  BY <1>3, <1>4

LEMMA InitBuffers == Init => BufferInv
<1> SUFFICES ASSUME Init PROVE BufferInv
  OBVIOUS
<1>1. Live = {} /\ Held = {}
  BY DEF Init, Live, Held
<1> QED
  BY <1>1, InitTypes DEF BufferInv, HandlesMatch, StatesAgree, RecordsOfRecording

LEMMA BuffersStep == BufferInv /\ [Next]_vars => BufferInv'
<1> SUFFICES ASSUME BufferInv, [Next]_vars PROVE BufferInv'
  OBVIOUS
<1>1. CASE UNCHANGED vars
  <2>1. UNCHANGED <<client, ring, server, next>>
    BY <1>1 DEF vars
  <2>2. PoolTypes' /\ HistoryTypes'
    BY <1>1, TypeParts DEF BufferInv, vars, PoolTypes, HistoryTypes, history
  <2> QED
    BY <2>1, <2>2, NoBuffer
<1>2. CASE Pools
  BY <1>2, CreateOrSubmitStep, DestroyStep, ResetPoolStep, AllocateStep, FreeStep DEF Pools
<1>3. CASE Buffers
  BY <1>3, BeginStep, RecordStep, EndStep, ResetStep, CreateOrSubmitStep DEF Buffers
<1>4. CASE PerformRecord \/ PerformFree \/ PerformDestroy
  BY <1>4, PerformRecordStep, PerformFreeStep, PerformDestroyStep
<1> QED
  BY <1>1, <1>2, <1>3, <1>4 DEF Next

LEMMA BuffersHold == Spec => []BufferInv
BY InitBuffers, BuffersStep, PTL DEF Spec

-----------------------------------------------------------------------------
(* What is recorded and what is executed.                                  *)

RecordFor(command, h) == command.op = "record" /\ command.handle = h

LEMMA AppendElements ==
    ASSUME NEW S, NEW s \in Seq(S), NEW e \in S
    PROVE  /\ Append(s, e) \in Seq(S) /\ Len(s) \in Nat
           /\ Len(Append(s, e)) = Len(s) + 1
           /\ \A i \in 1..Len(s) : Append(s, e)[i] = s[i]
           /\ Append(s, e)[Len(s) + 1] = e
OBVIOUS

LEMMA TailElements ==
    ASSUME NEW S, NEW s \in Seq(S), s # <<>>
    PROVE  /\ Tail(s) \in Seq(S) /\ Len(s) \in Nat /\ Len(s) > 0
           /\ Len(Tail(s)) = Len(s) - 1
           /\ \A i \in 1..(Len(s) - 1) : Tail(s)[i] = s[i + 1]
           /\ Head(s) = s[1] /\ Head(s) \in S
OBVIOUS

\* Of the commands 1..n but those of K the contents s of a buffer h has the first
\* ones, and the ring q has the others.
InOrder(s, q, h) ==
    /\ \A i, j \in 1..Len(s) : i < j => s[i] < s[j]
    /\ \A i \in 1..Len(s), j \in 1..Len(q) : RecordFor(q[j], h) => s[i] < q[j].number
    /\ \A i, j \in 1..Len(q) :
            i < j /\ RecordFor(q[i], h) /\ RecordFor(q[j], h) => q[i].number < q[j].number
Exactly(n, K, s, q, h) ==
    /\ K \subseteq 1..n
    /\ \A i \in 1..Len(s) : s[i] \in 1..n \ K
    /\ \A j \in 1..Len(q) : RecordFor(q[j], h) => q[j].number \in 1..n \ K
    /\ \A m \in 1..n \ K : \/ \E i \in 1..Len(s) : s[i] = m
                           \/ \E j \in 1..Len(q) : RecordFor(q[j], h) /\ q[j].number = m
Partly(n, K, s, q, h) == InOrder(s, q, h) /\ Exactly(n, K, s, q, h)

\* As long as both sides record, nothing is lost; what is executable has it all.
Whole(state, n, K, b, q, h) ==
    /\ state = "recording" /\ b.state = "recording" => Partly(n, K, b.content, q, h)
    /\ state = "executable" => Partly(n, K, b.content, <<>>, h)

WholeBuffers ==
    \A c \in Live :
        Whole(client[c].state, recorded[c], skipped[c], server[Remote(c)], ring, Remote(c))

ContentInv == WholeBuffers /\ RunsAllButSkipped

\* A command that is none for h is sent, or is performed.
LEMMA PartlyWhileOther ==
    ASSUME NEW n \in Nat, NEW K, NEW s \in Seq(Number), NEW h, NEW q \in Seq(AsyncCommand),
           Partly(n, K, s, q, h)
    PROVE  /\ \A command \in AsyncCommand :
                ~RecordFor(command, h) => Partly(n, K, s, Append(q, command), h)
           /\ q # <<>> /\ ~RecordFor(Head(q), h) => Partly(n, K, s, Tail(q), h)
<1>1. ASSUME NEW command \in AsyncCommand, ~RecordFor(command, h)
      PROVE  Partly(n, K, s, Append(q, command), h)
  <2> DEFINE r == Append(q, command)
  <2>1. /\ Len(q) \in Nat /\ Len(r) = Len(q) + 1 /\ r[Len(q) + 1] = command
        /\ \A i \in 1..Len(q) : r[i] = q[i]
    BY AppendElements
  <2> HIDE DEF r
  <2>2. \A i \in 1..Len(r) : RecordFor(r[i], h) => i \in 1..Len(q) /\ r[i] = q[i]
    <3>1. \A i \in 1..Len(r) : i \in 1..Len(q) \/ i = Len(q) + 1
      BY <2>1
    <3> QED
      BY <1>1, <2>1, <3>1
  <2>3. \A i \in 1..Len(q) : i \in 1..Len(r) /\ r[i] = q[i]
    BY <2>1
  <2>4. InOrder(s, r, h)
    BY <2>2 DEF Partly, InOrder
  <2>5. Exactly(n, K, s, r, h)
    BY <2>2, <2>3 DEF Partly, Exactly
  <2> QED
    BY <2>4, <2>5 DEF Partly, r
<1>2. ASSUME q # <<>>, ~RecordFor(Head(q), h) PROVE Partly(n, K, s, Tail(q), h)
  <2> DEFINE r == Tail(q)
  <2>1. /\ Len(q) \in Nat /\ Len(q) > 0 /\ Len(r) = Len(q) - 1 /\ Head(q) = q[1]
        /\ \A i \in 1..(Len(q) - 1) : r[i] = q[i + 1]
    BY <1>2, TailElements
  <2> HIDE DEF r
  <2>2. \A i \in 1..Len(r) : i + 1 \in 1..Len(q) /\ r[i] = q[i + 1] /\ i \in Nat
    BY <2>1
  <2>3. \A i \in 1..Len(q) : RecordFor(q[i], h) =>
            i - 1 \in 1..Len(r) /\ r[i - 1] = q[i]
    <3> SUFFICES ASSUME NEW i \in 1..Len(q), RecordFor(q[i], h)
                 PROVE  i - 1 \in 1..Len(r) /\ r[i - 1] = q[i]
      OBVIOUS
    <3>1. i # 1
      BY <1>2, <2>1
    <3>2. i - 1 \in 1..(Len(q) - 1) /\ (i - 1) + 1 = i
      BY <2>1, <3>1
    <3> QED
      BY <2>1, <3>2
  <2>4. InOrder(s, r, h)
    <3>1. \A i, j \in 1..Len(r) : i < j => i + 1 < j + 1
      BY <2>2
    <3> QED
      BY <2>2, <3>1 DEF Partly, InOrder
  <2>5. Exactly(n, K, s, r, h)
    <3>1. \A j \in 1..Len(r) : RecordFor(r[j], h) => r[j].number \in 1..n \ K
      BY <2>2 DEF Partly, Exactly
    <3>2. ASSUME NEW m \in 1..n \ K
          PROVE  \/ \E i \in 1..Len(s) : s[i] = m
                 \/ \E j \in 1..Len(r) : RecordFor(r[j], h) /\ r[j].number = m
      <4>1. ASSUME NEW j \in 1..Len(q), RecordFor(q[j], h), q[j].number = m
            PROVE  \E i \in 1..Len(r) : RecordFor(r[i], h) /\ r[i].number = m
        <5>1. j - 1 \in 1..Len(r) /\ r[j - 1] = q[j]
          BY <2>3, <4>1
        <5> QED
          BY <4>1, <5>1
      <4> QED
        BY <4>1 DEF Partly, Exactly
    <3> QED
      BY <3>1, <3>2 DEF Partly, Exactly
  <2> QED
    BY <2>4, <2>5 DEF Partly, r
<1> QED
  BY <1>1, <1>2

LEMMA WholeWhileOther ==
    ASSUME NEW state, NEW n \in Nat, NEW K, NEW b \in ServerBuffer, NEW h,
           NEW q \in Seq(AsyncCommand), Whole(state, n, K, b, q, h)
    PROVE  /\ \A command \in AsyncCommand :
                ~RecordFor(command, h) => Whole(state, n, K, b, Append(q, command), h)
           /\ q # <<>> /\ ~RecordFor(Head(q), h) => Whole(state, n, K, b, Tail(q), h)
<1>1. b.content \in Seq(Number)
  BY DEF ServerBuffer
<1> QED
  BY <1>1, PartlyWhileOther DEF Whole

\* One command more is recorded: vkCmd* sends it, or skips it.
LEMMA PartlyWhenSent ==
    ASSUME NEW n \in Nat, NEW K, NEW s \in Seq(Number), NEW h, NEW q \in Seq(AsyncCommand),
           Partly(n, K, s, q, h),
           NEW command \in AsyncCommand, RecordFor(command, h), command.number = n + 1
    PROVE  Partly(n + 1, K, s, Append(q, command), h)
<1> DEFINE r == Append(q, command)
<1>1. /\ Len(q) \in Nat /\ Len(r) = Len(q) + 1 /\ r[Len(q) + 1] = command
      /\ \A i \in 1..Len(q) : r[i] = q[i]
  BY AppendElements
<1>k. K \subseteq 1..n /\ K \subseteq 1..(n + 1)
  BY DEF Partly, Exactly
<1> HIDE DEF r
<1>2. \A i \in 1..Len(r) : (i \in 1..Len(q) /\ r[i] = q[i]) \/ (i = Len(q) + 1 /\ r[i] = command)
  <2>1. \A i \in 1..Len(r) : i \in 1..Len(q) \/ i = Len(q) + 1
    BY <1>1
  <2> QED
    BY <1>1, <2>1
<1>3. /\ \A i \in 1..Len(q) : i \in 1..Len(r) /\ r[i] = q[i] /\ i < Len(q) + 1
      /\ Len(q) + 1 \in 1..Len(r)
  BY <1>1
<1>4. /\ \A m \in 1..n \ K : m < n + 1 /\ m \in 1..(n + 1) \ K
      /\ n + 1 \in 1..(n + 1) \ K
      /\ \A m \in 1..(n + 1) \ K : m = n + 1 \/ m \in 1..n \ K
  BY <1>k
<1>5. InOrder(s, r, h)
  <2>1. \A i \in 1..Len(s), j \in 1..Len(r) : RecordFor(r[j], h) => s[i] < r[j].number
    BY <1>2, <1>4 DEF Partly, InOrder, Exactly
  <2>2. ASSUME NEW i \in 1..Len(r), NEW j \in 1..Len(r), i < j,
               RecordFor(r[i], h), RecordFor(r[j], h)
        PROVE  r[i].number < r[j].number
    <3>1. i \in 1..Len(q) /\ r[i] = q[i]
      BY <1>1, <1>2, <2>2
    <3>2. q[i].number \in 1..n \ K
      BY <2>2, <3>1 DEF Partly, Exactly
    <3>3. CASE j = Len(q) + 1 /\ r[j] = command
      BY <1>4, <3>1, <3>2, <3>3
    <3>4. CASE j \in 1..Len(q) /\ r[j] = q[j]
      BY <2>2, <3>1, <3>4 DEF Partly, InOrder
    <3> QED
      BY <1>2, <3>3, <3>4
  <2> QED
    BY <2>1, <2>2 DEF Partly, InOrder
<1>6. Exactly(n + 1, K, s, r, h)
  <2>1. /\ \A i \in 1..Len(s) : s[i] \in 1..(n + 1) \ K
        /\ \A j \in 1..Len(r) : RecordFor(r[j], h) => r[j].number \in 1..(n + 1) \ K
    BY <1>2, <1>4 DEF Partly, Exactly
  <2>2. ASSUME NEW m \in 1..(n + 1) \ K
        PROVE  \/ \E i \in 1..Len(s) : s[i] = m
               \/ \E j \in 1..Len(r) : RecordFor(r[j], h) /\ r[j].number = m
    BY <1>1, <1>3, <1>4 DEF Partly, Exactly
  <2> QED
    BY <1>k, <2>1, <2>2 DEF Exactly
<1> QED
  BY <1>5, <1>6 DEF Partly, r

LEMMA PartlyWhenNotSent ==
    ASSUME NEW n \in Nat, NEW K, NEW s \in Seq(Number), NEW h, NEW q, Partly(n, K, s, q, h)
    PROVE  Partly(n + 1, K \cup {n + 1}, s, q, h)
<1>1. K \subseteq 1..n
  BY DEF Partly, Exactly
<1>2. 1..(n + 1) \ (K \cup {n + 1}) = 1..n \ K /\ K \cup {n + 1} \subseteq 1..(n + 1)
  BY <1>1
<1> QED
  BY <1>2 DEF Partly, Exactly

\* The server performs a command: its buffer gets it, or it is skipped.
LEMMA PartlyWhenPerformed ==
    ASSUME NEW n \in Nat, NEW K, NEW s \in Seq(Number), NEW h, NEW q \in Seq(AsyncCommand),
           Partly(n, K, s, q, h), q # <<>>, RecordFor(Head(q), h), Head(q).number \in Number
    PROVE  /\ Partly(n, K, Append(s, Head(q).number), Tail(q), h)
           /\ Partly(n, K \cup {Head(q).number}, s, Tail(q), h)
<1> DEFINE r == Tail(q)
           x == Head(q).number
           t == Append(s, x)
<1>1. /\ Len(q) \in Nat /\ Len(q) > 0 /\ Len(r) = Len(q) - 1 /\ Head(q) = q[1]
      /\ \A i \in 1..(Len(q) - 1) : r[i] = q[i + 1]
  BY TailElements
<1>2. /\ Len(s) \in Nat /\ Len(t) = Len(s) + 1 /\ t[Len(s) + 1] = x
      /\ \A i \in 1..Len(s) : t[i] = s[i]
  BY AppendElements
<1>n. Number \subseteq Nat /\ \A i \in 1..Len(s) : s[i] \in Nat
  BY LifecycleAssumption DEF Number
<1> HIDE DEF r, t
<1>3. \A i \in 1..Len(r) : i + 1 \in 2..Len(q) /\ i + 1 \in 1..Len(q) /\ r[i] = q[i + 1] /\ i \in Nat
  BY <1>1
<1>4. \A i \in 1..Len(q) : i # 1 => i - 1 \in 1..Len(r) /\ r[i - 1] = q[i]
  <2> SUFFICES ASSUME NEW i \in 1..Len(q), i # 1 PROVE i - 1 \in 1..Len(r) /\ r[i - 1] = q[i]
    OBVIOUS
  <2>1. i - 1 \in 1..(Len(q) - 1) /\ (i - 1) + 1 = i
    BY <1>1
  <2> QED
    BY <1>1, <2>1
<1>5. /\ 1 \in 1..Len(q) /\ q[1].number = x /\ RecordFor(q[1], h)
      /\ \A j \in 2..Len(q) : 1 < j
  BY <1>1
<1>6. \A i \in 1..Len(t) : (i \in 1..Len(s) /\ t[i] = s[i]) \/ (i = Len(s) + 1 /\ t[i] = x)
  <2>1. \A i \in 1..Len(t) : i \in 1..Len(s) \/ i = Len(s) + 1
    BY <1>2
  <2> QED
    BY <1>2, <2>1
<1>7. /\ \A i \in 1..Len(s) : s[i] < x
      /\ x \in 1..n \ K
      /\ \A j \in 1..Len(r) : RecordFor(r[j], h) =>
            x < r[j].number /\ r[j].number \in 1..n \ K
  <2>1. \A i \in 1..Len(s) : s[i] < x
    BY <1>5 DEF Partly, InOrder
  <2>2. x \in 1..n \ K
    BY <1>5 DEF Partly, Exactly
  <2>3. ASSUME NEW j \in 1..Len(r), RecordFor(r[j], h)
        PROVE  x < r[j].number /\ r[j].number \in 1..n \ K
    BY <1>3, <1>5, <2>3 DEF Partly, InOrder, Exactly
  <2> QED
    BY <2>1, <2>2, <2>3
<1>8. \A i, j \in 1..Len(r) :
        i < j /\ RecordFor(r[i], h) /\ RecordFor(r[j], h) => r[i].number < r[j].number
  <2>1. \A i, j \in 1..Len(r) : i < j => i + 1 < j + 1
    BY <1>3
  <2> QED
    BY <1>3, <2>1 DEF Partly, InOrder
<1>9. \A i \in 1..Len(s), j \in 1..Len(r) : RecordFor(r[j], h) => s[i] < r[j].number
  BY <1>3 DEF Partly, InOrder
<1> HIDE DEF x
<1>10. Partly(n, K, t, r, h)
  <2>1. ASSUME NEW i \in 1..Len(t), NEW j \in 1..Len(t), i < j PROVE t[i] < t[j]
    <3>1. i \in 1..Len(s) /\ t[i] = s[i]
      BY <1>2, <1>6, <2>1
    <3> QED
      BY <1>6, <1>7, <2>1, <3>1 DEF Partly, InOrder
  <2>2. InOrder(t, r, h)
    BY <1>6, <1>7, <1>8, <1>9, <2>1 DEF InOrder
  <2>3. ASSUME NEW m \in 1..n \ K
        PROVE  \/ \E i \in 1..Len(t) : t[i] = m
               \/ \E j \in 1..Len(r) : RecordFor(r[j], h) /\ r[j].number = m
    <3>1. CASE \E i \in 1..Len(s) : s[i] = m
      <4>1. \A i \in 1..Len(s) : i \in 1..Len(t) /\ t[i] = s[i]
        BY <1>2
      <4> QED
        BY <3>1, <4>1
    <3>2. ASSUME NEW j \in 1..Len(q), RecordFor(q[j], h), q[j].number = m
          PROVE  \/ \E i \in 1..Len(t) : t[i] = m
                 \/ \E i \in 1..Len(r) : RecordFor(r[i], h) /\ r[i].number = m
      <4>1. CASE j = 1
        <5>1. Len(s) + 1 \in 1..Len(t)
          BY <1>2
        <5> QED
          BY <1>2, <1>5, <3>2, <4>1, <5>1
      <4>2. CASE j # 1
        BY <1>4, <3>2, <4>2
      <4> QED
        BY <4>1, <4>2
    <3> QED
      BY <3>1, <3>2 DEF Partly, Exactly
  <2>4. Exactly(n, K, t, r, h)
    BY <1>6, <1>7, <2>3 DEF Partly, Exactly
  <2> QED
    BY <2>2, <2>4 DEF Partly
<1>11. Partly(n, K \cup {x}, s, r, h)
  <2>1. InOrder(s, r, h)
    BY <1>8, <1>9 DEF Partly, InOrder
  <2>2. \A i \in 1..Len(s) : s[i] \in 1..n \ (K \cup {x})
    <3>1. \A i \in 1..Len(s) : s[i] # x
      BY <1>7, <1>n
    <3> QED
      BY <3>1 DEF Partly, Exactly
  <2>3. \A j \in 1..Len(r) : RecordFor(r[j], h) => r[j].number \in 1..n \ (K \cup {x})
    BY <1>7
  <2>4. ASSUME NEW m \in 1..n \ (K \cup {x})
        PROVE  \/ \E i \in 1..Len(s) : s[i] = m
               \/ \E j \in 1..Len(r) : RecordFor(r[j], h) /\ r[j].number = m
    <3>1. ASSUME NEW j \in 1..Len(q), RecordFor(q[j], h), q[j].number = m
          PROVE  \E i \in 1..Len(r) : RecordFor(r[i], h) /\ r[i].number = m
      <4>1. j # 1
        BY <1>5, <3>1
      <4> QED
        BY <1>4, <3>1, <4>1
    <3> QED
      BY <3>1 DEF Partly, Exactly
  <2>5. K \cup {x} \subseteq 1..n
    BY <1>7 DEF Partly, Exactly
  <2> QED
    BY <2>1, <2>2, <2>3, <2>4, <2>5 DEF Partly, Exactly
<1> QED
  BY <1>10, <1>11 DEF r, t, x

\* With nothing on its way, a buffer has all that is to run.
LEMMA AllThere ==
    ASSUME NEW n \in Nat, NEW K, NEW s \in Seq(Number), NEW h, Partly(n, K, s, <<>>, h)
    PROVE  /\ \A i, j \in DOMAIN s : i < j => s[i] < s[j]
           /\ Range(s) = 1..n \ K
<1>1. DOMAIN s = 1..Len(s) /\ Len(<<>>) = 0 /\ 1..0 = {}
  OBVIOUS
<1> QED
  BY <1>1 DEF Partly, InOrder, Exactly, Range

LEMMA NothingYet == \A h : Partly(0, {}, <<>>, <<>>, h)
<1>1. Len(<<>>) = 0 /\ 1..0 = {}
  OBVIOUS
<1> QED
  BY <1>1 DEF Partly, InOrder, Exactly

\* A buffer that no step touches, or only the ring with a command of another.
LEMMA Untouched ==
    ASSUME BufferInv, WholeBuffers, NEW c \in Live,
           client'[c].state = client[c].state, client'[c].remote = client[c].remote,
           recorded'[c] = recorded[c], skipped'[c] = skipped[c],
           server'[Remote(c)] = server[Remote(c)],
           \/ ring' = ring
           \/ \E command \in AsyncCommand :
                ring' = Append(ring, command) /\ ~RecordFor(command, Remote(c))
           \/ ring # <<>> /\ ring' = Tail(ring) /\ ~RecordFor(Head(ring), Remote(c))
    PROVE  Whole(client[c].state, recorded[c], skipped[c], server[Remote(c)], ring, Remote(c))'
<1> DEFINE h == Remote(c)
<1>1. h \in Held /\ server[h] \in ServerBuffer
  BY LiveIsHeld, HeldTypes, TypeParts DEF BufferInv
<1>2. recorded[c] \in Nat /\ ring \in Seq(AsyncCommand)
  BY LiveTypes, TypeParts DEF BufferInv, HistoryTypes, RingTypes
<1>3. Whole(client[c].state, recorded[c], skipped[c], server[h], ring, h)
  BY DEF WholeBuffers
<1>4. Remote(c)' = h
  BY DEF Remote
<1> HIDE DEF h
<1>5. Whole(client[c].state, recorded[c], skipped[c], server[h], ring', h)
  BY <1>1, <1>2, <1>3, WholeWhileOther DEF h
<1> QED
  BY <1>4, <1>5 DEF h

\* Calls that find the ring empty and change the records of one buffer.
LEMMA OneWhole ==
    ASSUME BufferInv, WholeBuffers, ring = <<>>, ring' = ring, NEW c \in Live, NEW st,
           client' = [client EXCEPT ![c].state = st],
           \A k \in Handle \ {Remote(c)} : server'[k] = server[k],
           \A d \in Slot \ {c} : recorded'[d] = recorded[d] /\ skipped'[d] = skipped[d],
           Whole(st, recorded'[c], skipped'[c], server'[Remote(c)], <<>>, Remote(c))
    PROVE  WholeBuffers'
<1>1. HandlesMatch /\ ClientTypes
  BY TypeParts DEF BufferInv
<1>2. /\ c \in Slot /\ client'[c].state = st /\ client'[c].remote = client[c].remote
      /\ client[c] \in ClientBuffer
  BY <1>1, LiveTypes DEF ClientTypes, ClientBuffer
<1>3. \A d \in Slot \ {c} : client'[d] = client[d]
  BY <1>1 DEF ClientTypes
<1>4. \A d \in Live' : d \in Live
  BY <1>2, <1>3 DEF Live
<1> SUFFICES ASSUME NEW d \in Live'
             PROVE  Whole(client[d].state, recorded[d], skipped[d], server[Remote(d)], ring, Remote(d))'
  BY DEF WholeBuffers
<1>5. d \in Live /\ d \in Slot
  BY <1>4 DEF Live
<1>6. CASE d = c
  BY <1>2, <1>6 DEF Remote
<1>7. CASE d # c
  <2>1. Remote(d) \in Handle \ {Remote(c)}
    BY <1>1, <1>5, <1>7 DEF HandlesMatch, Held
  <2>2. /\ client'[d] = client[d] /\ recorded'[d] = recorded[d] /\ skipped'[d] = skipped[d]
        /\ server'[Remote(d)] = server[Remote(d)]
    BY <1>3, <1>5, <1>7, <2>1
  <2> QED
    BY <1>5, <2>2, Untouched
<1> QED
  BY <1>6, <1>7

LEMMA BeginWhole ==
    ASSUME BufferInv, WholeBuffers, NEW c \in Slot, NEW simultaneous, Begin(c, simultaneous)
    PROVE  WholeBuffers'
<1>1. ring = <<>> /\ ring' = ring /\ c \in Live
  BY DEF Begin, CanCall
<1>2. /\ server \in [Handle -> ServerBuffer \cup {Absent}] /\ HistoryTypes
      /\ Remote(c) \in Held /\ Remote(c) \in Handle /\ server[Remote(c)] \in ServerBuffer
  BY <1>1, TypeParts, LiveIsHeld, HeldTypes DEF BufferInv, ServerTypes
<1>3. CASE /\ server' = [server EXCEPT ![Remote(c)].state = "recording",
                                      ![Remote(c)].content = <<>>]
           /\ client' = [client EXCEPT ![c].state = "recording"]
           /\ recorded' = [recorded EXCEPT ![c] = 0]
           /\ skipped' = [skipped EXCEPT ![c] = {}]
  <2>1. server'[Remote(c)].content = <<>>
    BY <1>2, <1>3 DEF ServerBuffer
  <2>2. /\ \A k \in Handle \ {Remote(c)} : server'[k] = server[k]
        /\ \A d \in Slot \ {c} : recorded'[d] = recorded[d] /\ skipped'[d] = skipped[d]
        /\ recorded'[c] = 0 /\ skipped'[c] = {}
    BY <1>2, <1>3 DEF HistoryTypes
  <2>3. Whole("recording", recorded'[c], skipped'[c], server'[Remote(c)], <<>>, Remote(c))
    BY <2>1, <2>2, NothingYet DEF Whole
  <2> QED
    BY <1>1, <1>3, <2>2, <2>3, OneWhole
<1>4. CASE client' = [client EXCEPT ![c].state = "invalid"] /\ UNCHANGED <<server, history>>
  <2>1. Whole("invalid", recorded'[c], skipped'[c], server'[Remote(c)], <<>>, Remote(c))
    BY DEF Whole
  <2> QED
    BY <1>1, <1>4, <2>1, OneWhole DEF history
<1> QED
  BY <1>3, <1>4 DEF Begin

LEMMA EndWhole ==
    ASSUME BufferInv, WholeBuffers, NEW c \in Slot, End(c)
    PROVE  WholeBuffers'
<1>1. /\ ring = <<>> /\ ring' = ring /\ c \in Live /\ client[c].state = "recording"
      /\ recorded' = recorded /\ skipped' = skipped
  BY DEF End, CanCall, history
<1>2. /\ server \in [Handle -> ServerBuffer \cup {Absent}]
      /\ Remote(c) \in Held /\ Remote(c) \in Handle /\ server[Remote(c)] \in ServerBuffer
  BY <1>1, TypeParts, LiveIsHeld, HeldTypes DEF BufferInv, ServerTypes
<1>3. CASE /\ server' = [server EXCEPT ![Remote(c)].state = "executable"]
           /\ client' = [client EXCEPT ![c].state = "executable"]
           /\ server[Remote(c)].state = "recording"
  <2>1. Partly(recorded[c], skipped[c], server[Remote(c)].content, <<>>, Remote(c))
    BY <1>1, <1>3 DEF WholeBuffers, Whole
  <2>2. /\ server'[Remote(c)].content = server[Remote(c)].content
        /\ server'[Remote(c)].state = "executable"
    BY <1>2, <1>3 DEF ServerBuffer
  <2>3. Whole("executable", recorded'[c], skipped'[c], server'[Remote(c)], <<>>, Remote(c))
    BY <1>1, <2>1, <2>2 DEF Whole
  <2>4. \A k \in Handle \ {Remote(c)} : server'[k] = server[k]
    BY <1>2, <1>3
  <2> QED
    BY <1>1, <1>3, <2>3, <2>4, OneWhole
<1>4. CASE client' = [client EXCEPT ![c].state = "invalid"] /\ UNCHANGED server
  <2>1. Whole("invalid", recorded'[c], skipped'[c], server'[Remote(c)], <<>>, Remote(c))
    BY DEF Whole
  <2> QED
    BY <1>1, <1>4, <2>1, OneWhole
<1> QED
  BY <1>3, <1>4 DEF End, Results

LEMMA ResetWhole ==
    ASSUME BufferInv, WholeBuffers, NEW c \in Slot, Reset(c)
    PROVE  WholeBuffers'
<1>1. /\ ring = <<>> /\ ring' = ring /\ c \in Live
      /\ recorded' = recorded /\ skipped' = skipped
  BY DEF Reset, CanCall, history
<1>2. server \in [Handle -> ServerBuffer \cup {Absent}]
  BY TypeParts DEF BufferInv, ServerTypes
<1>3. PICK st \in {"initial", "invalid"} : client' = [client EXCEPT ![c].state = st]
  BY DEF Reset
<1>4. \A k \in Handle \ {Remote(c)} : server'[k] = server[k]
  <2>1. \/ server' = [server EXCEPT ![Remote(c)].state = "initial", ![Remote(c)].content = <<>>]
        \/ server' = server
    BY DEF Reset
  <2> QED
    BY <1>2, <2>1
<1>5. Whole(st, recorded'[c], skipped'[c], server'[Remote(c)], <<>>, Remote(c))
  BY <1>3 DEF Whole
<1> QED
  BY <1>1, <1>3, <1>4, <1>5, OneWhole

LEMMA RecordWhole ==
    ASSUME BufferInv, WholeBuffers, NEW c \in Slot, Record(c)
    PROVE  WholeBuffers'
<1> DEFINE n == recorded[c]
           command == [op |-> "record", handle |-> Remote(c), number |-> n + 1]
<1>1. /\ c \in Live /\ client[c].state = "recording" /\ UNCHANGED <<client, server>>
      /\ n + 1 <= MaxCommands /\ recorded' = [recorded EXCEPT ![c] = n + 1]
      /\ \/ ring' = Append(ring, command) /\ skipped' = skipped
         \/ ring' = ring /\ skipped' = [skipped EXCEPT ![c] = @ \cup {n + 1}]
  BY DEF Record, SendAsync
<1>2. /\ HandlesMatch /\ HistoryTypes /\ ring \in Seq(AsyncCommand)
      /\ Remote(c) \in Handle /\ Remote(c) \in Held /\ server[Remote(c)] \in ServerBuffer
  BY <1>1, TypeParts, LiveIsHeld, HeldTypes DEF BufferInv, RingTypes
<1>3. n \in Nat /\ n + 1 \in Number /\ recorded'[c] = n + 1
  BY <1>1, <1>2, LifecycleAssumption DEF HistoryTypes, Number
<1>4. command \in AsyncCommand /\ RecordFor(command, Remote(c)) /\ command.number = n + 1
  BY <1>2, <1>3 DEF AsyncCommand, RecordFor
<1>5. \A d \in Live \ {c} : ~RecordFor(command, Remote(d))
  BY <1>1, <1>2 DEF RecordFor, HandlesMatch
<1>6. Live' = Live /\ \A d \in Live : Remote(d)' = Remote(d) /\ d \in Slot
  BY <1>1 DEF Live, Remote
<1>7. server[Remote(c)].content \in Seq(Number)
  BY <1>2 DEF ServerBuffer
<1>8. Whole("recording", n, skipped[c], server[Remote(c)], ring, Remote(c))
  BY <1>1 DEF WholeBuffers
<1> HIDE DEF command, n
<1> SUFFICES ASSUME NEW d \in Live
             PROVE  Whole(client[d].state, recorded[d], skipped[d], server[Remote(d)], ring, Remote(d))'
  BY <1>6 DEF WholeBuffers
<1>9. CASE d = c
  <2>1. Whole("recording", n + 1, skipped'[c], server[Remote(c)], ring', Remote(c))
    <3>1. CASE ring' = Append(ring, command) /\ skipped' = skipped
      BY <1>2, <1>3, <1>4, <1>7, <1>8, <3>1, PartlyWhenSent DEF Whole
    <3>2. CASE ring' = ring /\ skipped' = [skipped EXCEPT ![c] = @ \cup {n + 1}]
      <4>1. skipped'[c] = skipped[c] \cup {n + 1}
        BY <1>2, <3>2 DEF HistoryTypes
      <4> QED
        BY <1>3, <1>7, <1>8, <3>2, <4>1, PartlyWhenNotSent DEF Whole
    <3> QED
      BY <1>1, <3>1, <3>2
  <2> QED
    BY <1>1, <1>3, <1>6, <1>9, <2>1
<1>10. CASE d # c
  <2>1. recorded'[d] = recorded[d] /\ skipped'[d] = skipped[d]
    BY <1>1, <1>2, <1>6, <1>10 DEF HistoryTypes
  <2> QED
    BY <1>1, <1>4, <1>5, <1>6, <1>10, <2>1, Untouched
<1> QED
  BY <1>9, <1>10

LEMMA ResetPoolWhole ==
    ASSUME BufferInv, WholeBuffers, NEW p \in Pool, ResetPool(p)
    PROVE  WholeBuffers'
<1>1. /\ server' = [h \in Handle |->
                    IF h \in HandlesOf(p)
                    THEN [server[h] EXCEPT !.state = "initial", !.content = <<>>]
                    ELSE server[h]]
      /\ client' = [c \in Slot |->
                    IF c \in SlotsOf(p)
                    THEN [client[c] EXCEPT !.state = "initial"] ELSE client[c]]
      /\ UNCHANGED <<ring, recorded, skipped>>
  BY DEF ResetPool, history
<1>2. /\ HandlesMatch /\ ClientTypes /\ client \in [Slot -> ClientBuffer \cup {Absent}]
  BY TypeParts DEF BufferInv, ClientTypes
<1>3. Live' \subseteq Live
  <2>1. SlotsOf(p) \subseteq Live
    BY DEF SlotsOf
  <2> QED
    BY <1>1, <2>1 DEF Live
<1> SUFFICES ASSUME NEW c \in Live, c \in Live'
             PROVE  Whole(client[c].state, recorded[c], skipped[c], server[Remote(c)], ring, Remote(c))'
  BY <1>3 DEF WholeBuffers
<1>4. c \in Slot /\ client[c] \in ClientBuffer
  BY <1>2, LiveTypes
<1>5. CASE c \in SlotsOf(p)
  <2>1. client'[c].state = "initial"
    BY <1>1, <1>4, <1>5 DEF ClientBuffer
  <2> QED
    BY <2>1 DEF Whole
<1>6. CASE c \notin SlotsOf(p)
  <2>1. client'[c] = client[c]
    BY <1>1, <1>4, <1>6
  <2>2. Remote(c) \in Handle /\ Remote(c) \notin HandlesOf(p)
    BY <1>2, <1>6, LiveIsHeld DEF HandlesOf, SlotsOf, Held
  <2>3. server'[Remote(c)] = server[Remote(c)]
    BY <1>1, <2>2
  <2> QED
    BY <1>1, <2>1, <2>3, Untouched
<1> QED
  BY <1>5, <1>6

LEMMA AllocateWhole ==
    ASSUME BufferInv, WholeBuffers, NEW p \in Pool, NEW S \in SUBSET Slot, Allocate(p, S)
    PROVE  WholeBuffers'
<1> DEFINE handles == next..(next + Cardinality(S) - 1)
           command == [op |-> "free", handles |-> handles]
<1>1. HandlesMatch
  BY DEF BufferInv
<1>2. handles \subseteq Handle /\ \A h \in Held : server'[h] = server[h]
  BY AllocateOnServer
<1>3. command \in AsyncCommand /\ command.op = "free"
  BY <1>2 DEF AsyncCommand
<1>4. S \cap Live = {} /\ recorded' = recorded /\ skipped' = skipped
  BY DEF Allocate, history
<1>5. \/ /\ \A c \in S : client'[c].state = "initial"
         /\ \A c \in Slot \ S : client'[c] = client[c]
         /\ ring' = ring
      \/ client' = client /\ ring' = Append(ring, command)
  BY DEF Allocate, FreeRemote, SendAsync
<1> HIDE DEF handles, command
<1> SUFFICES ASSUME NEW c \in Live'
             PROVE  Whole(client[c].state, recorded[c], skipped[c], server[Remote(c)], ring, Remote(c))'
  BY DEF WholeBuffers
<1>6. c \in Slot
  BY DEF Live
<1>7. CASE client'[c].state = "initial"
  BY <1>7 DEF Whole
<1>8. CASE c \notin S \/ client' = client
  <2>1. client'[c] = client[c] /\ c \in Live
    BY <1>5, <1>6, <1>8 DEF Live
  <2>2. recorded'[c] = recorded[c] /\ skipped'[c] = skipped[c]
    BY <1>4
  <2>3. server'[Remote(c)] = server[Remote(c)]
    BY <1>1, <1>2, <2>1, LiveIsHeld
  <2>4. ~RecordFor(command, Remote(c))
    BY <1>3 DEF RecordFor
  <2> QED
    BY <1>3, <1>5, <2>1, <2>2, <2>3, <2>4, Untouched
<1> QED
  BY <1>5, <1>7, <1>8

LEMMA ForgetWhole ==
    ASSUME BufferInv, WholeBuffers, NEW S \in SUBSET Slot, NEW command \in AsyncCommand,
           client' = [c \in Slot |-> IF c \in S THEN Absent ELSE client[c]],
           command.op # "record", ring' = Append(ring, command),
           UNCHANGED <<server, recorded, skipped>>
    PROVE  WholeBuffers'
<1> SUFFICES ASSUME NEW c \in Live'
             PROVE  Whole(client[c].state, recorded[c], skipped[c], server[Remote(c)], ring, Remote(c))'
  BY DEF WholeBuffers
<1>1. c \in Live /\ client'[c] = client[c]
  BY DEF Live
<1>2. ~RecordFor(command, Remote(c))
  BY DEF RecordFor
<1> QED
  BY <1>1, <1>2, Untouched

LEMMA FreeOrDestroyWhole ==
    ASSUME BufferInv, WholeBuffers, NEW p \in Pool,
           DestroyPool(p) \/ \E S \in SUBSET Slot : Free(p, S)
    PROVE  WholeBuffers'
<1>1. CASE DestroyPool(p)
  <2> DEFINE command == [op |-> "destroy", pool |-> p]
  <2>1. command \in AsyncCommand /\ command.op # "record" /\ SlotsOf(p) \in SUBSET Slot
    BY DEF AsyncCommand, SlotsOf, Live
  <2>2. /\ client' = [c \in Slot |-> IF c \in SlotsOf(p) THEN Absent ELSE client[c]]
        /\ ring' = Append(ring, command) /\ UNCHANGED <<server, recorded, skipped>>
    BY <1>1 DEF DestroyPool, SendAsync, history
  <2> HIDE DEF command
  <2> QED
    BY <2>1, <2>2, ForgetWhole
<1>2. ASSUME NEW S \in SUBSET Slot, Free(p, S) PROVE WholeBuffers'
  <2> DEFINE command == [op |-> "free", handles |-> {Remote(c) : c \in S}]
  <2>1. command.op # "record" /\ S \in SUBSET Live
    BY <1>2 DEF Free, SlotsOf
  <2>2. command \in AsyncCommand
    BY <2>1, LiveTypes, TypeParts DEF AsyncCommand, BufferInv
  <2>3. /\ client' = [c \in Slot |-> IF c \in S THEN Absent ELSE client[c]]
        /\ ring' = Append(ring, command) /\ UNCHANGED <<server, recorded, skipped>>
    BY <1>2 DEF Free, FreeRemote, SendAsync, history
  <2> HIDE DEF command
  <2> QED
    BY <2>1, <2>2, <2>3, ForgetWhole
<1> QED
  BY <1>1, <1>2

LEMMA PerformRecordWhole ==
    ASSUME BufferInv, WholeBuffers, PerformRecord
    PROVE  WholeBuffers'
<1> DEFINE h == Head(ring).handle
           x == Head(ring).number
<1>1. /\ ring # <<>> /\ Head(ring).op = "record" /\ ring' = Tail(ring)
      /\ UNCHANGED <<client, recorded>>
  BY DEF PerformRecord
<1>2. /\ HandlesMatch /\ RecordsOfRecording /\ HistoryTypes
      /\ ring \in Seq(AsyncCommand) /\ server \in [Handle -> ServerBuffer \cup {Absent}]
  BY TypeParts DEF BufferInv, RingTypes, ServerTypes
<1>3. /\ Head(ring) \in AsyncCommand /\ Head(ring) = ring[1] /\ 1 \in 1..Len(ring)
      /\ x \in Number
  <2>1. Head(ring) \in AsyncCommand /\ Head(ring) = ring[1] /\ 1 \in 1..Len(ring)
    BY <1>1, <1>2
  <2> QED
    BY <1>1, <2>1 DEF AsyncCommand
<1>4. \/ /\ h \in Held /\ server[h].state = "recording" /\ skipped' = skipped
         /\ server' = [server EXCEPT ![h].content = Append(@, x)]
      \/ /\ h \in Held /\ server' = server
         /\ skipped' = [c \in Slot |-> IF c \in Live /\ Remote(c) = h
                                       THEN skipped[c] \cup {x} ELSE skipped[c]]
      \/ h \in Held /\ server' = [server EXCEPT ![h].state = "invalid"] /\ skipped' = skipped
      \/ h \notin Held /\ server' = server /\ skipped' = skipped
  BY DEF PerformRecord, MarkInvalid
<1>5. /\ \A k \in Handle : k # h => server'[k] = server[k]
      /\ \A c \in Slot : Remote(c) # h => skipped'[c] = skipped[c]
  BY <1>2, <1>4 DEF HistoryTypes
<1>6. Live' = Live /\ \A c \in Live : Remote(c)' = Remote(c) /\ c \in Slot
  BY <1>1 DEF Live, Remote
<1> HIDE DEF h, x
<1> SUFFICES ASSUME NEW c \in Live
             PROVE  Whole(client[c].state, recorded[c], skipped[c], server[Remote(c)], ring, Remote(c))'
  BY <1>6 DEF WholeBuffers
<1>7. Remote(c) \in Held /\ Remote(c) \in Handle /\ server[Remote(c)] \in ServerBuffer
  BY <1>2, LiveIsHeld, HeldTypes, TypeParts DEF BufferInv
<1>8. CASE Remote(c) # h
  <2>1. server'[Remote(c)] = server[Remote(c)] /\ ~RecordFor(Head(ring), Remote(c))
    BY <1>5, <1>7, <1>8 DEF RecordFor, h
  <2> QED
    BY <1>1, <1>5, <1>6, <1>8, <2>1, Untouched
<1>9. CASE Remote(c) = h
  <2> DEFINE b == server[h]
             n == recorded[c]
  <2>1. client[c].state = "recording" /\ RecordFor(Head(ring), h)
    BY <1>1, <1>2, <1>3, <1>9 DEF RecordsOfRecording, RecordFor, h
  <2>2. n \in Nat /\ b \in ServerBuffer /\ b.content \in Seq(Number)
    BY <1>2, <1>6, <1>7, <1>9, LifecycleAssumption DEF HistoryTypes, ServerBuffer
  <2>3. b.state = "recording" => Partly(n, skipped[c], b.content, ring, h)
    BY <1>9, <2>1 DEF WholeBuffers, Whole
  <2> HIDE DEF n
  <2>4. Whole("recording", n, skipped'[c], server'[h], Tail(ring), h)
    <3>1. CASE server' = [server EXCEPT ![h].content = Append(@, x)] /\ skipped' = skipped
      <4>1. server'[h].content = Append(b.content, x) /\ server'[h].state = b.state
        BY <1>2, <1>7, <1>9, <3>1 DEF ServerBuffer
      <4> HIDE DEF b
      <4>2. b.state = "recording" => Partly(n, skipped[c], Append(b.content, x), Tail(ring), h)
        BY <1>1, <1>2, <1>3, <2>1, <2>2, <2>3, PartlyWhenPerformed DEF x
      <4> QED
        BY <3>1, <4>1, <4>2 DEF Whole
    <3>2. CASE /\ server' = server
               /\ skipped' = [d \in Slot |-> IF d \in Live /\ Remote(d) = h
                                             THEN skipped[d] \cup {x} ELSE skipped[d]]
      <4>1. skipped'[c] = skipped[c] \cup {x}
        BY <1>6, <1>9, <3>2
      <4> HIDE DEF b
      <4>2. b.state = "recording" => Partly(n, skipped[c] \cup {x}, b.content, Tail(ring), h)
        BY <1>1, <1>2, <1>3, <2>1, <2>2, <2>3, PartlyWhenPerformed DEF x
      <4> QED
        BY <3>2, <4>1, <4>2 DEF Whole, b
    <3>3. CASE server' = [server EXCEPT ![h].state = "invalid"]
      <4>1. server'[h].state = "invalid"
        BY <1>2, <1>7, <1>9, <3>3 DEF ServerBuffer
      <4> QED
        BY <4>1 DEF Whole
    <3> QED
      BY <1>4, <1>7, <1>9, <3>1, <3>2, <3>3
  <2> QED
    BY <1>1, <1>6, <1>9, <2>1, <2>4 DEF n
<1> QED
  BY <1>8, <1>9

LEMMA RemoveWhole ==
    ASSUME BufferInv, WholeBuffers, ring # <<>>, Head(ring).op # "record", ring' = Tail(ring),
           server' = [h \in Handle |-> IF h \in Held /\ Removes(Head(ring), h)
                                       THEN Absent ELSE server[h]],
           UNCHANGED <<client, recorded, skipped>>
    PROVE  WholeBuffers'
<1>1. HandlesMatch /\ ring \in Seq(AsyncCommand)
  BY TypeParts DEF BufferInv, RingTypes
<1>2. Head(ring) = ring[1] /\ 1 \in 1..Len(ring)
  BY <1>1
<1>3. Live' = Live
  BY DEF Live
<1> SUFFICES ASSUME NEW c \in Live
             PROVE  Whole(client[c].state, recorded[c], skipped[c], server[Remote(c)], ring, Remote(c))'
  BY <1>3 DEF WholeBuffers
<1>4. Remote(c) \in Held /\ ~Condemned(Remote(c))
  BY <1>1 DEF HandlesMatch
<1>5. ~Removes(Head(ring), Remote(c))
  BY <1>2, <1>4 DEF Condemned, Removes
<1>6. server'[Remote(c)] = server[Remote(c)]
  BY <1>4, <1>5 DEF Held
<1>7. ~RecordFor(Head(ring), Remote(c))
  BY DEF RecordFor
<1> QED
  BY <1>6, <1>7, Untouched

LEMMA PerformRemoveWhole ==
    ASSUME BufferInv, WholeBuffers, PerformFree \/ PerformDestroy
    PROVE  WholeBuffers'
<1>1. /\ ring # <<>> /\ Head(ring).op \in {"free", "destroy"} /\ ring' = Tail(ring)
      /\ UNCHANGED <<client, recorded, skipped>>
  BY DEF PerformFree, PerformDestroy, history
<1>2. \A h \in Handle : h \notin Held => server[h] = Absent
  BY DEF Held
<1>3. CASE PerformFree
  <2>1. \A h : Removes(Head(ring), h) <=> h \in Head(ring).handles
    BY <1>3 DEF Removes, PerformFree
  <2>2. server' = [h \in Handle |-> IF h \in Held /\ Removes(Head(ring), h)
                                   THEN Absent ELSE server[h]]
    BY <1>2, <1>3, <2>1 DEF PerformFree
  <2> QED
    BY <1>1, <2>2, RemoveWhole
<1>4. CASE PerformDestroy
  <2>1. \A h : h \in Held /\ Removes(Head(ring), h) <=> h \in HandlesOf(Head(ring).pool)
    BY <1>4 DEF Removes, HandlesOf, PerformDestroy
  <2>2. server' = [h \in Handle |-> IF h \in Held /\ Removes(Head(ring), h)
                                   THEN Absent ELSE server[h]]
    BY <1>4, <2>1 DEF PerformDestroy
  <2> QED
    BY <1>1, <2>2, RemoveWhole
<1> QED
  BY <1>3, <1>4

\* Steps that neither buffers nor the ring see.
LEMMA NoBufferWhole ==
    ASSUME WholeBuffers, UNCHANGED <<client, server, ring, recorded, skipped>>
    PROVE  WholeBuffers'
BY DEF WholeBuffers, Live, Remote

LEMMA ContentStep ==
    ASSUME BufferInv, ContentInv, [Next]_vars
    PROVE  ContentInv'
<1>1. WholeBuffers /\ RunsAllButSkipped
  BY DEF ContentInv
<1>u. executed' = executed => RunsAllButSkipped'
  BY <1>1 DEF RunsAllButSkipped
<1>2. CASE UNCHANGED vars
  BY <1>1, <1>2, <1>u, NoBufferWhole DEF vars, history, ContentInv
<1>3. ASSUME NEW c \in Slot, Submit(c) PROVE ContentInv'
  <2>1. /\ executed' = [recorded |-> recorded[c], skipped |-> skipped[c],
                        run |-> server[Remote(c)].content]
        /\ UNCHANGED <<client, server, ring, recorded, skipped>>
        /\ c \in Live /\ client[c].state = "executable"
    BY <1>3 DEF Submit, history
  <2>2. recorded[c] \in Nat /\ server[Remote(c)].content \in Seq(Number)
    BY <2>1, LiveIsHeld, HeldTypes, TypeParts, LifecycleAssumption
    DEF BufferInv, HistoryTypes, Live, ServerBuffer
  <2>3. Partly(recorded[c], skipped[c], server[Remote(c)].content, <<>>, Remote(c))
    BY <1>1, <2>1 DEF WholeBuffers, Whole
  <2>4. RunsAllButSkipped'
    <3> DEFINE s == server[Remote(c)].content
    <3>1. executed'.run = s /\ executed'.recorded = recorded[c] /\ executed'.skipped = skipped[c]
      BY <2>1
    <3> HIDE DEF s
    <3>2. /\ \A i, j \in DOMAIN s : i < j => s[i] < s[j]
          /\ Range(s) = 1..recorded[c] \ skipped[c]
      BY <2>2, <2>3, AllThere DEF s
    <3> QED
      BY <3>1, <3>2 DEF RunsAllButSkipped
  <2> QED
    BY <1>1, <2>1, <2>4, NoBufferWhole DEF ContentInv
<1>4. ASSUME NEW p \in Pool, CreatePool(p) PROVE ContentInv'
  BY <1>1, <1>4, <1>u, NoBufferWhole DEF CreatePool, ContentInv, history
<1>5. ASSUME NEW p \in Pool,
             \/ DestroyPool(p) \/ ResetPool(p)
             \/ \E S \in SUBSET Slot : Allocate(p, S) \/ Free(p, S)
      PROVE  ContentInv'
  <2>1. executed' = executed
    BY <1>5 DEF DestroyPool, ResetPool, Allocate, Free
  <2>2. WholeBuffers'
    BY <1>1, <1>5, FreeOrDestroyWhole, ResetPoolWhole, AllocateWhole
  <2> QED
    BY <1>u, <2>1, <2>2 DEF ContentInv
<1>6. ASSUME NEW c \in Slot,
             \/ \E simultaneous \in BOOLEAN : Begin(c, simultaneous)
             \/ Record(c) \/ End(c) \/ Reset(c)
      PROVE  ContentInv'
  <2>1. executed' = executed
    BY <1>6 DEF Begin, Record, End, Reset
  <2>2. WholeBuffers'
    BY <1>1, <1>6, BeginWhole, RecordWhole, EndWhole, ResetWhole
  <2> QED
    BY <1>u, <2>1, <2>2 DEF ContentInv
<1>7. CASE PerformRecord \/ PerformFree \/ PerformDestroy
  <2>1. executed' = executed
    BY <1>7 DEF PerformRecord, PerformFree, PerformDestroy
  <2>2. WholeBuffers'
    BY <1>1, <1>7, PerformRecordWhole, PerformRemoveWhole
  <2> QED
    BY <1>u, <2>1, <2>2 DEF ContentInv
<1>8. CASE Pools
  BY <1>4, <1>5, <1>8 DEF Pools
<1>9. CASE Buffers
  BY <1>3, <1>6, <1>9 DEF Buffers
<1> QED
  BY <1>2, <1>7, <1>8, <1>9 DEF Next

LEMMA InitContent == Init => ContentInv
<1> SUFFICES ASSUME Init PROVE ContentInv
  OBVIOUS
<1>1. Live = {}
  BY DEF Init, Live
<1>2. executed.run = <<>> /\ executed.recorded = 0 /\ executed.skipped = {}
  BY DEF Init
<1>3. RunsAllButSkipped
  <2>1. <<>> \in Seq(Number)
    OBVIOUS
  <2>2. /\ \A i, j \in DOMAIN <<>> : i < j => <<>>[i] < <<>>[j]
        /\ Range(<<>>) = 1..0 \ {}
    BY <2>1, AllThere, NothingYet
  <2> QED
    BY <1>2, <2>2 DEF RunsAllButSkipped
<1> QED
  BY <1>1, <1>3 DEF ContentInv, WholeBuffers

-----------------------------------------------------------------------------
(* What a reader should know.                                              *)

\* Pools, buffers, the ring and both tables keep their types, and the server
\* knows no handle before next_buffer_handle_ has reached it.
THEOREM TypeCorrect == Spec => []TypeOK
<1>1. BufferInv => TypeOK
  BY DEF BufferInv
<1> QED
  BY <1>1, BuffersHold, PTL

\* vkFreeCommandBuffers, vkDestroyCommandPool and the clean-up of a failed
\* vkAllocateCommandBuffers are performed after they have returned, and still
\* no handle is lost and none is used after its end.
THEOREM HandlesAreMatched == Spec => []HandlesMatch
<1>1. BufferInv => HandlesMatch
  BY DEF BufferInv
<1> QED
  BY <1>1, BuffersHold, PTL

\* A call that the checks of the client let through is not refused by those of
\* the server: its record of a buffer is never better than the server's,
\* wherever the driver fails and commands are rejected or skipped.
THEOREM ClientIsNeverAhead == Spec => []StatesAgree
<1>1. BufferInv => StatesAgree
  BY DEF BufferInv
<1> QED
  BY <1>1, BuffersHold, PTL

\* What a submission executes is what the application recorded since it last
\* began the buffer, each command once and in order, without those a side has
\* skipped, although vkCmd* is sent without a reply and is performed later, and
\* whatever else fails, is rejected or is freed in between.
THEOREM SubmissionsRunAllButSkipped == Spec => []RunsAllButSkipped
<1>1. Init => BufferInv /\ ContentInv
  BY InitBuffers, InitContent
<1>2. BufferInv /\ ContentInv /\ [Next]_vars => (BufferInv /\ ContentInv)'
  BY BuffersStep, ContentStep
<1>3. ContentInv => RunsAllButSkipped
  BY DEF ContentInv
<1> QED
  BY <1>1, <1>2, <1>3, PTL DEF Spec

=============================================================================
