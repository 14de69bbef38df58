------------------------ MODULE ResourceBindingProofs ------------------------
(***************************************************************************)
(* Proofs about ResourceBinding, for any number of threads, resources and  *)
(* allocations and whatever the driver may fail: types, that the tables of *)
(* the client and of the server agree but for what is on its way, that the *)
(* server's two views of a binding are one; that a legal bind is accepted  *)
(* when requirements are asked for the plain way; and that resources the   *)
(* server counts with share no part of their memory.                       *)
(***************************************************************************)
EXTENDS ResourceBinding, TLAPS

Binding   == [resource : Resource, offset : Offset, size : Nat]
WaitedFor == Simple \cup Bind
Waiting   == [op : {"call"}, what : WaitedFor, answer : Answer]

-----------------------------------------------------------------------------
(* Commands.                                                               *)

LEMMA WaitedForTypes ==
    ASSUME NEW what \in WaitedFor
    PROVE  /\ what.op \in {"create", "ask", "ask2", "allocate", "bind"}
           /\ what.object \in Object
           /\ what.op # "allocate" => what.object \in Resource
           /\ what.op = "allocate" => what.object \in Memory
           /\ what.op = "bind" => what.place \in Place
BY DEF WaitedFor, Simple, Bind, Object

LEMMA CommandTypes ==
    ASSUME NEW c \in Command
    PROVE  /\ c.what.op = "destroy" =>
                  /\ c.what.object \in Object
                  /\ c.what = [op |-> "destroy", object |-> c.what.object]
           /\ c.what.op # "destroy" => c.thread \in Thread /\ c.what \in WaitedFor
BY WaitedForTypes DEF Command, Async, WaitedFor

LEMMA WaitingTypes ==
    ASSUME NEW c \in Waiting
    PROVE  /\ c # Idle /\ c.what \in WaitedFor /\ c.answer \in Answer /\ c.op = "call"
           /\ c = [op |-> "call", what |-> c.what, answer |-> c.answer]
BY DEF Waiting, Idle

LEMMA PlaceIsSomewhere == \A p \in Place : p # None /\ p.memory \in Memory /\ p.offset \in Offset
<1> SUFFICES ASSUME NEW p \in Place PROVE p # None
  BY DEF Place
<1>1. DOMAIN p = {"memory", "offset"} /\ DOMAIN None = {"bound"}
  BY DEF Place, None
<1> QED
  BY <1>1

\* The objects whose end is on its way, of a list of commands.
Ending(s) == {x \in Object : \E i \in 1..Len(s) : s[i].what = [op |-> "destroy", object |-> x]}

\* No object ends twice, and no thread waits for two things.
OneEach(s) ==
    \A i, j \in 1..Len(s) : i # j =>
        /\ s[i].what.op = "destroy" => s[i].what # s[j].what
        /\ s[i].what.op # "destroy" /\ s[j].what.op # "destroy" => s[i].thread # s[j].thread

LEMMA LeavingIsEnding == Leaving = Ending(ring) /\ Leaving' = Ending(ring')
BY DEF Leaving, Ending

LEMMA EndingAppend ==
    ASSUME NEW s \in Seq(Command), NEW c \in Command
    PROVE  /\ Append(s, c) \in Seq(Command)
           /\ Ending(Append(s, c)) = Ending(s) \cup
                  IF c.what.op = "destroy" THEN {c.what.object} ELSE {}
<1>1. /\ Append(s, c) \in Seq(Command) /\ Len(Append(s, c)) = Len(s) + 1
      /\ \A i \in 1..Len(s) : Append(s, c)[i] = s[i]
      /\ Append(s, c)[Len(s) + 1] = c /\ Len(s) \in Nat
  OBVIOUS
<1>2. ASSUME NEW x \in Ending(Append(s, c))
      PROVE  x \in Ending(s) \cup IF c.what.op = "destroy" THEN {c.what.object} ELSE {}
  <2>1. PICK i \in 1..(Len(s) + 1) : Append(s, c)[i].what = [op |-> "destroy", object |-> x]
    BY <1>1 DEF Ending
  <2>2. CASE i \in 1..Len(s)
    BY <1>1, <2>1, <2>2 DEF Ending
  <2>3. CASE i = Len(s) + 1
    BY <1>1, <2>1, <2>3
  <2> QED
    BY <1>1, <2>2, <2>3
<1>3. Ending(s) \subseteq Ending(Append(s, c))
  BY <1>1 DEF Ending
<1>4. ASSUME c.what.op = "destroy" PROVE c.what.object \in Ending(Append(s, c))
  <2>1. Append(s, c)[Len(s) + 1].what = [op |-> "destroy", object |-> c.what.object]
    BY <1>1, <1>4, CommandTypes
  <2>2. c.what.object \in Object
    BY <1>4, CommandTypes, Zenon
  <2>3. Len(s) + 1 \in 1..Len(Append(s, c))
    BY <1>1
  <2> QED
    BY <2>1, <2>2, <2>3 DEF Ending
<1> QED
  BY <1>1, <1>2, <1>3, <1>4

LEMMA EndingTail ==
    ASSUME NEW s \in Seq(Command), s # <<>>, OneEach(s)
    PROVE  /\ Tail(s) \in Seq(Command) /\ Head(s) \in Command /\ OneEach(Tail(s))
           /\ Ending(Tail(s)) = Ending(s) \
                  IF Head(s).what.op = "destroy" THEN {Head(s).what.object} ELSE {}
<1>1. /\ Tail(s) \in Seq(Command) /\ Len(Tail(s)) = Len(s) - 1 /\ Len(s) \in Nat \ {0}
      /\ \A i \in 1..Len(Tail(s)) : Tail(s)[i] = s[i + 1]
      /\ Head(s) = s[1] /\ Head(s) \in Command
  OBVIOUS
<1>2. OneEach(Tail(s))
  <2> SUFFICES ASSUME NEW i \in 1..Len(Tail(s)), NEW j \in 1..Len(Tail(s)), i # j
               PROVE  /\ s[i + 1].what.op = "destroy" => s[i + 1].what # s[j + 1].what
                      /\ s[i + 1].what.op # "destroy" /\ s[j + 1].what.op # "destroy" =>
                             s[i + 1].thread # s[j + 1].thread
    BY <1>1 DEF OneEach
  <2>1. i + 1 \in 1..Len(s) /\ j + 1 \in 1..Len(s) /\ i + 1 # j + 1
    BY <1>1
  <2> QED
    BY <2>1 DEF OneEach
<1>3. ASSUME NEW x \in Ending(Tail(s))
      PROVE  x \in Ending(s) /\ (Head(s).what.op = "destroy" => x # Head(s).what.object)
  <2>1. PICK i \in 1..Len(Tail(s)) : s[i + 1].what = [op |-> "destroy", object |-> x]
    BY <1>1, <1>3 DEF Ending
  <2>2. i + 1 \in 1..Len(s) /\ 1 \in 1..Len(s) /\ i + 1 # 1
    BY <1>1
  <2>3. x \in Ending(s)
    BY <1>3, <2>1, <2>2 DEF Ending
  <2>4. Head(s).what.op = "destroy" => s[1].what # s[i + 1].what
    BY <1>1, <2>2 DEF OneEach
  <2> QED
    BY <1>1, <2>1, <2>3, <2>4, CommandTypes
<1>4. ASSUME NEW x \in Ending(s), ~(Head(s).what.op = "destroy" /\ x = Head(s).what.object)
      PROVE  x \in Ending(Tail(s))
  <2>1. PICK i \in 1..Len(s) : s[i].what = [op |-> "destroy", object |-> x]
    BY DEF Ending
  <2>2. i # 1
    BY <1>1, <1>4, <2>1
  <2>3. i - 1 \in 1..Len(Tail(s)) /\ Tail(s)[i - 1] = s[i]
    BY <1>1, <2>2
  <2> QED
    BY <1>4, <2>1, <2>3 DEF Ending
<1> QED
  BY <1>1, <1>2, <1>3, <1>4

-----------------------------------------------------------------------------
(* The way of a call.                                                      *)

\* What is on the ring is what the threads wait for, and no thread waits for
\* anything that is on the ring twice.
Paired ==
    \A i \in 1..Len(ring) : ring[i].what.op # "destroy" =>
        call[ring[i].thread] = [op |-> "call", what |-> ring[i].what, answer |-> "waiting"]

FlowTypes == ring \in Seq(Command) /\ call \in [Thread -> Waiting \cup {Idle}]
Flow      == FlowTypes /\ OneEach(ring) /\ Paired

LEMMA CallTypes ==
    ASSUME FlowTypes, NEW t \in Thread, call[t] # Idle
    PROVE  /\ call[t] \in Waiting /\ call[t].what \in WaitedFor /\ call[t].answer \in Answer
           /\ call[t] = [op |-> "call", what |-> call[t].what, answer |-> call[t].answer]
BY WaitingTypes DEF FlowTypes

LEMMA OneEachAppend ==
    ASSUME NEW s \in Seq(Command), NEW c \in Command, OneEach(s),
           c.what.op = "destroy" => c.what.object \notin Ending(s),
           \A i \in 1..Len(s) : c.what.op # "destroy" /\ s[i].what.op # "destroy" => s[i].thread # c.thread
    PROVE  OneEach(Append(s, c))
<1>1. /\ Len(Append(s, c)) = Len(s) + 1 /\ Len(s) \in Nat
      /\ \A i \in 1..Len(s) : Append(s, c)[i] = s[i] /\ s[i] \in Command
      /\ Append(s, c)[Len(s) + 1] = c
  OBVIOUS
<1>2. ASSUME NEW i \in 1..Len(s), c.what.op = "destroy" PROVE s[i].what # c.what
  <2>1. c.what.object \in Object /\ c.what = [op |-> "destroy", object |-> c.what.object]
    BY <1>2, CommandTypes
  <2> QED
    BY <1>2, <2>1 DEF Ending
<1>3. ASSUME NEW i \in 1..Len(s), s[i].what.op = "destroy" PROVE s[i].what # c.what
  <2>1. c.what.op = "destroy" => s[i].what # c.what
    BY <1>2
  <2> QED
    BY <1>3, <2>1
<1> SUFFICES ASSUME NEW i \in 1..(Len(s) + 1), NEW j \in 1..(Len(s) + 1), i # j
             PROVE  LET a == Append(s, c) IN
                    /\ a[i].what.op = "destroy" => a[i].what # a[j].what
                    /\ a[i].what.op # "destroy" /\ a[j].what.op # "destroy" =>
                           a[i].thread # a[j].thread
  BY <1>1 DEF OneEach
<1>4. CASE i \in 1..Len(s) /\ j \in 1..Len(s)
  BY <1>1, <1>4 DEF OneEach
<1>5. CASE i \in 1..Len(s) /\ j = Len(s) + 1
  BY <1>1, <1>3, <1>5
<1>6. CASE i = Len(s) + 1 /\ j \in 1..Len(s)
  BY <1>1, <1>2, <1>6
<1> QED
  BY <1>1, <1>4, <1>5, <1>6

\* A thread that waits for nothing sends a command and waits for it.
LEMMA IssueEffect ==
    ASSUME Flow, NEW t \in Thread, call[t] = Idle, NEW what \in WaitedFor, Issue(t, what)
    PROVE  /\ Flow' /\ Leaving' = Leaving
           /\ call'[t] = [op |-> "call", what |-> what, answer |-> "waiting"]
           /\ call'[t] # Idle
           /\ \A u \in Thread \ {t} : call'[u] = call[u]
<1> DEFINE c == [thread |-> t, what |-> what]
           w == [op |-> "call", what |-> what, answer |-> "waiting"]
<1>1. c \in Command /\ c.what.op # "destroy" /\ c.thread = t /\ c.what = what
  BY WaitedForTypes DEF Command, WaitedFor
<1>2. w \in Waiting /\ w # Idle
  BY WaitingTypes DEF Waiting, Answer
<1>3. ring' = Append(ring, c) /\ call' = [call EXCEPT ![t] = w]
  BY DEF Issue
<1>4. \A i \in 1..Len(ring) : ring[i].what.op # "destroy" => ring[i].thread # t
  <2> SUFFICES ASSUME NEW i \in 1..Len(ring), ring[i].what.op # "destroy"
               PROVE  ring[i].thread # t
    OBVIOUS
  <2>1. [op |-> "call", what |-> ring[i].what, answer |-> "waiting"] # Idle
    BY DEF Idle
  <2> QED
    BY <2>1 DEF Flow, Paired
<1> HIDE DEF c, w
<1>5. /\ call'[t] = w /\ \A u \in Thread \ {t} : call'[u] = call[u]
      /\ FlowTypes'
  BY <1>1, <1>2, <1>3 DEF Flow, FlowTypes
<1>6. OneEach(ring') /\ Ending(ring') = Ending(ring)
  BY <1>1, <1>3, <1>4, OneEachAppend, EndingAppend DEF Flow, FlowTypes
<1>7. Paired'
  <2> SUFFICES ASSUME NEW i \in 1..Len(ring'), ring'[i].what.op # "destroy"
               PROVE  call'[ring'[i].thread] =
                          [op |-> "call", what |-> ring'[i].what, answer |-> "waiting"]
    BY DEF Paired
  <2>1. /\ Len(ring') = Len(ring) + 1 /\ Len(ring) \in Nat
        /\ ring'[Len(ring) + 1] = c /\ \A k \in 1..Len(ring) : ring'[k] = ring[k] /\ ring[k] \in Command
    BY <1>1, <1>3 DEF Flow, FlowTypes
  <2>2. CASE i = Len(ring) + 1
    BY <1>1, <1>5, <2>1, <2>2 DEF w
  <2>3. CASE i \in 1..Len(ring)
    <3>1. ring[i].thread \in Thread \ {t}
      BY <1>4, <2>1, <2>3, CommandTypes
    <3> QED
      BY <1>5, <2>1, <2>3, <3>1 DEF Flow, Paired
  <2> QED
    BY <2>1, <2>2, <2>3
<1> QED
  BY <1>2, <1>5, <1>6, <1>7, LeavingIsEnding DEF Flow, w

\* A command is sent that nobody waits for.
LEMMA SendEffect ==
    ASSUME Flow, NEW x \in Object, x \notin Leaving, SendAsync([op |-> "destroy", object |-> x])
    PROVE  Flow' /\ Leaving' = Leaving \cup {x} /\ call' = call
<1> DEFINE d == [op |-> "destroy", object |-> x]
           c == [what |-> d]
<1>1. c \in Command /\ c.what.op = "destroy" /\ c.what.object = x
  BY DEF Command, Async
<1>2. ring' = Append(ring, c) /\ call' = call
  BY DEF SendAsync
<1> HIDE DEF c, d
<1>3. FlowTypes' /\ OneEach(ring') /\ Ending(ring') = Ending(ring) \cup {x}
  BY <1>1, <1>2, OneEachAppend, EndingAppend, LeavingIsEnding DEF Flow, FlowTypes
<1>4. Paired'
  <2> SUFFICES ASSUME NEW i \in 1..Len(ring'), ring'[i].what.op # "destroy"
               PROVE  call[ring'[i].thread] =
                          [op |-> "call", what |-> ring'[i].what, answer |-> "waiting"]
    BY <1>2 DEF Paired
  <2>1. i \in 1..Len(ring) /\ ring'[i] = ring[i]
    BY <1>1, <1>2 DEF Flow, FlowTypes
  <2> QED
    BY <2>1 DEF Flow, Paired
<1> QED
  BY <1>2, <1>3, <1>4, LeavingIsEnding DEF Flow

LEMMA PairedTail ==
    ASSUME Flow, ring # <<>>, NEW i \in 1..Len(Tail(ring)), Tail(ring)[i].what.op # "destroy"
    PROVE  /\ Tail(ring)[i].thread \in Thread
           /\ call[Tail(ring)[i].thread] =
                  [op |-> "call", what |-> Tail(ring)[i].what, answer |-> "waiting"]
           /\ Head(ring).what.op # "destroy" => Tail(ring)[i].thread # Head(ring).thread
<1>1. /\ i + 1 \in 1..Len(ring) /\ 1 \in 1..Len(ring) /\ i + 1 # 1
      /\ Tail(ring)[i] = ring[i + 1] /\ Head(ring) = ring[1] /\ ring[i + 1] \in Command
  BY DEF Flow, FlowTypes
<1> QED
  BY <1>1, CommandTypes DEF Flow, Paired, OneEach

\* The command at the head is taken off, and its answer joins the call.
LEMMA ReplyEffect ==
    ASSUME Flow, ring # <<>>, Head(ring).what.op # "destroy", ring' = Tail(ring),
           NEW answer \in Answer, Reply(answer)
    PROVE  LET t == Head(ring).thread  what == Head(ring).what IN
           /\ Flow' /\ Leaving' = Leaving /\ t \in Thread /\ what \in WaitedFor
           /\ call[t] = [op |-> "call", what |-> what, answer |-> "waiting"]
           /\ call[t] # Idle /\ call'[t] # Idle
           /\ call'[t] = [op |-> "call", what |-> what, answer |-> answer]
           /\ \A u \in Thread \ {t} : call'[u] = call[u]
<1> DEFINE t == Head(ring).thread
           what == Head(ring).what
           w == [op |-> "call", what |-> what, answer |-> answer]
<1>1. /\ Head(ring) \in Command /\ Tail(ring) \in Seq(Command) /\ OneEach(Tail(ring))
      /\ Ending(Tail(ring)) = Ending(ring) /\ 1 \in 1..Len(ring) /\ Head(ring) = ring[1]
  <2>1. ring \in Seq(Command) /\ OneEach(ring)
    BY DEF Flow, FlowTypes
  <2>2. 1 \in 1..Len(ring) /\ Head(ring) = ring[1]
    BY <2>1
  <2>3. /\ Head(ring) \in Command /\ Tail(ring) \in Seq(Command) /\ OneEach(Tail(ring))
        /\ Ending(Tail(ring)) = Ending(ring)
    BY <2>1, EndingTail
  <2> QED
    BY <2>2, <2>3
<1>2. /\ t \in Thread /\ what \in WaitedFor
      /\ call[t] = [op |-> "call", what |-> what, answer |-> "waiting"]
  BY <1>1, CommandTypes DEF Flow, Paired
<1>3. w \in Waiting /\ w # Idle /\ call[t] # Idle
  BY <1>2, WaitingTypes DEF Waiting, Idle
<1>4. call' = [call EXCEPT ![t] = w]
  <2>1. [call[t] EXCEPT !.answer = answer] = w
    BY <1>2
  <2>2. call' = [call EXCEPT ![t] = [call[t] EXCEPT !.answer = answer]]
    BY DEF Reply
  <2> QED
    BY <2>1, <2>2
<1> HIDE DEF w
<1>5. call'[t] = w /\ (\A u \in Thread \ {t} : call'[u] = call[u]) /\ FlowTypes'
  BY <1>1, <1>2, <1>3, <1>4 DEF Flow, FlowTypes
<1>6. Paired'
  <2> SUFFICES ASSUME NEW i \in 1..Len(ring'), ring'[i].what.op # "destroy"
               PROVE  call'[ring'[i].thread] =
                          [op |-> "call", what |-> ring'[i].what, answer |-> "waiting"]
    BY DEF Paired
  <2>1. /\ ring'[i].thread \in Thread \ {t}
        /\ call[ring'[i].thread] = [op |-> "call", what |-> ring'[i].what, answer |-> "waiting"]
    BY PairedTail
  <2> QED
    BY <1>5, <2>1
<1> QED
  BY <1>1, <1>2, <1>3, <1>5, <1>6, LeavingIsEnding DEF Flow, w

\* The command at the head is taken off, and nobody waits for it.
LEMMA TakeEffect ==
    ASSUME Flow, ring # <<>>, Head(ring).what.op = "destroy", ring' = Tail(ring), call' = call
    PROVE  LET x == Head(ring).what.object IN
           /\ Flow' /\ x \in Leaving /\ x \in Object /\ Leaving' = Leaving \ {x}
<1>1. /\ Head(ring) \in Command /\ Tail(ring) \in Seq(Command) /\ OneEach(Tail(ring))
      /\ Ending(Tail(ring)) = Ending(ring) \ {Head(ring).what.object}
      /\ 1 \in 1..Len(ring) /\ Head(ring) = ring[1]
  BY EndingTail DEF Flow, FlowTypes
<1>2. Head(ring).what.object \in Ending(ring) /\ Head(ring).what.object \in Object
  BY <1>1, CommandTypes DEF Ending
<1>3. Paired'
  BY PairedTail DEF Paired
<1> QED
  BY <1>1, <1>2, <1>3, LeavingIsEnding DEF Flow, FlowTypes

\* A call that was answered returns.
LEMMA ReturnEffect ==
    ASSUME Flow, NEW t \in Thread, call[t] # Idle, call[t].answer # "waiting",
           call' = [call EXCEPT ![t] = Idle], ring' = ring
    PROVE  /\ Flow' /\ Leaving' = Leaving /\ call'[t] = Idle
           /\ \A u \in Thread \ {t} : call'[u] = call[u]
<1>1. /\ call'[t] = Idle /\ (\A u \in Thread \ {t} : call'[u] = call[u]) /\ FlowTypes'
  BY DEF Flow, FlowTypes
<1>2. ASSUME NEW i \in 1..Len(ring), ring[i].what.op # "destroy"
      PROVE  call'[ring[i].thread] = [op |-> "call", what |-> ring[i].what, answer |-> "waiting"]
  <2>0. ring[i] \in Command
    BY DEF Flow, FlowTypes
  <2>1. ring[i].thread \in Thread
    BY <1>2, <2>0, CommandTypes
  <2>2. call[ring[i].thread] = [op |-> "call", what |-> ring[i].what, answer |-> "waiting"]
    BY <1>2 DEF Flow, Paired
  <2>3. ring[i].thread # t
    BY <2>2
  <2> QED
    BY <1>1, <2>1, <2>2, <2>3
<1> QED
  BY <1>1, <1>2, LeavingIsEnding DEF Flow, Paired

-----------------------------------------------------------------------------
(* The inductive invariant.                                                *)

Types ==
    /\ used \subseteq Object /\ known \subseteq used /\ live \subseteq used
    /\ null \subseteq (known \cap Resource) /\ cached \subseteq (known \cap Resource)
    /\ cbound \in [Resource -> Place \cup {None}]
    /\ valid \in [Resource -> Requirements \cup {None}]
    /\ sbound \in [Resource -> Place \cup {None}]
    /\ bindings \in [Memory -> SUBSET Binding]

HistoryTypes ==
    /\ told \in [Resource -> {"never", "plain", "two"}]
    /\ backed \subseteq Resource /\ refused \subseteq Resource

\* An object is named by one call at a time.
OneCallEach ==
    \A t, u \in Thread : t # u /\ call[t] # Idle /\ call[u] # Idle =>
        call[t].what.object # call[u].what.object

Creates(what) == what.op \in {"create", "allocate"}

\* What a call that has not returned says of the tables.
Says(what, answer) ==
    /\ what.object \in used
    /\ Creates(what) =>
        /\ what.object \notin known /\ what.object \notin Leaving
        /\ what.object \in live <=> answer = "ok"
        /\ what.op = "create" => sbound[what.object] = None
    /\ ~Creates(what) => what.object \in known \ null
    /\ what.op = "bind" =>
        /\ what.place.memory \in known
        /\ Fits(Needs(what.object), what.place.offset)
        /\ cbound[what.object] = None
        /\ answer = "ok" => sbound[what.object] = what.place
    /\ answer = "null" => what.op = "create"
    /\ answer = "failed" => what.op \in {"allocate", "bind"}

CallsSay == \A t \in Thread : call[t] # Idle => Says(call[t].what, call[t].answer)

\* What is alive on the server.
Tables ==
    /\ \A x \in Object :
           x \in live <=> x \in known \ null \/ x \in Leaving \/ x \in Arriving
    /\ \A x \in Leaving : x \notin known

\* The server's record of a binding in the resource and that in the memory.
Bound ==
    /\ \A m \in Memory : m \notin live => bindings[m] = {}
    /\ \A m \in Memory : \A b \in bindings[m] :
           sbound[b.resource] = [memory |-> m, offset |-> b.offset]
    /\ \A r \in Resource : sbound[r] # None =>
           r \in live /\ \E b \in bindings[sbound[r].memory] : b.resource = r

\* The binding of r is made, and the call that asked for it has not returned.
Made(r) ==
    \E t \in Thread : /\ call[t] # Idle /\ call[t].answer = "ok"
                      /\ call[t].what.op = "bind" /\ call[t].what.object = r

\* The server's binding as the client has it: freed memory binds nothing.
Seen(place) == IF place # None /\ place.memory \in Leaving THEN None ELSE place

Agreement ==
    /\ \A r \in Resource : r \notin known \ null => cbound[r] = None
    /\ \A r \in Resource : r \in known \ null /\ ~Made(r) => cbound[r] = Seen(sbound[r])

RecordInv ==
    Types /\ Flow /\ OneCallEach /\ CallsSay /\ Tables /\ Bound /\ Agreement

LEMMA TypesSuffice == Types /\ FlowTypes /\ HistoryTypes => TypeOK
BY DEF Types, FlowTypes, HistoryTypes, TypeOK, Waiting, WaitedFor, Binding

LEMMA InitInv == Init => RecordInv /\ HistoryTypes
<1> SUFFICES ASSUME Init PROVE RecordInv /\ HistoryTypes
  OBVIOUS
<1>1. Types /\ HistoryTypes
  BY DEF Init, Types, HistoryTypes
<1>2. Flow
  BY DEF Init, Flow, FlowTypes, OneEach, Paired
<1>3. OneCallEach /\ CallsSay
  BY DEF Init, OneCallEach, CallsSay
<1>4. Leaving = {} /\ Arriving = {}
  BY DEF Init, Leaving, Arriving
<1>5. Tables
  BY <1>4 DEF Init, Tables
<1>6. Bound /\ Agreement
  BY <1>4 DEF Init, Bound, Agreement, Seen
<1> QED
  BY <1>1, <1>2, <1>3, <1>5, <1>6 DEF RecordInv

-----------------------------------------------------------------------------
(* The steps.                                                              *)

\* A thread sends something it waits for.
Calling(t, what) ==
    /\ call[t] = Idle /\ Issue(t, what)
    /\ used' = used \cup {what.object}
    /\ IF Creates(what) THEN what.object \notin used
       ELSE what.object \in known \ null /\ ~Busy(what.object)
    /\ what.op = "bind" =>
        /\ what.place.memory \in known
        /\ Fits(Needs(what.object), what.place.offset)
        /\ cbound[what.object] = None
        /\ what.object \notin backed /\ told[what.object] # "never"
        /\ what.alone = Alone(what.object, what.place)
    /\ what.op \in {"ask", "ask2"} => told[what.object] = "never"
    /\ UNCHANGED <<clientVars, serverVars, history>>

\* Only what the application remembers changes.
Resting == UNCHANGED <<used, clientVars, ring, call, serverVars>>

\* The command at the head is performed.
Taking == ring # <<>> /\ ring' = Tail(ring) /\ UNCHANGED <<used, clientVars, told, backed>>

LEMMA CallingStep ==
    ASSUME Types, NEW t \in Thread
    PROVE  /\ \A r \in Resource : Create(t, r) => Calling(t, [op |-> "create", object |-> r])
           /\ \A m \in Memory : Allocate(t, m) => Calling(t, [op |-> "allocate", object |-> m])
           /\ \A r \in Resource :
                  Ask(t, r) => Resting \/ Calling(t, [op |-> "ask", object |-> r])
           /\ \A r \in Resource : Ask2(t, r) => Calling(t, [op |-> "ask2", object |-> r])
           /\ \A r \in Resource, place \in Place :
                  BindMemory(t, r, place) =>
                      Resting \/ Calling(t, [op |-> "bind", object |-> r, place |-> place,
                                             alone |-> Alone(r, place)])
<1>1. \A x \in known : used \cup {x} = used
  BY DEF Types
<1>2. ASSUME NEW r \in Resource, Create(t, r) PROVE Calling(t, [op |-> "create", object |-> r])
  BY <1>2 DEF Create, Calling, Creates
<1>3. ASSUME NEW m \in Memory, Allocate(t, m) PROVE Calling(t, [op |-> "allocate", object |-> m])
  BY <1>3 DEF Allocate, Calling, Creates
<1>4. ASSUME NEW r \in Resource, Ask(t, r)
      PROVE  Resting \/ Calling(t, [op |-> "ask", object |-> r])
  BY <1>1, <1>4 DEF Ask, Calling, Creates, Resting, history
<1>5. ASSUME NEW r \in Resource, Ask2(t, r) PROVE Calling(t, [op |-> "ask2", object |-> r])
  BY <1>1, <1>5 DEF Ask2, Calling, Creates
<1>6. ASSUME NEW r \in Resource, NEW place \in Place, BindMemory(t, r, place)
      PROVE  Resting \/ Calling(t, [op |-> "bind", object |-> r, place |-> place,
                                    alone |-> Alone(r, place)])
  <2>1. CASE ClientAccepts(r, place)
    <3> DEFINE what == [op |-> "bind", object |-> r, place |-> place, alone |-> Alone(r, place)]
    <3>1. what.op = "bind" /\ what.object = r /\ what.place = place /\ what.alone = Alone(r, place)
      OBVIOUS
    <3>2. /\ call[t] = Idle /\ ~Busy(r) /\ r \in known \ null /\ place.memory \in known
          /\ Fits(Needs(r), place.offset) /\ cbound[r] = None
          /\ r \notin backed /\ told[r] # "never"
          /\ Issue(t, what) /\ UNCHANGED <<used, clientVars, serverVars, history>>
      BY <1>6, <2>1 DEF BindMemory, ClientAccepts, history
    <3> HIDE DEF what
    <3>3. Calling(t, what)
      BY <1>1, <3>1, <3>2 DEF Calling, Creates
    <3> QED
      BY <3>3 DEF what
  <2>2. CASE ~ClientAccepts(r, place)
    BY <1>6, <2>2 DEF BindMemory, Resting
  <2> QED
    BY <2>1, <2>2
<1> QED
  BY <1>2, <1>3, <1>4, <1>5, <1>6

LEMMA CallingTypes ==
    /\ \A r \in Resource : /\ [op |-> "create", object |-> r] \in WaitedFor
                           /\ [op |-> "ask", object |-> r] \in WaitedFor
                           /\ [op |-> "ask2", object |-> r] \in WaitedFor
    /\ \A m \in Memory : [op |-> "allocate", object |-> m] \in WaitedFor
    /\ \A r \in Resource, place \in Place :
           [op |-> "bind", object |-> r, place |-> place, alone |-> Alone(r, place)] \in WaitedFor
<1>1. \A r \in Resource, place \in Place : Alone(r, place) \in BOOLEAN
  BY DEF Alone
<1> QED
  BY <1>1 DEF WaitedFor, Simple, Bind

LEMMA CallingPreserves ==
    ASSUME RecordInv, NEW t \in Thread, NEW what \in WaitedFor, Calling(t, what)
    PROVE  RecordInv'
<1>1. /\ Flow' /\ Leaving' = Leaving
      /\ call[t] = Idle /\ call'[t] # Idle /\ call'[t].what = what /\ call'[t].answer = "waiting"
      /\ \A u \in Thread \ {t} : call'[u] = call[u]
  <2>1. Flow /\ call[t] = Idle /\ Issue(t, what)
    BY DEF RecordInv, Calling
  <2>2. /\ Flow' /\ Leaving' = Leaving
        /\ call'[t] = [op |-> "call", what |-> what, answer |-> "waiting"] /\ call'[t] # Idle
        /\ \A u \in Thread \ {t} : call'[u] = call[u]
    BY <2>1, IssueEffect
  <2>3. call'[t].what = what /\ call'[t].answer = "waiting"
    BY <2>2
  <2> QED
    BY <2>1, <2>2, <2>3
<1>2. /\ used' = used \cup {what.object} /\ known' = known /\ null' = null /\ cached' = cached
      /\ cbound' = cbound /\ live' = live /\ valid' = valid /\ sbound' = sbound
      /\ bindings' = bindings
  BY DEF Calling, clientVars, serverVars
<1>3. /\ what.object \in Object
      /\ \A x \in Leaving : x \in used
  BY WaitedForTypes DEF RecordInv, Tables, Types, Leaving
<1>4. Types'
  BY <1>2, <1>3 DEF RecordInv, Types
<1>5. \A u \in Thread \ {t} : call[u] # Idle => call[u].what.object # what.object
  BY DEF RecordInv, CallsSay, Says, Calling, Busy
<1>6. OneCallEach'
  BY <1>1, <1>5 DEF RecordInv, OneCallEach
<1>7. CallsSay'
  <2>1. Says(what, "waiting")'
    <3>1. Creates(what) => /\ what.object \notin known /\ what.object \notin Leaving
                           /\ what.object \notin live
      BY <1>3 DEF RecordInv, Types, Calling
    <3>2. what.op = "create" => what.object \in Resource /\ sbound[what.object] = None
      BY <3>1, WaitedForTypes DEF RecordInv, Bound, Creates
    <3>3. ~Creates(what) => what.object \in known \ null
      BY DEF Calling
    <3>4. what.op = "bind" => /\ what.place.memory \in known
                              /\ Fits(Needs(what.object), what.place.offset)
                              /\ cbound[what.object] = None
      BY DEF Calling
    <3> QED
      BY <1>1, <1>2, <3>1, <3>2, <3>3, <3>4 DEF Says, Creates
  <2>2. ASSUME NEW u \in Thread \ {t}, call[u] # Idle PROVE Says(call[u].what, call[u].answer)'
    BY <1>1, <1>2, <2>2 DEF RecordInv, CallsSay, Says, Creates
  <2> QED
    BY <1>1, <2>1, <2>2 DEF CallsSay
<1>8. Arriving' = Arriving
  BY <1>1 DEF Arriving
<1>9. Tables'
  BY <1>1, <1>2, <1>8 DEF RecordInv, Tables
<1>10. Bound'
  BY <1>2 DEF RecordInv, Bound
<1>11. \A r \in Resource : Made(r)' <=> Made(r)
  BY <1>1 DEF Made
<1>12. Agreement'
  BY <1>1, <1>2, <1>11 DEF RecordInv, Agreement, Seen
<1> QED
  BY <1>1, <1>4, <1>6, <1>7, <1>9, <1>10, <1>12 DEF RecordInv

LEMMA RestingPreserves ==
    ASSUME RecordInv, Resting
    PROVE  RecordInv'
<1>1. /\ used' = used /\ known' = known /\ null' = null /\ cached' = cached
      /\ cbound' = cbound /\ live' = live /\ valid' = valid /\ sbound' = sbound
      /\ bindings' = bindings /\ ring' = ring /\ call' = call
  BY DEF Resting, clientVars, serverVars
<1>2. Leaving' = Leaving /\ Arriving' = Arriving
  BY <1>1 DEF Leaving, Arriving
<1>3. Types' /\ Flow' /\ OneCallEach'
  BY <1>1 DEF RecordInv, Types, Flow, FlowTypes, Paired, OneEach, OneCallEach
<1>4. CallsSay'
  BY <1>1, <1>2 DEF RecordInv, CallsSay, Says, Creates
<1>5. Tables' /\ Bound'
  BY <1>1, <1>2 DEF RecordInv, Tables, Bound
<1>6. Agreement'
  BY <1>1, <1>2 DEF RecordInv, Agreement, Seen, Made
<1> QED
  BY <1>3, <1>4, <1>5, <1>6 DEF RecordInv

\* What every return of a call does.
LEMMA ReturnFrame ==
    ASSUME RecordInv, NEW t \in Thread, Return(t)
    PROVE  /\ Flow' /\ Leaving' = Leaving /\ OneCallEach'
           /\ used' = used /\ live' = live /\ valid' = valid /\ sbound' = sbound
           /\ bindings' = bindings /\ Bound'
           /\ call[t] # Idle /\ call[t].answer # "waiting" /\ call[t].what \in WaitedFor
           /\ call'[t] = Idle /\ \A u \in Thread \ {t} : call'[u] = call[u]
           /\ \A u \in Thread \ {t} : call[u] # Idle => call[u].what.object # call[t].what.object
           /\ Says(call[t].what, call[t].answer)
<1>1. /\ call[t] # Idle /\ call[t].answer # "waiting" /\ call' = [call EXCEPT ![t] = Idle]
      /\ ring' = ring /\ used' = used /\ live' = live /\ valid' = valid /\ sbound' = sbound
      /\ bindings' = bindings
  BY DEF Return, serverVars
<1>2. /\ Flow' /\ Leaving' = Leaving /\ call'[t] = Idle
      /\ \A u \in Thread \ {t} : call'[u] = call[u]
  BY <1>1, ReturnEffect DEF RecordInv
<1>3. OneCallEach'
  BY <1>2 DEF RecordInv, OneCallEach
<1>4. Bound'
  BY <1>1 DEF RecordInv, Bound
<1>5. call[t].what \in WaitedFor
  BY <1>1, CallTypes DEF RecordInv, Flow
<1>6. /\ \A u \in Thread \ {t} : call[u] # Idle => call[u].what.object # call[t].what.object
      /\ Says(call[t].what, call[t].answer)
  BY <1>1 DEF RecordInv, OneCallEach, CallsSay
<1> QED
  BY <1>1, <1>2, <1>3, <1>4, <1>5, <1>6

LEMMA CreateReturnsPreserves ==
    ASSUME RecordInv, NEW t \in Thread, Return(t), CreateReturns(t)
    PROVE  RecordInv'
<1> DEFINE x == call[t].what.object
           a == call[t].answer
<1>0. /\ Flow' /\ Leaving' = Leaving /\ OneCallEach'
      /\ used' = used /\ live' = live /\ valid' = valid /\ sbound' = sbound
      /\ bindings' = bindings /\ Bound'
      /\ call[t] # Idle /\ a # "waiting" /\ call[t].what \in WaitedFor
      /\ call'[t] = Idle /\ \A u \in Thread \ {t} : call'[u] = call[u]
      /\ \A u \in Thread \ {t} : call[u] # Idle => call[u].what.object # x
      /\ Says(call[t].what, a)
  BY ReturnFrame
<1>1. /\ Creates(call[t].what)
      /\ known' = IF a = "failed" THEN known ELSE known \cup {x}
      /\ null' = IF a = "null" THEN null \cup {x} ELSE null
      /\ cached' = cached /\ cbound' = cbound
  BY DEF CreateReturns, Creates
<1>2. /\ x \in Object /\ x \in used /\ x \notin known /\ x \notin Leaving
      /\ x \in live <=> a = "ok"
      /\ a \in Answer
      /\ a = "null" => x \in Resource
      /\ x \in Resource => call[t].what.op = "create" /\ sbound[x] = None
  <2>1. Says(call[t].what, a) /\ call[t].what \in WaitedFor /\ Creates(call[t].what)
    BY <1>0, <1>1
  <2>2. a \in Answer
    BY <1>0, CallTypes DEF RecordInv, Flow
  <2>3. x \in Resource => x \notin Memory
    BY BindingAssumption
  <2> QED
    BY <2>1, <2>2, <2>3, WaitedForTypes DEF Says, Creates
<1> HIDE DEF x, a
<1>3. Types'
  BY <1>0, <1>1, <1>2 DEF RecordInv, Types
<1>4. CallsSay'
  <2> SUFFICES ASSUME NEW u \in Thread \ {t}, call[u] # Idle
               PROVE  Says(call[u].what, call[u].answer)'
    BY <1>0 DEF CallsSay
  <2>1. Says(call[u].what, call[u].answer) /\ call[u].what.object # x /\ call'[u] = call[u]
    BY <1>0 DEF RecordInv, CallsSay
  <2> QED
    BY <1>0, <1>1, <2>1 DEF Says, Creates
<1>5. \A y \in Object : y \in Arriving' <=> y \in Arriving /\ y # x
  BY <1>0 DEF Arriving, x
<1>6. a = "ok" => x \in Arriving
  BY <1>0, <1>1, <1>2 DEF Arriving, Creates, x, a
<1>7. a # "ok" => x \notin Arriving
  BY <1>2 DEF RecordInv, Tables
<1>8. Tables'
  BY <1>0, <1>1, <1>2, <1>5, <1>6, <1>7 DEF RecordInv, Tables, Types, Answer
<1>9. \A r \in Resource : Made(r)' <=> Made(r)
  BY <1>0, <1>1 DEF Made, Creates
<1>10. x \in Resource => cbound[x] = None
  BY <1>2 DEF RecordInv, Agreement
<1>11. Agreement'
  <2>1. \A r \in Resource \ {x} : r \in known' \ null' <=> r \in known \ null
    BY <1>1
  <2>2. x \notin null
    BY <1>2 DEF RecordInv, Types
  <2> QED
    BY <1>0, <1>1, <1>2, <1>9, <1>10, <2>1, <2>2 DEF RecordInv, Agreement, Seen
<1> QED
  BY <1>0, <1>3, <1>4, <1>8, <1>11 DEF RecordInv

LEMMA AskReturnsPreserves ==
    ASSUME RecordInv, NEW t \in Thread, Return(t), AskReturns(t)
    PROVE  RecordInv'
<1> DEFINE what == call[t].what
<1>0. /\ Flow' /\ Leaving' = Leaving /\ OneCallEach'
      /\ used' = used /\ live' = live /\ valid' = valid /\ sbound' = sbound
      /\ bindings' = bindings /\ Bound'
      /\ call[t] # Idle /\ what \in WaitedFor
      /\ call'[t] = Idle /\ \A u \in Thread \ {t} : call'[u] = call[u]
      /\ Says(what, call[t].answer)
  BY ReturnFrame
<1>1. /\ what.op \in {"ask", "ask2"} /\ known' = known /\ null' = null /\ cbound' = cbound
      /\ cached' = IF what.op = "ask" THEN cached \cup {what.object} ELSE cached
  BY DEF AskReturns
<1>2. what.object \in known /\ what.object \in Resource
  BY <1>0, <1>1, WaitedForTypes DEF Says, Creates
<1> HIDE DEF what
<1>3. Types'
  BY <1>0, <1>1, <1>2 DEF RecordInv, Types
<1>4. CallsSay'
  <2> SUFFICES ASSUME NEW u \in Thread \ {t}, call[u] # Idle
               PROVE  Says(call[u].what, call[u].answer)'
    BY <1>0 DEF CallsSay
  <2>1. Says(call[u].what, call[u].answer) /\ call'[u] = call[u]
    BY <1>0 DEF RecordInv, CallsSay
  <2> QED
    BY <1>0, <1>1, <2>1 DEF Says, Creates
<1>5. Arriving' = Arriving
  BY <1>0, <1>1 DEF Arriving, what
<1>6. \A r \in Resource : Made(r)' <=> Made(r)
  BY <1>0, <1>1 DEF Made, what
<1>7. Tables'
  BY <1>0, <1>1, <1>5 DEF RecordInv, Tables
<1>8. Agreement'
  BY <1>0, <1>1, <1>6 DEF RecordInv, Agreement, Seen
<1> QED
  BY <1>0, <1>3, <1>4, <1>7, <1>8 DEF RecordInv

LEMMA BindReturnsPreserves ==
    ASSUME RecordInv, NEW t \in Thread, Return(t), BindReturns(t)
    PROVE  RecordInv'
<1> DEFINE what == call[t].what
           a == call[t].answer
           x == what.object
<1>0. /\ Flow' /\ Leaving' = Leaving /\ OneCallEach'
      /\ used' = used /\ live' = live /\ valid' = valid /\ sbound' = sbound
      /\ bindings' = bindings /\ Bound'
      /\ call[t] # Idle /\ what \in WaitedFor
      /\ call'[t] = Idle /\ \A u \in Thread \ {t} : call'[u] = call[u]
      /\ \A u \in Thread \ {t} : call[u] # Idle => call[u].what.object # x
      /\ Says(what, a)
  BY ReturnFrame
<1>1. /\ what.op = "bind" /\ known' = known /\ null' = null /\ cached' = cached
      /\ cbound' = IF a = "ok" THEN [cbound EXCEPT ![x] = what.place] ELSE cbound
  BY DEF BindReturns
<1>2. /\ x \in known \ null /\ x \in Resource /\ what.place \in Place
      /\ what.place.memory \in known /\ cbound[x] = None
      /\ a = "ok" => sbound[x] = what.place
  BY <1>0, <1>1, WaitedForTypes DEF Says, Creates
<1>3. \A r \in Resource \ {x} : cbound'[r] = cbound[r]
  BY <1>1 DEF RecordInv, Types
<1>4. a = "ok" => cbound'[x] = what.place
  BY <1>1, <1>2 DEF RecordInv, Types
<1>5. \A r \in Resource : Made(r)' <=> Made(r) /\ r # x
  BY <1>0 DEF Made
<1>6. Made(x) => a = "ok"
  BY <1>0 DEF Made
<1>7. Arriving' = Arriving
  BY <1>0, <1>1 DEF Arriving
<1> HIDE DEF what, a, x
<1>8. Types'
  BY <1>0, <1>1, <1>2 DEF RecordInv, Types
<1>9. CallsSay'
  <2> SUFFICES ASSUME NEW u \in Thread \ {t}, call[u] # Idle
               PROVE  Says(call[u].what, call[u].answer)'
    BY <1>0 DEF CallsSay
  <2>1. Says(call[u].what, call[u].answer) /\ call'[u] = call[u] /\ call[u].what.object # x
    BY <1>0 DEF RecordInv, CallsSay
  <2>2. call[u].what \in WaitedFor
    BY CallTypes DEF RecordInv, Flow
  <2>3. call[u].what.op = "bind" => cbound'[call[u].what.object] = cbound[call[u].what.object]
    BY <1>3, <2>1, <2>2, WaitedForTypes
  <2> QED
    BY <1>0, <1>1, <2>1, <2>3 DEF Says, Creates
<1>10. Tables'
  BY <1>0, <1>1, <1>7 DEF RecordInv, Tables
<1>11. Agreement'
  <2>1. what.place.memory \notin Leaving
    BY <1>2 DEF RecordInv, Tables
  <2>2. a = "ok" => cbound'[x] = Seen(sbound[x])
    BY <1>2, <1>4, <2>1 DEF Seen
  <2>3. a # "ok" => cbound'[x] = Seen(sbound[x])
    BY <1>1, <1>2, <1>6 DEF RecordInv, Agreement
  <2> QED
    BY <1>0, <1>1, <1>2, <1>3, <1>5, <2>2, <2>3 DEF RecordInv, Agreement, Seen
<1> QED
  BY <1>0, <1>8, <1>9, <1>10, <1>11 DEF RecordInv

LEMMA DestroyPreserves ==
    ASSUME RecordInv, NEW r \in Resource, Destroy(r)
    PROVE  RecordInv'
<1>1. /\ r \in known /\ ~Busy(r)
      /\ known' = known \ {r} /\ cached' = cached \ {r} /\ null' = null \ {r}
      /\ cbound' = [cbound EXCEPT ![r] = None]
      /\ used' = used /\ live' = live /\ valid' = valid /\ sbound' = sbound
      /\ bindings' = bindings
  BY DEF Destroy, Forget, serverVars
<1>2. r \in Object /\ r \notin Leaving /\ r \notin Arriving
  BY <1>1 DEF RecordInv, Tables, CallsSay, Says, Arriving, Object, Creates
<1>3. /\ Flow' /\ call' = call
      /\ Leaving' = IF r \in null THEN Leaving ELSE Leaving \cup {r}
  <2>1. CASE r \in null
    <3>1. ring' = ring /\ call' = call
      BY <2>1 DEF Destroy
    <3> QED
      BY <2>1, <3>1 DEF RecordInv, Flow, FlowTypes, OneEach, Paired, Leaving
  <2>2. CASE r \notin null
    <3>1. SendAsync([op |-> "destroy", object |-> r]) /\ Flow
      BY <2>2 DEF Destroy, RecordInv
    <3> QED
      BY <1>2, <2>2, <3>1, SendEffect
  <2> QED
    BY <2>1, <2>2
<1>4. \A q \in Resource \ {r} : cbound'[q] = cbound[q]
  BY <1>1 DEF RecordInv, Types
<1>5. cbound'[r] = None
  BY <1>1 DEF RecordInv, Types
<1>6. Types'
  BY <1>1, BindingAssumption DEF RecordInv, Types
<1>7. OneCallEach'
  BY <1>3 DEF RecordInv, OneCallEach
<1>8. \A t \in Thread : call[t] # Idle => call[t].what.object # r
  BY <1>1 DEF Busy
<1>9. CallsSay'
  <2> SUFFICES ASSUME NEW t \in Thread, call[t] # Idle
               PROVE  Says(call[t].what, call[t].answer)'
    BY <1>3 DEF CallsSay
  <2>1. Says(call[t].what, call[t].answer) /\ call[t].what.object # r
    BY <1>8 DEF RecordInv, CallsSay
  <2>2. call[t].what \in WaitedFor
    BY CallTypes DEF RecordInv, Flow
  <2>3. call[t].what.op = "bind" =>
            /\ cbound'[call[t].what.object] = cbound[call[t].what.object]
            /\ call[t].what.place.memory # r
    <3>1. call[t].what.op = "bind" => call[t].what.place.memory \in Memory
                                      /\ call[t].what.object \in Resource
      BY <2>2, WaitedForTypes, PlaceIsSomewhere
    <3> QED
      BY <1>4, <2>1, <3>1, BindingAssumption
  <2> QED
    BY <1>1, <1>3, <2>1, <2>3 DEF Says, Creates
<1>10. Arriving' = Arriving /\ \A q \in Resource : Made(q)' <=> Made(q)
  BY <1>3 DEF Arriving, Made
<1>11. Tables'
  <2>1. r \in null => r \notin live
    BY <1>2 DEF RecordInv, Tables
  <2> QED
    BY <1>1, <1>2, <1>3, <1>10, <2>1 DEF RecordInv, Tables, Types
<1>12. Bound'
  BY <1>1 DEF RecordInv, Bound
<1>13. Agreement'
  <2> SUFFICES ASSUME NEW q \in Resource
               PROVE  /\ q \notin known' \ null' => cbound'[q] = None
                      /\ q \in known' \ null' /\ ~Made(q) =>
                             cbound'[q] = IF sbound[q] # None /\ sbound[q].memory \in Leaving'
                                          THEN None ELSE sbound[q]
    BY <1>1, <1>10 DEF Agreement, Seen
  <2>1. CASE q = r
    BY <1>1, <1>5, <2>1
  <2>2. CASE q # r
    <3>1. sbound[q] # None => sbound[q].memory # r
      BY PlaceIsSomewhere, BindingAssumption DEF RecordInv, Types
    <3>2. q \in known' \ null' <=> q \in known \ null
      BY <1>1, <2>2
    <3> QED
      BY <1>3, <1>4, <2>2, <3>1, <3>2 DEF RecordInv, Agreement, Seen
  <2> QED
    BY <2>1, <2>2
<1> QED
  BY <1>3, <1>6, <1>7, <1>9, <1>11, <1>12, <1>13 DEF RecordInv

LEMMA FreePreserves ==
    ASSUME RecordInv, NEW m \in Memory, Free(m)
    PROVE  RecordInv'
<1>1. /\ m \in known /\ BindsTo(m) = {}
      /\ known' = known \ {m} /\ cached' = cached /\ null' = null
      /\ cbound' = [r \in Resource |-> IF In(cbound[r], m) THEN None ELSE cbound[r]]
      /\ used' = used /\ live' = live /\ valid' = valid /\ sbound' = sbound
      /\ bindings' = bindings
  BY DEF Free, Unbind, serverVars
<1>2. /\ m \in Object /\ m \notin Resource /\ m \notin null /\ m \notin Leaving
      /\ m \in live
  BY <1>1, BindingAssumption DEF RecordInv, Tables, Types, Object
<1>3. Flow' /\ call' = call /\ Leaving' = Leaving \cup {m}
  <2>1. SendAsync([op |-> "destroy", object |-> m]) /\ Flow
    BY DEF Free, RecordInv
  <2> QED
    BY <1>2, <2>1, SendEffect
<1>4. Types'
  BY <1>1, <1>2 DEF RecordInv, Types
<1>5. OneCallEach'
  BY <1>3 DEF RecordInv, OneCallEach
<1>6. Arriving' = Arriving /\ \A q \in Resource : Made(q)' <=> Made(q)
  BY <1>3 DEF Arriving, Made
<1>7. CallsSay'
  <2> SUFFICES ASSUME NEW t \in Thread, call[t] # Idle
               PROVE  Says(call[t].what, call[t].answer)'
    BY <1>3 DEF CallsSay
  <2>1. Says(call[t].what, call[t].answer)
    BY DEF RecordInv, CallsSay
  <2>2. call[t].what \in WaitedFor
    BY CallTypes DEF RecordInv, Flow
  <2>3. Creates(call[t].what) => call[t].what.object # m
    BY <1>1, <2>1 DEF Says
  <2>4. ~Creates(call[t].what) => call[t].what.object \in Resource
    BY <2>2, WaitedForTypes DEF Creates
  <2>5. call[t].what.op = "bind" => call[t].what.place.memory # m
    BY <1>1 DEF BindsTo
  <2>6. call[t].what.op = "bind" => cbound'[call[t].what.object] = None
    BY <1>1, <2>1, <2>2, WaitedForTypes DEF Says
  <2> QED
    BY <1>1, <1>2, <1>3, <2>1, <2>3, <2>4, <2>5, <2>6 DEF Says, Creates
<1>8. Tables'
  BY <1>1, <1>2, <1>3, <1>6 DEF RecordInv, Tables
<1>9. Bound'
  BY <1>1 DEF RecordInv, Bound
<1>10. Agreement'
  <2> SUFFICES ASSUME NEW q \in Resource
               PROVE  /\ q \notin known' \ null' => cbound'[q] = None
                      /\ q \in known' \ null' /\ ~Made(q) =>
                             cbound'[q] = IF sbound[q] # None /\ sbound[q].memory \in Leaving'
                                          THEN None ELSE sbound[q]
    BY <1>1, <1>6 DEF Agreement, Seen
  <2>1. q \in known' \ null' <=> q \in known \ null
    BY <1>1, <1>2
  <2>2. cbound'[q] = IF cbound[q] # None /\ cbound[q].memory = m THEN None ELSE cbound[q]
    BY <1>1 DEF In
  <2> QED
    BY <1>3, <2>1, <2>2 DEF RecordInv, Agreement, Seen
<1> QED
  BY <1>3, <1>4, <1>5, <1>7, <1>8, <1>9, <1>10 DEF RecordInv

-----------------------------------------------------------------------------
(* The steps of the server.                                                *)

\* What every answer of the server does.
LEMMA PerformFrame ==
    ASSUME RecordInv, Taking, Head(ring).what.op # "destroy", NEW answer \in Answer \ {"waiting"},
           Reply(answer)
    PROVE  \E t \in Thread, what \in WaitedFor :
           /\ what = Head(ring).what /\ what.object \in Object
           /\ Flow' /\ Leaving' = Leaving /\ OneCallEach'
           /\ used' = used /\ known' = known /\ null' = null /\ cached' = cached /\ cbound' = cbound
           /\ call[t] # Idle /\ call[t].what = what /\ call[t].answer = "waiting"
           /\ call'[t] # Idle /\ call'[t].what = what /\ call'[t].answer = answer
           /\ \A u \in Thread \ {t} : call'[u] = call[u]
           /\ \A u \in Thread \ {t} : call[u] # Idle => call[u].what.object # what.object
           /\ Says(what, "waiting")
<1> DEFINE t == Head(ring).thread
           what == Head(ring).what
<1>1. /\ used' = used /\ known' = known /\ null' = null /\ cached' = cached /\ cbound' = cbound
      /\ ring # <<>> /\ ring' = Tail(ring)
  BY DEF Taking, clientVars
<1>2. /\ Flow' /\ Leaving' = Leaving /\ t \in Thread /\ what \in WaitedFor
      /\ call[t] = [op |-> "call", what |-> what, answer |-> "waiting"]
      /\ call[t] # Idle /\ call'[t] # Idle
      /\ call'[t] = [op |-> "call", what |-> what, answer |-> answer]
      /\ \A u \in Thread \ {t} : call'[u] = call[u]
  BY <1>1, ReplyEffect DEF RecordInv
<1>3. /\ call[t].what = what /\ call[t].answer = "waiting"
      /\ call'[t].what = what /\ call'[t].answer = answer
  BY <1>2
<1>4. what.object \in Object
  BY <1>2, WaitedForTypes
<1> HIDE DEF t, what
<1>5. OneCallEach'
  BY <1>2, <1>3 DEF RecordInv, OneCallEach
<1>6. \A u \in Thread \ {t} : call[u] # Idle => call[u].what.object # what.object
  BY <1>2, <1>3 DEF RecordInv, OneCallEach
<1>7. Says(what, "waiting")
  BY <1>2, <1>3 DEF RecordInv, CallsSay
<1>8. what = Head(ring).what
  BY DEF what
<1> QED
  BY <1>1, <1>2, <1>3, <1>4, <1>5, <1>6, <1>7, <1>8

LEMMA PerformCreatePreserves ==
    ASSUME RecordInv, Taking,
           \/ Head(ring).what.op = "create" /\ PerformCreate(Head(ring).what)
           \/ Head(ring).what.op = "allocate" /\ PerformAllocate(Head(ring).what)
    PROVE  RecordInv'
<1>0. PICK what : what = Head(ring).what
  OBVIOUS
<1> DEFINE x == what.object
<1>1. PICK created \in BOOLEAN, answer \in Answer \ {"waiting"} :
          /\ live' = IF created THEN live \cup {x} ELSE live
          /\ Reply(answer)
          /\ created <=> answer = "ok"
          /\ answer = "null" => what.op = "create"
          /\ answer = "failed" => what.op = "allocate"
          /\ valid' = valid /\ sbound' = sbound /\ bindings' = bindings
          /\ Creates(what)
  <2>1. \A op : DriverDoes(op) \subseteq BOOLEAN
    BY DEF DriverDoes
  <2>2. CASE what.op = "create" /\ PerformCreate(what)
    BY <1>0, <2>1, <2>2 DEF PerformCreate, Creates, Answer
  <2>3. CASE what.op = "allocate" /\ PerformAllocate(what)
    BY <1>0, <2>1, <2>3 DEF PerformAllocate, Creates, Answer
  <2> QED
    BY <1>0, <2>2, <2>3
<1>2. PICK t \in Thread :
      /\ what \in WaitedFor /\ x \in Object
      /\ Flow' /\ Leaving' = Leaving /\ OneCallEach'
      /\ used' = used /\ known' = known /\ null' = null /\ cached' = cached /\ cbound' = cbound
      /\ call[t] # Idle /\ call[t].what = what /\ call[t].answer = "waiting"
      /\ call'[t] # Idle /\ call'[t].what = what /\ call'[t].answer = answer
      /\ \A u \in Thread \ {t} : call'[u] = call[u]
      /\ \A u \in Thread \ {t} : call[u] # Idle => call[u].what.object # x
      /\ Says(what, "waiting")
  <2>1. Head(ring).what.op # "destroy"
    BY <1>0, <1>1 DEF Creates
  <2>2. Reply(answer) /\ answer \in Answer \ {"waiting"}
    BY <1>1
  <2> QED
    BY <1>0, <2>1, <2>2, PerformFrame
<1>3. x \in used /\ x \notin known /\ x \notin Leaving /\ x \notin live
  BY <1>1, <1>2 DEF Says
<1> HIDE DEF x
<1>4. Types'
  BY <1>1, <1>2, <1>3 DEF RecordInv, Types
<1>5. CallsSay'
  <2>1. Says(what, answer)'
    <3>1. x \in live' <=> answer = "ok"
      BY <1>1, <1>3
    <3>2. Creates(what) /\ what.op # "bind"
      BY <1>1 DEF Creates
    <3>3. what.op = "create" => sbound[x] = None
      BY <1>2, <3>2 DEF Says, x
    <3> QED
      BY <1>1, <1>2, <1>3, <3>1, <3>2, <3>3 DEF Says, Creates, x
  <2>2. ASSUME NEW u \in Thread \ {t}, call[u] # Idle PROVE Says(call[u].what, call[u].answer)'
    <3>1. Says(call[u].what, call[u].answer) /\ call[u].what.object # x
      BY <1>2, <2>2 DEF RecordInv, CallsSay
    <3> QED
      BY <1>1, <1>2, <3>1 DEF Says, Creates
  <2> QED
    BY <1>2, <2>1, <2>2 DEF CallsSay
<1>6. \A y \in Object : y \in Arriving' <=> y \in Arriving \/ (y = x /\ answer = "ok")
  BY <1>1, <1>2 DEF Arriving, Creates, x
<1>7. Tables'
  <2>1. \A y \in Object : y \in live' <=> y \in live \/ (y = x /\ answer = "ok")
    BY <1>1
  <2>2. Leaving' = Leaving /\ known' = known /\ null' = null
    BY <1>2
  <2> QED
    BY <1>6, <2>1, <2>2 DEF RecordInv, Tables
<1>8. Bound'
  <2>1. \A y \in live : y \in live'
    BY <1>1
  <2> QED
    BY <1>1, <2>1 DEF RecordInv, Bound
<1>9. \A r \in Resource : Made(r)' <=> Made(r)
  BY <1>1, <1>2 DEF Made, Creates
<1>10. Agreement'
  BY <1>1, <1>2, <1>9 DEF RecordInv, Agreement, Seen
<1> QED
  BY <1>2, <1>4, <1>5, <1>7, <1>8, <1>10 DEF RecordInv

LEMMA RequirementTypes ==
    /\ \A r \in Resource : Needs(r) \in Requirements /\ Guess(r) \in Requirements
    /\ \A q \in Requirements : q.size \in Nat
<1>1. ASSUME NEW n \in Nat, NEW a \in Nat \ {0} PROVE RoundUp(n, a) \in Nat
  <2>1. (n + a - 1) \div a \in Nat
    OBVIOUS
  <2> QED
    BY <2>1 DEF RoundUp
<1>2. ASSUME NEW r \in Resource PROVE Needs(r).size \in Nat /\ Guess(r).size \in Nat
  BY <1>1, BindingAssumption DEF Needs, Guess
<1> QED
  BY <1>2 DEF Requirements

LEMMA PerformAskPreserves ==
    ASSUME RecordInv, Taking, Head(ring).what.op \in {"ask", "ask2"}, PerformAsk(Head(ring).what)
    PROVE  RecordInv'
<1>0. PICK what : what = Head(ring).what
  OBVIOUS
<1>1. /\ Reply("ok") /\ "ok" \in Answer \ {"waiting"} /\ Head(ring).what.op # "destroy"
      /\ live' = live /\ sbound' = sbound /\ bindings' = bindings
      /\ what.op \in {"ask", "ask2"}
      /\ valid' = IF what.op = "ask" /\ what.object \in live
                  THEN [valid EXCEPT ![what.object] = Needs(what.object)] ELSE valid
  BY <1>0 DEF PerformAsk, Answer
<1>2. PICK t \in Thread :
      /\ what \in WaitedFor /\ what.object \in Object
      /\ Flow' /\ Leaving' = Leaving /\ OneCallEach'
      /\ used' = used /\ known' = known /\ null' = null /\ cached' = cached /\ cbound' = cbound
      /\ call[t] # Idle /\ call[t].what = what /\ call[t].answer = "waiting"
      /\ call'[t] # Idle /\ call'[t].what = what /\ call'[t].answer = "ok"
      /\ \A u \in Thread \ {t} : call'[u] = call[u]
      /\ Says(what, "waiting")
  BY <1>0, <1>1, PerformFrame
<1>3. Types'
  <2>1. what.object \in Resource /\ Needs(what.object) \in Requirements
    BY <1>1, <1>2, WaitedForTypes, RequirementTypes
  <2> QED
    BY <1>1, <1>2, <2>1 DEF RecordInv, Types
<1>4. CallsSay'
  <2>1. Says(what, "ok")'
    BY <1>1, <1>2 DEF Says, Creates
  <2>2. ASSUME NEW u \in Thread \ {t}, call[u] # Idle PROVE Says(call[u].what, call[u].answer)'
    <3>1. Says(call[u].what, call[u].answer)
      BY <2>2 DEF RecordInv, CallsSay
    <3> QED
      BY <1>1, <1>2, <3>1 DEF Says, Creates
  <2> QED
    BY <1>2, <2>1, <2>2 DEF CallsSay
<1>5. Arriving' = Arriving /\ \A r \in Resource : Made(r)' <=> Made(r)
  BY <1>1, <1>2 DEF Arriving, Made
<1>6. Tables' /\ Bound'
  BY <1>1, <1>2, <1>5 DEF RecordInv, Tables, Bound
<1>7. Agreement'
  BY <1>1, <1>2, <1>5 DEF RecordInv, Agreement, Seen
<1> QED
  BY <1>2, <1>3, <1>4, <1>6, <1>7 DEF RecordInv

\* What a binding does to the server's tables.
LEMMA BindEffect ==
    ASSUME Types, Bound, NEW r \in Resource, NEW place \in Place, Tracked(r, place.memory),
           live' = live, valid' = [valid EXCEPT ![r] = Recorded(r)],
           sbound' = [sbound EXCEPT ![r] = place],
           bindings' = [bindings EXCEPT ![place.memory] = @ \cup
                           {[resource |-> r, offset |-> place.offset, size |-> Recorded(r).size]}]
    PROVE  /\ Bound' /\ sbound'[r] = place
           /\ \A q \in Resource \ {r} : sbound'[q] = sbound[q]
           /\ valid' \in [Resource -> Requirements \cup {None}]
           /\ sbound' \in [Resource -> Place \cup {None}]
           /\ bindings' \in [Memory -> SUBSET Binding]
<1> DEFINE m == place.memory
           b == [resource |-> r, offset |-> place.offset, size |-> Recorded(r).size]
<1>1. /\ r \in live /\ m \in live /\ sbound[r] = None
      /\ m \in Memory /\ place.offset \in Offset /\ place # None
      /\ place = [memory |-> m, offset |-> b.offset]
  BY PlaceIsSomewhere DEF Tracked, Place
<1>2. Recorded(r) \in Requirements /\ Recorded(r).size \in Nat
  BY RequirementTypes DEF Types, Recorded
<1>3. b \in Binding /\ b.resource = r
  BY <1>1, <1>2 DEF Binding
<1>4. bindings' = [bindings EXCEPT ![m] = @ \cup {b}]
  OBVIOUS
<1> HIDE DEF b, m
<1>5. /\ sbound'[r] = place
      /\ \A q \in Resource \ {r} : sbound'[q] = sbound[q]
  BY DEF Types
<1>6. /\ bindings'[m] = bindings[m] \cup {b}
      /\ \A n \in Memory \ {m} : bindings'[n] = bindings[n]
  BY <1>1, <1>4 DEF Types
<1>7. /\ valid' \in [Resource -> Requirements \cup {None}]
      /\ sbound' \in [Resource -> Place \cup {None}]
      /\ bindings' \in [Memory -> SUBSET Binding]
  BY <1>1, <1>2, <1>3, <1>4 DEF Types
<1>8. \A n \in Memory : \A c \in bindings[n] :
          c.resource \in Resource /\ c.resource # r /\ sbound[c.resource] = [memory |-> n, offset |-> c.offset]
  <2> SUFFICES ASSUME NEW n \in Memory, NEW c \in bindings[n]
               PROVE  c.resource \in Resource /\ c.resource # r
                      /\ sbound[c.resource] = [memory |-> n, offset |-> c.offset]
    OBVIOUS
  <2>1. c \in Binding
    BY DEF Types
  <2>2. sbound[c.resource] = [memory |-> n, offset |-> c.offset]
    BY DEF Bound
  <2>3. [memory |-> n, offset |-> c.offset] \in Place
    BY <2>1 DEF Place, Binding
  <2> QED
    BY <1>1, <2>1, <2>2, <2>3, PlaceIsSomewhere DEF Binding
<1>9. \A n \in Memory : n \notin live' => bindings'[n] = {}
  BY <1>1, <1>6 DEF Bound
<1>10. ASSUME NEW n \in Memory, NEW c \in bindings'[n]
       PROVE  sbound'[c.resource] = [memory |-> n, offset |-> c.offset]
  <2>1. CASE c \in bindings[n]
    BY <1>5, <1>8, <2>1
  <2>2. CASE c = b /\ n = m
    <3>1. sbound'[b.resource] = [memory |-> m, offset |-> b.offset]
      BY <1>1, <1>3, <1>5, Zenon
    <3>2. c = b /\ n = m
      BY <2>2
    <3> QED
      BY <3>1, <3>2
  <2>3. c \in bindings[n] \/ (c = b /\ n = m)
    <3>1. CASE n = m
      <4>1. c \in bindings[n] \cup {b}
        BY <1>6, <1>10, <3>1, Zenon
      <4> QED
        BY <3>1, <4>1
    <3>2. CASE n # m
      BY <1>6, <3>2
    <3> QED
      BY <3>1, <3>2
  <2> QED
    BY <2>1, <2>2, <2>3
<1>11. ASSUME NEW q \in Resource, sbound'[q] # None
       PROVE  q \in live' /\ \E c \in bindings'[sbound'[q].memory] : c.resource = q
  <2>1. CASE q = r
    <3>1. b \in bindings'[m]
      BY <1>6, Zenon
    <3>2. b.resource = q /\ q \in live'
      BY <1>1, <1>3, <2>1
    <3>3. sbound'[q].memory = m
      BY <1>5, <2>1 DEF m
    <3> QED
      BY <3>1, <3>2, <3>3
  <2>2. CASE q # r
    <3>1. sbound'[q] = sbound[q] /\ sbound[q] \in Place /\ sbound[q].memory \in Memory
      BY <1>5, <1>11, <2>2, PlaceIsSomewhere DEF Types
    <3>2. q \in live /\ \E c \in bindings[sbound[q].memory] : c.resource = q
      BY <1>11, <3>1 DEF Bound
    <3> QED
      BY <1>6, <3>1, <3>2
  <2> QED
    BY <2>1, <2>2
<1> QED
  BY <1>5, <1>7, <1>9, <1>10, <1>11 DEF Bound

\* What the server makes of a binding, and what it answers.
LEMMA BindOutcome ==
    ASSUME RecordInv, Taking, Head(ring).what.op = "bind", PerformBind(Head(ring).what)
    PROVE  \E t \in Thread, what \in WaitedFor, made \in BOOLEAN, answer \in {"ok", "failed"} :
           /\ what = Head(ring).what /\ what.op = "bind"
           /\ what.object \in Resource /\ what.place \in Place
           /\ made <=> answer = "ok"
           /\ made => ServerAccepts(what.object, what.place)
           /\ refused' = IF what.alone /\ ~ServerAccepts(what.object, what.place)
                         THEN refused \cup {what.object} ELSE refused
           /\ live' = live
           /\ valid' = IF Tracked(what.object, what.place.memory)
                       THEN [valid EXCEPT ![what.object] = Recorded(what.object)] ELSE valid
           /\ IF made
              THEN /\ sbound' = [sbound EXCEPT ![what.object] = what.place]
                   /\ bindings' = [bindings EXCEPT ![what.place.memory] = @ \cup
                         {[resource |-> what.object, offset |-> what.place.offset,
                           size |-> Recorded(what.object).size]}]
              ELSE sbound' = sbound /\ bindings' = bindings
           /\ Flow' /\ Leaving' = Leaving /\ OneCallEach'
           /\ used' = used /\ known' = known /\ null' = null /\ cached' = cached /\ cbound' = cbound
           /\ call[t] # Idle /\ call[t].what = what /\ call[t].answer = "waiting"
           /\ call'[t] # Idle /\ call'[t].what = what /\ call'[t].answer = answer
           /\ \A u \in Thread \ {t} : call'[u] = call[u]
           /\ \A u \in Thread \ {t} : call[u] # Idle => call[u].what.object # what.object
           /\ Says(what, "waiting")
<1>0. PICK what \in WaitedFor : what = Head(ring).what
  <2>1. Head(ring) \in Command
    BY DEF RecordInv, Flow, FlowTypes, Taking
  <2> QED
    BY <2>1, CommandTypes
<1> DEFINE r == what.object
           place == what.place
<1>1. PICK done \in DriverDoes("bind") :
          /\ Reply(IF ServerAccepts(r, place) /\ done THEN "ok" ELSE "failed")
          /\ refused' = IF what.alone /\ ~ServerAccepts(r, place)
                        THEN refused \cup {r} ELSE refused
          /\ live' = live
          /\ valid' = IF Tracked(r, place.memory)
                      THEN [valid EXCEPT ![r] = Recorded(r)] ELSE valid
          /\ IF ServerAccepts(r, place) /\ done
             THEN /\ sbound' = [sbound EXCEPT ![r] = place]
                  /\ bindings' = [bindings EXCEPT ![place.memory] = @ \cup
                        {[resource |-> r, offset |-> place.offset, size |-> Recorded(r).size]}]
             ELSE sbound' = sbound /\ bindings' = bindings
  BY <1>0 DEF PerformBind
<1>2. PICK made \in BOOLEAN : made <=> ServerAccepts(r, place) /\ done
  BY DEF DriverDoes
<1>3. PICK answer \in {"ok", "failed"} :
          answer = IF ServerAccepts(r, place) /\ done THEN "ok" ELSE "failed"
  OBVIOUS
<1>4. Reply(answer) /\ answer \in Answer \ {"waiting"}
  BY <1>1, <1>3 DEF Answer
<1>5. PICK t \in Thread :
      /\ what \in WaitedFor /\ r \in Object
      /\ Flow' /\ Leaving' = Leaving /\ OneCallEach'
      /\ used' = used /\ known' = known /\ null' = null /\ cached' = cached /\ cbound' = cbound
      /\ call[t] # Idle /\ call[t].what = what /\ call[t].answer = "waiting"
      /\ call'[t] # Idle /\ call'[t].what = what /\ call'[t].answer = answer
      /\ \A u \in Thread \ {t} : call'[u] = call[u]
      /\ \A u \in Thread \ {t} : call[u] # Idle => call[u].what.object # r
      /\ Says(what, "waiting")
  <2>1. Head(ring).what.op # "destroy"
    OBVIOUS
  <2> QED
    BY <1>0, <1>4, <2>1, PerformFrame
<1>6. what.op = "bind" /\ r \in Resource /\ place \in Place
  BY <1>0, <1>5, WaitedForTypes
<1>7. made <=> answer = "ok"
  BY <1>2, <1>3
<1>8. IF made
      THEN /\ sbound' = [sbound EXCEPT ![r] = place]
           /\ bindings' = [bindings EXCEPT ![place.memory] = @ \cup
                 {[resource |-> r, offset |-> place.offset, size |-> Recorded(r).size]}]
      ELSE sbound' = sbound /\ bindings' = bindings
  BY <1>1, <1>2, Zenon
<1>9. made => ServerAccepts(r, place)
  BY <1>2
<1> WITNESS t \in Thread, what \in WaitedFor, made \in BOOLEAN, answer \in {"ok", "failed"}
<1> QED
  BY <1>0, <1>1, <1>5, <1>6, <1>7, <1>8, <1>9, Zenon

LEMMA PerformBindPreserves ==
    ASSUME RecordInv, Taking, Head(ring).what.op = "bind", PerformBind(Head(ring).what)
    PROVE  RecordInv'
<1>1. PICK t \in Thread, what \in WaitedFor, made \in BOOLEAN, answer \in {"ok", "failed"} :
      /\ what = Head(ring).what /\ what.op = "bind"
      /\ what.object \in Resource /\ what.place \in Place
      /\ made <=> answer = "ok"
      /\ made => ServerAccepts(what.object, what.place)
      /\ live' = live
      /\ valid' = IF Tracked(what.object, what.place.memory)
                  THEN [valid EXCEPT ![what.object] = Recorded(what.object)] ELSE valid
      /\ IF made
         THEN /\ sbound' = [sbound EXCEPT ![what.object] = what.place]
              /\ bindings' = [bindings EXCEPT ![what.place.memory] = @ \cup
                    {[resource |-> what.object, offset |-> what.place.offset,
                      size |-> Recorded(what.object).size]}]
         ELSE sbound' = sbound /\ bindings' = bindings
      /\ Flow' /\ Leaving' = Leaving /\ OneCallEach'
      /\ used' = used /\ known' = known /\ null' = null /\ cached' = cached /\ cbound' = cbound
      /\ call[t] # Idle /\ call[t].what = what /\ call[t].answer = "waiting"
      /\ call'[t] # Idle /\ call'[t].what = what /\ call'[t].answer = answer
      /\ \A u \in Thread \ {t} : call'[u] = call[u]
      /\ \A u \in Thread \ {t} : call[u] # Idle => call[u].what.object # what.object
      /\ Says(what, "waiting")
  BY BindOutcome
<1> DEFINE r == what.object
           place == what.place
<1>2. /\ Flow' /\ Leaving' = Leaving /\ OneCallEach'
      /\ used' = used /\ known' = known /\ null' = null /\ cached' = cached /\ cbound' = cbound
      /\ call[t] # Idle /\ call[t].what = what /\ call[t].answer = "waiting"
      /\ call'[t] # Idle /\ call'[t].what = what /\ call'[t].answer = answer
      /\ \A u \in Thread \ {t} : call'[u] = call[u]
      /\ \A u \in Thread \ {t} : call[u] # Idle => call[u].what.object # r
      /\ Says(what, "waiting")
  BY <1>1
<1>3. what.op = "bind" /\ r \in Resource /\ place \in Place /\ r \in Object
  BY <1>1 DEF Object
<1>4. /\ Types /\ Bound
      /\ used \subseteq Object /\ known \subseteq used /\ live \subseteq used
      /\ valid \in [Resource -> Requirements \cup {None}]
  BY DEF RecordInv, Types
<1>5. /\ Bound' /\ \A q \in Resource \ {r} : sbound'[q] = sbound[q]
      /\ sbound'[r] = IF made THEN place ELSE sbound[r]
      /\ valid' \in [Resource -> Requirements \cup {None}]
      /\ sbound' \in [Resource -> Place \cup {None}]
      /\ bindings' \in [Memory -> SUBSET Binding]
  <2>1. CASE made
    <3>0. Tracked(r, place.memory)
      BY <1>1, <2>1 DEF ServerAccepts
    <3>1. /\ live' = live /\ valid' = [valid EXCEPT ![r] = Recorded(r)]
          /\ sbound' = [sbound EXCEPT ![r] = place]
          /\ bindings' = [bindings EXCEPT ![place.memory] = @ \cup
                {[resource |-> r, offset |-> place.offset, size |-> Recorded(r).size]}]
      BY <1>1, <2>1, <3>0
    <3> HIDE DEF r, place
    <3> QED
      BY <1>3, <1>4, <2>1, <3>0, <3>1, BindEffect
  <2>2. CASE ~made
    <3>1. sbound' = sbound /\ bindings' = bindings /\ live' = live
      BY <1>1, <2>2
    <3>2. Recorded(r) \in Requirements
      BY <1>3, <1>4, RequirementTypes DEF Recorded
    <3>3. valid' \in [Resource -> Requirements \cup {None}]
      BY <1>1, <1>4, <3>2
    <3> QED
      BY <1>4, <2>2, <3>1, <3>3 DEF Types, Bound
  <2> QED
    BY <2>1, <2>2
<1>6. live' = live
  BY <1>1
<1> HIDE DEF r, place
<1>7. Types'
  BY <1>2, <1>5, <1>6 DEF RecordInv, Types
<1>8. CallsSay'
  <2>1. Says(what, answer)'
    BY <1>1, <1>2, <1>3, <1>5, <1>6 DEF Says, Creates, r, place
  <2>2. ASSUME NEW u \in Thread \ {t}, call[u] # Idle PROVE Says(call[u].what, call[u].answer)'
    <3>1. Says(call[u].what, call[u].answer) /\ call[u].what.object # r
      BY <1>2, <2>2 DEF RecordInv, CallsSay
    <3>2. call[u].what \in WaitedFor
      BY <2>2, CallTypes DEF RecordInv, Flow
    <3>3. call[u].what.op \in {"create", "bind"} =>
              sbound'[call[u].what.object] = sbound[call[u].what.object]
      BY <1>5, <3>1, <3>2, WaitedForTypes
    <3> QED
      BY <1>2, <1>6, <3>1, <3>3 DEF Says, Creates
  <2> QED
    BY <1>2, <2>1, <2>2 DEF CallsSay
<1>9. Arriving' = Arriving
  BY <1>2, <1>3 DEF Arriving
<1>10. Tables'
  BY <1>2, <1>6, <1>9 DEF RecordInv, Tables
<1>11. \A q \in Resource : Made(q)' <=> Made(q) \/ (q = r /\ made)
  BY <1>1, <1>2, <1>3 DEF Made, r
<1>12. Agreement'
  BY <1>2, <1>5, <1>11 DEF RecordInv, Agreement, Seen
<1> QED
  BY <1>2, <1>5, <1>7, <1>8, <1>10, <1>12 DEF RecordInv

\* What the server does with an object whose end arrives.
LEMMA EndFrame ==
    ASSUME RecordInv, Taking, Head(ring).what.op = "destroy", PerformDestroy(Head(ring).what)
    PROVE  \E x \in Object :
           /\ x = Head(ring).what.object /\ x \in live /\ x \notin known
           /\ Leaving' = Leaving \ {x} /\ x \in Leaving /\ Flow' /\ OneCallEach'
           /\ used' = used /\ known' = known /\ null' = null /\ cached' = cached /\ cbound' = cbound
           /\ call' = call /\ Arriving' = Arriving /\ x \notin Arriving
           /\ x \in Memory => FreeMemory(x)
           /\ x \notin Memory => x \in Resource /\ DestroyResource(x)
           /\ \A t \in Thread : call[t] # Idle => call[t].what.object # x
<1> DEFINE x == Head(ring).what.object
<1>1. /\ used' = used /\ known' = known /\ null' = null /\ cached' = cached /\ cbound' = cbound
      /\ ring # <<>> /\ ring' = Tail(ring) /\ call' = call
  BY DEF Taking, clientVars, PerformDestroy
<1>2. Flow' /\ x \in Leaving /\ x \in Object /\ Leaving' = Leaving \ {x}
  BY <1>1, TakeEffect DEF RecordInv
<1>3. x \in live /\ x \notin known
  BY <1>2 DEF RecordInv, Tables
<1>4. /\ x \in Memory => FreeMemory(x)
      /\ x \notin Memory => DestroyResource(x)
  BY <1>3 DEF PerformDestroy
<1>5. x \notin Memory => x \in Resource
  BY <1>2 DEF Object
<1> HIDE DEF x
<1>6. OneCallEach' /\ Arriving' = Arriving
  BY <1>1 DEF RecordInv, OneCallEach, Arriving
<1>7. \A t \in Thread : call[t] # Idle => call[t].what.object # x
  BY <1>2, <1>3 DEF RecordInv, CallsSay, Says
<1>8. x \notin Arriving
  BY <1>7 DEF Arriving
<1>9. x = Head(ring).what.object
  BY DEF x
<1> QED
  BY <1>1, <1>2, <1>3, <1>4, <1>5, <1>6, <1>7, <1>8, <1>9

LEMMA EndResourcePreserves ==
    ASSUME RecordInv, Taking, Head(ring).what.op = "destroy", PerformDestroy(Head(ring).what),
           Head(ring).what.object \notin Memory
    PROVE  RecordInv'
<1>1. PICK r \in Object :
           /\ r = Head(ring).what.object /\ r \in live /\ r \notin known
           /\ Leaving' = Leaving \ {r} /\ r \in Leaving /\ Flow' /\ OneCallEach'
           /\ used' = used /\ known' = known /\ null' = null /\ cached' = cached /\ cbound' = cbound
           /\ call' = call /\ Arriving' = Arriving /\ r \notin Arriving
           /\ r \notin Memory => r \in Resource /\ DestroyResource(r)
           /\ \A t \in Thread : call[t] # Idle => call[t].what.object # r
  BY EndFrame
<1>2. /\ r \in Resource /\ r \notin Memory /\ live' = live \ {r}
      /\ sbound' = [sbound EXCEPT ![r] = None]
      /\ valid' = [valid EXCEPT ![r] = None]
      /\ bindings' = [m \in Memory |-> {b \in bindings[m] : b.resource # r}]
  BY <1>1 DEF DestroyResource
<1>3. sbound'[r] = None /\ \A q \in Resource \ {r} : sbound'[q] = sbound[q]
  BY <1>2 DEF RecordInv, Types
<1>4. Types'
  BY <1>1, <1>2 DEF RecordInv, Types
<1>5. CallsSay'
  <2> SUFFICES ASSUME NEW t \in Thread, call[t] # Idle
               PROVE  Says(call[t].what, call[t].answer)'
    BY <1>1 DEF CallsSay
  <2>1. Says(call[t].what, call[t].answer) /\ call[t].what.object # r
    BY <1>1 DEF RecordInv, CallsSay
  <2>2. call[t].what \in WaitedFor
    BY CallTypes DEF RecordInv, Flow
  <2>3. call[t].what.op \in {"create", "bind"} =>
            sbound'[call[t].what.object] = sbound[call[t].what.object]
    BY <1>3, <2>1, <2>2, WaitedForTypes
  <2> QED
    BY <1>1, <1>2, <2>1, <2>3 DEF Says, Creates
<1>6. Tables'
  BY <1>1, <1>2 DEF RecordInv, Tables
<1>7. Bound'
  <2>1. \A m \in Memory : m \notin live' => bindings'[m] = {}
    BY <1>2 DEF RecordInv, Bound
  <2>2. ASSUME NEW m \in Memory, NEW b \in bindings'[m]
        PROVE  sbound'[b.resource] = [memory |-> m, offset |-> b.offset]
    <3>1. b \in bindings[m] /\ b.resource # r
      BY <1>2, <2>2
    <3>2. b.resource \in Resource
      BY <3>1 DEF RecordInv, Types, Binding
    <3> QED
      BY <1>3, <3>1, <3>2 DEF RecordInv, Bound
  <2>3. ASSUME NEW q \in Resource, sbound'[q] # None
        PROVE  q \in live' /\ \E b \in bindings'[sbound'[q].memory] : b.resource = q
    <3>1. q # r /\ sbound'[q] = sbound[q]
      BY <1>3, <2>3
    <3>2. sbound[q].memory \in Memory
      BY <2>3, <3>1, PlaceIsSomewhere DEF RecordInv, Types
    <3> QED
      BY <1>2, <2>3, <3>1, <3>2 DEF RecordInv, Bound
  <2> QED
    BY <2>1, <2>2, <2>3 DEF Bound
<1>8. \A q \in Resource : Made(q)' <=> Made(q)
  BY <1>1 DEF Made
<1>9. Agreement'
  <2>1. \A q \in Resource : sbound[q] # None => sbound[q].memory # r
    BY <1>2, PlaceIsSomewhere DEF RecordInv, Types
  <2> QED
    BY <1>1, <1>2, <1>3, <1>8, <2>1 DEF RecordInv, Agreement, Seen
<1> QED
  BY <1>1, <1>4, <1>5, <1>6, <1>7, <1>9 DEF RecordInv

LEMMA EndMemoryPreserves ==
    ASSUME RecordInv, Taking, Head(ring).what.op = "destroy", PerformDestroy(Head(ring).what),
           Head(ring).what.object \in Memory
    PROVE  RecordInv'
<1>1. PICK m \in Object :
           /\ m = Head(ring).what.object /\ m \in live /\ m \notin known
           /\ Leaving' = Leaving \ {m} /\ m \in Leaving /\ Flow' /\ OneCallEach'
           /\ used' = used /\ known' = known /\ null' = null /\ cached' = cached /\ cbound' = cbound
           /\ call' = call /\ Arriving' = Arriving /\ m \notin Arriving
           /\ m \in Memory => FreeMemory(m)
           /\ \A t \in Thread : call[t] # Idle => call[t].what.object # m
  BY EndFrame
<1>2. /\ m \in Memory /\ m \notin Resource /\ live' = live \ {m} /\ valid' = valid
      /\ bindings' = [bindings EXCEPT ![m] = {}]
      /\ sbound' = [r \in Resource |->
                       IF \E b \in bindings[m] : b.resource = r THEN None ELSE sbound[r]]
  BY <1>1, BindingAssumption DEF FreeMemory
<1>3. \A r \in Resource : (\E b \in bindings[m] : b.resource = r)
                              <=> sbound[r] # None /\ sbound[r].memory = m
  <2> SUFFICES ASSUME NEW r \in Resource
               PROVE  (\E b \in bindings[m] : b.resource = r)
                          <=> sbound[r] # None /\ sbound[r].memory = m
    OBVIOUS
  <2>1. ASSUME NEW b \in bindings[m], b.resource = r
        PROVE  sbound[r] # None /\ sbound[r].memory = m
    <3>1. sbound[r] = [memory |-> m, offset |-> b.offset]
      BY <1>2, <2>1 DEF RecordInv, Bound
    <3>2. [memory |-> m, offset |-> b.offset] # None
      BY DEF None
    <3> QED
      BY <3>1, <3>2
  <2> QED
    BY <2>1 DEF RecordInv, Bound
<1>4. \A r \in Resource : sbound'[r] = IF sbound[r] # None /\ sbound[r].memory = m
                                       THEN None ELSE sbound[r]
  BY <1>2, <1>3
<1>5. Types'
  BY <1>1, <1>2 DEF RecordInv, Types
<1>6. CallsSay'
  <2> SUFFICES ASSUME NEW t \in Thread, call[t] # Idle
               PROVE  Says(call[t].what, call[t].answer)'
    BY <1>1 DEF CallsSay
  <2>1. Says(call[t].what, call[t].answer) /\ call[t].what.object # m
    BY <1>1 DEF RecordInv, CallsSay
  <2>2. call[t].what \in WaitedFor
    BY CallTypes DEF RecordInv, Flow
  <2>3. call[t].what.op = "create" => sbound'[call[t].what.object] = None
    BY <1>4, <2>1, <2>2, WaitedForTypes DEF Says, Creates
  <2>4. call[t].what.op = "bind" /\ call[t].answer = "ok" =>
            sbound'[call[t].what.object] = call[t].what.place
    BY <1>1, <1>4, <2>1, <2>2, WaitedForTypes DEF Says
  <2> QED
    BY <1>1, <1>2, <2>1, <2>3, <2>4 DEF Says, Creates
<1>7. Tables'
  BY <1>1, <1>2 DEF RecordInv, Tables
<1>8. Bound'
  <2>1. bindings'[m] = {} /\ \A n \in Memory \ {m} : bindings'[n] = bindings[n]
    BY <1>2 DEF RecordInv, Types
  <2>2. \A n \in Memory : n \notin live' => bindings'[n] = {}
    BY <1>2, <2>1 DEF RecordInv, Bound
  <2>3. ASSUME NEW n \in Memory, NEW b \in bindings'[n]
        PROVE  sbound'[b.resource] = [memory |-> n, offset |-> b.offset]
    <3>1. n # m /\ b \in bindings[n]
      BY <2>1, <2>3
    <3>2. b.resource \in Resource /\ sbound[b.resource] = [memory |-> n, offset |-> b.offset]
      BY <3>1 DEF RecordInv, Types, Bound, Binding
    <3> QED
      BY <1>4, <3>1, <3>2
  <2>4. ASSUME NEW q \in Resource, sbound'[q] # None
        PROVE  q \in live' /\ \E b \in bindings'[sbound'[q].memory] : b.resource = q
    <3>1. sbound'[q] = sbound[q] /\ sbound[q].memory # m
      BY <1>4, <2>4
    <3>2. sbound[q].memory \in Memory
      BY <2>4, <3>1, PlaceIsSomewhere DEF RecordInv, Types
    <3> QED
      BY <1>2, <2>1, <2>4, <3>1, <3>2 DEF RecordInv, Bound
  <2> QED
    BY <2>2, <2>3, <2>4 DEF Bound
<1>9. \A q \in Resource : Made(q)' <=> Made(q)
  BY <1>1 DEF Made
<1>10. Agreement'
  <2> SUFFICES ASSUME NEW q \in Resource
               PROVE  /\ q \notin known \ null => cbound[q] = None
                      /\ q \in known \ null /\ ~Made(q) =>
                             cbound[q] = IF sbound'[q] # None /\ sbound'[q].memory \in Leaving'
                                         THEN None ELSE sbound'[q]
    BY <1>1, <1>9 DEF Agreement, Seen
  <2> QED
    BY <1>1, <1>4 DEF RecordInv, Agreement, Seen
<1> QED
  BY <1>1, <1>5, <1>6, <1>7, <1>8, <1>10 DEF RecordInv

LEMMA PerformPreserves ==
    ASSUME RecordInv, Perform
    PROVE  RecordInv'
<1>1. Taking
  BY DEF Perform, Taking
<1>2. CASE \/ Head(ring).what.op = "create" /\ PerformCreate(Head(ring).what)
           \/ Head(ring).what.op = "allocate" /\ PerformAllocate(Head(ring).what)
  BY <1>1, <1>2, PerformCreatePreserves
<1>3. CASE Head(ring).what.op \in {"ask", "ask2"} /\ PerformAsk(Head(ring).what)
  BY <1>1, <1>3, PerformAskPreserves
<1>4. CASE Head(ring).what.op = "bind" /\ PerformBind(Head(ring).what)
  BY <1>1, <1>4, PerformBindPreserves
<1>5. CASE Head(ring).what.op = "destroy" /\ PerformDestroy(Head(ring).what)
  BY <1>1, <1>5, EndResourcePreserves, EndMemoryPreserves
<1> QED
  BY <1>2, <1>3, <1>4, <1>5 DEF Perform

LEMMA RecordStep ==
    ASSUME RecordInv, [Next]_vars
    PROVE  RecordInv'
<1>0. Types
  BY DEF RecordInv
<1>1. ASSUME NEW t \in Thread, NEW m \in Memory, Allocate(t, m) PROVE RecordInv'
  BY <1>0, <1>1, CallingStep, CallingTypes, CallingPreserves
<1>2. ASSUME NEW t \in Thread, NEW r \in Resource, Create(t, r) \/ Ask2(t, r) PROVE RecordInv'
  BY <1>0, <1>2, CallingStep, CallingTypes, CallingPreserves
<1>3. ASSUME NEW t \in Thread, NEW r \in Resource, Ask(t, r) PROVE RecordInv'
  BY <1>0, <1>3, CallingStep, CallingTypes, CallingPreserves, RestingPreserves
<1>4. ASSUME NEW t \in Thread, NEW r \in Resource, NEW place \in Place, BindMemory(t, r, place)
      PROVE  RecordInv'
  <2> DEFINE what == [op |-> "bind", object |-> r, place |-> place, alone |-> Alone(r, place)]
  <2>1. what \in WaitedFor
    BY CallingTypes
  <2>2. Resting \/ Calling(t, what)
    BY <1>0, <1>4, CallingStep
  <2> HIDE DEF what
  <2>3. CASE Calling(t, what)
    <3>1. PICK w \in WaitedFor : w = what
      BY <2>1
    <3> QED
      BY <2>3, <3>1, CallingPreserves
  <2> QED
    BY <2>2, <2>3, RestingPreserves
<1>5. ASSUME NEW t \in Thread, Return(t) PROVE RecordInv'
  <2>1. CreateReturns(t) \/ AskReturns(t) \/ BindReturns(t)
    BY <1>5 DEF Return
  <2> QED
    BY <1>5, <2>1, CreateReturnsPreserves, AskReturnsPreserves, BindReturnsPreserves
<1>6. ASSUME NEW r \in Resource, Destroy(r) PROVE RecordInv'
  BY <1>6, DestroyPreserves
<1>7. ASSUME NEW m \in Memory, Free(m) PROVE RecordInv'
  BY <1>7, FreePreserves
<1>8. CASE Perform
  BY <1>8, PerformPreserves
<1>9. CASE UNCHANGED vars
  <2>1. Resting
    BY <1>9 DEF vars, clientVars, serverVars, Resting
  <2> QED
    BY <2>1, RestingPreserves
<1> QED
  BY <1>1, <1>2, <1>3, <1>4, <1>5, <1>6, <1>7, <1>8, <1>9 DEF Next

LEMMA HistoryStep ==
    ASSUME RecordInv, HistoryTypes, [Next]_vars
    PROVE  HistoryTypes'
<1>1. ASSUME NEW t \in Thread, NEW m \in Memory, Allocate(t, m) PROVE HistoryTypes'
  BY <1>1 DEF Allocate, HistoryTypes, history
<1>2. ASSUME NEW t \in Thread, NEW r \in Resource, Create(t, r) \/ Ask(t, r) \/ Ask2(t, r)
      PROVE HistoryTypes'
  BY <1>2 DEF Create, Ask, Ask2, HistoryTypes, history
<1>3. ASSUME NEW t \in Thread, NEW r \in Resource, NEW place \in Place, BindMemory(t, r, place)
      PROVE  HistoryTypes'
  BY <1>3 DEF BindMemory, HistoryTypes
<1>4. ASSUME NEW t \in Thread, Return(t) PROVE HistoryTypes'
  <2>1. call[t].what \in WaitedFor
    BY <1>4, ReturnFrame
  <2>2. CASE CreateReturns(t)
    BY <1>4, <2>2 DEF Return, CreateReturns, HistoryTypes
  <2>3. CASE AskReturns(t)
    <3>1. call[t].what.object \in Resource
      BY <2>1, <2>3, WaitedForTypes DEF AskReturns
    <3> QED
      BY <1>4, <2>3, <3>1 DEF Return, AskReturns, HistoryTypes
  <2>4. CASE BindReturns(t)
    <3>1. call[t].what.object \in Resource
      BY <2>1, <2>4, WaitedForTypes DEF BindReturns
    <3> QED
      BY <1>4, <2>4, <3>1 DEF Return, BindReturns, HistoryTypes
  <2> QED
    BY <1>4, <2>2, <2>3, <2>4 DEF Return
<1>5. ASSUME NEW r \in Resource, Destroy(r) PROVE HistoryTypes'
  BY <1>5 DEF Destroy, HistoryTypes, history
<1>6. ASSUME NEW m \in Memory, Free(m) PROVE HistoryTypes'
  BY <1>6 DEF Free, HistoryTypes, history
<1>7. CASE Perform
  <2>1. Head(ring) \in Command
    BY <1>7 DEF Perform, RecordInv, Flow, FlowTypes
  <2>2. Head(ring).what.op = "bind" => Head(ring).what.object \in Resource
    BY <2>1, CommandTypes, WaitedForTypes
  <2>3. told' = told /\ backed' = backed
    BY <1>7 DEF Perform
  <2>4. refused' = refused \/ (Head(ring).what.op = "bind"
                               /\ refused' = refused \cup {Head(ring).what.object})
    BY <1>7 DEF Perform, PerformCreate, PerformAllocate, PerformAsk, PerformBind, PerformDestroy
  <2> QED
    BY <2>2, <2>3, <2>4 DEF HistoryTypes
<1>8. CASE UNCHANGED vars
  BY <1>8 DEF vars, history, HistoryTypes
<1> QED
  BY <1>1, <1>2, <1>3, <1>4, <1>5, <1>6, <1>7, <1>8 DEF Next

LEMMA RecordsHold == Spec => [](RecordInv /\ HistoryTypes)
<1>1. Init => RecordInv /\ HistoryTypes
  BY InitInv
<1>2. RecordInv /\ HistoryTypes /\ [Next]_vars => (RecordInv /\ HistoryTypes)'
  BY RecordStep, HistoryStep
<1> QED
  BY <1>1, <1>2, PTL DEF Spec

-----------------------------------------------------------------------------
(* What a reader should know of the records.                               *)

\* Handles, bindings, requirements, commands and answers keep their types, and
\* neither side knows an object HandleAllocator gave no handle for.
THEOREM TypeCorrect == Spec => []TypeOK
<1>1. RecordInv /\ HistoryTypes => TypeOK
  BY TypesSuffice DEF RecordInv, Flow
<1> QED
  BY <1>1, RecordsHold, PTL

\* vkDestroyBuffer, vkDestroyImage and vkFreeMemory forget an object at once
\* and are performed later, calls are made by any number of threads, and the
\* driver may fail: still nothing leaks, nothing is used after its end, and
\* ResourceState and ResourceTracker know the same bindings.
THEOREM RecordsAlwaysAgree == Spec => []RecordsAgree
<1>1. ASSUME RecordInv PROVE RecordsAgree
  <2>1. live = (known \ null) \cup Leaving \cup Arriving
    BY <1>1 DEF RecordInv, Tables, Types, Leaving, Arriving
  <2>2. Leaving \cap known = {}
    BY <1>1 DEF RecordInv, Tables
  <2>3. \A r \in Resource : Made(r) => Busy(r)
    BY DEF Made, Busy
  <2> QED
    BY <1>1, <2>1, <2>2, <2>3 DEF RecordInv, Agreement, Seen, RecordsAgree
<1> QED
  BY <1>1, RecordsHold, PTL

\* create, bind, destroy_buffer, destroy_image and free_memory, in any order,
\* leave no binding in the list of a memory that the resource does not have,
\* and none the other way round.
THEOREM ViewsAlwaysMatch == Spec => []ViewsMatch
<1>1. ASSUME RecordInv PROVE ViewsMatch
  <2> SUFFICES ASSUME NEW m \in Memory
               PROVE  {<<b.resource, b.offset>> : b \in bindings[m]} =
                      {<<r, sbound[r].offset>> : r \in {s \in Resource : In(sbound[s], m)}}
    BY <1>1 DEF RecordInv, Bound, ViewsMatch
  <2>1. ASSUME NEW b \in bindings[m]
        PROVE  /\ b.resource \in Resource /\ In(sbound[b.resource], m)
               /\ sbound[b.resource].offset = b.offset
    <3>1. b.resource \in Resource /\ sbound[b.resource] = [memory |-> m, offset |-> b.offset]
      BY <1>1 DEF RecordInv, Types, Bound, Binding
    <3>2. [memory |-> m, offset |-> b.offset] # None
      BY DEF None
    <3> QED
      BY <3>1, <3>2 DEF In
  <2>2. ASSUME NEW r \in Resource, In(sbound[r], m)
        PROVE  \E b \in bindings[m] : b.resource = r /\ b.offset = sbound[r].offset
    <3>1. PICK b \in bindings[m] : b.resource = r
      BY <1>1, <2>2 DEF RecordInv, Bound, In
    <3> QED
      BY <2>1, <3>1
  <2> QED
    BY <2>1, <2>2
<1> QED
  BY <1>1, RecordsHold, PTL

-----------------------------------------------------------------------------
(* Bindings as they are recorded.                                          *)

\* What the server assumes of r is not below what the driver asks for.
GuessCovers(r) == Needs(r).size <= Guess(r).size

\* Where its guess is enough the server counts with no less than a resource
\* needs, and its bindings do not overlap.
Divided ==
    /\ \A r \in Resource : valid[r] # None /\ GuessCovers(r) => Needs(r).size <= valid[r].size
    /\ \A m \in Memory : \A b \in bindings[m] :
           GuessCovers(b.resource) => Needs(b.resource).size <= b.size
    /\ \A m \in Memory : \A b, c \in bindings[m] :
           b.resource # c.resource => ~RangesOverlap(b.offset, b.size, c.offset, c.size)

LEMMA DividedBind ==
    ASSUME Types, Bound, Divided, NEW r \in Resource, NEW place \in Place, ServerAccepts(r, place),
           valid' = [valid EXCEPT ![r] = Recorded(r)],
           sbound' = [sbound EXCEPT ![r] = place],
           bindings' = [bindings EXCEPT ![place.memory] = @ \cup
                           {[resource |-> r, offset |-> place.offset, size |-> Recorded(r).size]}]
    PROVE  Divided'
<1> DEFINE m == place.memory
<1>1. PICK b : b = [resource |-> r, offset |-> place.offset, size |-> Recorded(r).size]
  OBVIOUS
<1>2. /\ b.resource = r /\ b.size = Recorded(r).size /\ b.offset = place.offset
      /\ m \in Memory /\ place.offset \in Offset
  BY <1>1, PlaceIsSomewhere
<1>3. bindings'[m] = bindings[m] \cup {b} /\ \A n \in Memory \ {m} : bindings'[n] = bindings[n]
  BY <1>1, <1>2 DEF Types
<1>4. GuessCovers(r) => Needs(r).size <= Recorded(r).size
  BY DEF Divided, Recorded, GuessCovers
<1>5. \A c \in bindings[m] : ~RangesOverlap(b.offset, b.size, c.offset, c.size)
  BY <1>2 DEF ServerAccepts, Overlaps
<1>6. \A c \in bindings[m] : ~RangesOverlap(c.offset, c.size, b.offset, b.size)
  BY <1>5 DEF RangesOverlap
<1> HIDE DEF m
<1>7. \A q \in Resource : valid'[q] # None /\ GuessCovers(q) => Needs(q).size <= valid'[q].size
  BY <1>4 DEF Types, Divided
<1>9. \A n \in Memory : \A c \in bindings'[n] :
          GuessCovers(c.resource) => Needs(c.resource).size <= c.size
  BY <1>2, <1>3, <1>4 DEF Divided
<1>10. \A n \in Memory : \A c, d \in bindings'[n] :
           c.resource # d.resource => ~RangesOverlap(c.offset, c.size, d.offset, d.size)
  <2> SUFFICES ASSUME NEW n \in Memory, NEW c \in bindings'[n], NEW d \in bindings'[n],
                      c.resource # d.resource
               PROVE  ~RangesOverlap(c.offset, c.size, d.offset, d.size)
    OBVIOUS
  <2>1. CASE c \in bindings[n] /\ d \in bindings[n]
    BY <2>1 DEF Divided
  <2>2. CASE n = m /\ c = b /\ d \in bindings[n]
    BY <1>5, <2>2
  <2>3. CASE n = m /\ c \in bindings[n] /\ d = b
    BY <1>6, <2>3
  <2>4. \/ c \in bindings[n] /\ d \in bindings[n]
        \/ n = m /\ c = b /\ d \in bindings[n]
        \/ n = m /\ c \in bindings[n] /\ d = b
    <3>1. CASE n = m
      BY <1>3, <3>1
    <3>2. CASE n # m
      BY <1>3, <3>2
    <3> QED
      BY <3>1, <3>2
  <2> QED
    BY <2>1, <2>2, <2>3, <2>4
<1> QED
  BY <1>7, <1>9, <1>10 DEF Divided, GuessCovers

LEMMA DividedStep ==
    ASSUME RecordInv, Divided, [Next]_vars
    PROVE  Divided'
<1>0. Types /\ Bound
  BY DEF RecordInv
<1>1. CASE valid' = valid /\ sbound' = sbound /\ bindings' = bindings
  BY <1>1 DEF Divided, GuessCovers
<1>2. CASE ~Perform
  <2>1. valid' = valid /\ sbound' = sbound /\ bindings' = bindings
    BY <1>2 DEF Next, Create, Allocate, Ask, Ask2, BindMemory, Return, Destroy, Free, vars, serverVars
  <2> QED
    BY <1>1, <2>1
<1>3. CASE Perform /\ Head(ring).what.op \in {"create", "allocate"}
  <2>1. PerformCreate(Head(ring).what) \/ PerformAllocate(Head(ring).what)
    BY <1>3 DEF Perform
  <2> QED
    BY <1>1, <2>1 DEF PerformCreate, PerformAllocate
<1>4. CASE Perform /\ Head(ring).what.op \in {"ask", "ask2"}
  <2>1. /\ sbound' = sbound /\ bindings' = bindings
        /\ \/ valid' = valid
           \/ valid' = [valid EXCEPT ![Head(ring).what.object] = Needs(Head(ring).what.object)]
    BY <1>4 DEF Perform, PerformAsk
  <2>2. \A r \in Resource : Needs(r).size \in Nat
    BY RequirementTypes
  <2>3. \A r \in Resource : valid'[r] = valid[r] \/ valid'[r] = Needs(r)
    BY <1>0, <2>1 DEF Types
  <2>4. \A r \in Resource : valid'[r] # None /\ GuessCovers(r) => Needs(r).size <= valid'[r].size
    BY <2>2, <2>3 DEF Divided
  <2> QED
    BY <2>1, <2>4 DEF Divided, GuessCovers
<1>5. CASE Perform /\ Head(ring).what.op = "bind"
  <2>1. Taking /\ PerformBind(Head(ring).what)
    BY <1>5 DEF Perform, Taking
  <2>2. PICK what \in WaitedFor, made \in BOOLEAN :
        /\ what.op = "bind" /\ what.object \in Resource /\ what.place \in Place
        /\ made => ServerAccepts(what.object, what.place)
        /\ valid' = IF Tracked(what.object, what.place.memory)
                    THEN [valid EXCEPT ![what.object] = Recorded(what.object)] ELSE valid
        /\ IF made
           THEN /\ sbound' = [sbound EXCEPT ![what.object] = what.place]
                /\ bindings' = [bindings EXCEPT ![what.place.memory] = @ \cup
                      {[resource |-> what.object, offset |-> what.place.offset,
                        size |-> Recorded(what.object).size]}]
           ELSE sbound' = sbound /\ bindings' = bindings
        /\ Says(what, "waiting")
    BY <1>5, <2>1, BindOutcome
  <2>4. CASE made
    <3>1. ServerAccepts(what.object, what.place) /\ Tracked(what.object, what.place.memory)
      BY <2>2, <2>4 DEF ServerAccepts
    <3>2. /\ valid' = [valid EXCEPT ![what.object] = Recorded(what.object)]
          /\ sbound' = [sbound EXCEPT ![what.object] = what.place]
          /\ bindings' = [bindings EXCEPT ![what.place.memory] = @ \cup
                {[resource |-> what.object, offset |-> what.place.offset,
                  size |-> Recorded(what.object).size]}]
      BY <2>2, <2>4, <3>1
    <3> QED
      BY <1>0, <2>2, <3>1, <3>2, DividedBind
  <2>5. CASE ~made
    <3>1. \A r \in Resource : valid'[r] = valid[r] \/ valid'[r] = Recorded(r)
      BY <1>0, <2>2 DEF Types
    <3>2. \A r \in Resource : GuessCovers(r) => Needs(r).size <= Recorded(r).size
      BY DEF Divided, Recorded, GuessCovers
    <3>3. \A r \in Resource : valid'[r] # None /\ GuessCovers(r) => Needs(r).size <= valid'[r].size
      BY <3>1, <3>2 DEF Divided
    <3> QED
      BY <2>2, <2>5, <3>3 DEF Divided, GuessCovers
  <2> QED
    BY <2>4, <2>5
<1>6. CASE Perform /\ Head(ring).what.op = "destroy"
  <2>1. PerformDestroy(Head(ring).what)
    BY <1>6 DEF Perform
  <2>2. CASE FreeMemory(Head(ring).what.object)
    <3>1. /\ \A m \in Memory : bindings'[m] \subseteq bindings[m]
          /\ \A r \in Resource : sbound'[r] = None \/ sbound'[r] = sbound[r]
          /\ valid' = valid
      BY <1>0, <2>2 DEF Types, FreeMemory
    <3> QED
      BY <3>1 DEF Divided, GuessCovers
  <2>3. CASE DestroyResource(Head(ring).what.object)
    <3>1. /\ \A m \in Memory : bindings'[m] \subseteq bindings[m]
          /\ \A r \in Resource : sbound'[r] = None \/ sbound'[r] = sbound[r]
          /\ \A r \in Resource : valid'[r] = None \/ valid'[r] = valid[r]
      BY <1>0, <2>3 DEF Types, DestroyResource
    <3> QED
      BY <3>1 DEF Divided, GuessCovers
  <2> QED
    BY <1>1, <2>1, <2>2, <2>3 DEF PerformDestroy, serverVars
<1>7. Perform => Head(ring).what.op \in {"create", "allocate", "ask", "ask2", "bind", "destroy"}
  BY DEF Perform
<1> QED
  BY <1>2, <1>3, <1>4, <1>5, <1>6, <1>7

-----------------------------------------------------------------------------
(* Legal binds are accepted.                                               *)

\* r at that place would share a part of the memory with what is to be bound.
Clash(w, r, place) ==
    /\ place.memory = w.place.memory
    /\ RangesOverlap(w.place.offset, Needs(w.object).size, place.offset, Needs(r).size)

\* A bind to a place where the application has nothing else finds room there,
\* once what is before it on the ring is performed.
Room(s, sb) ==
    \A i \in 1..Len(s) : s[i].what.op = "bind" /\ s[i].what.alone =>
        /\ \A r \in Resource : sb[r] # None /\ Clash(s[i].what, r, sb[r]) =>
               \E j \in 1..(i - 1) : s[j].what = [op |-> "destroy", object |-> r]
        /\ \A j \in 1..(i - 1) : s[j].what.op = "bind" =>
               ~Clash(s[i].what, s[j].what.object, s[j].what.place)

LEMMA RoomAppend ==
    ASSUME NEW s \in Seq(Command), NEW c \in Command, NEW sb, Room(s, sb),
           c.what.op = "bind" /\ c.what.alone =>
               /\ \A r \in Resource : sb[r] # None /\ Clash(c.what, r, sb[r]) => r \in Ending(s)
               /\ \A j \in 1..Len(s) : s[j].what.op = "bind" =>
                      ~Clash(c.what, s[j].what.object, s[j].what.place)
    PROVE  Room(Append(s, c), sb)
<1> DEFINE a == Append(s, c)
<1>1. /\ Len(a) = Len(s) + 1 /\ Len(s) \in Nat /\ a[Len(s) + 1] = c
      /\ \A i \in 1..Len(s) : a[i] = s[i]
  OBVIOUS
<1> HIDE DEF a
<1> SUFFICES ASSUME NEW i \in 1..(Len(s) + 1), a[i].what.op = "bind", a[i].what.alone
             PROVE  /\ \A r \in Resource : sb[r] # None /\ Clash(a[i].what, r, sb[r]) =>
                           \E j \in 1..(i - 1) : a[j].what = [op |-> "destroy", object |-> r]
                    /\ \A j \in 1..(i - 1) : a[j].what.op = "bind" =>
                           ~Clash(a[i].what, a[j].what.object, a[j].what.place)
  BY <1>1 DEF Room, a
<1>2. \A j \in 1..(i - 1) : j \in 1..Len(s) /\ a[j] = s[j]
  BY <1>1
<1>3. CASE i \in 1..Len(s)
  <2>1. a[i] = s[i]
    BY <1>1, <1>3
  <2>2. /\ \A r \in Resource : sb[r] # None /\ Clash(s[i].what, r, sb[r]) =>
               \E j \in 1..(i - 1) : s[j].what = [op |-> "destroy", object |-> r]
        /\ \A j \in 1..(i - 1) : s[j].what.op = "bind" =>
               ~Clash(s[i].what, s[j].what.object, s[j].what.place)
    BY <1>3, <2>1 DEF Room
  <2> QED
    BY <1>2, <2>1, <2>2
<1>4. CASE i = Len(s) + 1
  <2>1. a[i] = c /\ i - 1 = Len(s)
    BY <1>1, <1>4
  <2>2. \A r \in Ending(s) : \E j \in 1..Len(s) : s[j].what = [op |-> "destroy", object |-> r]
    BY DEF Ending
  <2> QED
    BY <1>2, <2>1, <2>2
<1> QED
  BY <1>1, <1>3, <1>4

LEMMA RoomTail ==
    ASSUME NEW s \in Seq(Command), s # <<>>, NEW sb, NEW sc, Room(s, sb),
           \A r \in Resource :
               \/ sc[r] = None \/ sc[r] = sb[r]
               \/ /\ Head(s).what.op = "bind" /\ r = Head(s).what.object
                  /\ sc[r] = Head(s).what.place,
           \A r \in Resource : Head(s).what = [op |-> "destroy", object |-> r] => sc[r] = None
    PROVE  Room(Tail(s), sc)
<1> DEFINE a == Tail(s)
<1>1. /\ Len(a) = Len(s) - 1 /\ Len(s) \in Nat \ {0} /\ Head(s) = s[1]
      /\ \A i \in 1..Len(a) : a[i] = s[i + 1]
  OBVIOUS
<1> HIDE DEF a
<1> SUFFICES ASSUME NEW i \in 1..Len(a), a[i].what.op = "bind", a[i].what.alone
             PROVE  /\ \A r \in Resource : sc[r] # None /\ Clash(a[i].what, r, sc[r]) =>
                           \E j \in 1..(i - 1) : a[j].what = [op |-> "destroy", object |-> r]
                    /\ \A j \in 1..(i - 1) : a[j].what.op = "bind" =>
                           ~Clash(a[i].what, a[j].what.object, a[j].what.place)
  BY DEF Room, a
<1>2. /\ i + 1 \in 1..Len(s) /\ a[i] = s[i + 1] /\ 1 \in 1..((i + 1) - 1)
      /\ \A j \in 1..(i - 1) : a[j] = s[j + 1] /\ j + 1 \in 1..((i + 1) - 1)
      /\ \A j \in 1..((i + 1) - 1) : j = 1 \/ (j - 1 \in 1..(i - 1) /\ a[j - 1] = s[j])
  BY <1>1
<1>3. /\ \A r \in Resource : sb[r] # None /\ Clash(s[i + 1].what, r, sb[r]) =>
             \E j \in 1..((i + 1) - 1) : s[j].what = [op |-> "destroy", object |-> r]
      /\ \A j \in 1..((i + 1) - 1) : s[j].what.op = "bind" =>
             ~Clash(s[i + 1].what, s[j].what.object, s[j].what.place)
  <2>1. i + 1 \in 1..Len(s) /\ s[i + 1].what.op = "bind" /\ s[i + 1].what.alone
    BY <1>2
  <2> QED
    BY <2>1 DEF Room
<1>4. \A j \in 1..(i - 1) : a[j].what.op = "bind" =>
          ~Clash(a[i].what, a[j].what.object, a[j].what.place)
  BY <1>2, <1>3
<1>5. ASSUME NEW r \in Resource, sc[r] # None, Clash(a[i].what, r, sc[r])
      PROVE  \E j \in 1..(i - 1) : a[j].what = [op |-> "destroy", object |-> r]
  <2>1. s[1].what # [op |-> "destroy", object |-> r]
    BY <1>1, <1>5
  <2>2. ~(/\ s[1].what.op = "bind" /\ r = s[1].what.object
          /\ sc[r] = s[1].what.place)
    BY <1>2, <1>3, <1>5
  <2>3. sc[r] = sb[r]
    BY <1>1, <1>5, <2>2
  <2>4. PICK j \in 1..((i + 1) - 1) : s[j].what = [op |-> "destroy", object |-> r]
    BY <1>2, <1>3, <1>5, <2>3
  <2>5. j # 1
    BY <2>1, <2>4
  <2>6. j - 1 \in 1..(i - 1) /\ a[j - 1] = s[j]
    BY <1>2, <2>5
  <2> QED
    BY <2>4, <2>6
<1> QED
  BY <1>4, <1>5

\* What a call that has not returned says of requirements and bindings.
Tells(what, answer) ==
    /\ what.op = "create" => told[what.object] = "never"
    /\ what.op \in {"ask", "ask2"} => told[what.object] = "never"
    /\ what.op = "ask" /\ answer = "ok" => valid[what.object] = Needs(what.object)
    /\ what.op = "bind" => told[what.object] # "never" /\ what.object \notin backed

CallsTell == \A t \in Thread : call[t] # Idle => Tells(call[t].what, call[t].answer)

\* What was asked for the plain way the server knows.
Asked ==
    /\ \A r \in Resource : told[r] # "never" => r \in used
    /\ \A r \in Resource : told[r] = "plain" /\ r \in live => valid[r] = Needs(r)
    /\ \A m \in Memory : \A b \in bindings[m] :
           /\ told[b.resource] # "never"
           /\ told[b.resource] = "plain" => b.size = Needs(b.resource).size

\* Nothing is bound without a vkBind*Memory that succeeded.
OnceBacked ==
    \A r \in Resource : /\ r \notin backed => cbound[r] = None
                        /\ sbound[r] # None => r \in backed \/ Made(r)

BindInv == CallsTell /\ Asked /\ OnceBacked /\ Room(ring, sbound) /\ PlainBindsAccepted

LEMMA BindRoom ==
    ASSUME RecordInv, BindInv, NEW t \in Thread, NEW what \in WaitedFor, Calling(t, what),
           what.op = "bind", what.alone
    PROVE  /\ \A r \in Resource : sbound[r] # None /\ Clash(what, r, sbound[r]) => r \in Leaving
           /\ \A j \in 1..Len(ring) : ring[j].what.op = "bind" =>
                  ~Clash(what, ring[j].what.object, ring[j].what.place)
<1> DEFINE x == what.object
           place == what.place
<1>1. /\ x \in Resource /\ place \in Place /\ place.memory \in known /\ ~Busy(x)
      /\ x \notin backed /\ Alone(x, place)
  BY WaitedForTypes DEF Calling, Creates
<1>2. \A r \in Resource \ {x} : \A p \in Taken(r) : ~Clash(what, r, p)
  BY <1>1 DEF Alone, Clash
<1>3. \A u \in Thread : call[u] # Idle /\ call[u].what.op = "bind" =>
          /\ call[u].what.object \in Resource \ {x}
          /\ call[u].what.place \in Taken(call[u].what.object)
  <2> SUFFICES ASSUME NEW u \in Thread, call[u] # Idle, call[u].what.op = "bind"
               PROVE  /\ call[u].what.object \in Resource \ {x}
                      /\ call[u].what.place \in Taken(call[u].what.object)
    OBVIOUS
  <2>1. call[u].what \in WaitedFor
    BY CallTypes DEF RecordInv, Flow
  <2>2. call[u].what.object \in Resource \ {x}
    BY <1>1, <2>1, WaitedForTypes DEF Busy
  <2>3. cbound[call[u].what.object] = None
    BY DEF RecordInv, CallsSay, Says
  <2> QED
    BY <2>2, <2>3 DEF Taken
<1>4. ASSUME NEW j \in 1..Len(ring), ring[j].what.op = "bind"
      PROVE  ~Clash(what, ring[j].what.object, ring[j].what.place)
  <2>1. ring[j] \in Command /\ ring[j].what.op # "destroy"
    BY <1>4 DEF RecordInv, Flow, FlowTypes
  <2>2. ring[j].thread \in Thread
    BY <2>1, CommandTypes
  <2>3. call[ring[j].thread] = [op |-> "call", what |-> ring[j].what, answer |-> "waiting"]
    BY <2>1 DEF RecordInv, Flow, Paired
  <2>4. call[ring[j].thread] # Idle /\ call[ring[j].thread].what = ring[j].what
    BY <2>3 DEF Idle
  <2> QED
    BY <1>2, <1>3, <1>4, <2>2, <2>4
<1>5. ASSUME NEW r \in Resource, sbound[r] # None, Clash(what, r, sbound[r])
      PROVE  r \in Leaving
  <2>1. r # x
    <3>1. ~Made(x)
      BY <1>1 DEF Made, Busy
    <3> QED
      BY <1>1, <1>5, <3>1 DEF BindInv, OnceBacked
  <2>2. ~Made(r)
    <3> SUFFICES ASSUME NEW u \in Thread, call[u] # Idle, call[u].answer = "ok",
                        call[u].what.op = "bind", call[u].what.object = r
                 PROVE  FALSE
      BY DEF Made
    <3>1. sbound[r] = call[u].what.place
      BY DEF RecordInv, CallsSay, Says
    <3> QED
      BY <1>2, <1>3, <1>5, <2>1, <3>1
  <2>3. r \notin known \ null
    <3> SUFFICES ASSUME r \in known \ null PROVE FALSE
      OBVIOUS
    <3>1. sbound[r].memory \notin Leaving
      BY <1>1, <1>5 DEF Clash, RecordInv, Tables
    <3>2. cbound[r] = sbound[r]
      BY <2>2, <3>1 DEF RecordInv, Agreement, Seen
    <3>3. sbound[r] \in Taken(r)
      BY <1>5, <3>2 DEF Taken
    <3> QED
      BY <1>2, <1>5, <2>1, <3>3
  <2>4. r \notin Arriving
    <3> SUFFICES ASSUME NEW u \in Thread, call[u] # Idle, Creates(call[u].what),
                        call[u].what.object = r
                 PROVE  FALSE
      BY DEF Arriving, Creates
    <3>1. call[u].what \in WaitedFor
      BY CallTypes DEF RecordInv, Flow
    <3>2. r \notin Memory
      BY BindingAssumption
    <3>3. call[u].what.op = "create"
      BY <3>1, <3>2, WaitedForTypes DEF Creates
    <3> QED
      BY <1>5, <3>3 DEF RecordInv, CallsSay, Says
  <2> QED
    BY <1>5, <2>3, <2>4 DEF RecordInv, Bound, Tables, Object
<1> QED
  BY <1>4, <1>5

LEMMA CallingKeepsBinds ==
    ASSUME RecordInv, BindInv, NEW t \in Thread, NEW what \in WaitedFor, Calling(t, what)
    PROVE  BindInv'
<1>1. /\ Flow' /\ Leaving' = Leaving
      /\ call'[t] = [op |-> "call", what |-> what, answer |-> "waiting"] /\ call'[t] # Idle
      /\ \A u \in Thread \ {t} : call'[u] = call[u]
  <2>1. Flow /\ call[t] = Idle /\ Issue(t, what)
    BY DEF RecordInv, Calling
  <2> QED
    BY <2>1, IssueEffect
<1>2. call[t] = Idle /\ call'[t].what = what /\ call'[t].answer = "waiting"
  BY <1>1 DEF Calling
<1>3. /\ used' = used \cup {what.object} /\ cbound' = cbound /\ live' = live /\ valid' = valid
      /\ sbound' = sbound /\ bindings' = bindings /\ told' = told /\ backed' = backed
      /\ refused' = refused
  BY DEF Calling, clientVars, serverVars, history
<1>4. CallsTell'
  <2>1. Tells(what, "waiting")'
    <3>1. what.op = "create" => what.object \in Resource
      BY WaitedForTypes
    <3>2. what.op = "create" => told[what.object] = "never"
      BY <3>1 DEF BindInv, Asked, Calling, Creates
    <3> QED
      BY <1>3, <3>2 DEF Tells, Calling
  <2>2. \A u \in Thread \ {t} : call[u] # Idle => Tells(call[u].what, call[u].answer)'
    BY <1>1, <1>3 DEF BindInv, CallsTell, Tells
  <2> QED
    BY <1>1, <1>2, <2>1, <2>2 DEF CallsTell
<1>5. Asked'
  BY <1>3 DEF BindInv, Asked
<1>6. \A r \in Resource : Made(r)' <=> Made(r)
  BY <1>1, <1>2 DEF Made
<1>7. OnceBacked'
  BY <1>3, <1>6 DEF BindInv, OnceBacked
<1>8. Room(ring', sbound')
  <2> DEFINE c == [thread |-> t, what |-> what]
  <2>1. c \in Command /\ c.what = what
    BY DEF Command, WaitedFor
  <2>2. ring' = Append(ring, c) /\ ring \in Seq(Command)
    BY DEF Calling, Issue, RecordInv, Flow, FlowTypes
  <2> HIDE DEF c
  <2>3. Room(ring, sbound)
    BY DEF BindInv
  <2>4. what.op = "bind" /\ what.alone =>
            /\ \A r \in Resource : sbound[r] # None /\ Clash(what, r, sbound[r]) => r \in Ending(ring)
            /\ \A j \in 1..Len(ring) : ring[j].what.op = "bind" =>
                   ~Clash(what, ring[j].what.object, ring[j].what.place)
    BY BindRoom, LeavingIsEnding
  <2>5. Room(Append(ring, c), sbound)
    BY <2>1, <2>2, <2>3, <2>4, RoomAppend
  <2> QED
    BY <1>3, <2>2, <2>5
<1>9. PlainBindsAccepted'
  BY <1>3 DEF BindInv, PlainBindsAccepted, LegalBindsAccepted
<1> QED
  BY <1>4, <1>5, <1>7, <1>8, <1>9 DEF BindInv

\* A resource without a remote handle is asked about.
LEMMA AskNullKeepsBinds ==
    ASSUME RecordInv, BindInv, HistoryTypes, NEW t \in Thread, NEW r \in Resource,
           Ask(t, r), r \in null
    PROVE  BindInv'
<1>1. /\ told[r] = "never" /\ told' = [told EXCEPT ![r] = "plain"] /\ ~Busy(r)
      /\ used' = used /\ cbound' = cbound /\ live' = live /\ valid' = valid
      /\ sbound' = sbound /\ bindings' = bindings /\ backed' = backed /\ refused' = refused
      /\ ring' = ring /\ call' = call
  BY DEF Ask, clientVars, serverVars
<1>2. r \notin live /\ r \in used
  <2>1. r \in known /\ r \in Object
    BY DEF RecordInv, Types, Object
  <2>2. r \notin Arriving
    BY <1>1 DEF Arriving, Busy
  <2> QED
    BY <2>1, <2>2 DEF RecordInv, Tables, Types
<1>3. told'[r] = "plain" /\ \A q \in Resource \ {r} : told'[q] = told[q]
  BY <1>1 DEF HistoryTypes
<1>4. CallsTell'
  <2> SUFFICES ASSUME NEW u \in Thread, call[u] # Idle
               PROVE  Tells(call[u].what, call[u].answer)'
    BY <1>1 DEF CallsTell
  <2>1. call[u].what \in WaitedFor /\ call[u].what.object # r
    BY <1>1, CallTypes DEF RecordInv, Flow, Busy
  <2>2. call[u].what.op # "allocate" => told'[call[u].what.object] = told[call[u].what.object]
    BY <1>3, <2>1, WaitedForTypes
  <2> QED
    BY <1>1, <2>2 DEF BindInv, CallsTell, Tells
<1>5. Asked'
  <2>1. \A m \in Memory : \A b \in bindings[m] : b.resource \in Resource /\ b.resource # r
    BY <1>1 DEF RecordInv, Types, Binding, BindInv, Asked
  <2> QED
    BY <1>1, <1>2, <1>3, <2>1 DEF BindInv, Asked
<1>6. OnceBacked'
  BY <1>1 DEF BindInv, OnceBacked, Made
<1>7. Room(ring', sbound')
  BY <1>1 DEF BindInv
<1>8. PlainBindsAccepted'
  BY <1>1, <1>3 DEF BindInv, PlainBindsAccepted, LegalBindsAccepted
<1> QED
  BY <1>4, <1>5, <1>6, <1>7, <1>8 DEF BindInv

\* The client refuses only what has no remote handle.
LEMMA RefusalKeepsBinds ==
    ASSUME RecordInv, BindInv, NEW t \in Thread, NEW r \in Resource, NEW place \in Place,
           BindMemory(t, r, place), ~ClientAccepts(r, place)
    PROVE  BindInv'
<1>1. /\ used' = used /\ cbound' = cbound /\ live' = live /\ valid' = valid
      /\ sbound' = sbound /\ bindings' = bindings /\ backed' = backed /\ told' = told
      /\ ring' = ring /\ call' = call
      /\ r \notin backed /\ Fits(Needs(r), place.offset)
      /\ refused' = IF Alone(r, place) /\ r \notin null THEN refused \cup {r} ELSE refused
  BY DEF BindMemory, clientVars, serverVars
<1>2. r \in null
  BY <1>1 DEF ClientAccepts, BindInv, OnceBacked
<1>3. refused' = refused
  BY <1>1, <1>2
<1>4. CallsTell' /\ Asked' /\ OnceBacked'
  BY <1>1 DEF BindInv, CallsTell, Tells, Asked, OnceBacked, Made
<1>5. Room(ring', sbound') /\ PlainBindsAccepted'
  BY <1>1, <1>3 DEF BindInv, PlainBindsAccepted, LegalBindsAccepted
<1> QED
  BY <1>4, <1>5 DEF BindInv

LEMMA ReturnKeepsBinds ==
    ASSUME RecordInv, BindInv, HistoryTypes, NEW t \in Thread, Return(t)
    PROVE  BindInv'
<1>1. PICK what, answer : what = call[t].what /\ answer = call[t].answer
  OBVIOUS
<1> DEFINE x == what.object
<1>2. /\ used' = used /\ live' = live /\ valid' = valid /\ sbound' = sbound
      /\ bindings' = bindings /\ call[t] # Idle /\ answer # "waiting" /\ what \in WaitedFor
      /\ call'[t] = Idle /\ \A u \in Thread \ {t} : call'[u] = call[u]
      /\ \A u \in Thread \ {t} : call[u] # Idle => call[u].what.object # x
      /\ Says(what, answer)
  BY <1>1, ReturnFrame
<1>3. ring' = ring /\ refused' = refused /\ Room(ring, sbound)
  BY DEF Return, BindInv
<1>4. Room(ring', sbound')
  BY <1>2, <1>3
<1>5. Tells(what, answer)
  BY <1>1, <1>2 DEF BindInv, CallsTell
<1>6. \A u \in Thread \ {t} : call[u] # Idle =>
          /\ call[u].what \in WaitedFor /\ call[u].what.object # x
          /\ Tells(call[u].what, call[u].answer)
  BY <1>2, CallTypes DEF RecordInv, Flow, BindInv, CallsTell
<1> HIDE DEF x
<1>7. CASE CreateReturns(t)
  <2>1. told' = told /\ backed' = backed /\ cbound' = cbound /\ what.op # "bind"
    BY <1>1, <1>7 DEF CreateReturns
  <2>2. CallsTell'
    BY <1>2, <1>6, <2>1 DEF CallsTell, Tells
  <2>3. \A r \in Resource : Made(r)' <=> Made(r)
    BY <1>1, <1>2, <2>1 DEF Made
  <2>4. Asked' /\ OnceBacked'
    BY <1>2, <2>1, <2>3 DEF BindInv, Asked, OnceBacked
  <2> QED
    BY <1>3, <1>4, <2>1, <2>2, <2>4 DEF BindInv, PlainBindsAccepted, LegalBindsAccepted
<1>8. CASE AskReturns(t)
  <2>1. /\ what.op \in {"ask", "ask2"} /\ backed' = backed /\ cbound' = cbound
        /\ told' = [told EXCEPT ![x] = IF what.op = "ask" THEN "plain" ELSE "two"]
    BY <1>1, <1>8 DEF AskReturns, x
  <2>2. x \in Resource /\ x \in known /\ told[x] = "never" /\ answer = "ok"
    <3>1. answer \in Answer
      BY <1>1, <1>2, CallTypes DEF RecordInv, Flow
    <3>2. answer # "null" /\ answer # "failed"
      BY <1>2, <2>1 DEF Says
    <3> QED
      BY <1>2, <1>5, <2>1, <3>1, <3>2, WaitedForTypes DEF Says, Tells, Creates, Answer, x
  <2>3. /\ told'[x] = IF what.op = "ask" THEN "plain" ELSE "two"
        /\ \A r \in Resource \ {x} : told'[r] = told[r]
    BY <2>1, <2>2 DEF HistoryTypes
  <2>4. CallsTell'
    <3> SUFFICES ASSUME NEW u \in Thread \ {t}, call[u] # Idle
                 PROVE  Tells(call[u].what, call[u].answer)'
      BY <1>2 DEF CallsTell
    <3>1. call[u].what.op # "allocate" => told'[call[u].what.object] = told[call[u].what.object]
      BY <1>6, <2>3, WaitedForTypes
    <3> QED
      BY <1>2, <1>6, <2>1, <3>1 DEF Tells
  <2>5. Asked'
    <3>1. \A m \in Memory : \A b \in bindings[m] : b.resource \in Resource /\ b.resource # x
      BY <2>2 DEF RecordInv, Types, Binding, BindInv, Asked
    <3>2. x \in used
      BY <2>2 DEF RecordInv, Types
    <3>3. told'[x] = "plain" => valid[x] = Needs(x)
      BY <1>5, <2>1, <2>2, <2>3 DEF Tells, x
    <3> QED
      BY <1>2, <2>3, <3>1, <3>2, <3>3 DEF BindInv, Asked
  <2>6. \A r \in Resource : Made(r)' <=> Made(r)
    BY <1>1, <1>2, <2>1 DEF Made
  <2>7. OnceBacked'
    BY <1>2, <2>1, <2>6 DEF BindInv, OnceBacked
  <2>8. PlainBindsAccepted'
    BY <1>3, <2>2, <2>3 DEF BindInv, PlainBindsAccepted, LegalBindsAccepted
  <2> QED
    BY <1>4, <2>4, <2>5, <2>7, <2>8 DEF BindInv
<1>9. CASE BindReturns(t)
  <2>1. /\ what.op = "bind" /\ told' = told
        /\ cbound' = IF answer = "ok" THEN [cbound EXCEPT ![x] = what.place] ELSE cbound
        /\ backed' = IF answer = "ok" THEN backed \cup {x} ELSE backed
    BY <1>1, <1>9 DEF BindReturns, x
  <2>2. \A r \in Resource \ {x} : cbound'[r] = cbound[r]
    BY <2>1 DEF RecordInv, Types
  <2>3. CallsTell'
    <3> SUFFICES ASSUME NEW u \in Thread \ {t}, call[u] # Idle
                 PROVE  Tells(call[u].what, call[u].answer)'
      BY <1>2 DEF CallsTell
    <3> QED
      BY <1>2, <1>6, <2>1 DEF Tells
  <2>4. Asked'
    BY <1>2, <2>1 DEF BindInv, Asked
  <2>5. \A r \in Resource : Made(r)' <=> Made(r) /\ r # x
    BY <1>1, <1>2 DEF Made, x
  <2>6. Made(x) => answer = "ok"
    BY <1>1, <1>2 DEF Made, x
  <2>7. OnceBacked'
    BY <1>2, <2>1, <2>2, <2>5, <2>6 DEF BindInv, OnceBacked
  <2>8. PlainBindsAccepted'
    BY <1>3, <2>1 DEF BindInv, PlainBindsAccepted, LegalBindsAccepted
  <2> QED
    BY <1>4, <2>3, <2>4, <2>7, <2>8 DEF BindInv
<1> QED
  BY <1>7, <1>8, <1>9 DEF Return

\* An object is forgotten, and the server is told.
LEMMA ForgetKeepsBinds ==
    ASSUME RecordInv, BindInv,
           \/ \E r \in Resource : Destroy(r)
           \/ \E m \in Memory : Free(m)
    PROVE  BindInv'
<1>1. /\ used' = used /\ live' = live /\ valid' = valid /\ sbound' = sbound
      /\ bindings' = bindings /\ told' = told /\ backed' = backed /\ refused' = refused
      /\ call' = call
  BY DEF Destroy, Free, SendAsync, serverVars, history
<1>2. \A r \in Resource : cbound'[r] = None \/ cbound'[r] = cbound[r]
  BY DEF Destroy, Forget, Free, Unbind, RecordInv, Types
<1>3. CallsTell' /\ Asked'
  BY <1>1 DEF BindInv, CallsTell, Tells, Asked
<1>4. OnceBacked'
  BY <1>1, <1>2 DEF BindInv, OnceBacked, Made
<1>5. Room(ring', sbound')
  <2>1. ring' = ring \/ \E x \in Object : ring' = Append(ring, [what |-> [op |-> "destroy", object |-> x]])
    BY DEF Destroy, Free, SendAsync, Object
  <2>2. ASSUME NEW x \in Object, ring' = Append(ring, [what |-> [op |-> "destroy", object |-> x]])
        PROVE  Room(ring', sbound)
    <3> DEFINE c == [what |-> [op |-> "destroy", object |-> x]]
    <3>1. c \in Command /\ c.what.op # "bind"
      BY DEF Command, Async
    <3>2. ring' = Append(ring, c) /\ ring \in Seq(Command) /\ Room(ring, sbound)
      BY <2>2 DEF RecordInv, Flow, FlowTypes, BindInv
    <3> HIDE DEF c
    <3>3. Room(Append(ring, c), sbound)
      BY <3>1, <3>2, RoomAppend
    <3> QED
      BY <3>2, <3>3
  <2>3. ring' = ring => Room(ring', sbound)
    BY DEF BindInv
  <2> QED
    BY <1>1, <2>1, <2>2, <2>3
<1>6. PlainBindsAccepted'
  BY <1>1 DEF BindInv, PlainBindsAccepted, LegalBindsAccepted
<1> QED
  BY <1>3, <1>4, <1>5, <1>6 DEF BindInv

\* Taking a command off the ring that binds nothing leaves room.
LEMMA TakingKeepsRoom ==
    ASSUME RecordInv, BindInv, Taking, Head(ring).what.op # "bind",
           \A r \in Resource : sbound'[r] = None \/ sbound'[r] = sbound[r],
           \A r \in Resource : Head(ring).what = [op |-> "destroy", object |-> r] => sbound'[r] = None
    PROVE  Room(ring', sbound')
<1>1. ring \in Seq(Command) /\ ring # <<>> /\ ring' = Tail(ring) /\ Room(ring, sbound)
  BY DEF RecordInv, Flow, FlowTypes, Taking, BindInv
<1>2. PICK sc : sc = sbound'
  OBVIOUS
<1>3. Room(Tail(ring), sc)
  BY <1>1, <1>2, RoomTail
<1> QED
  BY <1>1, <1>2, <1>3

LEMMA CreateKeepsBinds ==
    ASSUME RecordInv, BindInv, Taking,
           \/ Head(ring).what.op = "create" /\ PerformCreate(Head(ring).what)
           \/ Head(ring).what.op = "allocate" /\ PerformAllocate(Head(ring).what)
    PROVE  BindInv'
<1>1. PICK answer \in Answer \ {"waiting"} :
          /\ Reply(answer) /\ Creates(Head(ring).what) /\ Head(ring).what.op \notin {"destroy", "bind"}
          /\ live' \subseteq live \cup {Head(ring).what.object}
          /\ valid' = valid /\ sbound' = sbound /\ bindings' = bindings /\ refused' = refused
  BY DEF PerformCreate, PerformAllocate, DriverDoes, Creates, Answer
<1>2. told' = told /\ backed' = backed /\ used' = used /\ cbound' = cbound
  BY DEF Taking, clientVars
<1>3. PICK t \in Thread, what \in WaitedFor :
          /\ what = Head(ring).what
          /\ call[t] # Idle /\ call[t].what = what
          /\ call'[t] # Idle /\ call'[t].what = what
          /\ \A u \in Thread \ {t} : call'[u] = call[u]
  BY <1>1, PerformFrame
<1>4. Tells(what, call[t].answer)
  BY <1>3 DEF BindInv, CallsTell
<1>5. what.op \in {"create", "allocate"}
  BY <1>1, <1>3 DEF Creates
<1>6. CallsTell'
  <2>1. Tells(what, call[t].answer)'
    BY <1>1, <1>2, <1>3, <1>4, <1>5 DEF Tells
  <2>2. Tells(call[t].what, call[t].answer)'
    BY <1>1, <1>2, <1>3, <1>4, <1>5 DEF Tells
  <2>3. \A u \in Thread \ {t} : call[u] # Idle => Tells(call[u].what, call[u].answer)'
    BY <1>1, <1>2, <1>3 DEF BindInv, CallsTell, Tells
  <2> QED
    BY <1>3, <2>2, <2>3 DEF CallsTell
<1>7. Asked'
  <2>1. what.object \in Resource => told[what.object] = "never"
    <3>1. what.op = "allocate" => what.object \notin Resource
      BY WaitedForTypes, BindingAssumption
    <3> QED
      BY <1>4, <1>5, <3>1 DEF Tells
  <2> QED
    BY <1>1, <1>2, <1>3, <2>1 DEF BindInv, Asked
<1>8. \A r \in Resource : Made(r)' <=> Made(r)
  BY <1>3, <1>5 DEF Made
<1>9. OnceBacked'
  BY <1>1, <1>2, <1>8 DEF BindInv, OnceBacked
<1>10. Room(ring', sbound')
  BY <1>1, TakingKeepsRoom
<1>11. PlainBindsAccepted'
  BY <1>1, <1>2 DEF BindInv, PlainBindsAccepted, LegalBindsAccepted
<1> QED
  BY <1>6, <1>7, <1>9, <1>10, <1>11 DEF BindInv

LEMMA AskKeepsBinds ==
    ASSUME RecordInv, BindInv, Taking, Head(ring).what.op \in {"ask", "ask2"},
           PerformAsk(Head(ring).what)
    PROVE  BindInv'
<1>1. /\ Reply("ok") /\ "ok" \in Answer \ {"waiting"} /\ Head(ring).what.op \notin {"destroy", "bind"}
      /\ live' = live /\ sbound' = sbound /\ bindings' = bindings /\ refused' = refused
      /\ valid' = IF Head(ring).what.op = "ask" /\ Head(ring).what.object \in live
                  THEN [valid EXCEPT ![Head(ring).what.object] = Needs(Head(ring).what.object)]
                  ELSE valid
  BY DEF PerformAsk, Answer
<1>2. told' = told /\ backed' = backed /\ used' = used /\ cbound' = cbound
  BY DEF Taking, clientVars
<1>3. PICK t \in Thread, what \in WaitedFor :
          /\ what = Head(ring).what
          /\ call[t] # Idle /\ call[t].what = what
          /\ call'[t] # Idle /\ call'[t].what = what /\ call'[t].answer = "ok"
          /\ \A u \in Thread \ {t} : call'[u] = call[u]
          /\ \A u \in Thread \ {t} : call[u] # Idle => call[u].what.object # what.object
          /\ Says(what, "waiting")
  BY <1>1, PerformFrame
<1> DEFINE x == what.object
<1>4. what.op \in {"ask", "ask2"} /\ x \in Resource /\ Tells(what, call[t].answer)
  <2>1. what.op \in {"ask", "ask2"}
    BY <1>3
  <2> QED
    BY <1>3, <2>1, WaitedForTypes DEF BindInv, CallsTell
<1>5. x \in live
  BY <1>3, <1>4 DEF Says, Creates, RecordInv, Tables, Object
<1>6. /\ valid'[x] = IF what.op = "ask" THEN Needs(x) ELSE valid[x]
      /\ \A r \in Resource \ {x} : valid'[r] = valid[r]
  BY <1>1, <1>3, <1>4, <1>5 DEF RecordInv, Types
<1>7. CallsTell'
  <2>1. Tells(call[t].what, call[t].answer)'
    BY <1>1, <1>2, <1>3, <1>4, <1>6 DEF Tells
  <2>2. ASSUME NEW u \in Thread \ {t}, call[u] # Idle PROVE Tells(call[u].what, call[u].answer)'
    <3>1. call[u].what \in WaitedFor /\ call[u].what.object # x /\ Tells(call[u].what, call[u].answer)
      BY <1>3, <2>2, CallTypes DEF RecordInv, Flow, BindInv, CallsTell
    <3>2. call[u].what.op = "ask" => valid'[call[u].what.object] = valid[call[u].what.object]
      BY <1>6, <3>1, WaitedForTypes
    <3> QED
      BY <1>2, <1>3, <3>1, <3>2 DEF Tells
  <2> QED
    BY <1>3, <2>1, <2>2 DEF CallsTell
<1>8. Asked'
  BY <1>1, <1>2, <1>6 DEF BindInv, Asked
<1>9. \A r \in Resource : Made(r)' <=> Made(r)
  BY <1>3, <1>4 DEF Made
<1>10. OnceBacked'
  BY <1>1, <1>2, <1>9 DEF BindInv, OnceBacked
<1>11. Room(ring', sbound')
  BY <1>1, TakingKeepsRoom
<1>12. PlainBindsAccepted'
  BY <1>1, <1>2 DEF BindInv, PlainBindsAccepted, LegalBindsAccepted
<1> QED
  BY <1>7, <1>8, <1>10, <1>11, <1>12 DEF BindInv

\* The bind at the head of the ring finds room.
LEMMA HeadIsAccepted ==
    ASSUME RecordInv, BindInv, Taking, NEW t \in Thread, NEW what \in WaitedFor,
           what = Head(ring).what, what.op = "bind", what.alone,
           call[t] # Idle, call[t].what = what, call[t].answer = "waiting",
           \A u \in Thread \ {t} : call[u] # Idle => call[u].what.object # what.object,
           \A r \in Resource : told[r] # "two", told \in [Resource -> {"never", "plain", "two"}]
    PROVE  ServerAccepts(what.object, what.place)
<1> DEFINE x == what.object
           place == what.place
           m == what.place.memory
<1>1. /\ x \in Resource /\ place \in Place /\ m \in Memory
      /\ Says(what, "waiting") /\ Tells(what, "waiting")
  BY WaitedForTypes, PlaceIsSomewhere DEF RecordInv, CallsSay, BindInv, CallsTell
<1>2. x \in live /\ m \in live
  BY <1>1, BindingAssumption DEF Says, Creates, RecordInv, Tables, Types, Object
<1>3. sbound[x] = None
  <2>1. ~Made(x)
    BY DEF Made
  <2> QED
    BY <1>1, <2>1 DEF BindInv, OnceBacked, Tells
<1>4. Tracked(x, m)
  BY <1>2, <1>3 DEF Tracked
<1>5. Recorded(x) = Needs(x)
  <2>1. told[x] = "plain" /\ valid[x] = Needs(x)
    BY <1>1, <1>2 DEF Tells, BindInv, Asked
  <2>2. Needs(x) # None
    <3>1. DOMAIN Needs(x) = {"size", "align"} /\ DOMAIN None = {"bound"}
      BY DEF Needs, None
    <3> QED
      BY <3>1
  <2> QED
    BY <2>1, <2>2 DEF Recorded
<1>6. Fits(Recorded(x), place.offset)
  BY <1>1, <1>5 DEF Says
<1>7. \A r \in Resource : sbound[r] # None => ~Clash(what, r, sbound[r])
  <2>1. PICK i \in 1..Len(ring) : i = 1 /\ ring[i].what = what
    BY DEF RecordInv, Flow, FlowTypes, Taking
  <2>2. \A r \in Resource : sbound[r] # None /\ Clash(ring[i].what, r, sbound[r]) =>
            \E j \in 1..(i - 1) : ring[j].what = [op |-> "destroy", object |-> r]
    BY <2>1 DEF BindInv, Room
  <2>3. 1..(i - 1) = {}
    BY <2>1
  <2> QED
    BY <2>1, <2>2, <2>3
<1>8. ASSUME NEW b \in bindings[m]
      PROVE  ~RangesOverlap(place.offset, Recorded(x).size, b.offset, b.size)
  <2>1. b.resource \in Resource
    BY <1>1 DEF RecordInv, Types, Binding
  <2>2. sbound[b.resource] = [memory |-> m, offset |-> b.offset]
    BY <1>1 DEF RecordInv, Bound
  <2>3. sbound[b.resource] # None /\ sbound[b.resource].memory = m
        /\ sbound[b.resource].offset = b.offset
    <3>1. [memory |-> m, offset |-> b.offset] # None
      BY DEF None
    <3> HIDE DEF m
    <3> QED
      BY <2>2, <3>1
  <2>4. b.size = Needs(b.resource).size
    BY <1>1, <2>1 DEF BindInv, Asked
  <2>5. ~Clash(what, b.resource, sbound[b.resource])
    BY <1>7, <2>1, <2>3
  <2> QED
    BY <1>5, <2>3, <2>4, <2>5 DEF Clash
<1>9. ~Overlaps(x, place.offset, Recorded(x).size, m)
  BY <1>8 DEF Overlaps
<1> QED
  BY <1>4, <1>6, <1>9 DEF ServerAccepts

LEMMA BindKeepsBinds ==
    ASSUME RecordInv, BindInv, HistoryTypes, Taking, Head(ring).what.op = "bind",
           PerformBind(Head(ring).what)
    PROVE  BindInv'
<1>1. PICK t \in Thread, what \in WaitedFor, made \in BOOLEAN, answer \in {"ok", "failed"} :
      /\ what = Head(ring).what /\ what.op = "bind"
      /\ what.object \in Resource /\ what.place \in Place
      /\ made <=> answer = "ok"
      /\ made => ServerAccepts(what.object, what.place)
      /\ refused' = IF what.alone /\ ~ServerAccepts(what.object, what.place)
                    THEN refused \cup {what.object} ELSE refused
      /\ live' = live
      /\ valid' = IF Tracked(what.object, what.place.memory)
                  THEN [valid EXCEPT ![what.object] = Recorded(what.object)] ELSE valid
      /\ IF made
         THEN /\ sbound' = [sbound EXCEPT ![what.object] = what.place]
              /\ bindings' = [bindings EXCEPT ![what.place.memory] = @ \cup
                    {[resource |-> what.object, offset |-> what.place.offset,
                      size |-> Recorded(what.object).size]}]
         ELSE sbound' = sbound /\ bindings' = bindings
      /\ call[t] # Idle /\ call[t].what = what /\ call[t].answer = "waiting"
      /\ call'[t] # Idle /\ call'[t].what = what /\ call'[t].answer = answer
      /\ \A u \in Thread \ {t} : call'[u] = call[u]
      /\ \A u \in Thread \ {t} : call[u] # Idle => call[u].what.object # what.object
      /\ Says(what, "waiting")
  BY BindOutcome
<1>2. told' = told /\ backed' = backed /\ used' = used /\ cbound' = cbound
  BY DEF Taking, clientVars
<1> DEFINE x == what.object
           place == what.place
<1>3. x \in Resource /\ place \in Place /\ place.memory \in Memory /\ Tells(what, "waiting")
  BY <1>1, PlaceIsSomewhere DEF BindInv, CallsTell
<1>4. x \in live
  BY <1>1 DEF Says, Creates, RecordInv, Tables, Object
<1>5. told[x] # "never" /\ (told[x] = "plain" => valid[x] = Needs(x) /\ Recorded(x) = Needs(x))
  <2>1. Needs(x) # None
    <3>1. DOMAIN Needs(x) = {"size", "align"} /\ DOMAIN None = {"bound"}
      BY DEF Needs, None
    <3> QED
      BY <3>1
  <2> QED
    BY <1>1, <1>3, <1>4, <2>1 DEF Tells, BindInv, Asked, Recorded
<1>6. /\ valid'[x] = valid[x] \/ valid'[x] = Recorded(x)
      /\ \A r \in Resource \ {x} : valid'[r] = valid[r]
  BY <1>1, <1>3 DEF RecordInv, Types
<1>7. CallsTell'
  <2>1. Tells(call[t].what, call[t].answer)'
    BY <1>1, <1>2, <1>3 DEF Tells
  <2>2. ASSUME NEW u \in Thread \ {t}, call[u] # Idle PROVE Tells(call[u].what, call[u].answer)'
    <3>1. call[u].what \in WaitedFor /\ call[u].what.object # x /\ Tells(call[u].what, call[u].answer)
      BY <1>1, <2>2, CallTypes DEF RecordInv, Flow, BindInv, CallsTell
    <3>2. call[u].what.op = "ask" => valid'[call[u].what.object] = valid[call[u].what.object]
      BY <1>6, <3>1, WaitedForTypes
    <3> QED
      BY <1>1, <1>2, <3>1, <3>2 DEF Tells
  <2> QED
    BY <1>1, <2>1, <2>2 DEF CallsTell
<1>8. Asked'
  <2>1. ASSUME NEW m \in Memory, NEW b \in bindings'[m]
        PROVE  b \in bindings[m] \/ (b.resource = x /\ b.size = Recorded(x).size)
    <3>1. CASE made
      <4>1. PICK c : c = [resource |-> x, offset |-> place.offset, size |-> Recorded(x).size]
        OBVIOUS
      <4>2. bindings' = [bindings EXCEPT ![place.memory] = @ \cup {c}]
        BY <1>1, <3>1, <4>1
      <4>3. b \in bindings[m] \/ b = c
        BY <1>3, <2>1, <4>2 DEF RecordInv, Types
      <4> QED
        BY <4>1, <4>3
    <3>2. CASE ~made
      BY <1>1, <2>1, <3>2
    <3> QED
      BY <3>1, <3>2
  <2>2. \A m \in Memory : \A b \in bindings'[m] :
            /\ told[b.resource] # "never"
            /\ told[b.resource] = "plain" => b.size = Needs(b.resource).size
    BY <1>5, <2>1 DEF BindInv, Asked
  <2> HIDE DEF x
  <2>3. \A r \in Resource : told[r] = "plain" /\ r \in live => valid'[r] = Needs(r)
    BY <1>5, <1>6 DEF BindInv, Asked
  <2> QED
    BY <1>1, <1>2, <2>2, <2>3 DEF BindInv, Asked
<1>9. /\ sbound'[x] = IF made THEN place ELSE sbound[x]
      /\ \A r \in Resource \ {x} : sbound'[r] = sbound[r]
  BY <1>1, <1>3 DEF RecordInv, Types
<1>10. \A r \in Resource : Made(r)' <=> Made(r) \/ (r = x /\ made)
  BY <1>1 DEF Made
<1>11. OnceBacked'
  BY <1>2, <1>9, <1>10 DEF BindInv, OnceBacked
<1>12. Room(ring', sbound')
  <2>1. ring \in Seq(Command) /\ ring # <<>> /\ ring' = Tail(ring) /\ Room(ring, sbound)
    BY DEF RecordInv, Flow, FlowTypes, Taking, BindInv
  <2>2. PICK sc : sc = sbound'
    OBVIOUS
  <2>3. \A r \in Resource :
            \/ sc[r] = None \/ sc[r] = sbound[r]
            \/ /\ Head(ring).what.op = "bind" /\ r = Head(ring).what.object
               /\ sc[r] = Head(ring).what.place
    BY <1>1, <1>9, <2>2
  <2>4. \A r \in Resource : Head(ring).what = [op |-> "destroy", object |-> r] => sc[r] = None
    <3>1. \A r \in Resource : [op |-> "destroy", object |-> r].op # "bind"
      OBVIOUS
    <3> QED
      BY <3>1
  <2>5. Room(Tail(ring), sc)
    BY <2>1, <2>3, <2>4, RoomTail
  <2> QED
    BY <2>1, <2>2, <2>5
<1>13. PlainBindsAccepted'
  <2> SUFFICES ASSUME \A r \in Resource : told[r] # "two"
               PROVE  refused' = {}
    BY <1>2 DEF PlainBindsAccepted, LegalBindsAccepted
  <2>1. refused = {}
    BY DEF BindInv, PlainBindsAccepted, LegalBindsAccepted
  <2>2. what.alone => ServerAccepts(x, place)
    BY <1>1, HeadIsAccepted DEF HistoryTypes
  <2> QED
    BY <1>1, <2>1, <2>2
<1> QED
  BY <1>7, <1>8, <1>11, <1>12, <1>13 DEF BindInv

LEMMA EndKeepsBinds ==
    ASSUME RecordInv, BindInv, Taking, Head(ring).what.op = "destroy",
           PerformDestroy(Head(ring).what)
    PROVE  BindInv'
<1>1. PICK x \in Object :
           /\ x = Head(ring).what.object /\ x \in Leaving
           /\ used' = used /\ cbound' = cbound /\ call' = call
           /\ x \in Memory => FreeMemory(x)
           /\ x \notin Memory => x \in Resource /\ DestroyResource(x)
           /\ \A t \in Thread : call[t] # Idle => call[t].what.object # x
  BY EndFrame
<1>2. told' = told /\ backed' = backed /\ refused' = refused
  BY DEF Taking, PerformDestroy
<1>3. /\ live' = live \ {x}
      /\ \A r \in Resource \ {x} : valid'[r] = valid[r]
      /\ \A r \in Resource : sbound'[r] = None \/ sbound'[r] = sbound[r]
      /\ x \in Resource => sbound'[x] = None
      /\ \A m \in Memory : bindings'[m] \subseteq bindings[m]
  <2>1. CASE x \in Memory
    BY <1>1, <2>1, BindingAssumption DEF FreeMemory, RecordInv, Types
  <2>2. CASE x \notin Memory
    BY <1>1, <2>2 DEF DestroyResource, RecordInv, Types
  <2> QED
    BY <2>1, <2>2
<1>4. CallsTell'
  <2> SUFFICES ASSUME NEW u \in Thread, call[u] # Idle
               PROVE  Tells(call[u].what, call[u].answer)'
    BY <1>1 DEF CallsTell
  <2>1. call[u].what \in WaitedFor /\ call[u].what.object # x /\ Tells(call[u].what, call[u].answer)
    BY <1>1, CallTypes DEF RecordInv, Flow, BindInv, CallsTell
  <2>2. call[u].what.op = "ask" => valid'[call[u].what.object] = valid[call[u].what.object]
    BY <1>3, <2>1, WaitedForTypes
  <2> QED
    BY <1>1, <1>2, <2>1, <2>2 DEF Tells
<1>5. Asked'
  BY <1>1, <1>2, <1>3 DEF BindInv, Asked
<1>6. OnceBacked'
  BY <1>1, <1>2, <1>3 DEF BindInv, OnceBacked, Made
<1>7. Room(ring', sbound')
  <2>1. \A r \in Resource : Head(ring).what = [op |-> "destroy", object |-> r] => sbound'[r] = None
    <3> SUFFICES ASSUME NEW r \in Resource, Head(ring).what = [op |-> "destroy", object |-> r]
                 PROVE  sbound'[r] = None
      OBVIOUS
    <3>1. r = x
      BY <1>1
    <3> QED
      BY <1>3, <3>1
  <2> QED
    BY <1>3, <2>1, TakingKeepsRoom
<1>8. PlainBindsAccepted'
  BY <1>2 DEF BindInv, PlainBindsAccepted, LegalBindsAccepted
<1> QED
  BY <1>4, <1>5, <1>6, <1>7, <1>8 DEF BindInv

LEMMA BindStep ==
    ASSUME RecordInv, BindInv, HistoryTypes, [Next]_vars
    PROVE  BindInv'
<1>0. Types
  BY DEF RecordInv
<1>1. ASSUME NEW t \in Thread, NEW m \in Memory, Allocate(t, m) PROVE BindInv'
  BY <1>0, <1>1, CallingStep, CallingTypes, CallingKeepsBinds
<1>2. ASSUME NEW t \in Thread, NEW r \in Resource, Create(t, r) \/ Ask2(t, r) PROVE BindInv'
  BY <1>0, <1>2, CallingStep, CallingTypes, CallingKeepsBinds
<1>3. ASSUME NEW t \in Thread, NEW r \in Resource, Ask(t, r) PROVE BindInv'
  <2>1. CASE r \in null
    BY <1>3, <2>1, AskNullKeepsBinds
  <2>2. CASE r \notin null
    <3>1. call'[t] # call[t]
      <4>1. call[t] = Idle /\ Issue(t, [op |-> "ask", object |-> r]) /\ Flow
        BY <1>3, <2>2 DEF Ask, RecordInv
      <4> QED
        BY <4>1, CallingTypes, IssueEffect
    <3>2. ~Resting
      BY <3>1 DEF Resting
    <3> QED
      BY <1>0, <1>3, <3>2, CallingStep, CallingTypes, CallingKeepsBinds
  <2> QED
    BY <2>1, <2>2
<1>4. ASSUME NEW t \in Thread, NEW r \in Resource, NEW place \in Place, BindMemory(t, r, place)
      PROVE  BindInv'
  <2>1. CASE ~ClientAccepts(r, place)
    BY <1>4, <2>1, RefusalKeepsBinds
  <2>2. CASE ClientAccepts(r, place)
    <3>1. PICK what \in WaitedFor :
              what = [op |-> "bind", object |-> r, place |-> place, alone |-> Alone(r, place)]
      BY CallingTypes
    <3>2. call[t] = Idle /\ Issue(t, what) /\ Flow
      BY <1>4, <2>2, <3>1 DEF BindMemory, RecordInv
    <3>3. call'[t] # call[t]
      BY <3>2, IssueEffect
    <3>4. ~Resting
      BY <3>3 DEF Resting
    <3>5. Calling(t, what)
      BY <1>0, <1>4, <3>1, <3>4, CallingStep
    <3> QED
      BY <3>5, CallingKeepsBinds
  <2> QED
    BY <2>1, <2>2
<1>5. ASSUME NEW t \in Thread, Return(t) PROVE BindInv'
  BY <1>5, ReturnKeepsBinds
<1>6. ASSUME (\E r \in Resource : Destroy(r)) \/ (\E m \in Memory : Free(m)) PROVE BindInv'
  BY <1>6, ForgetKeepsBinds
<1>7. CASE Perform
  <2>1. Taking
    BY <1>7 DEF Perform, Taking
  <2>2. CASE \/ Head(ring).what.op = "create" /\ PerformCreate(Head(ring).what)
             \/ Head(ring).what.op = "allocate" /\ PerformAllocate(Head(ring).what)
    BY <2>1, <2>2, CreateKeepsBinds
  <2>3. CASE Head(ring).what.op \in {"ask", "ask2"} /\ PerformAsk(Head(ring).what)
    BY <2>1, <2>3, AskKeepsBinds
  <2>4. CASE Head(ring).what.op = "bind" /\ PerformBind(Head(ring).what)
    BY <2>1, <2>4, BindKeepsBinds
  <2>5. CASE Head(ring).what.op = "destroy" /\ PerformDestroy(Head(ring).what)
    BY <2>1, <2>5, EndKeepsBinds
  <2> QED
    BY <1>7, <2>2, <2>3, <2>4, <2>5 DEF Perform
<1>8. CASE UNCHANGED vars
  BY <1>8 DEF vars, clientVars, serverVars, history, BindInv, CallsTell, Tells, Asked,
              OnceBacked, Made, PlainBindsAccepted, LegalBindsAccepted
<1> QED
  BY <1>1, <1>2, <1>3, <1>4, <1>5, <1>6, <1>7, <1>8 DEF Next

LEMMA InitBinds == Init => BindInv
<1> SUFFICES ASSUME Init PROVE BindInv
  OBVIOUS
<1>1. Room(ring, sbound)
  BY DEF Init, Room
<1> QED
  BY <1>1 DEF Init, BindInv, CallsTell, Asked, OnceBacked, PlainBindsAccepted, LegalBindsAccepted

\* However many threads bind, and whatever was destroyed or freed just before
\* and is still on its way: a bind Vulkan allows, of a resource whose
\* requirements were asked for with vkGetBufferMemoryRequirements or
\* vkGetImageMemoryRequirements, to a place where the application has nothing
\* else, passes the checks of vkBind*Memory and of bind_buffer_memory and
\* bind_image_memory.
THEOREM PlainBindsAreAccepted == Spec => []PlainBindsAccepted
<1>1. Init => RecordInv /\ HistoryTypes /\ BindInv
  BY InitInv, InitBinds
<1>2. RecordInv /\ HistoryTypes /\ BindInv /\ [Next]_vars => (RecordInv /\ HistoryTypes /\ BindInv)'
  BY RecordStep, HistoryStep, BindStep
<1>3. BindInv => PlainBindsAccepted
  BY DEF BindInv
<1> QED
  BY <1>1, <1>2, <1>3, PTL DEF Spec

-----------------------------------------------------------------------------
(* Memory is shared out.                                                   *)

\* Whatever two threads try at a time, resources the server counts with share
\* no part of their memory: those whose requirements were asked for the plain
\* way, and those whose guess is not below the driver's size.
\* check_memory_overlap_locked compares what the server has recorded, and for
\* any other resource that is a guess which may be too small.
THEOREM SharedMemoryIsDivided == Spec => []BindingsSeparate
<1>1. Init => RecordInv /\ HistoryTypes /\ BindInv /\ Divided
  BY InitInv, InitBinds DEF Init, Divided
<1>2. RecordInv /\ HistoryTypes /\ BindInv /\ Divided /\ [Next]_vars
      => (RecordInv /\ HistoryTypes /\ BindInv /\ Divided)'
  BY RecordStep, HistoryStep, BindStep, DividedStep
<1>3. ASSUME RecordInv, BindInv, Divided PROVE BindingsSeparate
  <2> SUFFICES ASSUME NEW r \in Resource, NEW s \in Resource, r # s, sbound[r] # None,
                      In(sbound[s], sbound[r].memory), Counted(r), Counted(s)
               PROVE  ~RangesOverlap(sbound[r].offset, Needs(r).size,
                                     sbound[s].offset, Needs(s).size)
    BY DEF BindingsSeparate
  <2> DEFINE m == sbound[r].memory
  <2>1. m \in Memory
    BY <1>3, PlaceIsSomewhere DEF RecordInv, Types
  <2>2. PICK b \in bindings[m] : b.resource = r
    BY <1>3 DEF RecordInv, Bound
  <2>3. PICK c \in bindings[m] : c.resource = s
    BY <1>3 DEF RecordInv, Bound, In
  <2>4. b.offset = sbound[r].offset /\ c.offset = sbound[s].offset
    <3>1. sbound[r] = [memory |-> m, offset |-> b.offset]
      BY <1>3, <2>1, <2>2 DEF RecordInv, Bound
    <3>2. sbound[s] = [memory |-> m, offset |-> c.offset]
      BY <1>3, <2>1, <2>3 DEF RecordInv, Bound
    <3> HIDE DEF m
    <3> QED
      BY <3>1, <3>2
  <2>5. b \in Binding /\ c \in Binding
    BY <1>3, <2>1, <2>2, <2>3 DEF RecordInv, Types
  <2>6. b.offset \in Int /\ c.offset \in Int /\ b.size \in Nat /\ c.size \in Nat
    BY <2>5 DEF Binding, Offset
  <2>7. /\ Needs(r).size \in Nat /\ Needs(s).size \in Nat
        /\ Guess(r).size \in Nat /\ Guess(s).size \in Nat
    BY RequirementTypes
  <2>8. ASSUME NEW d \in bindings[m], Counted(d.resource), d.size \in Nat,
               Needs(d.resource).size \in Nat, Guess(d.resource).size \in Nat
        PROVE  Needs(d.resource).size <= d.size
    <3>1. CASE told[d.resource] = "plain"
      <4>1. d.size = Needs(d.resource).size
        BY <1>3, <2>1, <3>1 DEF BindInv, Asked
      <4> QED
        BY <2>8, <4>1
    <3>2. CASE Guess(d.resource).size >= Needs(d.resource).size
      <4>1. GuessCovers(d.resource)
        BY <2>8, <3>2 DEF GuessCovers
      <4> QED
        BY <1>3, <2>1, <4>1 DEF Divided
    <3> QED
      BY <2>8, <3>1, <3>2 DEF Counted
  <2>9. Needs(r).size <= b.size /\ Needs(s).size <= c.size
    BY <2>2, <2>3, <2>6, <2>7, <2>8
  <2>10. ~RangesOverlap(b.offset, b.size, c.offset, c.size)
    BY <1>3, <2>1, <2>2, <2>3 DEF Divided
  <2> QED
    BY <2>4, <2>6, <2>7, <2>9, <2>10 DEF RangesOverlap
<1> QED
  BY <1>1, <1>2, <1>3, PTL DEF Spec

=============================================================================
