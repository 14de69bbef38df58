--------------------------- MODULE SwapchainProofs ---------------------------
(***************************************************************************)
(* Proofs about Swapchain, for any number of image handles, swapchains and *)
(* clients: types, that the client's and the server's tables agree, that   *)
(* the tracker names the images the driver has, that a frame whose copy    *)
(* was made holds everything rendered for it, what may be leaked, and that *)
(* an image is held once.                                                  *)
(***************************************************************************)
EXTENDS Swapchain, FiniteSetTheorems, FunctionTheorems, TLAPS

-----------------------------------------------------------------------------
(* Counting renderings.                                                    *)

\* How often h occurs in the first n elements of s.
CountTo(s, n, h) == Cardinality({i \in 1 .. n : s[i] = h})
Queued(s, h)     == CountTo(s, Len(s), h)

LEMMA CountIsNat ==
    ASSUME NEW n \in Nat, NEW A, A \subseteq 1 .. n
    PROVE  IsFiniteSet(A) /\ Cardinality(A) \in Nat
<1>1. IsFiniteSet(1 .. n)
  BY FS_Interval
<1> QED
  BY <1>1, FS_Subset, FS_CardinalityType

LEMMA CountNothing ==
    ASSUME NEW s, NEW h
    PROVE  CountTo(s, 0, h) = 0
BY FS_EmptySet DEF CountTo

LEMMA CountAppend ==
    ASSUME NEW S, NEW s \in Seq(S), NEW x \in S, NEW h
    PROVE  Queued(Append(s, x), h) = Queued(s, h) + IF x = h THEN 1 ELSE 0
<1> DEFINE n == Len(s)
           old == {i \in 1 .. n : s[i] = h}
           new == {i \in 1 .. n + 1 : Append(s, x)[i] = h}
<1>1. n \in Nat /\ Len(Append(s, x)) = n + 1
  OBVIOUS
<1>2. IsFiniteSet(old) /\ Cardinality(old) \in Nat /\ n + 1 \notin old
  <2>1. n + 1 \notin old /\ old \subseteq 1 .. n
    BY <1>1
  <2> HIDE DEF old
  <2> QED
    BY <1>1, <2>1, CountIsNat
<1>3. Queued(s, h) = Cardinality(old) /\ Queued(Append(s, x), h) = Cardinality(new)
  <2>1. Queued(Append(s, x), h) = CountTo(Append(s, x), n + 1, h)
    BY <1>1 DEF Queued
  <2>2. CountTo(Append(s, x), n + 1, h) = Cardinality(new)
    BY Zenon DEF CountTo
  <2>3. Queued(s, h) = Cardinality(old)
    BY Zenon DEF CountTo, Queued
  <2> QED
    BY <2>1, <2>2, <2>3
<1>4. CASE x = h
  <2>1. new = old \cup {n + 1}
    BY <1>1, <1>4
  <2> HIDE DEF old, new, n
  <2>2. Cardinality(new) = Cardinality(old) + 1
    BY <1>2, <2>1, FS_AddElement
  <2> QED
    BY <1>3, <1>4, <2>2
<1>5. CASE x # h
  <2>1. new = old
    BY <1>1, <1>5
  <2> HIDE DEF old, new, n
  <2> QED
    BY <1>2, <1>3, <1>5, <2>1
<1> QED
  BY <1>4, <1>5

LEMMA CountTail ==
    ASSUME NEW S, NEW s \in Seq(S), s # <<>>, NEW h
    PROVE  CountTo(s, 1, h) + Queued(Tail(s), h) = Queued(s, h)
<1> DEFINE n == Len(s)
           all   == {i \in 1 .. n : s[i] = h}
           first == {i \in 1 .. 1 : s[i] = h}
           rest  == {i \in 1 .. n - 1 : Tail(s)[i] = h}
           shift == [i \in rest |-> i + 1]
<1>1. n \in Nat \ {0} /\ Len(Tail(s)) = n - 1 /\ \A i \in 1 .. n - 1 : Tail(s)[i] = s[i + 1]
  OBVIOUS
<1>2. /\ IsFiniteSet(all) /\ IsFiniteSet(first) /\ IsFiniteSet(rest)
      /\ Cardinality(all) \in Nat /\ Cardinality(first) \in Nat /\ Cardinality(rest) \in Nat
  <2>1. n \in Nat /\ all \subseteq 1 .. n /\ first \subseteq 1 .. n /\ rest \subseteq 1 .. n
    BY <1>1
  <2> HIDE DEF all, first, rest, n
  <2> QED
    BY <2>1, CountIsNat
<1>3. /\ CountTo(s, 1, h) = Cardinality(first)
      /\ Queued(Tail(s), h) = Cardinality(rest)
      /\ Queued(s, h) = Cardinality(all)
  <2>1. Queued(Tail(s), h) = CountTo(Tail(s), n - 1, h)
    BY <1>1 DEF Queued
  <2> QED
    BY <2>1, Zenon DEF Queued, CountTo
<1>4. shift \in [rest -> all \ first]
  BY <1>1
<1>5. \A i, j \in rest : shift[i] = shift[j] => i = j
  OBVIOUS
<1>6. \A j \in all \ first : \E i \in rest : shift[i] = j
  <2> TAKE j \in all \ first
  <2>1. j - 1 \in rest /\ shift[j - 1] = j
    BY <1>1
  <2> QED
    BY <2>1
<1>7. first \subseteq all
  BY <1>1
<1> HIDE DEF all, first, rest, shift, n
<1>8. shift \in Bijection(rest, all \ first)
  BY <1>4, <1>5, <1>6, Fun_IsBij
<1>9. Cardinality(all \ first) = Cardinality(rest)
  BY <1>2, <1>8, FS_Bijection DEF ExistsBijection
<1>10. Cardinality(all \ first) = Cardinality(all) - Cardinality(first)
  <2>1. all \cap first = first
    BY <1>7
  <2> QED
    BY <1>2, <2>1, FS_Difference
<1> QED
  BY <1>2, <1>3, <1>9, <1>10

-----------------------------------------------------------------------------
(* The inductive invariant.                                                *)

PresentRequest == [op : {"present"}, id : Ids, index : Nat]
Named   == [op : {"destroy", "acquire"}, id : Ids]
Create  == [op : {"create"}, id : Ids, count : Counts]
Present == [op : {"present"}, todo : Seq(PresentRequest) \ {<<>>}]
Created   == [op : {"created"}, id : Ids, ok : BOOLEAN, count : Counts, images : Seq(Handles)]
Acquired  == [op : {"acquired"}, id : Ids, ok : BOOLEAN, index : Nat]
Presented == [op : {"presented"}, id : Ids, ok : BOOLEAN, frame : Nat,
              made : BOOLEAN]
Destroyed == [op : {"destroyed"}]

\* The messages of both directions, and what a call remembers.
Messages ==
  /\ request \in {None} \cup Create \cup Named \cup PresentRequest
  /\ call \in {None} \cup Create \cup Named \cup Present
  /\ reply \in {None} \cup Created \cup Acquired \cup Presented \cup Destroyed

\* What copying an image leaves behind.
Copies ==
  /\ staging \in [Handles -> 0 .. MaxRender]
  /\ signaled \subseteq Ids /\ blocked \in BOOLEAN
  /\ failures \in 0 .. MaxFailures

\* The variables that are not messages.
Tables ==
  /\ client \in 1 .. MaxClient /\ connected \in BOOLEAN
  /\ next_id \in 1 .. MaxId + 1
  /\ known \in [Ids -> Chain] /\ swapchains \in [Ids -> Chain]
  /\ held \in [Ids -> Seq(Nat)]
  /\ registered \subseteq Handles /\ alive \subseteq Handles
  /\ contents \in [Handles -> Nat]
  /\ rendered \in [Handles -> 0 .. MaxRender]
  /\ work \in Seq(Handles)
  /\ abandoned \subseteq Ids
  /\ Copies
  /\ shown \in [Ids -> [got : Nat, want : Nat, made : BOOLEAN]]
  /\ \A id \in Ids :
       /\ swapchains[id].session # 0 =>
            swapchains[id].next_image < Len(swapchains[id].images)
       /\ swapchains[id].session = 0 => swapchains[id].images = <<>>

\* Renderings are executed or still queued, none is lost or done twice.
Accounted == \A h \in Handles : contents[h] + Queued(work, h) = rendered[h]

\* The images of the server's swapchains exist, no two swapchains share one,
\* and the GPU works on none that is about to be destroyed.
Owned ==
  /\ registered = alive
  /\ \A id \in Ids : Images(swapchains[id]) \subseteq alive
  /\ \A id \in Ids : \A other \in Ids \ {id} :
       Images(swapchains[id]) \cap Images(swapchains[other]) = {}
  /\ ToSet(work) \subseteq alive
  /\ request.op = "destroy" => ToSet(work) \cap Images(swapchains[request.id]) = {}

\* The request a call is at.
Asked == IF call.op = "present" THEN Head(call.todo) ELSE call

\* The answer in reply is one to the request asked.
Answers(asked) ==
  CASE asked.op = "create"  -> reply.op = "created" /\ reply.id = asked.id
    [] asked.op = "acquire" -> reply.op = "acquired" /\ reply.id = asked.id
    [] asked.op = "present" -> reply.op = "presented" /\ reply.id = asked.id
    [] OTHER                -> reply.op = "destroyed"

\* While the connection lasts there is a message exactly while there is a call,
\* unless the server has blocked.
Exchange ==
  /\ ~connected => call = None /\ reply = None
  /\ connected =>
       \/ call = None /\ request = None /\ reply = None
       \/ call # None /\ request = Asked /\ reply = None
       \/ call # None /\ request = None /\ Answers(Asked)
       \/ call # None /\ request = None /\ reply = None /\ blocked

\* Client and server agree on every swapchain the client knows; numbers not
\* given yet name none of this client.
Agreed ==
  /\ \A id \in Ids : swapchains[id].session <= client
  /\ \A id \in Ids : held[id] # <<>> => IsKnown(id)
  /\ connected => \A id \in Ids :
       /\ IsKnown(id) => /\ id < next_id
                         /\ swapchains[id].session = client
                         /\ swapchains[id].images = known[id].images
       /\ id >= next_id => swapchains[id].session # client

\* What a call under way may rely on.
Underway ==
  /\ call.op = "create" => ~IsKnown(call.id) /\ call.id < next_id
  /\ call.op = "create" /\ request # None => swapchains[call.id].session # client
  /\ call.op = "destroy" => ~IsKnown(call.id)
  /\ call.op = "acquire" => IsKnown(call.id)
  /\ call.op = "present" => \A k \in DOMAIN call.todo : IsKnown(call.todo[k].id)
  /\ reply.op = "created" =>
       IF reply.ok
       THEN /\ swapchains[reply.id].session = client
            /\ reply.count <= MaxImages => reply.images = swapchains[reply.id].images
       ELSE swapchains[reply.id].session # client
  /\ reply.op = "destroyed" => swapchains[call.id].session # client
  /\ reply.op = "presented" /\ reply.ok =>
       LET index == Head(call.todo).index
       IN  /\ index + 1 \in DOMAIN known[reply.id].images
           /\ reply.made =>
                reply.frame = rendered[known[reply.id].images[index + 1]]

ChainInv ==
  /\ Messages /\ Tables
  /\ Accounted /\ Owned
  /\ Exchange /\ Agreed /\ Underway
  /\ ShownIsRendered /\ LeaksOnlyGivenUp

LEMMA Fields ==
  ASSUME Messages
  PROVE  /\ request.op = "create" => request \in Create
         /\ request.op \in {"destroy", "acquire"} => request \in Named
         /\ request.op = "present" => request \in PresentRequest
         /\ request # None => request.op # "none" /\ request.id \in Ids
         /\ call.op = "create" => call \in Create
         /\ call.op \in {"destroy", "acquire"} => call \in Named
         /\ call.op = "present" => call \in Present
         /\ call # None => call.op # "none"
         /\ reply.op = "created" => reply \in Created
         /\ reply.op = "acquired" => reply \in Acquired
         /\ reply.op = "presented" => reply \in Presented
         /\ reply # None => reply.op # "none"
BY DEF Messages, None, Create, Named, PresentRequest, Present, Created,
       Acquired, Presented, Destroyed

LEMMA CopiesKept ==
  ASSUME Copies, UNCHANGED copyVars
  PROVE  Copies'
BY DEF Copies, copyVars

LEMMA UnknownChain == Unknown \in Chain /\ Unknown.session = 0 /\ Unknown.images = <<>>
BY SwapchainAssumption DEF Unknown, Chain

LEMMA InitChain == Init => ChainInv
<1> SUFFICES ASSUME Init PROVE ChainInv
  OBVIOUS
<1>1. Messages
  BY DEF Init, Messages
<1>2. Tables
  <2>1. Copies
    <3>1. 0 \in 0 .. MaxRender /\ 0 \in 0 .. MaxFailures
      BY SwapchainAssumption
    <3>2. [h \in Handles |-> 0] \in [Handles -> 0 .. MaxRender]
      BY <3>1
    <3> QED
      BY <3>1, <3>2 DEF Init, Copies
  <2> QED
    BY <2>1, UnknownChain, SwapchainAssumption DEF Init, Tables, Ids, Nothing
<1>3. Accounted
  <2>1. \A h : Queued(<<>>, h) = 0
    <3> TAKE h
    <3>1. Len(<<>>) = 0
      OBVIOUS
    <3>2. Queued(<<>>, h) = CountTo(<<>>, 0, h)
      BY <3>1 DEF Queued
    <3> QED
      BY <3>2, CountNothing
  <2> QED
    BY <2>1 DEF Init, Accounted
<1>4. Owned
  BY UnknownChain DEF Init, Owned, Images, ToSet, None
<1>5. Exchange /\ Underway
  BY DEF Init, Exchange, Underway, None
<1>6. Agreed
  BY UnknownChain DEF Init, Agreed, IsKnown, Ids
<1>7. ShownIsRendered /\ LeaksOnlyGivenUp
  BY UnknownChain DEF Init, ShownIsRendered, LeaksOnlyGivenUp, Nothing
<1> QED
  BY <1>1, <1>2, <1>3, <1>4, <1>5, <1>6, <1>7 DEF ChainInv

-----------------------------------------------------------------------------
(* The application's calls, up to the request.                             *)

LEMMA CreateSwapchainStep ==
  ASSUME ChainInv, NEW n \in Counts, CreateSwapchain(n)
  PROVE  ChainInv'
<1> DEFINE msg == [op |-> "create", id |-> next_id, count |-> n]
<1>1. /\ call = None /\ connected /\ next_id \in Ids
      /\ request' = msg /\ call' = msg /\ next_id' = next_id + 1
      /\ UNCHANGED <<client, connected, known, held, reply, serverVars, gpuVars,
                     shown, abandoned>>
  BY DEF CreateSwapchain, Idle, AllocateId, Send
<1>2. request = None /\ reply = None
  BY <1>1 DEF ChainInv, Exchange
<1>3. Messages'
  BY <1>1, <1>2 DEF Messages, Create
<1>4. Tables'
  BY <1>1, SwapchainAssumption, CopiesKept DEF ChainInv, Tables, Ids, serverVars, gpuVars
<1>5. Accounted'
  BY <1>1 DEF ChainInv, Accounted, gpuVars
<1>6. Owned'
  BY <1>1 DEF ChainInv, Owned, Images, gpuVars, serverVars
<1>7. Exchange'
  BY <1>1, <1>2 DEF Exchange, Asked, None
<1> next_id \in Nat /\ MaxId \in Nat
  BY SwapchainAssumption DEF ChainInv, Tables
<1>8. Agreed'
  BY <1>1 DEF ChainInv, Agreed, IsKnown, Ids, serverVars
<1>9. Underway'
  BY <1>1, <1>2 DEF ChainInv, Underway, Agreed, IsKnown, Ids, serverVars, None
<1>10. ShownIsRendered' /\ LeaksOnlyGivenUp'
  BY <1>1, <1>2 DEF ChainInv, ShownIsRendered, LeaksOnlyGivenUp, InCall, IsKnown, serverVars, None
<1> QED
  BY <1>3, <1>4, <1>5, <1>6, <1>7, <1>8, <1>9, <1>10 DEF ChainInv

LEMMA DestroySwapchainStep ==
  ASSUME ChainInv, NEW id \in Ids, DestroySwapchain(id)
  PROVE  ChainInv'
<1> DEFINE msg == [op |-> "destroy", id |-> id]
<1>1. /\ call = None /\ IsKnown(id)
      /\ \A i \in DOMAIN work : work[i] \notin Images(known[id])
      /\ known' = [known EXCEPT ![id] = Unknown]
      /\ held' = [held EXCEPT ![id] = <<>>]
      /\ UNCHANGED <<client, connected, next_id, reply, serverVars, gpuVars, shown>>
  BY DEF DestroySwapchain, Idle
<1>2. \/ connected /\ request' = msg /\ call' = msg /\ UNCHANGED abandoned
      \/ ~connected /\ abandoned' = abandoned \cup {id} /\ UNCHANGED <<request, call>>
  BY DEF DestroySwapchain, Send
<1>3. reply = None /\ (connected => request = None)
  BY <1>1 DEF ChainInv, Exchange
<1>4. Messages'
  BY <1>1, <1>2, <1>3 DEF ChainInv, Messages, Named
<1>5. Tables'
  BY <1>1, <1>2, UnknownChain, CopiesKept DEF ChainInv, Tables, serverVars, gpuVars
<1>6. Accounted'
  BY <1>1 DEF ChainInv, Accounted, gpuVars
<1>7. Owned'
  <2>1. connected => ToSet(work) \cap Images(swapchains[id]) = {}
    BY <1>1 DEF ChainInv, Agreed, ToSet, Images
  <2>2. /\ UNCHANGED <<registered, alive, swapchains, work>>
        /\ request'.op = "destroy" =>
             ToSet(work) \cap Images(swapchains[request'.id]) = {}
    BY <1>1, <1>2, <2>1 DEF ChainInv, Owned, gpuVars, serverVars
  <2> QED
    BY <2>2 DEF ChainInv, Owned, Images
<1>8. Exchange'
  BY <1>1, <1>2, <1>3 DEF ChainInv, Exchange, Asked, None
<1>9. Agreed'
  BY <1>1, UnknownChain DEF ChainInv, Agreed, Tables, IsKnown, serverVars
<1>10. Underway'
  BY <1>1, <1>2, <1>3, UnknownChain DEF ChainInv, Underway, Tables, IsKnown, serverVars, None
<1>11. ShownIsRendered' /\ LeaksOnlyGivenUp'
  BY <1>1, <1>2, <1>3 DEF ChainInv, ShownIsRendered, LeaksOnlyGivenUp, InCall, IsKnown,
     Tables, serverVars, None
<1> QED
  BY <1>4, <1>5, <1>6, <1>7, <1>8, <1>9, <1>10, <1>11 DEF ChainInv

LEMMA AcquireStep ==
  ASSUME ChainInv, NEW id \in Ids, AcquireNextImage(id)
  PROVE  ChainInv'
<1> DEFINE msg == [op |-> "acquire", id |-> id]
<1>1. /\ call = None /\ connected /\ IsKnown(id)
      /\ request' = msg /\ call' = msg
      /\ UNCHANGED <<client, connected, clientVars, reply, serverVars, gpuVars,
                     shown, abandoned>>
  BY DEF AcquireNextImage, Idle, Send
<1>2. request = None /\ reply = None
  BY <1>1 DEF ChainInv, Exchange
<1>3. Messages'
  BY <1>1, <1>2 DEF Messages, Named
<1>4. Tables' /\ Accounted'
  BY <1>1, CopiesKept DEF ChainInv, Tables, Accounted, clientVars, serverVars, gpuVars
<1>5. Owned'
  BY <1>1 DEF ChainInv, Owned, Images, gpuVars, serverVars
<1>6. Exchange'
  BY <1>1, <1>2 DEF Exchange, Asked, None
<1>7. Agreed'
  BY <1>1 DEF ChainInv, Agreed, IsKnown, clientVars, serverVars
<1>8. Underway'
  BY <1>1, <1>2 DEF Underway, IsKnown, clientVars, None
<1>9. ShownIsRendered' /\ LeaksOnlyGivenUp'
  BY <1>1 DEF ChainInv, ShownIsRendered, LeaksOnlyGivenUp, InCall, IsKnown, clientVars,
     serverVars, None
<1> QED
  BY <1>3, <1>4, <1>5, <1>6, <1>7, <1>8, <1>9 DEF ChainInv

LEMMA Removed ==
  ASSUME NEW s \in Seq(Nat), NEW p \in DOMAIN s
  PROVE  RemoveAt(s, p) \in Seq(Nat)
BY DEF RemoveAt

LEMMA QueuePresentStep ==
  ASSUME ChainInv, NEW ids \in Seq(Ids), ids # <<>>, NEW pos,
         \A id \in ToSet(ids) : pos[id] \in DOMAIN held[id],
         QueuePresent(ids, pos)
  PROVE  ChainInv'
<1> DEFINE todo == [k \in DOMAIN ids |->
                      [op |-> "present", id |-> ids[k],
                       index |-> held[ids[k]][pos[ids[k]]]]]
<1>1. /\ call = None /\ connected
      /\ held' = [id \in Ids |-> IF id \in ToSet(ids)
                                 THEN RemoveAt(held[id], pos[id]) ELSE held[id]]
      /\ call' = [op |-> "present", todo |-> todo]
      /\ request' = Head(todo)
      /\ UNCHANGED <<client, connected, next_id, known, reply, serverVars, gpuVars,
                     shown, abandoned>>
  BY DEF QueuePresent, Idle
<1>2. request = None /\ reply = None
  BY <1>1 DEF ChainInv, Exchange
<1>3. held \in [Ids -> Seq(Nat)]
  BY DEF ChainInv, Tables
<1>4. \A k \in DOMAIN ids : /\ ids[k] \in Ids /\ ids[k] \in ToSet(ids)
                            /\ todo[k] \in PresentRequest
  BY <1>3 DEF ToSet, PresentRequest
<1>5. /\ todo \in Seq(PresentRequest) \ {<<>>} /\ 1 \in DOMAIN todo
      /\ DOMAIN todo = DOMAIN ids /\ Head(todo) = todo[1]
  <2> HIDE DEF PresentRequest
  <2>1. Len(ids) \in Nat \ {0} /\ DOMAIN ids = 1 .. Len(ids)
    OBVIOUS
  <2>2. todo \in [1 .. Len(ids) -> PresentRequest]
    BY <1>4, <2>1
  <2> QED
    BY <2>1, <2>2
<1>6. \A id \in ToSet(ids) : id \in Ids /\ IsKnown(id)
  BY <1>4 DEF ChainInv, Agreed, ToSet
<1>7. Messages'
  BY <1>1, <1>2, <1>4, <1>5 DEF Messages, Present
<1>8. Tables'
  <2>1. held' \in [Ids -> Seq(Nat)]
    BY <1>1, <1>3, Removed
  <2> QED
    BY <1>1, <2>1, CopiesKept DEF ChainInv, Tables, serverVars, gpuVars
<1>9. Accounted'
  BY <1>1 DEF ChainInv, Accounted, gpuVars
<1>10. Owned'
  <2>1. request'.op = "present"
    BY <1>1, <1>4, <1>5 DEF PresentRequest
  <2> HIDE DEF todo
  <2> QED
    BY <1>1, <2>1 DEF ChainInv, Owned, Images, gpuVars, serverVars
<1>11. Exchange'
  <2> HIDE DEF todo
  <2> QED
    BY <1>1, <1>2 DEF Exchange, Asked, None
<1>12. Agreed'
  BY <1>1, <1>6 DEF ChainInv, Agreed, IsKnown, serverVars
<1>13. Underway'
  <2>1. \A k \in DOMAIN todo : IsKnown(todo[k].id)
    BY <1>4, <1>5, <1>6
  <2> HIDE DEF todo
  <2> QED
    BY <1>1, <1>2, <2>1 DEF Underway, IsKnown, None
<1>14. ShownIsRendered' /\ LeaksOnlyGivenUp'
  <2> HIDE DEF todo
  <2> QED
    BY <1>1 DEF ChainInv, ShownIsRendered, LeaksOnlyGivenUp, InCall, IsKnown,
       serverVars, None
<1> QED
  BY <1>7, <1>8, <1>9, <1>10, <1>11, <1>12, <1>13, <1>14 DEF ChainInv

LEMMA RenderStep ==
  ASSUME ChainInv, NEW id \in Ids, NEW index, Render(id, index)
  PROVE  ChainInv'
<1> DEFINE image == known[id].images[index + 1]
<1>1. /\ call = None /\ connected /\ image \in registered /\ rendered[image] < MaxRender
      /\ work' = Append(work, image)
      /\ rendered' = [rendered EXCEPT ![image] = @ + 1]
      /\ UNCHANGED <<client, connected, clientVars, call, request, reply,
                     serverVars, contents, copyVars, shown, abandoned>>
  BY DEF Render, Idle
<1>2. request = None /\ reply = None
  BY <1>1 DEF ChainInv, Exchange
<1>3. image \in alive /\ image \in Handles /\ work \in Seq(Handles)
  BY <1>1 DEF ChainInv, Owned, Tables
<1> HIDE DEF image
<1>4. Messages'
  BY <1>1 DEF ChainInv, Messages
<1>5. Tables'
  <2>1. Copies'
    BY <1>1, CopiesKept DEF ChainInv, Tables
  <2>2. rendered' \in [Handles -> 0 .. MaxRender] /\ work' \in Seq(Handles)
    BY <1>1, <1>3, SwapchainAssumption DEF ChainInv, Tables
  <2> QED
    BY <1>1, <2>1, <2>2 DEF ChainInv, Tables, clientVars, serverVars
<1>6. Accounted'
  <2> SUFFICES ASSUME NEW h \in Handles
               PROVE  contents[h] + Queued(work', h) = rendered'[h]
    BY <1>1 DEF Accounted
  <2>1. Queued(work', h) = Queued(work, h) + IF image = h THEN 1 ELSE 0
    BY <1>1, <1>3, CountAppend
  <2>2. /\ contents[h] + Queued(work, h) = rendered[h]
        /\ contents[h] \in Nat /\ rendered[h] \in Nat
    BY DEF ChainInv, Accounted, Tables
  <2>3. Queued(work, h) \in Nat
    <3>1. {i \in 1 .. Len(work) : work[i] = h} \subseteq 1 .. Len(work) /\ Len(work) \in Nat
      BY <1>3
    <3> QED
      BY <3>1, CountIsNat DEF Queued, CountTo
  <2>4. rendered'[h] = rendered[h] + IF image = h THEN 1 ELSE 0
    BY <1>1, <2>2 DEF ChainInv, Tables
  <2> QED
    BY <2>1, <2>2, <2>3, <2>4
<1>7. Owned'
  <2>1. ToSet(work') = ToSet(work) \cup {image}
    BY <1>1, <1>3 DEF ToSet
  <2> QED
    BY <1>1, <1>2, <1>3, <2>1 DEF ChainInv, Owned, Images, serverVars, None
<1>8. Exchange'
  BY <1>1, <1>2 DEF Exchange
<1>9. Agreed'
  BY <1>1 DEF ChainInv, Agreed, IsKnown, clientVars, serverVars
<1>10. Underway'
  BY <1>1, <1>2 DEF Underway, None
<1>11. ShownIsRendered' /\ LeaksOnlyGivenUp'
  BY <1>1 DEF ChainInv, ShownIsRendered, LeaksOnlyGivenUp, InCall, IsKnown, clientVars,
     serverVars
<1> QED
  BY <1>4, <1>5, <1>6, <1>7, <1>8, <1>9, <1>10, <1>11 DEF ChainInv

-----------------------------------------------------------------------------
(* The server and the GPU.                                                 *)

\* What the client is in while the server has its request.
LEMMA Requested ==
  ASSUME ChainInv, request # None
  PROVE  /\ reply = None
         /\ connected => /\ call # None
                         /\ request.op # "present" => call = request
                         /\ request.op = "present" =>
                              call.op = "present" /\ request = Head(call.todo)
<1>1. connected => call # None /\ request = Asked
  BY DEF ChainInv, Exchange
<1>2. call.op = "present" => Head(call.todo).op = "present"
  <2>1. call.op = "present" => call.todo \in Seq(PresentRequest) /\ call.todo # <<>>
    BY Fields DEF ChainInv, Present
  <2>2. call.op = "present" => Head(call.todo) \in PresentRequest
    BY <2>1
  <2> QED
    BY <2>2 DEF PresentRequest
<1> QED
  BY <1>1, <1>2 DEF ChainInv, Exchange, Asked

LEMMA NothingUnderway ==
  ASSUME call' = None, reply' = None
  PROVE  Underway'
<1>1. call'.op = "none" /\ reply'.op = "none"
  BY DEF None
<1> QED
  BY <1>1 DEF Underway

LEMMA CountAbsent ==
  ASSUME NEW S, NEW s \in Seq(S), NEW h, h \notin ToSet(s)
  PROVE  Queued(s, h) = 0
<1>1. {i \in 1 .. Len(s) : s[i] = h} = {}
  BY DEF ToSet
<1> QED
  BY <1>1, FS_EmptySet DEF Queued, CountTo

LEMMA ServerCreatesStep ==
  ASSUME ChainInv, ServerCreates
  PROVE  ChainInv'
<1>1. PICK hs \in NewImages(request.count) :
        /\ alive' = alive \cup ToSet(hs) /\ registered' = registered \cup ToSet(hs)
        /\ swapchains' = [swapchains EXCEPT ![request.id] =
             [session |-> client, images |-> hs, next_image |-> 0]]
        /\ contents' = [h \in Handles |-> IF h \in ToSet(hs) THEN 0 ELSE contents[h]]
        /\ rendered' = [h \in Handles |-> IF h \in ToSet(hs) THEN 0 ELSE rendered[h]]
        /\ staging' = [h \in Handles |-> IF h \in ToSet(hs) THEN 0 ELSE staging[h]]
        /\ signaled' = signaled \ {request.id}
        /\ Answer([op |-> "created", id |-> request.id, ok |-> TRUE,
                   count |-> request.count,
                   images |-> SubSeq(hs, 1, IF Len(hs) < MaxImages THEN Len(hs)
                                                                   ELSE MaxImages)])
  BY DEF ServerCreates, Install, AllocateResources
<1>2. /\ request.op = "create"
      /\ UNCHANGED <<client, connected, clientVars, call, work, blocked, failures,
                     shown, abandoned>>
  BY DEF ServerCreates
<1>3. request \in Create /\ request.id \in Ids /\ request.count \in Nat \ {0}
      /\ request.count \in Counts
  BY <1>2, Fields, SwapchainAssumption DEF ChainInv, Create
<1>4. request # None
  BY <1>2 DEF None
<1>5. reply = None /\ (connected => call = request)
  BY <1>2, <1>4, Requested
<1>6. /\ hs \in Seq(Handles) /\ Len(hs) = request.count
      /\ ToSet(hs) \subseteq Handles /\ ToSet(hs) \cap alive = {}
  <2>1. hs \in [1 .. request.count -> Handles \ alive] /\ request.count \in Nat
    BY <1>1, <1>3 DEF NewImages
  <2>2. hs \in Seq(Handles \ alive) /\ Len(hs) = request.count /\ DOMAIN hs = 1 .. request.count
    BY <2>1
  <2>3. \A i \in DOMAIN hs : hs[i] \in Handles \ alive
    BY <2>1
  <2> QED
    BY <2>1, <2>2, <2>3 DEF ToSet
<1> DEFINE shortened == SubSeq(hs, 1, IF Len(hs) < MaxImages THEN Len(hs) ELSE MaxImages)
<1>7. shortened \in Seq(Handles) /\ (request.count <= MaxImages => shortened = hs)
  BY <1>3, <1>6, SwapchainAssumption
<1>8. /\ request' = None
      /\ reply' = IF connected
                  THEN [op |-> "created", id |-> request.id, ok |-> TRUE,
                        count |-> request.count, images |-> shortened]
                  ELSE None
  BY <1>1 DEF Answer
<1> HIDE DEF shortened
<1>9. swapchains \in [Ids -> Chain] /\ client \in 1 .. MaxClient /\ client \in Nat
  BY SwapchainAssumption DEF ChainInv, Tables
<1>10. /\ swapchains'[request.id].session = client
       /\ swapchains'[request.id].images = hs
       /\ swapchains'[request.id].next_image = 0
       /\ \A id \in Ids \ {request.id} : swapchains'[id] = swapchains[id]
  BY <1>1, <1>3, <1>9
<1>11. Messages'
  BY <1>2, <1>3, <1>7, <1>8 DEF ChainInv, Messages, Created
<1>12. Tables'
  <2>1. swapchains' \in [Ids -> Chain]
    BY <1>1, <1>3, <1>6, <1>9 DEF Chain
  <2>2. \A id \in Ids :
          /\ swapchains'[id].session # 0 =>
               swapchains'[id].next_image < Len(swapchains'[id].images)
          /\ swapchains'[id].session = 0 => swapchains'[id].images = <<>>
    <3> TAKE id \in Ids
    <3>1. CASE id = request.id
      BY <1>3, <1>6, <1>9, <1>10, <3>1
    <3>2. CASE id # request.id
      BY <1>10, <3>2 DEF ChainInv, Tables
    <3> QED
      BY <3>1, <3>2
  <2>3. contents' \in [Handles -> Nat] /\ rendered' \in [Handles -> 0 .. MaxRender]
    BY <1>1, SwapchainAssumption DEF ChainInv, Tables
  <2>4. alive' \subseteq Handles /\ registered' \subseteq Handles
    BY <1>1, <1>6 DEF ChainInv, Tables
  <2>5. Copies'
    BY <1>1, <1>2, SwapchainAssumption DEF ChainInv, Tables, Copies
  <2> QED
    BY <1>2, <2>1, <2>2, <2>3, <2>4, <2>5 DEF ChainInv, Tables, clientVars
<1>13. Accounted'
  <2> SUFFICES ASSUME NEW h \in Handles
               PROVE  contents'[h] + Queued(work, h) = rendered'[h]
    BY <1>2 DEF Accounted
  <2>1. h \in ToSet(hs) => Queued(work, h) = 0
    <3>1. h \in ToSet(hs) => h \notin ToSet(work)
      BY <1>6 DEF ChainInv, Owned
    <3>2. work \in Seq(Handles)
      BY DEF ChainInv, Tables
    <3> QED
      BY <3>1, <3>2, CountAbsent
  <2> QED
    BY <1>1, <2>1 DEF ChainInv, Accounted
<1>14. Owned'
  <2>1. \A id \in Ids \ {request.id} : Images(swapchains[id]) \cap ToSet(hs) = {}
    BY <1>6 DEF ChainInv, Owned
  <2>2. Images(swapchains'[request.id]) = ToSet(hs)
    BY <1>10 DEF Images
  <2>3. \A id \in Ids \ {request.id} : Images(swapchains'[id]) = Images(swapchains[id])
    BY <1>10 DEF Images
  <2>4. request'.op # "destroy"
    BY <1>8 DEF None
  <2>5. /\ \A id \in Ids : Images(swapchains'[id]) \subseteq alive'
        /\ \A id \in Ids : \A other \in Ids \ {id} :
             Images(swapchains'[id]) \cap Images(swapchains'[other]) = {}
    <3>1. \A id \in Ids : Images(swapchains[id]) \subseteq alive
      BY DEF ChainInv, Owned
    <3>2. \A id \in Ids : \A other \in Ids \ {id} :
            Images(swapchains[id]) \cap Images(swapchains[other]) = {}
      BY DEF ChainInv, Owned
    <3> HIDE DEF Images
    <3>3. \A id \in Ids : id = request.id => Images(swapchains'[id]) = ToSet(hs)
      BY <2>2
    <3>4. \A id \in Ids : Images(swapchains'[id]) \subseteq alive'
      BY <1>1, <2>3, <3>1, <3>3
    <3>5. ASSUME NEW id \in Ids, NEW other \in Ids \ {id}
          PROVE  Images(swapchains'[id]) \cap Images(swapchains'[other]) = {}
      <4>1. CASE id = request.id
        BY <2>1, <2>3, <3>3, <4>1
      <4>2. CASE other = request.id
        BY <2>1, <2>3, <3>3, <4>2
      <4>3. CASE id # request.id /\ other # request.id
        BY <2>3, <3>2, <4>3
      <4> QED
        BY <4>1, <4>2, <4>3
    <3> QED
      BY <3>4, <3>5
  <2> QED
    BY <1>1, <1>2, <2>4, <2>5 DEF ChainInv, Owned, Images
<1>15. Exchange'
  BY <1>2, <1>4, <1>5, <1>8 DEF ChainInv, Exchange, Asked, Answers, None
<1>16. connected => ~IsKnown(request.id) /\ request.id < next_id
  BY <1>2, <1>5 DEF ChainInv, Underway
<1>17. Agreed'
  <2>1. \A id \in Ids : swapchains'[id].session <= client
    BY <1>9, <1>10 DEF ChainInv, Agreed
  <2>2. connected => \A id \in Ids :
          /\ IsKnown(id) => /\ id < next_id
                            /\ swapchains'[id].session = client
                            /\ swapchains'[id].images = known[id].images
          /\ id >= next_id => swapchains'[id].session # client
    <3> SUFFICES ASSUME connected, NEW id \in Ids
                 PROVE  /\ IsKnown(id) => /\ id < next_id
                                          /\ swapchains'[id].session = client
                                          /\ swapchains'[id].images = known[id].images
                        /\ id >= next_id => swapchains'[id].session # client
      OBVIOUS
    <3>1. CASE id = request.id
      BY <1>16, <3>1 DEF ChainInv, Tables, Ids, IsKnown
    <3>2. CASE id # request.id
      BY <1>10, <3>2 DEF ChainInv, Agreed
    <3> QED
      BY <3>1, <3>2
  <2> QED
    BY <1>2, <2>1, <2>2 DEF ChainInv, Agreed, IsKnown, clientVars
<1>18. Underway'
  <2>1. CASE connected
    <3>1. call.op = "create" /\ call.id = request.id
      BY <1>2, <1>5, <2>1
    <3>2. /\ reply'.op = "created" /\ reply'.ok /\ reply'.id = request.id
          /\ reply'.count = request.count /\ reply'.images = shortened
      BY <1>8, <2>1
    <3>3. /\ swapchains'[reply'.id].session = client'
          /\ reply'.count <= MaxImages => reply'.images = swapchains'[reply'.id].images
      BY <1>2, <1>7, <1>10, <3>2
    <3>4. ~IsKnown(call.id)' /\ call'.id < next_id' /\ call'.op = "create"
      BY <1>2, <1>16, <2>1, <3>1 DEF IsKnown, clientVars
    <3> QED
      BY <1>8, <3>2, <3>3, <3>4 DEF Underway
  <2>2. CASE ~connected
    <3>1. call' = None /\ reply' = None
      BY <1>2, <1>8, <2>2 DEF ChainInv, Exchange
    <3> QED
      BY <3>1, NothingUnderway
  <2> QED
    BY <2>1, <2>2
<1>19. ShownIsRendered' /\ LeaksOnlyGivenUp'
  <2>1. ShownIsRendered'
    BY <1>2 DEF ChainInv, ShownIsRendered
  <2>2. connected => \A id \in Ids : id = request.id => InCall(id)
    BY <1>3, <1>5 DEF InCall, Create
  <2>3. \A id \in Ids : InCall(id)' = InCall(id) /\ IsKnown(id)' = IsKnown(id)
    BY <1>2 DEF InCall, IsKnown, clientVars
  <2>4. LeaksOnlyGivenUp'
    BY <1>2, <1>10, <2>2, <2>3 DEF ChainInv, LeaksOnlyGivenUp
  <2> QED
    BY <2>1, <2>4
<1> QED
  BY <1>11, <1>12, <1>13, <1>14, <1>15, <1>17, <1>18, <1>19 DEF ChainInv

LEMMA ServerCreateFailsStep ==
  ASSUME ChainInv, ServerCreateFails
  PROVE  ChainInv'
<1>1. PICK k \in 0 .. request.count : \E hs \in NewImages(k) :
        Install(FreeResources(AllocateResources(hs, FALSE), ToSet(hs)))
  BY DEF ServerCreateFails
<1>2. PICK hs \in NewImages(k) :
        Install(FreeResources(AllocateResources(hs, FALSE), ToSet(hs)))
  BY <1>1
<1>3. /\ request.op = "create"
      /\ UNCHANGED <<client, connected, clientVars, call, swapchains, gpuVars,
                     shown, abandoned>>
      /\ request' = None
      /\ reply' = IF connected
                  THEN [op |-> "created", id |-> request.id, ok |-> FALSE,
                        count |-> request.count, images |-> <<>>]
                  ELSE None
  BY DEF ServerCreateFails, Answer
<1>4. request \in Create /\ request.id \in Ids /\ request.count \in Nat \ {0}
      /\ request.count \in Counts
  BY <1>3, Fields, SwapchainAssumption DEF ChainInv, Create
<1> request # None
  BY <1>3 DEF None
<1>5. reply = None /\ (connected => call = request)
  BY <1>3, <1>4, Requested
<1>6. alive' = alive /\ registered' = registered
  <2>1. hs \in [1 .. k -> Handles \ alive] /\ k \in Nat
    BY <1>2, <1>4 DEF NewImages
  <2>2. hs \in Seq(Handles \ alive) /\ DOMAIN hs = 1 .. Len(hs)
    BY <2>1
  <2>3. ToSet(hs) \cap alive = {} /\ registered = alive
    BY <2>2 DEF ToSet, ChainInv, Owned
  <2>4. hs # <<>> => ToSet(Front(hs)) \subseteq ToSet(hs)
    BY <2>2 DEF ToSet, Front
  <2> QED
    BY <1>2, <2>3, <2>4 DEF Install, FreeResources, AllocateResources
<1>7. Messages'
  BY <1>3, <1>4 DEF ChainInv, Messages, Created
<1>8. Tables' /\ Accounted'
  BY <1>3, <1>6, CopiesKept DEF ChainInv, Tables, Accounted, clientVars, gpuVars
<1>9. Owned'
  <2>1. request'.op # "destroy"
    BY <1>3 DEF None
  <2> QED
    BY <1>3, <1>6, <2>1 DEF ChainInv, Owned, Images, gpuVars
<1>10. Exchange'
  BY <1>3, <1>4, <1>5 DEF ChainInv, Exchange, Asked, Answers, None
<1>11. Agreed'
  BY <1>3 DEF ChainInv, Agreed, IsKnown, clientVars
<1>12. Underway'
  <2>1. CASE connected
    <3>1. /\ call'.op = "create" /\ call' = call /\ request # None
          /\ reply'.op = "created" /\ ~reply'.ok /\ reply'.id = call.id
      BY <1>3, <1>4, <1>5, <2>1
    <3>2. /\ ~IsKnown(call.id)' /\ call'.id < next_id'
          /\ swapchains'[call.id].session # client'
      BY <1>3, <3>1 DEF ChainInv, Underway, IsKnown, clientVars
    <3> QED
      BY <1>3, <3>1, <3>2 DEF Underway
  <2>2. CASE ~connected
    <3>1. call' = None /\ reply' = None
      BY <1>3, <2>2 DEF ChainInv, Exchange
    <3> QED
      BY <3>1, NothingUnderway
  <2> QED
    BY <2>1, <2>2
<1>13. ShownIsRendered' /\ LeaksOnlyGivenUp'
  BY <1>3 DEF ChainInv, ShownIsRendered, LeaksOnlyGivenUp, InCall, IsKnown, clientVars
<1> QED
  BY <1>7, <1>8, <1>9, <1>10, <1>11, <1>12, <1>13 DEF ChainInv

LEMMA ServerDestroysStep ==
  ASSUME ChainInv, ServerDestroys
  PROVE  ChainInv'
<1> DEFINE freed == Images(swapchains[request.id])
<1>1. /\ request.op = "destroy"
      /\ alive' = alive \ freed /\ registered' = registered \ freed
      /\ swapchains' = [swapchains EXCEPT ![request.id] = Unknown]
      /\ request' = None
      /\ reply' = IF connected THEN [op |-> "destroyed"] ELSE None
      /\ UNCHANGED <<client, connected, clientVars, call, gpuVars, shown, abandoned>>
  BY DEF ServerDestroys, Install, FreeResources, Forget, Answer
<1>2. request \in Named /\ request.id \in Ids /\ request # None
  BY <1>1, Fields DEF ChainInv, Named, None
<1>3. reply = None /\ (connected => call = request)
  BY <1>1, <1>2, Requested
<1>4. swapchains \in [Ids -> Chain] /\ client \in 1 .. MaxClient
  BY DEF ChainInv, Tables
<1>5. /\ \A id \in Ids : id = request.id => swapchains'[id] = Unknown
      /\ \A id \in Ids \ {request.id} : swapchains'[id] = swapchains[id]
  BY <1>1, <1>2, <1>4
<1>6. Messages'
  BY <1>1 DEF ChainInv, Messages, Destroyed
<1>7. Tables'
  <2>1. swapchains' \in [Ids -> Chain]
    BY <1>1, <1>4, UnknownChain
  <2>2. \A id \in Ids :
          /\ swapchains'[id].session # 0 =>
               swapchains'[id].next_image < Len(swapchains'[id].images)
          /\ swapchains'[id].session = 0 => swapchains'[id].images = <<>>
    BY <1>5, UnknownChain DEF ChainInv, Tables
  <2> QED
    BY <1>1, <2>1, <2>2, CopiesKept DEF ChainInv, Tables, clientVars, gpuVars
<1>8. Accounted'
  BY <1>1 DEF ChainInv, Accounted, gpuVars
<1>9. Owned'
  <2>1. \A id \in Ids \ {request.id} : Images(swapchains[id]) \cap freed = {}
    BY <1>2 DEF ChainInv, Owned
  <2>2. \A id \in Ids : id = request.id => Images(swapchains'[id]) = {}
    BY <1>5, UnknownChain DEF Images, ToSet
  <2>3. \A id \in Ids \ {request.id} : Images(swapchains'[id]) = Images(swapchains[id])
    BY <1>5
  <2>4. request'.op # "destroy"
    BY <1>1 DEF None
  <2>5. ToSet(work) \cap freed = {} /\ work' = work
    BY <1>1 DEF ChainInv, Owned, gpuVars
  <2> HIDE DEF freed
  <2>6. \A id \in Ids : Images(swapchains'[id]) \subseteq alive'
    BY <1>1, <2>1, <2>2, <2>3 DEF ChainInv, Owned
  <2>7. ASSUME NEW id \in Ids, NEW other \in Ids \ {id}
        PROVE  Images(swapchains'[id]) \cap Images(swapchains'[other]) = {}
    <3>1. CASE id = request.id \/ other = request.id
      BY <2>2, <3>1
    <3>2. CASE id # request.id /\ other # request.id
      BY <2>3, <3>2 DEF ChainInv, Owned
    <3> QED
      BY <3>1, <3>2
  <2>8. ToSet(work) \subseteq alive' /\ registered' = alive'
    BY <1>1, <2>5 DEF ChainInv, Owned
  <2> QED
    BY <2>4, <2>5, <2>6, <2>7, <2>8 DEF Owned, Images
<1>10. Exchange'
  BY <1>1, <1>2, <1>3 DEF ChainInv, Exchange, Asked, Answers, None
<1>11. connected => ~IsKnown(request.id)
  BY <1>1, <1>3 DEF ChainInv, Underway
<1>12. Agreed'
  <2>1. \A id \in Ids : swapchains'[id].session <= client
    BY <1>4, <1>5, UnknownChain DEF ChainInv, Agreed
  <2>2. ASSUME connected, NEW id \in Ids
        PROVE  /\ IsKnown(id) => /\ id < next_id
                                 /\ swapchains'[id].session = client
                                 /\ swapchains'[id].images = known[id].images
               /\ id >= next_id => swapchains'[id].session # client
    <3>1. CASE id = request.id
      BY <1>4, <1>5, <1>11, <2>2, <3>1, UnknownChain DEF IsKnown
    <3>2. CASE id # request.id
      BY <1>5, <2>2, <3>2 DEF ChainInv, Agreed
    <3> QED
      BY <3>1, <3>2
  <2> QED
    BY <1>1, <2>1, <2>2 DEF ChainInv, Agreed, IsKnown, clientVars
<1>13. Underway'
  <2>1. CASE connected
    <3>1. /\ call'.op = "destroy" /\ call' = call /\ call.id = request.id
          /\ reply'.op = "destroyed"
      BY <1>1, <1>3, <2>1
    <3>2. ~IsKnown(call.id)' /\ swapchains'[call.id].session # client'
      BY <1>1, <1>2, <1>4, <1>5, <1>11, <2>1, <3>1, UnknownChain DEF IsKnown, clientVars
    <3> QED
      BY <3>1, <3>2 DEF Underway
  <2>2. CASE ~connected
    <3>1. call' = None /\ reply' = None
      BY <1>1, <2>2 DEF ChainInv, Exchange
    <3> QED
      BY <3>1, NothingUnderway
  <2> QED
    BY <2>1, <2>2
<1>14. ShownIsRendered' /\ LeaksOnlyGivenUp'
  <2>1. ShownIsRendered'
    BY <1>1 DEF ChainInv, ShownIsRendered
  <2>2. \A id \in Ids : InCall(id)' = InCall(id) /\ IsKnown(id)' = IsKnown(id)
    BY <1>1 DEF InCall, IsKnown, clientVars
  <2>3. LeaksOnlyGivenUp'
    BY <1>1, <1>4, <1>5, <2>2, UnknownChain DEF ChainInv, LeaksOnlyGivenUp
  <2> QED
    BY <2>1, <2>3
<1> QED
  BY <1>6, <1>7, <1>8, <1>9, <1>10, <1>12, <1>13, <1>14 DEF ChainInv

LEMMA ServerAcquiresStep ==
  ASSUME ChainInv, ServerAcquires
  PROVE  ChainInv'
<1> DEFINE chain == swapchains[request.id]
           next  == NextImage(chain.next_image, Len(chain.images))
<1>1. /\ request.op = "acquire"
      /\ swapchains' = IF chain.session # 0
                       THEN [swapchains EXCEPT ![request.id].next_image = next]
                       ELSE swapchains
      /\ request' = None
      /\ reply' = IF connected
                  THEN [op |-> "acquired", id |-> request.id,
                        ok |-> chain.session # 0, index |-> chain.next_image]
                  ELSE None
      /\ UNCHANGED <<client, connected, clientVars, call, registered, alive,
                     gpuVars, shown, abandoned>>
  BY DEF ServerAcquires, Answer
<1>2. request \in Named /\ request.id \in Ids /\ request # None
  BY <1>1, Fields DEF ChainInv, Named, None
<1>3. reply = None /\ (connected => call = request)
  BY <1>1, <1>2, Requested
<1>4. swapchains \in [Ids -> Chain] /\ chain \in Chain
  BY <1>2 DEF ChainInv, Tables
<1>5. chain.session # 0 => next \in Nat /\ next < Len(chain.images)
  <2>1. chain.session # 0 => Len(chain.images) \in Nat \ {0} /\ chain.next_image \in Nat
    BY <1>2, <1>4 DEF ChainInv, Tables, Chain
  <2>2. \A i \in Nat, m \in Nat \ {0} : NextImage(i, m) \in Nat /\ NextImage(i, m) < m
    BY DEF NextImage
  <2> HIDE DEF chain
  <2> QED
    BY <2>1, <2>2
<1> HIDE DEF next
<1>6. \A id \in Ids : /\ swapchains'[id].session = swapchains[id].session
                      /\ swapchains'[id].images = swapchains[id].images
  BY <1>1, <1>2, <1>4 DEF Chain
<1>7. Messages'
  BY <1>1, <1>2, <1>4 DEF ChainInv, Messages, Acquired, Chain
<1>8. Tables'
  <2>1. swapchains' \in [Ids -> Chain]
    BY <1>1, <1>2, <1>4, <1>5 DEF Chain
  <2>2. \A id \in Ids :
          /\ swapchains'[id].session # 0 =>
               swapchains'[id].next_image < Len(swapchains'[id].images)
          /\ swapchains'[id].session = 0 => swapchains'[id].images = <<>>
    <3> TAKE id \in Ids
    <3>1. CASE id = request.id /\ chain.session # 0
      BY <1>1, <1>2, <1>4, <1>5, <3>1 DEF Chain
    <3>2. CASE id # request.id \/ chain.session = 0
      BY <1>1, <1>2, <1>4, <3>2 DEF ChainInv, Tables
    <3> QED
      BY <3>1, <3>2
  <2> QED
    BY <1>1, <2>1, <2>2, CopiesKept DEF ChainInv, Tables, clientVars, gpuVars
<1>9. Accounted'
  BY <1>1 DEF ChainInv, Accounted, gpuVars
<1>10. Owned'
  <2>1. request'.op # "destroy"
    BY <1>1 DEF None
  <2> HIDE DEF chain
  <2> QED
    BY <1>1, <1>6, <2>1 DEF ChainInv, Owned, Images, gpuVars
<1>11. Exchange'
  BY <1>1, <1>2, <1>3 DEF ChainInv, Exchange, Asked, Answers, None
<1>12. Agreed'
  <2> HIDE DEF chain
  <2> QED
    BY <1>1, <1>6 DEF ChainInv, Agreed, IsKnown, clientVars
<1>13. Underway'
  <2>1. CASE connected
    <3>1. call'.op = "acquire" /\ call' = call /\ reply'.op = "acquired"
      BY <1>1, <1>3, <2>1
    <3>2. IsKnown(call.id)'
      BY <1>1, <3>1 DEF ChainInv, Underway, IsKnown, clientVars
    <3> QED
      BY <3>1, <3>2 DEF Underway
  <2>2. CASE ~connected
    <3>1. call' = None /\ reply' = None
      BY <1>1, <2>2 DEF ChainInv, Exchange
    <3> QED
      BY <3>1, NothingUnderway
  <2> QED
    BY <2>1, <2>2
<1>14. ShownIsRendered' /\ LeaksOnlyGivenUp'
  <2>1. ShownIsRendered'
    BY <1>1 DEF ChainInv, ShownIsRendered
  <2>2. \A id \in Ids : InCall(id)' = InCall(id) /\ IsKnown(id)' = IsKnown(id)
    BY <1>1 DEF InCall, IsKnown, clientVars
  <2> HIDE DEF chain
  <2>3. LeaksOnlyGivenUp'
    BY <1>1, <1>6, <2>2 DEF ChainInv, LeaksOnlyGivenUp
  <2> QED
    BY <2>1, <2>3
<1> QED
  BY <1>7, <1>8, <1>9, <1>10, <1>11, <1>12, <1>13, <1>14 DEF ChainInv

\* The first n renderings of the queue are executed: none, one or all.
LEMMA ExecutedStep ==
  ASSUME Tables, Accounted, NEW n \in {0, 1, Len(work)}, n <= Len(work),
         contents' = Executed(n), work' = SubSeq(work, n + 1, Len(work)),
         rendered' = rendered
  PROVE  /\ contents' \in [Handles -> Nat]
         /\ work' \in Seq(Handles) /\ ToSet(work') \subseteq ToSet(work)
         /\ Accounted'
         /\ n = Len(work) => \A h \in Handles : contents'[h] = rendered[h]
<1>1. work \in Seq(Handles) /\ Len(work) \in Nat /\ n \in Nat
  BY DEF Tables
<1>2. work' \in Seq(Handles) /\ ToSet(work') \subseteq ToSet(work)
  BY <1>1 DEF ToSet
<1>3. ASSUME NEW h \in Handles
      PROVE  /\ CountTo(work, n, h) \in Nat
             /\ contents'[h] = contents[h] + CountTo(work, n, h)
  <2>1. {i \in 1 .. n : work[i] = h} \subseteq 1 .. n
    OBVIOUS
  <2>2. CountTo(work, n, h) \in Nat
    BY <1>1, <2>1, CountIsNat DEF CountTo
  <2>3. contents'[h] = contents[h] + CountTo(work, n, h)
    <3>1. contents'[h] = contents[h] + Cardinality({i \in 1 .. n : work[i] = h})
      BY Zenon DEF Executed
    <3> QED
      BY <3>1, Zenon DEF CountTo
  <2> QED
    BY <2>2, <2>3
<1>4. contents' \in [Handles -> Nat]
  <2>1. contents' = [h \in Handles |-> contents'[h]]
    BY Zenon DEF Executed
  <2>2. ASSUME NEW h \in Handles
        PROVE  contents'[h] \in Nat
    <3>1. contents \in [Handles -> Nat]
      BY Zenon DEF Tables
    <3>2. contents[h] \in Nat
      BY <3>1
    <3>3. CountTo(work, n, h) \in Nat /\ contents'[h] = contents[h] + CountTo(work, n, h)
      BY <1>3
    <3> QED
      BY <3>2, <3>3
  <2> QED
    BY <2>1, <2>2, Zenon
<1>5. ASSUME NEW h \in Handles
      PROVE  /\ CountTo(work, n, h) + Queued(work', h) = Queued(work, h)
             /\ n = Len(work) => Queued(work', h) = 0
             /\ Queued(work', h) \in Nat
  <2>1. Queued(<<>>, h) = 0
    <3>1. Queued(<<>>, h) = CountTo(<<>>, 0, h)
      BY DEF Queued
    <3> QED
      BY <3>1, CountNothing
  <2>2. Queued(work', h) \in Nat
    <3>1. {i \in 1 .. Len(work') : work'[i] = h} \subseteq 1 .. Len(work') /\ Len(work') \in Nat
      BY <1>2
    <3> QED
      BY <3>1, CountIsNat DEF Queued, CountTo
  <2>3. CASE n = Len(work)
    <3>1. work' = <<>>
      BY <1>1, <2>3
    <3>2. CountTo(work, n, h) = Queued(work, h)
      BY <2>3 DEF Queued
    <3>3. Queued(work', h) = 0
      BY <2>1, <3>1, Zenon
    <3> QED
      BY <1>3, <3>2, <3>3
  <2>4. CASE n = 0 /\ n # Len(work)
    <3>1. work' = work
      BY <1>1, <2>4
    <3>2. CountTo(work, n, h) = 0
      BY <2>4, CountNothing
    <3>3. Queued(work', h) = Queued(work, h)
      BY <3>1, Zenon
    <3> QED
      BY <2>2, <2>4, <3>2, <3>3
  <2>5. CASE n = 1 /\ n # Len(work)
    <3>1. work # <<>> /\ work' = Tail(work)
      BY <1>1, <2>5
    <3>2. CountTo(work, 1, h) + Queued(Tail(work), h) = Queued(work, h)
      BY <1>1, <3>1, CountTail
    <3>3. Queued(work', h) = Queued(Tail(work), h)
      BY <3>1, Zenon
    <3> QED
      BY <2>2, <2>5, <3>2, <3>3
  <2> QED
    BY <2>3, <2>4, <2>5
<1>6. ASSUME NEW h \in Handles
      PROVE  /\ contents'[h] + Queued(work', h) = rendered[h]
             /\ n = Len(work) => contents'[h] = rendered[h]
  <2>1. contents[h] \in Nat /\ contents[h] + Queued(work, h) = rendered[h]
    BY DEF Tables, Accounted
  <2> QED
    BY <1>3, <1>5, <2>1
<1> QED
  BY <1>2, <1>4, <1>6 DEF Accounted

LEMMA ContentsBounded ==
  ASSUME work \in Seq(Handles), contents \in [Handles -> Nat],
         rendered \in [Handles -> 0 .. MaxRender], Accounted
  PROVE  contents \in [Handles -> 0 .. MaxRender]
<1>1. ASSUME NEW h \in Handles
      PROVE  contents[h] \in 0 .. MaxRender
  <2>1. {i \in 1 .. Len(work) : work[i] = h} \subseteq 1 .. Len(work) /\ Len(work) \in Nat
    OBVIOUS
  <2>2. Queued(work, h) \in Nat
    BY <2>1, CountIsNat DEF Queued, CountTo
  <2> QED
    BY <2>2, SwapchainAssumption DEF Accounted
<1> QED
  BY <1>1

\* What every answer to a present has in common.
LEMMA Presenting ==
  ASSUME ChainInv, request.op = "present"
  PROVE  /\ request \in PresentRequest /\ request.id \in Ids /\ request.index \in Nat
         /\ request # None /\ reply = None
         /\ connected => call.op = "present" /\ request = Head(call.todo)
         /\ swapchains[request.id] \in Chain
<1>1. request \in PresentRequest /\ request.id \in Ids /\ request.index \in Nat
  BY Fields DEF ChainInv, PresentRequest
<1>2. request # None
  BY DEF None
<1> QED
  BY <1>1, <1>2, Requested DEF ChainInv, Tables

LEMMA HeadIsFirst ==
  ASSUME NEW S, NEW s \in Seq(S), s # <<>>
  PROVE  Head(s) = s[1] /\ 1 \in DOMAIN s
OBVIOUS

\* A present is answered: the frame is due when the copy was made.
LEMMA PresentAnswered ==
  ASSUME ChainInv, request.op = "present", NEW msg \in Presented,
         msg.id = request.id,
         msg.ok => /\ request.index < Len(swapchains[request.id].images)
                   /\ msg.made => msg.frame =
                        rendered[swapchains[request.id].images[request.index + 1]],
         request' = None, reply' = IF connected THEN msg ELSE None,
         UNCHANGED <<client, connected, clientVars, call, serverVars, rendered,
                     shown, abandoned>>,
         work' \in Seq(Handles), ToSet(work') \subseteq ToSet(work),
         Tables', Accounted'
  PROVE  ChainInv'
<1> DEFINE images == swapchains[request.id].images
<1>1. /\ request.id \in Ids /\ request.index \in Nat
      /\ request # None /\ reply = None
      /\ connected => call.op = "present" /\ request = Head(call.todo)
      /\ images \in Seq(Handles)
  BY Presenting DEF Chain
<1>2. msg.op = "presented" /\ msg # None
  BY DEF Presented, None
<1>3. Messages'
  <2>1. reply' \in {None} \cup Presented
    OBVIOUS
  <2> QED
    BY <2>1 DEF ChainInv, Messages
<1>4. Owned'
  <2>1. request'.op # "destroy"
    BY DEF None
  <2> QED
    BY <2>1 DEF ChainInv, Owned, Images, serverVars
<1>5. Exchange'
  <2>1. CASE connected
    <3>1. call'.op = "present" /\ call' = call /\ call' # None
      BY <1>1, <2>1 DEF None
    <3>2. Asked' = request
      BY <1>1, <2>1, <3>1 DEF Asked
    <3>3. request.op = "present" /\ reply'.op = "presented" /\ reply'.id = request.id
      BY <1>2, <2>1
    <3>4. Answers(Asked)'
      BY <3>2, <3>3 DEF Answers
    <3> QED
      BY <2>1, <3>1, <3>4 DEF Exchange
  <2>2. CASE ~connected
    BY <2>2 DEF ChainInv, Exchange
  <2> QED
    BY <2>1, <2>2
<1>6. Agreed'
  BY DEF ChainInv, Agreed, IsKnown, clientVars, serverVars
<1>7. Underway'
  <2>1. CASE connected
    <3>1. /\ call'.op = "present" /\ call' = call /\ known' = known /\ rendered' = rendered
          /\ reply'.op = "presented" /\ reply' = msg /\ reply'.id = request.id
          /\ request = Head(call.todo)
      BY <1>1, <1>2, <2>1 DEF clientVars
    <3>2. call.todo \in Seq(PresentRequest) /\ call.todo # <<>>
      BY <1>1, <2>1, Fields DEF ChainInv, Present
    <3>3. \A k \in DOMAIN call.todo : IsKnown(call.todo[k].id)
      BY <1>1, <2>1 DEF ChainInv, Underway
    <3>4. request = call.todo[1] /\ 1 \in DOMAIN call.todo
      BY <3>1, <3>2, HeadIsFirst
    <3>5. known[request.id].images = images
      BY <1>1, <2>1, <3>3, <3>4 DEF ChainInv, Agreed
    <3>6. msg.ok => /\ request.index + 1 \in DOMAIN known[request.id].images
                    /\ msg.made => msg.frame =
                         rendered[known[request.id].images[request.index + 1]]
      BY <1>1, <3>5
    <3>7. Underway' = (/\ (\A k \in DOMAIN call.todo : IsKnown(call.todo[k].id))
                       /\ msg.ok => /\ request.index + 1 \in DOMAIN known[request.id].images
                                    /\ msg.made => msg.frame =
                                         rendered[known[request.id].images[request.index + 1]])
      BY <3>1 DEF Underway, IsKnown
    <3> QED
      BY <3>3, <3>6, <3>7
  <2>2. CASE ~connected
    <3>1. call' = None /\ reply' = None
      BY <2>2 DEF ChainInv, Exchange
    <3> QED
      BY <3>1, NothingUnderway
  <2> QED
    BY <2>1, <2>2
<1>8. ShownIsRendered' /\ LeaksOnlyGivenUp'
  BY DEF ChainInv, ShownIsRendered, LeaksOnlyGivenUp, InCall, IsKnown, clientVars, serverVars
<1> QED
  BY <1>3, <1>4, <1>5, <1>6, <1>7, <1>8 DEF ChainInv

LEMMA RefusesImageStep ==
  ASSUME ChainInv, request.op = "present", RefusesImage
  PROVE  ChainInv'
<1> DEFINE msg == [op |-> "presented", id |-> request.id, ok |-> FALSE,
                   frame |-> 0, made |-> FALSE]
<1>1. /\ request.op = "present"
      /\ request' = None /\ reply' = IF connected THEN msg ELSE None
      /\ UNCHANGED <<client, connected, clientVars, call, serverVars, gpuVars,
                     shown, abandoned>>
  BY DEF RefusesImage, Answer
<1>2. msg \in Presented /\ msg.id = request.id /\ ~msg.ok
  BY <1>1, Presenting DEF Presented
<1>3. Tables' /\ Accounted'
  BY <1>1, CopiesKept DEF ChainInv, Tables, Accounted, clientVars, serverVars, gpuVars
<1>4. UNCHANGED <<work, rendered>> /\ work \in Seq(Handles)
  BY <1>1 DEF gpuVars, ChainInv, Tables
<1> HIDE DEF msg
<1> QED
  BY <1>1, <1>2, <1>3, <1>4, PresentAnswered

LEMMA CopiesImageStep ==
  ASSUME ChainInv, PresentsImage, CopiesImage
  PROVE  ChainInv'
<1> DEFINE id == request.id
           image == swapchains[id].images[request.index + 1]
<1>1. /\ request.op = "present"
      /\ request.index < Len(swapchains[id].images)
      /\ UNCHANGED <<client, connected, clientVars, call, serverVars, rendered,
                     blocked, shown, abandoned>>
  BY DEF CopiesImage, PresentsImage
<1>2. PICK waited \in DriverDoes, recorded \in DriverDoes, submitted \in DriverDoes,
           awaited \in DriverDoes, reset \in DriverDoes :
        LET served   == awaited /\ id \notin signaled
            finished == recorded /\ submitted /\ served
        IN  /\ submitted \/ ~awaited \/ id \in signaled
            /\ LET n == IF waited THEN DeviceWaitIdle ELSE 0
               IN  /\ contents' = Executed(n)
                   /\ work' = SubSeq(work, n + 1, Len(work))
            /\ \E copied \in BOOLEAN :
                 /\ finished => copied
                 /\ copied => submitted
                 /\ staging' = IF copied
                               THEN [staging EXCEPT ![image] = contents'[image]]
                               ELSE staging
            /\ \E left \in BOOLEAN :
                 /\ left => submitted \/ id \in signaled
                 /\ left /\ reset => ~served
                 /\ (submitted \/ id \in signaled) /\ ~reset => left
                 /\ signaled' = IF left THEN signaled \cup {id} ELSE signaled \ {id}
            /\ failures' = IF waited /\ recorded /\ submitted /\ awaited /\ reset
                           THEN failures ELSE failures + 1
            /\ Answer([op |-> "presented", id |-> id, ok |-> TRUE,
                       frame |-> staging'[image], made |-> waited /\ finished])
  BY Zenon DEF CopiesImage
<1>15. PICK copied \in BOOLEAN :
         /\ recorded /\ submitted /\ awaited /\ id \notin signaled => copied
         /\ staging' = IF copied THEN [staging EXCEPT ![image] = contents'[image]]
                                 ELSE staging
  BY <1>2
<1> DEFINE n == IF waited THEN Len(work) ELSE 0
           made == waited /\ (recorded /\ submitted /\ (awaited /\ id \notin signaled))
           msg == [op |-> "presented", id |-> id, ok |-> TRUE,
                   frame |-> staging'[image], made |-> made]
<1>3. /\ id \in Ids /\ request.index \in Nat /\ swapchains[id] \in Chain
      /\ work \in Seq(Handles)
  BY <1>1, Presenting DEF ChainInv, Tables
<1>4. image \in Handles
  BY <1>1, <1>3 DEF Chain
<1>5. /\ DriverDoes \subseteq BOOLEAN
      /\ (waited /\ recorded /\ submitted /\ awaited /\ reset) \/ failures < MaxFailures
  BY DEF DriverDoes
<1> HIDE DEF image, id
<1>6. /\ contents' \in [Handles -> Nat]
      /\ work' \in Seq(Handles) /\ ToSet(work') \subseteq ToSet(work)
      /\ Accounted'
      /\ waited => \A h \in Handles : contents'[h] = rendered[h]
  <2>1. n \in {0, 1, Len(work)} /\ n <= Len(work) /\ (waited => n = Len(work))
    BY <1>3
  <2>2. contents' = Executed(n) /\ work' = SubSeq(work, n + 1, Len(work))
    BY <1>2 DEF DeviceWaitIdle
  <2> HIDE DEF n
  <2> QED
    BY <1>1, <2>1, <2>2, ExecutedStep DEF ChainInv
<1>7. contents' \in [Handles -> 0 .. MaxRender] /\ UNCHANGED rendered
  <2>1. rendered' = rendered /\ rendered \in [Handles -> 0 .. MaxRender]
    BY <1>1 DEF ChainInv, Tables
  <2>2. ASSUME NEW h \in Handles
        PROVE  contents'[h] \in 0 .. MaxRender
    <3>1. {i \in 1 .. Len(work') : work'[i] = h} \subseteq 1 .. Len(work') /\ Len(work') \in Nat
      BY <1>6
    <3>2. Queued(work', h) \in Nat
      BY <3>1, CountIsNat DEF Queued, CountTo
    <3> QED
      BY <1>6, <2>1, <3>2, SwapchainAssumption DEF Accounted
  <2> QED
    BY <1>6, <2>1, <2>2
<1>8. staging' \in [Handles -> 0 .. MaxRender]
  BY <1>15, <1>4, <1>7 DEF ChainInv, Tables, Copies
<1>9. signaled' \subseteq Ids /\ failures' \in 0 .. MaxFailures
  <2>1. signaled' \subseteq Ids
    BY <1>2, <1>3 DEF ChainInv, Tables, Copies
  <2>2. failures' \in 0 .. MaxFailures
    BY <1>2, <1>5, SwapchainAssumption DEF ChainInv, Tables, Copies
  <2> QED
    BY <2>1, <2>2
<1>10. Tables'
  <2>1. Copies'
    BY <1>1, <1>8, <1>9 DEF ChainInv, Tables, Copies
  <2> QED
    BY <1>1, <1>6, <2>1 DEF ChainInv, Tables, clientVars, serverVars
<1>11. made => staging'[image] = rendered[image]
  BY <1>15, <1>4, <1>6 DEF ChainInv, Tables, Copies
<1>12. msg \in Presented /\ msg.id = request.id /\ msg.made = made
       /\ msg.frame = staging'[image]
  <2>1. staging'[image] \in Nat
    BY <1>4, <1>8, SwapchainAssumption
  <2>2. made \in BOOLEAN
    BY <1>5
  <2> HIDE DEF made
  <2> QED
    BY <1>3, <2>1, <2>2 DEF Presented, id
<1>13. request' = None /\ reply' = IF connected THEN msg ELSE None
  BY <1>2 DEF Answer
<1> HIDE DEF msg, made, n
<1>14. msg.made => msg.frame = rendered[swapchains[request.id].images[request.index + 1]]
  BY <1>11, <1>12 DEF image, id
<1> QED
  BY <1>1, <1>6, <1>7, <1>10, <1>12, <1>13, <1>14, PresentAnswered DEF id

LEMMA ServerPresentsStep ==
  ASSUME ChainInv, ServerPresents
  PROVE  ChainInv'
BY CopiesImageStep, RefusesImageStep DEF ServerPresents

LEMMA ServerBlocksStep ==
  ASSUME ChainInv, ServerBlocks
  PROVE  ChainInv'
<1>1. /\ request.op = "present" /\ request' = None
      /\ blocked' = TRUE /\ failures' = failures + 1 /\ failures < MaxFailures
      /\ UNCHANGED <<client, connected, clientVars, call, reply, serverVars,
                     contents, work, rendered, staging, signaled, shown, abandoned>>
  BY DEF ServerBlocks, PresentsImage, DriverDoes
<1>2. reply = None /\ (connected => call # None)
  BY <1>1, Presenting DEF None
<1>3. Messages'
  BY <1>1 DEF ChainInv, Messages
<1>4. Tables' /\ Accounted'
  <2>1. Copies'
    BY <1>1, SwapchainAssumption DEF ChainInv, Tables, Copies
  <2> QED
    BY <1>1, <2>1 DEF ChainInv, Tables, Accounted, clientVars, serverVars
<1>5. Owned'
  <2>1. request'.op # "destroy"
    BY <1>1 DEF None
  <2> QED
    BY <1>1, <2>1 DEF ChainInv, Owned, Images, serverVars
<1>6. Exchange'
  BY <1>1, <1>2 DEF ChainInv, Exchange
<1>7. Agreed'
  BY <1>1 DEF ChainInv, Agreed, IsKnown, clientVars, serverVars
<1>8. Underway'
  <2>1. request'.op = "none" /\ reply'.op = "none"
    BY <1>1, <1>2 DEF None
  <2> QED
    BY <1>1, <2>1 DEF ChainInv, Underway, IsKnown, clientVars, serverVars
<1>9. ShownIsRendered' /\ LeaksOnlyGivenUp'
  BY <1>1 DEF ChainInv, ShownIsRendered, LeaksOnlyGivenUp, InCall, IsKnown, clientVars,
     serverVars
<1> QED
  BY <1>3, <1>4, <1>5, <1>6, <1>7, <1>8, <1>9 DEF ChainInv

LEMMA GpuExecutesStep ==
  ASSUME ChainInv, GpuExecutes
  PROVE  ChainInv'
<1>1. /\ work # <<>> /\ contents' = Executed(1) /\ work' = Tail(work)
      /\ UNCHANGED <<client, connected, clientVars, call, request, reply,
                     serverVars, rendered, copyVars, shown, abandoned>>
  BY DEF GpuExecutes
<1>2. /\ contents' \in [Handles -> Nat]
      /\ work' \in Seq(Handles) /\ ToSet(work') \subseteq ToSet(work)
      /\ Accounted'
  <2>1. /\ 1 \in {0, 1, Len(work)} /\ 1 <= Len(work)
        /\ work' = SubSeq(work, 1 + 1, Len(work))
    BY <1>1 DEF ChainInv, Tables
  <2> QED
    BY <1>1, <2>1, ExecutedStep DEF ChainInv
<1>3. Messages'
  BY <1>1 DEF ChainInv, Messages
<1>4. Tables'
  BY <1>1, <1>2, CopiesKept DEF ChainInv, Tables, clientVars, serverVars
<1>5. Owned'
  BY <1>1, <1>2 DEF ChainInv, Owned, Images, serverVars
<1>6. Exchange' /\ Agreed'
  BY <1>1 DEF ChainInv, Exchange, Asked, Answers, Agreed, IsKnown, clientVars, serverVars,
     copyVars
<1>7. Underway'
  BY <1>1 DEF ChainInv, Underway, IsKnown, clientVars, serverVars
<1>8. ShownIsRendered' /\ LeaksOnlyGivenUp'
  BY <1>1 DEF ChainInv, ShownIsRendered, LeaksOnlyGivenUp, InCall, IsKnown, clientVars,
     serverVars
<1> QED
  BY <1>2, <1>3, <1>4, <1>5, <1>6, <1>7, <1>8 DEF ChainInv

-----------------------------------------------------------------------------
(* The application's calls, from the answer on.                            *)

\* What an answer is to.
LEMMA Replied ==
  ASSUME ChainInv, reply # None
  PROVE  /\ connected /\ call # None /\ request = None
         /\ reply.op = "created" => call.op = "create" /\ reply.id = call.id
         /\ reply.op = "destroyed" => call.op = "destroy"
         /\ reply.op = "acquired" => call.op = "acquire" /\ reply.id = call.id
         /\ reply.op = "presented" =>
              call.op = "present" /\ reply.id = Head(call.todo).id
<1>1. connected /\ call # None /\ request = None /\ Answers(Asked)
  BY DEF ChainInv, Exchange
<1>2. CASE call.op = "present"
  <2>1. call.todo \in Seq(PresentRequest) /\ call.todo # <<>>
    BY <1>2, Fields DEF ChainInv, Present
  <2>2. Head(call.todo) \in PresentRequest
    BY <2>1
  <2>3. Asked = Head(call.todo) /\ Asked.op = "present"
    BY <1>2, <2>2 DEF Asked, PresentRequest
  <2> QED
    BY <1>1, <1>2, <2>3 DEF Answers
<1>3. CASE call.op # "present"
  <2>1. Asked = call /\ call.op \in {"create", "destroy", "acquire"}
    BY <1>1, <1>3 DEF Asked, ChainInv, Messages, Create, Named, Present
  <2> QED
    BY <1>1, <2>1 DEF Answers
<1> QED
  BY <1>2, <1>3

\* A call that ends without news for client and server.
LEMMA PlainReturn ==
  ASSUME ChainInv, call' = None, reply' = None, request = None,
         UNCHANGED <<client, connected, clientVars, request, serverVars, gpuVars, shown>>,
         abandoned' \in SUBSET Ids, abandoned \subseteq abandoned',
         connected => \A id \in Ids : swapchains[id].session = client =>
                        IsKnown(id) \/ id \in abandoned'
  PROVE  ChainInv'
<1>1. Messages'
  BY DEF ChainInv, Messages
<1>2. Tables' /\ Accounted'
  BY CopiesKept DEF ChainInv, Tables, Accounted, clientVars, serverVars, gpuVars
<1>3. Owned'
  BY DEF ChainInv, Owned, Images, serverVars, gpuVars
<1>4. Exchange'
  BY DEF ChainInv, Exchange
<1>5. Agreed'
  BY DEF ChainInv, Agreed, IsKnown, clientVars, serverVars
<1>6. ShownIsRendered' /\ LeaksOnlyGivenUp'
  BY DEF ChainInv, ShownIsRendered, LeaksOnlyGivenUp, IsKnown, clientVars, serverVars
<1> QED
  BY <1>1, <1>2, <1>3, <1>4, <1>5, <1>6, NothingUnderway DEF ChainInv

LEMMA CreateEndsStep ==
  ASSUME ChainInv, CreateRefused \/ CreateGivesUp \/ DestroyReturns
  PROVE  ChainInv'
<1>1. /\ call' = None /\ reply' = None
      /\ UNCHANGED <<client, connected, clientVars, request, serverVars, gpuVars, shown>>
  BY DEF CreateRefused, CreateGivesUp, DestroyReturns, Return
<1>2. reply # None
  BY DEF CreateRefused, CreateGivesUp, DestroyReturns, None
<1>3. request = None /\ connected
  BY <1>2, Replied
<1>4. abandoned \subseteq Ids
  BY DEF ChainInv, Tables
<1>5. reply.op = "created" => reply.id \in Ids
  BY Fields DEF ChainInv, Created
<1>6. abandoned' \in SUBSET Ids /\ abandoned \subseteq abandoned'
  BY <1>4, <1>5 DEF CreateRefused, CreateGivesUp, DestroyReturns
<1>7. ASSUME NEW id \in Ids, swapchains[id].session = client
      PROVE  IsKnown(id) \/ id \in abandoned'
  <2>1. IsKnown(id) \/ id \in abandoned \/ call.id = id
    BY <1>3, <1>7 DEF ChainInv, LeaksOnlyGivenUp, InCall
  <2>2. CASE CreateRefused
    <3>1. call.id = reply.id /\ swapchains[reply.id].session # client
      BY <1>2, <2>2, Replied DEF CreateRefused, ChainInv, Underway
    <3> QED
      BY <1>6, <1>7, <2>1, <3>1
  <2>3. CASE CreateGivesUp
    <3>1. call.id = reply.id /\ reply.id \in abandoned'
      BY <1>2, <2>3, Replied DEF CreateGivesUp
    <3> QED
      BY <1>6, <2>1, <3>1
  <2>4. CASE DestroyReturns
    <3>1. swapchains[call.id].session # client
      BY <2>4 DEF DestroyReturns, ChainInv, Underway
    <3> QED
      BY <1>6, <1>7, <2>1, <3>1
  <2> QED
    BY <2>2, <2>3, <2>4
<1> QED
  BY <1>1, <1>3, <1>6, <1>7, PlainReturn

LEMMA CreateReturnsStep ==
  ASSUME ChainInv, CreateReturns
  PROVE  ChainInv'
<1> DEFINE entry == [session |-> client, images |-> reply.images, next_image |-> 0]
<1>1. /\ reply.op = "created" /\ reply.ok /\ reply.count <= MaxImages
      /\ known' = [known EXCEPT ![reply.id] = entry]
      /\ shown' = [shown EXCEPT ![reply.id] = Nothing]
      /\ call' = None /\ reply' = None
      /\ UNCHANGED <<client, connected, next_id, held, request, serverVars,
                     gpuVars, abandoned>>
  BY DEF CreateReturns, Return
<1>2. reply \in Created /\ reply.id \in Ids /\ reply # None
  BY <1>1, Fields DEF ChainInv, Created, None
<1>3. /\ connected /\ request = None
      /\ call.op = "create" /\ reply.id = call.id
  BY <1>1, <1>2, Replied
<1>4. /\ swapchains[reply.id].session = client
      /\ swapchains[reply.id].images = reply.images
      /\ reply.id < next_id
  BY <1>1, <1>3 DEF ChainInv, Underway
<1>5. known \in [Ids -> Chain] /\ client \in 1 .. MaxClient
  BY DEF ChainInv, Tables
<1>6. entry \in Chain /\ entry.session = client /\ entry.images = reply.images
  BY <1>2, <1>5, SwapchainAssumption DEF Chain, Created
<1> HIDE DEF entry
<1>7. /\ \A id \in Ids : id = reply.id => known'[id] = entry
      /\ \A id \in Ids \ {reply.id} : known'[id] = known[id]
  BY <1>1, <1>5
<1>8. Messages'
  BY <1>1, <1>3 DEF ChainInv, Messages
<1>9. Tables'
  BY <1>1, <1>2, <1>6, CopiesKept DEF ChainInv, Tables, serverVars, gpuVars, Nothing
<1>10. Accounted'
  BY <1>1 DEF ChainInv, Accounted, gpuVars
<1>11. Owned'
  BY <1>1 DEF ChainInv, Owned, Images, serverVars, gpuVars
<1>12. Exchange'
  BY <1>1, <1>3 DEF Exchange
<1>13. \A id \in Ids : IsKnown(id) => known'[id].session # 0
  BY <1>5, <1>6, <1>7 DEF IsKnown
<1>14. Agreed'
  <2>1. ASSUME NEW id \in Ids
        PROVE  /\ known'[id].session # 0 => /\ id < next_id
                                            /\ swapchains[id].session = client
                                            /\ swapchains[id].images = known'[id].images
               /\ id >= next_id => swapchains[id].session # client
    <3>1. CASE id = reply.id
      BY <1>3, <1>4, <1>6, <1>7, <3>1 DEF ChainInv, Agreed
    <3>2. CASE id # reply.id
      BY <1>3, <1>7, <3>2 DEF ChainInv, Agreed, IsKnown
    <3> QED
      BY <3>1, <3>2
  <2> QED
    BY <1>1, <1>13, <2>1 DEF ChainInv, Agreed, IsKnown, serverVars
<1>15. Underway'
  BY <1>1, NothingUnderway
<1>16. ShownIsRendered'
  BY <1>1, <1>2 DEF ChainInv, ShownIsRendered, Tables, Nothing
<1>17. LeaksOnlyGivenUp'
  <2>1. ASSUME NEW id \in Ids, swapchains[id].session = client
        PROVE  known'[id].session # 0 \/ id \in abandoned
    <3>1. CASE id = reply.id
      BY <1>5, <1>6, <1>7, <3>1
    <3>2. CASE id # reply.id
      BY <1>3, <1>13, <2>1, <3>2 DEF ChainInv, LeaksOnlyGivenUp, InCall
    <3> QED
      BY <3>1, <3>2
  <2> QED
    BY <1>1, <2>1 DEF LeaksOnlyGivenUp, IsKnown, serverVars
<1> QED
  BY <1>8, <1>9, <1>10, <1>11, <1>12, <1>14, <1>15, <1>16, <1>17 DEF ChainInv

LEMMA AcquireReturnsStep ==
  ASSUME ChainInv, AcquireReturns
  PROVE  ChainInv'
<1>1. /\ reply.op = "acquired"
      /\ held' = IF reply.ok THEN [held EXCEPT ![reply.id] = Append(@, reply.index)]
                             ELSE held
      /\ call' = None /\ reply' = None
      /\ UNCHANGED <<client, connected, next_id, known, request, serverVars,
                     gpuVars, shown, abandoned>>
  BY DEF AcquireReturns, Return
<1>2. reply \in Acquired /\ reply.id \in Ids /\ reply.index \in Nat /\ reply # None
  BY <1>1, Fields DEF ChainInv, Acquired, None
<1>3. /\ connected /\ request = None
      /\ call.op = "acquire" /\ reply.id = call.id
  BY <1>1, <1>2, Replied
<1>4. known[reply.id].session # 0
  BY <1>3 DEF ChainInv, Underway, IsKnown
<1>5. Messages'
  BY <1>1, <1>3 DEF ChainInv, Messages
<1>6. Tables'
  <2>1. held' \in [Ids -> Seq(Nat)]
    BY <1>1, <1>2 DEF ChainInv, Tables
  <2> QED
    BY <1>1, <2>1, CopiesKept DEF ChainInv, Tables, serverVars, gpuVars
<1>7. Accounted'
  BY <1>1 DEF ChainInv, Accounted, gpuVars
<1>8. Owned'
  BY <1>1 DEF ChainInv, Owned, Images, serverVars, gpuVars
<1>9. Exchange'
  BY <1>1, <1>3 DEF Exchange
<1>10. Agreed'
  <2>1. \A id \in Ids : held'[id] # <<>> => known[id].session # 0
    <3> TAKE id \in Ids
    <3>1. held'[id] # held[id] => id = reply.id
      BY <1>1 DEF ChainInv, Tables
    <3> QED
      BY <1>4, <3>1 DEF ChainInv, Agreed, IsKnown
  <2> QED
    BY <1>1, <2>1 DEF ChainInv, Agreed, IsKnown, serverVars
<1>11. ShownIsRendered'
  BY <1>1 DEF ChainInv, ShownIsRendered
<1>12. LeaksOnlyGivenUp'
  BY <1>1, <1>3, <1>4 DEF ChainInv, LeaksOnlyGivenUp, InCall, IsKnown, serverVars
<1> QED
  BY <1>1, <1>5, <1>6, <1>7, <1>8, <1>9, <1>10, <1>11, <1>12, NothingUnderway DEF ChainInv

LEMMA PresentReturnsStep ==
  ASSUME ChainInv, PresentReturns
  PROVE  ChainInv'
<1> DEFINE image == known[reply.id].images[Head(call.todo).index + 1]
           rest  == Tail(call.todo)
<1>1. /\ reply.op = "presented"
      /\ shown' = IF reply.ok
                  THEN [shown EXCEPT ![reply.id] =
                          [got |-> reply.frame, want |-> rendered[image],
                           made |-> reply.made]]
                  ELSE shown
      /\ reply' = None
      /\ call' = IF rest = <<>> THEN None ELSE [call EXCEPT !.todo = rest]
      /\ request' = IF rest = <<>> THEN None ELSE Head(rest)
      /\ UNCHANGED <<client, connected, clientVars, serverVars, gpuVars, abandoned>>
  BY DEF PresentReturns
<1>2. /\ reply \in Presented /\ reply.id \in Ids /\ reply.frame \in Nat
      /\ reply.made \in BOOLEAN /\ reply # None
  BY <1>1, Fields DEF ChainInv, Presented, None
<1>3. connected /\ request = None /\ call.op = "present"
  BY <1>1, <1>2, Replied
<1>4. call \in Present /\ call.todo \in Seq(PresentRequest) /\ call.todo # <<>>
  BY <1>3, Fields DEF ChainInv, Present
<1>5. /\ rest \in Seq(PresentRequest)
      /\ rest # <<>> => Head(rest) \in PresentRequest
      /\ \A k \in DOMAIN rest : rest[k] = call.todo[k + 1] /\ k + 1 \in DOMAIN call.todo
  BY <1>4
<1>6. reply.ok /\ reply.made => reply.frame = rendered[image]
  BY <1>1 DEF ChainInv, Underway
<1>17. reply.ok => rendered[image] \in Nat
  <2>1. reply.ok => image \in Handles
    <3>1. known[reply.id].images \in Seq(Handles)
      BY <1>2 DEF ChainInv, Tables, Chain
    <3>2. reply.ok => Head(call.todo).index + 1 \in DOMAIN known[reply.id].images
      BY <1>1 DEF ChainInv, Underway
    <3> QED
      BY <3>1, <3>2
  <2> QED
    BY <2>1, SwapchainAssumption DEF ChainInv, Tables
<1> HIDE DEF image, rest
<1>7. rest # <<>> => /\ call' \in Present /\ call'.op = "present" /\ call'.todo = rest
                     /\ call' # None
                     /\ request' = Head(rest) /\ request'.op = "present"
  <2>1. rest # <<>> => call' = [op |-> "present", todo |-> rest]
    BY <1>1, <1>3, <1>4 DEF Present
  <2> QED
    BY <1>1, <1>5, <2>1 DEF Present, PresentRequest, None
<1>8. rest = <<>> => call' = None /\ request' = None
  BY <1>1
<1>9. Messages'
  <2> HIDE DEF None
  <2> QED
    BY <1>1, <1>5, <1>7, <1>8 DEF Messages
<1>10. shown' \in [Ids -> [got : Nat, want : Nat, made : BOOLEAN]] /\ ShownIsRendered'
  <2>1. CASE reply.ok
    <3> DEFINE frame == [got |-> reply.frame, want |-> rendered[image],
                         made |-> reply.made]
    <3>1. /\ frame \in [got : Nat, want : Nat, made : BOOLEAN]
          /\ frame.made => frame.got = frame.want
      BY <1>2, <1>6, <1>17, <2>1
    <3>2. shown' = [shown EXCEPT ![reply.id] = frame]
      BY <1>1, <2>1
    <3> HIDE DEF frame
    <3> QED
      BY <1>2, <3>1, <3>2 DEF ChainInv, ShownIsRendered, Tables
  <2>2. CASE ~reply.ok
    BY <1>1, <2>2 DEF ChainInv, ShownIsRendered, Tables
  <2> QED
    BY <2>1, <2>2
<1>11. Tables' /\ Accounted'
  BY <1>1, <1>10, CopiesKept DEF ChainInv, Tables, Accounted, clientVars, serverVars, gpuVars
<1>12. Owned'
  <2>1. request'.op # "destroy"
    BY <1>7, <1>8 DEF None
  <2> QED
    BY <1>1, <2>1 DEF ChainInv, Owned, Images, serverVars, gpuVars
<1>13. Exchange'
  BY <1>1, <1>3, <1>7, <1>8 DEF Exchange, Asked
<1>14. Agreed'
  BY <1>1 DEF ChainInv, Agreed, IsKnown, clientVars, serverVars
<1>15. Underway'
  <2>1. CASE rest = <<>>
    BY <1>1, <1>8, <2>1, NothingUnderway
  <2>2. CASE rest # <<>>
    <3>1. \A k \in DOMAIN rest : known[rest[k].id].session # 0
      BY <1>3, <1>5 DEF ChainInv, Underway, IsKnown
    <3>2. reply'.op = "none" /\ known' = known
      BY <1>1 DEF None, clientVars
    <3> QED
      BY <1>7, <2>2, <3>1, <3>2 DEF Underway, IsKnown
  <2> QED
    BY <2>1, <2>2
<1>16. LeaksOnlyGivenUp'
  <2>1. \A id \in Ids : ~InCall(id)
    BY <1>4 DEF InCall, Present
  <2> QED
    BY <1>1, <2>1 DEF ChainInv, LeaksOnlyGivenUp, IsKnown, clientVars, serverVars
<1> QED
  BY <1>9, <1>10, <1>11, <1>12, <1>13, <1>14, <1>15, <1>16 DEF ChainInv

-----------------------------------------------------------------------------
(* The connection.                                                         *)

LEMMA DisconnectStep ==
  ASSUME ChainInv, Disconnect
  PROVE  ChainInv'
<1>1. /\ connected /\ connected' = FALSE /\ call' = None /\ reply' = None
      /\ abandoned' = IF call.op \in {"create", "destroy"}
                      THEN abandoned \cup {call.id} ELSE abandoned
      /\ UNCHANGED <<client, clientVars, request, serverVars, gpuVars, shown>>
  BY DEF Disconnect
<1>2. call.op \in {"create", "destroy"} => call.id \in Ids
  BY Fields DEF ChainInv, Create, Named
<1>3. Messages'
  BY <1>1 DEF ChainInv, Messages
<1>4. Tables' /\ Accounted'
  BY <1>1, <1>2, CopiesKept DEF ChainInv, Tables, Accounted, clientVars, serverVars, gpuVars
<1>5. Owned'
  BY <1>1 DEF ChainInv, Owned, Images, serverVars, gpuVars
<1>6. Exchange' /\ LeaksOnlyGivenUp'
  BY <1>1 DEF Exchange, LeaksOnlyGivenUp
<1>7. Agreed'
  BY <1>1 DEF ChainInv, Agreed, IsKnown, clientVars, serverVars
<1>8. ShownIsRendered'
  BY <1>1 DEF ChainInv, ShownIsRendered
<1> QED
  BY <1>1, <1>3, <1>4, <1>5, <1>6, <1>7, <1>8, NothingUnderway DEF ChainInv

LEMMA DropRequestStep ==
  ASSUME ChainInv, DropRequest
  PROVE  ChainInv'
<1>1. /\ ~connected /\ request' = None
      /\ UNCHANGED <<client, connected, clientVars, call, reply, serverVars,
                     gpuVars, shown, abandoned>>
  BY DEF DropRequest
<1>2. call = None /\ reply = None
  BY <1>1 DEF ChainInv, Exchange
<1>3. Messages'
  BY <1>1 DEF ChainInv, Messages
<1>4. Tables' /\ Accounted'
  BY <1>1, CopiesKept DEF ChainInv, Tables, Accounted, clientVars, serverVars, gpuVars
<1>5. Owned'
  <2>1. request'.op # "destroy"
    BY <1>1 DEF None
  <2> QED
    BY <1>1, <2>1 DEF ChainInv, Owned, Images, serverVars, gpuVars
<1>6. Exchange' /\ LeaksOnlyGivenUp'
  BY <1>1, <1>2 DEF Exchange, LeaksOnlyGivenUp
<1>7. Agreed'
  BY <1>1 DEF ChainInv, Agreed, IsKnown, clientVars, serverVars
<1>8. ShownIsRendered'
  BY <1>1 DEF ChainInv, ShownIsRendered
<1> QED
  BY <1>1, <1>2, <1>3, <1>4, <1>5, <1>6, <1>7, <1>8, NothingUnderway DEF ChainInv

LEMMA ConnectStep ==
  ASSUME ChainInv, Connect
  PROVE  ChainInv'
<1>1. /\ ~connected /\ request = None /\ client < MaxClient
      /\ client' = client + 1 /\ connected' = TRUE /\ next_id' = 1
      /\ known' = [id \in Ids |-> Unknown]
      /\ held' = [id \in Ids |-> <<>>]
      /\ shown' = [id \in Ids |-> Nothing]
      /\ abandoned' = {}
      /\ UNCHANGED <<call, request, reply, serverVars, gpuVars>>
  BY DEF Connect
<1>2. call = None /\ reply = None
  BY <1>1 DEF ChainInv, Exchange
<1>3. client \in Nat /\ swapchains \in [Ids -> Chain]
  BY DEF ChainInv, Tables
<1>4. \A id \in Ids : swapchains[id].session < client'
  BY <1>1, <1>3 DEF ChainInv, Agreed, Chain
<1>5. Messages'
  BY <1>1 DEF ChainInv, Messages
<1>6. Tables'
  BY <1>1, UnknownChain, SwapchainAssumption, CopiesKept
     DEF ChainInv, Tables, Ids, serverVars, gpuVars, Nothing
<1>7. Accounted'
  BY <1>1 DEF ChainInv, Accounted, gpuVars
<1>8. Owned'
  BY <1>1 DEF ChainInv, Owned, Images, serverVars, gpuVars
<1>9. Exchange'
  BY <1>1, <1>2 DEF Exchange
<1>10. \A id \in Ids : known'[id].session = 0 /\ held'[id] = <<>>
  BY <1>1, UnknownChain
<1>11. \A id \in Ids : swapchains[id].session <= client' /\ swapchains[id].session # client'
  BY <1>1, <1>3, <1>4 DEF Chain
<1>12. Agreed' /\ LeaksOnlyGivenUp'
  BY <1>1, <1>10, <1>11 DEF Agreed, LeaksOnlyGivenUp, IsKnown, serverVars
<1>13. ShownIsRendered'
  BY <1>1 DEF ShownIsRendered, Nothing
<1> QED
  BY <1>1, <1>2, <1>5, <1>6, <1>7, <1>8, <1>9, <1>12, <1>13, NothingUnderway DEF ChainInv

-----------------------------------------------------------------------------
LEMMA StutterStep ==
  ASSUME ChainInv, UNCHANGED vars
  PROVE  ChainInv'
<1>1. UNCHANGED <<client, connected, clientVars, call, request, reply, serverVars,
                  gpuVars, shown, abandoned>>
  BY DEF vars
<1>2. Messages' /\ Exchange'
  BY <1>1 DEF ChainInv, Messages, Exchange, Asked, Answers, gpuVars, copyVars
<1>3. Tables' /\ Accounted'
  BY <1>1, CopiesKept DEF ChainInv, Tables, Accounted, clientVars, serverVars, gpuVars
<1>4. Owned'
  BY <1>1 DEF ChainInv, Owned, Images, serverVars, gpuVars
<1>5. Agreed'
  BY <1>1 DEF ChainInv, Agreed, IsKnown, clientVars, serverVars
<1>6. Underway'
  BY <1>1 DEF ChainInv, Underway, IsKnown, clientVars, serverVars, gpuVars
<1>7. ShownIsRendered' /\ LeaksOnlyGivenUp'
  BY <1>1 DEF ChainInv, ShownIsRendered, LeaksOnlyGivenUp, InCall, IsKnown, clientVars,
     serverVars
<1> QED
  BY <1>2, <1>3, <1>4, <1>5, <1>6, <1>7 DEF ChainInv

LEMMA NextChain == ChainInv /\ [Next]_vars => ChainInv'
<1> SUFFICES ASSUME ChainInv, [Next]_vars PROVE ChainInv'
  OBVIOUS
<1>1. CASE Application
  <2>1. CASE \E n \in Counts : CreateSwapchain(n)
    BY <2>1, CreateSwapchainStep
  <2>2. ASSUME NEW id \in Ids,
               \/ DestroySwapchain(id)
               \/ AcquireNextImage(id)
               \/ \E index \in ToSet(held[id]) : Render(id, index)
        PROVE  ChainInv'
    BY <2>2, DestroySwapchainStep, AcquireStep, RenderStep
  <2>3. ASSUME NEW id \in Ids, NEW p \in Presentable(id),
               QueuePresent(<<id>>, [i \in {id} |-> p])
        PROVE  ChainInv'
    <3>1. <<id>> \in Seq(Ids) /\ <<id>> # <<>> /\ ToSet(<<id>>) = {id}
      BY DEF ToSet
    <3>2. p \in DOMAIN held[id]
      BY DEF Presentable
    <3> QED
      BY <2>3, <3>1, <3>2, QueuePresentStep
  <2>4. ASSUME NEW id \in Ids, NEW other \in Ids \ {id},
               NEW p \in Presentable(id), NEW q \in Presentable(other),
               QueuePresent(<<id, other>>,
                            [i \in {id, other} |-> IF i = id THEN p ELSE q])
        PROVE  ChainInv'
    <3> DEFINE pos == [i \in {id, other} |-> IF i = id THEN p ELSE q]
    <3>1. <<id, other>> \in Seq(Ids) /\ <<id, other>> # <<>>
      OBVIOUS
    <3>2. \A i \in ToSet(<<id, other>>) : i = id \/ i = other
      BY DEF ToSet
    <3>3. p \in DOMAIN held[id] /\ q \in DOMAIN held[other]
      BY DEF Presentable
    <3>4. \A i \in ToSet(<<id, other>>) : pos[i] \in DOMAIN held[i]
      BY <3>2, <3>3
    <3> QED
      BY <2>4, <3>1, <3>4, QueuePresentStep
  <2> QED
    BY <1>1, <2>1, <2>2, <2>3, <2>4 DEF Application
<1>2. CASE Returns
  BY <1>2, CreateEndsStep, CreateReturnsStep, AcquireReturnsStep, PresentReturnsStep
     DEF Returns
<1>3. CASE Server
  BY <1>3, ServerCreatesStep, ServerCreateFailsStep, ServerDestroysStep,
     ServerAcquiresStep, ServerPresentsStep,
     ServerBlocksStep, GpuExecutesStep DEF Server
<1>4. CASE Connection
  BY <1>4, DisconnectStep, DropRequestStep, ConnectStep DEF Connection
<1>5. CASE Finished \/ UNCHANGED vars
  BY <1>5, StutterStep DEF Finished
<1> QED
  BY <1>1, <1>2, <1>3, <1>4, <1>5 DEF Next

\* Everything below rests on this: messages, tables and images fit together,
\* whatever fails and whenever the connection ends.
LEMMA ChainAlways == Spec => []ChainInv
BY InitChain, NextChain, PTL DEF Spec

\* Every variable keeps its type, and the server's round robin names an image
\* of its swapchain.
THEOREM TypeCorrect == Spec => []TypeOK
<1>1. ChainInv => TypeOK
  <2> SUFFICES ASSUME ChainInv PROVE TypeOK
    OBVIOUS
  <2>1. contents \in [Handles -> 0 .. MaxRender]
    BY ContentsBounded DEF ChainInv, Tables
  <2> QED
    BY <2>1 DEF ChainInv, Tables, Copies, TypeOK
<1> QED
  BY <1>1, ChainAlways, PTL

\* create_swapchain and destroy_swapchain, on both ends and for every client:
\* a swapchain the client knows is the server's, image by image, and shares no
\* image with another.
THEOREM ClientIsServed == Spec => []ClientServed
<1>1. ChainInv => ClientServed
  BY DEF ChainInv, ClientServed, Agreed, Owned, Images
<1> QED
  BY <1>1, ChainAlways, PTL

\* allocate_resources and free_resources: the tracker has just the images the
\* driver has, although a creation may fail at any image.
THEOREM TrackerIsExact == Spec => []RegisteredAreAlive
<1>1. ChainInv => RegisteredAreAlive
  BY DEF ChainInv, Owned, RegisteredAreAlive
<1> QED
  BY <1>1, ChainAlways, PTL

\* vkQueuePresentKHR: a frame handed to the window holds every rendering
\* submitted for its image before, unless a call of the driver has failed that
\* made its copy; a failure at an earlier frame, with what it leaves in the
\* staging buffer and the fence, makes no difference.
THEOREM ShowsWhatWasRendered == Spec => []ShownIsRendered
<1>1. ChainInv => ShownIsRendered
  BY DEF ChainInv
<1> QED
  BY <1>1, ChainAlways, PTL

\* What the server keeps for the present client is known to it, on its way, or
\* was given up by a call that failed.
THEOREM NothingElseLeaks == Spec => []LeaksOnlyGivenUp
<1>1. ChainInv => LeaksOnlyGivenUp
  BY DEF ChainInv
<1> QED
  BY <1>1, ChainAlways, PTL
-----------------------------------------------------------------------------
(* Images are handed out in turn.                                          *)

\* Positions on a ring of n images, for x below 2 * n.
Wrap(x, n) == IF x < n THEN x ELSE x - n

\* An acquire of id that the server has answered and the client has not taken
\* yet, and one that is anywhere between call and return.
Pending(id) == IF reply.op = "acquired" /\ reply.id = id THEN 1 ELSE 0
Asking(id)  == IF call.op = "acquire" /\ call.id = id THEN 1 ELSE 0

\* The images s are those up to p places before place i on a ring of n, in the
\* order of the ring.
Run(s, i, n, p) == \A k \in 1 .. Len(s) : s[k] = Wrap(i + n - (Len(s) + p) + k - 1, n)

\* The images the application holds of id, the one on its way included, are
\* those just before the server's counter.
InTurn(id) ==
  /\ Len(held[id]) + Asking(id) <= CountOf(id)
  /\ Run(held[id], swapchains[id].next_image, CountOf(id), Pending(id))
  /\ Pending(id) = 1 =>
       /\ reply.ok /\ Asking(id) = 1
       /\ reply.index = Wrap(swapchains[id].next_image + CountOf(id) - 1, CountOf(id))

TurnInv == connected => \A id \in Ids : IsKnown(id) => InTurn(id)

\* acquire_image on a ring of n: the counter and the places before it.
LEMMA RingStep ==
  ASSUME NEW n \in Nat, NEW i \in Nat, i < n
  PROVE  /\ NextImage(i, n) = Wrap(i + 1, n)
         /\ i = Wrap(Wrap(i + 1, n) + n - 1, n)
         /\ \A m \in Nat : \A k \in 1 .. m :
              m < n => Wrap(i + n - m + k - 1, n)
                         = Wrap(Wrap(i + 1, n) + n - (m + 1) + k - 1, n)
<1>1. NextImage(i, n) = Wrap(i + 1, n)
  <2>1. CASE i + 1 < n
    BY <2>1 DEF NextImage, Wrap
  <2>2. CASE i + 1 = n
    <3>1. n % n = 0
      BY <2>2
    <3> QED
      BY <2>2, <3>1 DEF NextImage, Wrap
  <2> QED
    BY <2>1, <2>2
<1>2. i = Wrap(Wrap(i + 1, n) + n - 1, n)
  BY DEF Wrap
<1>3. ASSUME NEW m \in Nat, NEW k \in 1 .. m, m < n
      PROVE  Wrap(i + n - m + k - 1, n) = Wrap(Wrap(i + 1, n) + n - (m + 1) + k - 1, n)
  BY <1>3 DEF Wrap
<1> QED
  BY <1>1, <1>2, <1>3

\* At most n places in a row on a ring of n are different ones.
LEMMA RingInjective ==
  ASSUME NEW n \in Nat, NEW b \in Int, NEW s \in Seq(Nat), Len(s) <= n,
         \A k \in 1 .. Len(s) : s[k] = Wrap(b + k - 1, n)
  PROVE  IsInjective(s)
<1>1. \A j, k \in 1 .. Len(s) : s[j] = s[k] => j = k
  BY DEF Wrap
<1> QED
  BY <1>1 DEF IsInjective

LEMMA TurnTypes ==
  ASSUME ChainInv, NEW id \in Ids
  PROVE  /\ CountOf(id) \in Nat /\ Len(held[id]) \in Nat /\ held[id] \in Seq(Nat)
         /\ swapchains[id].next_image \in Nat
         /\ connected /\ IsKnown(id) =>
              swapchains[id].next_image < CountOf(id)
         /\ ~IsKnown(id) => held[id] = <<>>
         /\ Pending(id) \in {0, 1} /\ Asking(id) \in {0, 1}
<1>1. known[id] \in Chain /\ swapchains[id] \in Chain /\ held[id] \in Seq(Nat)
  BY DEF ChainInv, Tables
<1>2. connected /\ IsKnown(id) => swapchains[id].next_image < CountOf(id)
  <2> SUFFICES ASSUME connected, IsKnown(id)
               PROVE  swapchains[id].next_image < CountOf(id)
    OBVIOUS
  <2>1. swapchains[id].session = client /\ swapchains[id].images = known[id].images
    BY DEF ChainInv, Agreed
  <2>2. swapchains[id].session # 0
    BY <2>1 DEF ChainInv, Tables
  <2> QED
    BY <2>1, <2>2 DEF ChainInv, Tables, CountOf
<1>3. ~IsKnown(id) => held[id] = <<>>
  BY DEF ChainInv, Agreed
<1> QED
  BY <1>1, <1>2, <1>3 DEF Chain, CountOf, Pending, Asking

\* A step that touches nothing of id.
LEMMA SameTurn ==
  ASSUME ChainInv, NEW id \in Ids, InTurn(id),
         held'[id] = held[id], known'[id] = known[id], swapchains'[id] = swapchains[id],
         reply' = reply \/ (Pending(id) = 0 /\ Pending(id)' = 0),
         Asking(id)' = Asking(id) \/ (Asking(id)' = 0 /\ Pending(id)' = 0)
  PROVE  InTurn(id)'
<1>1. CountOf(id)' = CountOf(id) /\ Pending(id)' = Pending(id)
  BY DEF CountOf, Pending
<1>2. Len(held'[id]) + Asking(id)' <= CountOf(id)
  BY TurnTypes DEF InTurn
<1>3. Run(held[id], swapchains[id].next_image, CountOf(id), Pending(id))'
  BY <1>1 DEF InTurn
<1>4. Pending(id)' = 1 =>
        /\ reply'.ok /\ Asking(id)' = 1
        /\ reply'.index = Wrap(swapchains'[id].next_image + CountOf(id)' - 1, CountOf(id)')
  BY <1>1 DEF InTurn
<1> QED
  BY <1>1, <1>2, <1>3, <1>4 DEF InTurn

\* A step that touches no swapchain the client knows and no acquire.
LEMMA QuietTurn ==
  ASSUME ChainInv, TurnInv,
         connected' =>
           /\ \A id \in Ids : IsKnown(id)' =>
                /\ connected /\ IsKnown(id)
                /\ held'[id] = held[id] /\ known'[id] = known[id]
                /\ swapchains'[id] = swapchains[id]
           /\ \/ reply' = reply /\ call' = call
              \/ reply.op # "acquired" /\ reply'.op # "acquired" /\ call'.op # "acquire"
  PROVE  TurnInv'
<1> SUFFICES ASSUME connected', NEW id \in Ids, IsKnown(id)'
             PROVE  InTurn(id)'
  BY DEF TurnInv
<1>1. /\ connected /\ IsKnown(id) /\ InTurn(id)
      /\ held'[id] = held[id] /\ known'[id] = known[id] /\ swapchains'[id] = swapchains[id]
  BY DEF TurnInv
<1>2. CASE reply' = reply /\ call' = call
  <2>1. Asking(id)' = Asking(id)
    BY <1>2 DEF Asking
  <2> QED
    BY <1>1, <1>2, <2>1, SameTurn
<1>3. CASE reply.op # "acquired" /\ reply'.op # "acquired" /\ call'.op # "acquire"
  <2>1. Pending(id) = 0 /\ Pending(id)' = 0 /\ Asking(id)' = 0
    BY <1>3 DEF Pending, Asking
  <2> QED
    BY <1>1, <2>1, SameTurn
<1> QED
  BY <1>2, <1>3

LEMMA AcquireTurn ==
  ASSUME "hoard" \notin AppMay, ChainInv, TurnInv, NEW id \in Ids, AcquireNextImage(id)
  PROVE  TurnInv'
<1> DEFINE msg == [op |-> "acquire", id |-> id]
<1>1. /\ call = None /\ connected /\ IsKnown(id) /\ Len(held[id]) < CountOf(id)
      /\ call' = msg
      /\ UNCHANGED <<connected, known, held, reply, swapchains>>
  BY DEF AcquireNextImage, Idle, Send, clientVars, serverVars
<1>2. reply = None
  BY <1>1 DEF ChainInv, Exchange
<1> SUFFICES ASSUME NEW other \in Ids, IsKnown(other)
             PROVE  InTurn(other)'
  BY <1>1 DEF TurnInv, IsKnown
<1>3. InTurn(other)
  BY <1>1 DEF TurnInv
<1>4. Pending(other) = 0 /\ Pending(other)' = 0
  BY <1>1, <1>2 DEF Pending, None
<1>5. CASE other # id
  <2>1. Asking(other)' = 0
    BY <1>1, <1>5 DEF Asking
  <2> QED
    BY <1>1, <1>3, <1>4, <2>1, SameTurn
<1>6. CASE other = id
  <2>1. Asking(id)' = 1
    BY <1>1 DEF Asking
  <2>2. CountOf(id)' = CountOf(id) /\ Len(held'[id]) + Asking(id)' <= CountOf(id)
    BY <1>1, <2>1, TurnTypes DEF CountOf
  <2>3. Run(held[id], swapchains[id].next_image, CountOf(id), Pending(id))'
    BY <1>1, <1>3, <1>4, <1>6, <2>2 DEF InTurn
  <2> QED
    BY <1>4, <1>6, <2>2, <2>3 DEF InTurn
<1> QED
  BY <1>5, <1>6

\* The rest of a run is a run.
LEMMA RunTail ==
  ASSUME NEW n \in Nat, NEW i \in Nat, NEW s \in Seq(Nat), 1 \in DOMAIN s, Run(s, i, n, 0)
  PROVE  /\ Run(RemoveAt(s, 1), i, n, 0)
         /\ Len(RemoveAt(s, 1)) = Len(s) - 1
<1> DEFINE t == RemoveAt(s, 1)
<1>1. Len(s) \in Nat \ {0}
  OBVIOUS
<1>2. SubSeq(s, 1, 0) = <<>>
  OBVIOUS
<1>3. t = SubSeq(s, 2, Len(s))
  BY <1>1, <1>2 DEF RemoveAt
<1>4. Len(t) = Len(s) - 1 /\ \A k \in 1 .. Len(t) : t[k] = s[k + 1]
  BY <1>1, <1>3
<1> HIDE DEF t
<1>5. Run(t, i, n, 0)
  <2> SUFFICES ASSUME NEW k \in 1 .. Len(t)
               PROVE  t[k] = Wrap(i + n - (Len(t) + 0) + k - 1, n)
    BY DEF Run
  <2>1. k + 1 \in 1 .. Len(s) /\ t[k] = s[k + 1]
    BY <1>1, <1>4
  <2>2. s[k + 1] = Wrap(i + n - (Len(s) + 0) + (k + 1) - 1, n)
    BY <2>1 DEF Run
  <2>3. i + n - (Len(s) + 0) + (k + 1) - 1 = i + n - (Len(t) + 0) + k - 1
    BY <1>1, <1>4
  <2> QED
    BY <2>1, <2>2, <2>3
<1> QED
  BY <1>4, <1>5 DEF t

LEMMA PresentTurn ==
  ASSUME ChainInv, TurnInv, NEW ids \in Seq(Ids), NEW pos,
         \A id \in ToSet(ids) : pos[id] = 1 /\ 1 \in DOMAIN held[id],
         QueuePresent(ids, pos)
  PROVE  TurnInv'
<1>1. /\ call = None /\ connected
      /\ held' = [id \in Ids |-> IF id \in ToSet(ids)
                                 THEN RemoveAt(held[id], pos[id]) ELSE held[id]]
      /\ call'.op = "present"
      /\ UNCHANGED <<connected, known, reply, swapchains>>
  BY DEF QueuePresent, Idle, serverVars
<1>2. reply = None
  BY <1>1 DEF ChainInv, Exchange
<1> SUFFICES ASSUME NEW id \in Ids, IsKnown(id)
             PROVE  InTurn(id)'
  BY <1>1 DEF TurnInv, IsKnown
<1>3. InTurn(id)
  BY <1>1 DEF TurnInv
<1>4. Pending(id) = 0 /\ Pending(id)' = 0 /\ Asking(id)' = 0
  BY <1>1, <1>2 DEF Pending, Asking, None
<1>5. CASE id \notin ToSet(ids)
  BY <1>1, <1>3, <1>4, <1>5, SameTurn
<1>6. CASE id \in ToSet(ids)
  <2>1. held'[id] = RemoveAt(held[id], 1) /\ CountOf(id)' = CountOf(id)
    BY <1>1, <1>6 DEF CountOf
  <2>2. Run(held[id], swapchains[id].next_image, CountOf(id), 0)
    BY <1>3, <1>4 DEF InTurn
  <2>3. /\ Run(RemoveAt(held[id], 1), swapchains[id].next_image, CountOf(id), 0)
        /\ Len(RemoveAt(held[id], 1)) = Len(held[id]) - 1
    BY <1>6, <2>2, RunTail, TurnTypes
  <2>4. Run(held[id], swapchains[id].next_image, CountOf(id), Pending(id))'
    BY <1>1, <1>4, <2>1, <2>3
  <2>5. Len(held'[id]) + Asking(id)' <= CountOf(id)'
    BY <1>3, <1>4, <2>1, <2>3, TurnTypes DEF InTurn
  <2> QED
    BY <1>4, <2>4, <2>5 DEF InTurn
<1> QED
  BY <1>5, <1>6

LEMMA ServerAcquiresTurn ==
  ASSUME ChainInv, TurnInv, ServerAcquires
  PROVE  TurnInv'
<1> DEFINE chain == swapchains[request.id]
           next  == NextImage(chain.next_image, Len(chain.images))
<1>1. /\ request.op = "acquire"
      /\ swapchains' = IF chain.session # 0
                       THEN [swapchains EXCEPT ![request.id].next_image = next]
                       ELSE swapchains
      /\ connected => reply' = [op |-> "acquired", id |-> request.id,
                                ok |-> chain.session # 0, index |-> chain.next_image]
      /\ UNCHANGED <<client, connected, known, held, call>>
  BY DEF ServerAcquires, Answer, clientVars
<1> SUFFICES ASSUME connected, NEW id \in Ids, IsKnown(id)
             PROVE  InTurn(id)'
  BY <1>1 DEF TurnInv, IsKnown
<1>2. request \in Named /\ request.id \in Ids /\ request # None
  BY <1>1, Fields DEF ChainInv, Named, None
<1>3. reply = None /\ call = request
  BY <1>1, <1>2, Requested
<1>4. InTurn(id) /\ Pending(id) = 0
  BY <1>3 DEF TurnInv, Pending, None
<1>5. CASE id # request.id
  <2>1. Pending(id)' = 0 /\ Asking(id)' = Asking(id)
    BY <1>1, <1>5 DEF Pending, Asking
  <2>2. swapchains'[id] = swapchains[id]
    BY <1>1, <1>2, <1>5 DEF ChainInv, Tables
  <2> HIDE DEF chain
  <2> QED
    BY <1>1, <1>4, <2>1, <2>2, SameTurn
<1>6. CASE id = request.id
  <2> DEFINE n == CountOf(id)
             i == swapchains[id].next_image
             m == Len(held[id])
  <2>1. /\ swapchains[id].session # 0 /\ Len(swapchains[id].images) = n
        /\ CountOf(id)' = n
    BY <1>1 DEF ChainInv, Agreed, Tables, CountOf
  <2>2. n \in Nat /\ i \in Nat /\ i < n /\ m \in Nat
    BY TurnTypes
  <2>3. swapchains'[id].next_image = Wrap(i + 1, n)
    <3>1. swapchains'[id].next_image = NextImage(i, n)
      BY <1>1, <1>2, <1>6, <2>1 DEF ChainInv, Tables, Chain
    <3> QED
      BY <2>2, <3>1, RingStep
  <2>4. Asking(id) = 1 /\ Asking(id)' = 1 /\ Pending(id)' = 1
    BY <1>1, <1>3, <1>6 DEF Asking, Pending
  <2>5. m + 1 <= n /\ Run(held[id], i, n, 0)
    BY <1>4, <2>4 DEF InTurn
  <2>6. reply'.ok /\ reply'.index = i
    <3>1. reply' = [op |-> "acquired", id |-> id, ok |-> swapchains[id].session # 0,
                    index |-> i]
      BY <1>1, <1>6
    <3> QED
      BY <2>1, <3>1
  <2> HIDE DEF n, i, m, chain, next
  <2>7. Run(held[id], Wrap(i + 1, n), n, 1)
    <3> SUFFICES ASSUME NEW k \in 1 .. m
                 PROVE  held[id][k] = Wrap(Wrap(i + 1, n) + n - (m + 1) + k - 1, n)
      BY DEF Run, m
    <3>1. held[id][k] = Wrap(i + n - (m + 0) + k - 1, n)
      BY <2>5 DEF Run, m
    <3>2. i + n - (m + 0) + k - 1 = i + n - m + k - 1 /\ m < n
      BY <2>2, <2>5
    <3>3. Wrap(i + n - m + k - 1, n) = Wrap(Wrap(i + 1, n) + n - (m + 1) + k - 1, n)
      BY <2>2, <3>2, RingStep
    <3> QED
      BY <3>1, <3>2, <3>3
  <2>8. Run(held[id], swapchains[id].next_image, CountOf(id), Pending(id))'
    BY <1>1, <2>1, <2>3, <2>4, <2>7
  <2>9. Len(held'[id]) + Asking(id)' <= CountOf(id)'
    BY <1>1, <2>1, <2>4, <2>5 DEF m
  <2>10. reply'.index = Wrap(swapchains'[id].next_image + CountOf(id)' - 1, CountOf(id)')
    BY <2>1, <2>2, <2>3, <2>6, RingStep
  <2> QED
    BY <2>4, <2>6, <2>8, <2>9, <2>10 DEF InTurn
<1> QED
  BY <1>5, <1>6

LEMMA AcquireReturnsTurn ==
  ASSUME ChainInv, TurnInv, AcquireReturns
  PROVE  TurnInv'
<1>1. /\ reply.op = "acquired"
      /\ held' = IF reply.ok THEN [held EXCEPT ![reply.id] = Append(@, reply.index)]
                             ELSE held
      /\ call' = None /\ reply' = None
      /\ UNCHANGED <<connected, known, swapchains>>
  BY DEF AcquireReturns, Return, serverVars
<1>2. reply \in Acquired /\ reply.id \in Ids /\ reply.index \in Nat
  BY <1>1, Fields DEF ChainInv, Acquired
<1> SUFFICES ASSUME connected, NEW id \in Ids, IsKnown(id)
             PROVE  InTurn(id)'
  BY <1>1 DEF TurnInv, IsKnown
<1>3. InTurn(id) /\ Pending(id)' = 0 /\ Asking(id)' = 0
  BY <1>1 DEF TurnInv, Pending, Asking, None
<1>4. held \in [Ids -> Seq(Nat)]
  BY DEF ChainInv, Tables
<1>5. CASE id # reply.id
  <2>1. Pending(id) = 0 /\ held'[id] = held[id]
    BY <1>1, <1>2, <1>4, <1>5 DEF Pending
  <2> QED
    BY <1>1, <1>3, <2>1, SameTurn
<1>6. CASE id = reply.id
  <2> DEFINE n == CountOf(id)
             i == swapchains[id].next_image
             s == held[id]
             t == Append(s, reply.index)
  <2>1. Pending(id) = 1
    BY <1>1, <1>6 DEF Pending
  <2>2. /\ reply.ok /\ Len(s) + 1 <= n /\ Run(s, i, n, 1)
        /\ reply.index = Wrap(i + n - 1, n)
    BY <1>3, <2>1 DEF InTurn
  <2>3. held'[id] = t /\ CountOf(id)' = n
    BY <1>1, <1>2, <1>4, <1>6, <2>2 DEF CountOf
  <2>4. s \in Seq(Nat) /\ Len(s) \in Nat /\ n \in Nat /\ i \in Nat
    BY TurnTypes
  <2>5. /\ Len(t) = Len(s) + 1 /\ t[Len(s) + 1] = reply.index
        /\ \A k \in 1 .. Len(s) : t[k] = s[k]
    BY <1>2, <2>4
  <2> HIDE DEF n, i, s, t
  <2>6. Run(t, i, n, 0)
    <3> SUFFICES ASSUME NEW k \in 1 .. Len(s) + 1
                 PROVE  t[k] = Wrap(i + n - (Len(s) + 1 + 0) + k - 1, n)
      BY <2>5 DEF Run
    <3>1. CASE k = Len(s) + 1
      <4>1. i + n - (Len(s) + 1 + 0) + k - 1 = i + n - 1
        BY <2>4, <3>1
      <4> QED
        BY <2>2, <2>5, <3>1, <4>1
    <3>2. CASE k # Len(s) + 1
      <4>1. k \in 1 .. Len(s)
        BY <2>4, <3>2
      <4>2. s[k] = Wrap(i + n - (Len(s) + 1) + k - 1, n)
        BY <2>2, <4>1 DEF Run
      <4>3. i + n - (Len(s) + 1) + k - 1 = i + n - (Len(s) + 1 + 0) + k - 1
        BY <2>4
      <4> QED
        BY <2>5, <4>1, <4>2, <4>3
    <3> QED
      BY <3>1, <3>2
  <2>7. Run(held[id], swapchains[id].next_image, CountOf(id), Pending(id))'
    BY <1>1, <1>3, <2>3, <2>6 DEF i
  <2>8. Len(held'[id]) + Asking(id)' <= CountOf(id)'
    BY <1>3, <2>2, <2>3, <2>4, <2>5
  <2> QED
    BY <1>3, <2>7, <2>8 DEF InTurn
<1> QED
  BY <1>5, <1>6

LEMMA CreateReturnsTurn ==
  ASSUME ChainInv, TurnInv, CreateReturns
  PROVE  TurnInv'
<1>1. /\ reply.op = "created" /\ reply.ok
      /\ known' = [known EXCEPT ![reply.id] =
           [session |-> client, images |-> reply.images, next_image |-> 0]]
      /\ call' = None /\ reply' = None
      /\ UNCHANGED <<connected, held, swapchains>>
  BY DEF CreateReturns, Return, serverVars
<1>2. reply \in Created /\ reply.id \in Ids /\ reply # None
  BY <1>1, Fields DEF ChainInv, Created, None
<1>3. reply.id = call.id /\ call.op = "create" /\ ~IsKnown(reply.id)
  BY <1>1, <1>2, Replied DEF ChainInv, Underway
<1> SUFFICES ASSUME connected, NEW id \in Ids, IsKnown(id)'
             PROVE  InTurn(id)'
  BY <1>1 DEF TurnInv
<1>4. Pending(id) = 0 /\ Pending(id)' = 0 /\ Asking(id)' = 0
  BY <1>1 DEF Pending, Asking, None
<1>5. CASE id # reply.id
  <2>1. known'[id] = known[id] /\ IsKnown(id)
    BY <1>1, <1>2, <1>5 DEF ChainInv, Tables, IsKnown
  <2> QED
    BY <1>1, <1>4, <2>1, SameTurn DEF TurnInv
<1>6. CASE id = reply.id
  <2>1. held'[id] = <<>>
    BY <1>1, <1>3, <1>6, TurnTypes
  <2>2. CountOf(id)' \in Nat
    BY <1>1, <1>2, <1>6 DEF Created, CountOf, ChainInv, Tables
  <2> QED
    BY <1>4, <2>1, <2>2 DEF InTurn, Run
<1> QED
  BY <1>5, <1>6

\* No more images than there are, and each presented before those acquired
\* after it.
Polite == AppMay = {}

LEMMA ApplicationTurn ==
  ASSUME Polite, ChainInv, TurnInv, Application
  PROVE  TurnInv'
<1>1. ASSUME NEW n \in Counts, CreateSwapchain(n)
      PROVE  TurnInv'
  <2>1. /\ call = None /\ call'.op = "create"
        /\ UNCHANGED <<connected, known, held, reply, swapchains>>
    BY <1>1 DEF CreateSwapchain, Idle, Send, serverVars
  <2>2. connected => reply.op # "acquired"
    BY <2>1 DEF ChainInv, Exchange, None
  <2> QED
    BY <2>1, <2>2, QuietTurn DEF TurnInv, IsKnown
<1>2. ASSUME NEW id \in Ids, DestroySwapchain(id)
      PROVE  TurnInv'
  <2>1. /\ call = None
        /\ known' = [known EXCEPT ![id] = Unknown]
        /\ held' = [held EXCEPT ![id] = <<>>]
        /\ connected => call'.op = "destroy"
        /\ UNCHANGED <<connected, reply, swapchains>>
    BY <1>2 DEF DestroySwapchain, Idle, Send, serverVars
  <2>2. connected => reply.op # "acquired"
    BY <2>1 DEF ChainInv, Exchange, None
  <2>3. \A other \in Ids : IsKnown(other)' =>
          other # id /\ known'[other] = known[other] /\ held'[other] = held[other]
    BY <2>1, UnknownChain DEF ChainInv, Tables, IsKnown
  <2> QED
    BY <2>1, <2>2, <2>3, QuietTurn DEF TurnInv, IsKnown
<1>3. ASSUME NEW id \in Ids, AcquireNextImage(id)
      PROVE  TurnInv'
  BY <1>3, AcquireTurn DEF Polite
<1>4. ASSUME NEW id \in Ids, NEW index, Render(id, index)
      PROVE  TurnInv'
  BY <1>4, QuietTurn DEF Render, clientVars, serverVars, TurnInv, IsKnown
<1>5. ASSUME NEW id \in Ids, NEW p \in Presentable(id),
             QueuePresent(<<id>>, [i \in {id} |-> p])
      PROVE  TurnInv'
  <2>1. <<id>> \in Seq(Ids) /\ ToSet(<<id>>) = {id}
    BY DEF ToSet
  <2>2. p = 1 /\ 1 \in DOMAIN held[id]
    BY DEF Presentable, Polite
  <2> QED
    BY <1>5, <2>1, <2>2, PresentTurn
<1>6. ASSUME NEW id \in Ids, NEW other \in Ids \ {id},
             NEW p \in Presentable(id), NEW q \in Presentable(other),
             QueuePresent(<<id, other>>,
                          [i \in {id, other} |-> IF i = id THEN p ELSE q])
      PROVE  TurnInv'
  <2> DEFINE pos == [i \in {id, other} |-> IF i = id THEN p ELSE q]
  <2>1. <<id, other>> \in Seq(Ids)
    OBVIOUS
  <2>2. \A i \in ToSet(<<id, other>>) : i = id \/ i = other
    BY DEF ToSet
  <2>3. p = 1 /\ 1 \in DOMAIN held[id] /\ q = 1 /\ 1 \in DOMAIN held[other]
    BY DEF Presentable, Polite
  <2>4. \A i \in ToSet(<<id, other>>) : pos[i] = 1 /\ 1 \in DOMAIN held[i]
    BY <2>2, <2>3
  <2> QED
    BY <1>6, <2>1, <2>4, PresentTurn
<1> QED
  BY <1>1, <1>2, <1>3, <1>4, <1>5, <1>6 DEF Application

LEMMA ServerTurn ==
  ASSUME ChainInv, TurnInv, Server
  PROVE  TurnInv'
<1>1. CASE ServerCreates \/ ServerCreateFails \/ ServerDestroys
  <2>1. /\ request.op \in {"create", "destroy"}
        /\ reply'.op # "acquired"
        /\ \A id \in Ids : id # request.id => swapchains'[id] = swapchains[id]
        /\ UNCHANGED <<connected, known, held, call>>
    <3>1. CASE ServerCreates
      BY <3>1 DEF ServerCreates, Answer, None, clientVars, ChainInv, Tables
    <3>2. CASE ServerCreateFails
      BY <3>2 DEF ServerCreateFails, Answer, None, clientVars
    <3>3. CASE ServerDestroys
      BY <3>3 DEF ServerDestroys, Answer, Forget, None, clientVars, ChainInv, Tables
    <3> QED
      BY <1>1, <3>1, <3>2, <3>3
  <2>2. request # None
    BY <2>1 DEF None
  <2>3. reply.op # "acquired" /\ (connected => call = request)
    BY <2>1, <2>2, Requested DEF None
  <2>4. connected => ~IsKnown(request.id) /\ call.op # "acquire"
    BY <2>1, <2>3 DEF ChainInv, Underway
  <2> QED
    BY <2>1, <2>3, <2>4, QuietTurn DEF IsKnown
<1>2. CASE ServerAcquires
  BY <1>2, ServerAcquiresTurn
<1>3. CASE ServerPresents \/ ServerBlocks
  <2>1. /\ request.op = "present"
        /\ UNCHANGED <<connected, known, held, call, swapchains>>
    BY <1>3 DEF ServerPresents, CopiesImage, RefusesImage, ServerBlocks, PresentsImage,
       clientVars, serverVars
  <2>3. reply'.op # "acquired"
    <3>2. CASE ServerPresents
      BY <3>2 DEF ServerPresents, CopiesImage, RefusesImage, Answer, None
    <3>3. CASE ServerBlocks
      <4>1. reply = None /\ reply' = reply
        BY <2>1, <3>3, Requested DEF ServerBlocks, None
      <4> QED
        BY <4>1 DEF None
    <3> QED
      BY <1>3, <3>2, <3>3
  <2>2. reply.op # "acquired" /\ (connected => call.op = "present")
    BY <2>1, Requested DEF None
  <2> QED
    BY <2>1, <2>2, <2>3, QuietTurn DEF IsKnown
<1>4. CASE GpuExecutes
  BY <1>4, QuietTurn DEF GpuExecutes, clientVars, serverVars, IsKnown
<1> QED
  BY <1>1, <1>2, <1>3, <1>4 DEF Server

LEMMA ReturnsTurn ==
  ASSUME ChainInv, TurnInv, Returns
  PROVE  TurnInv'
<1>1. CASE CreateRefused \/ CreateGivesUp \/ DestroyReturns
  <2>1. /\ reply.op # "acquired" /\ reply' = None /\ call' = None
        /\ UNCHANGED <<connected, known, held, swapchains>>
    BY <1>1 DEF CreateRefused, CreateGivesUp, DestroyReturns, Return, clientVars,
       serverVars
  <2>2. reply'.op # "acquired" /\ call'.op # "acquire"
    BY <2>1 DEF None
  <2> QED
    BY <2>1, <2>2, QuietTurn DEF IsKnown
<1>2. CASE PresentReturns
  <2>1. /\ reply.op = "presented" /\ reply' = None
        /\ call' = None \/ call' = [call EXCEPT !.todo = Tail(call.todo)]
        /\ UNCHANGED <<connected, known, held, swapchains>>
    BY <1>2 DEF PresentReturns, clientVars, serverVars
  <2>2. call \in Present /\ call.op = "present"
    <3>1. reply # None
      BY <2>1 DEF None
    <3> QED
      BY <2>1, <3>1, Replied, Fields DEF ChainInv
  <2>3. reply'.op # "acquired" /\ call'.op # "acquire"
    BY <2>1, <2>2 DEF None, Present
  <2> QED
    BY <2>1, <2>3, QuietTurn DEF IsKnown
<1> QED
  BY <1>1, <1>2, CreateReturnsTurn, AcquireReturnsTurn DEF Returns

LEMMA ConnectionTurn ==
  ASSUME ChainInv, TurnInv, Connection
  PROVE  TurnInv'
<1>1. CASE Disconnect \/ DropRequest
  BY <1>1 DEF Disconnect, DropRequest, TurnInv
<1>2. CASE Connect
  <2>1. \A id \in Ids : ~IsKnown(id)'
    BY <1>2, UnknownChain DEF Connect, IsKnown
  <2> QED
    BY <2>1 DEF TurnInv
<1> QED
  BY <1>1, <1>2 DEF Connection

LEMMA NextTurn == Polite /\ ChainInv /\ TurnInv /\ [Next]_vars => TurnInv'
<1> SUFFICES ASSUME Polite, ChainInv, TurnInv, [Next]_vars PROVE TurnInv'
  OBVIOUS
<1>1. CASE Finished \/ UNCHANGED vars
  BY <1>1, QuietTurn DEF Finished, vars, clientVars, serverVars, IsKnown
<1> QED
  BY <1>1, ApplicationTurn, ReturnsTurn, ServerTurn, ConnectionTurn DEF Next

\* A client that has lost its connection gets no image.
LEMMA HeldOffline ==
  ASSUME ImageHeldOnce, ChainInv, [Next]_vars, ~connected'
  PROVE  ImageHeldOnce'
<1>1. \/ UNCHANGED held
      \/ \E id \in Ids : held' = [held EXCEPT ![id] = <<>>]
      \/ held' = [id \in Ids |-> <<>>]
  <2>1. CASE Application
    <3>1. ASSUME NEW ids, NEW pos, QueuePresent(ids, pos)
          PROVE  FALSE
      BY <3>1 DEF QueuePresent
    <3>2. ASSUME NEW id \in Ids, DestroySwapchain(id)
          PROVE  held' = [held EXCEPT ![id] = <<>>]
      BY <3>2 DEF DestroySwapchain
    <3>3. ASSUME NEW n, NEW id, NEW index,
                 CreateSwapchain(n) \/ AcquireNextImage(id) \/ Render(id, index)
          PROVE  UNCHANGED held
      BY <3>3 DEF CreateSwapchain, AcquireNextImage, Render, clientVars
    <3> QED
      BY <2>1, <3>1, <3>2, <3>3 DEF Application
  <2>2. CASE Returns
    <3>1. reply # None /\ UNCHANGED connected
      BY <2>2 DEF Returns, CreateRefused, CreateReturns, CreateGivesUp, DestroyReturns,
         AcquireReturns, PresentReturns, None
    <3> QED
      BY <3>1, Replied
  <2>3. CASE Server
    <3>1. CASE ServerCreates \/ ServerCreateFails \/ ServerDestroys
      BY <3>1 DEF ServerCreates, ServerCreateFails, ServerDestroys, clientVars
    <3>2. CASE ServerAcquires \/ ServerPresents \/ ServerBlocks \/ GpuExecutes
      BY <3>2 DEF ServerAcquires, ServerPresents, CopiesImage, RefusesImage,
         ServerBlocks, GpuExecutes, clientVars
    <3> QED
      BY <2>3, <3>1, <3>2 DEF Server
  <2>4. CASE Connection
    BY <2>4 DEF Connection, Disconnect, DropRequest, Connect, clientVars
  <2>5. CASE Finished \/ UNCHANGED vars
    BY <2>5 DEF Finished, vars, clientVars
  <2> QED
    BY <2>1, <2>2, <2>3, <2>4, <2>5 DEF Next
<1>2. IsInjective(<<>>)
  BY DEF IsInjective
<1> QED
  BY <1>1, <1>2 DEF ImageHeldOnce, ChainInv, Tables

\* acquire_image: an image the application holds is not handed to it again,
\* although the server counts round and round and knows nothing of what is
\* held; for an application that takes no more images than there are and
\* presents them in the order it took them.
THEOREM ImagesAreHeldOnce == Polite => (Spec => []ImageHeldOnce)
<1> SUFFICES ASSUME Polite PROVE Spec => []ImageHeldOnce
  OBVIOUS
<1>1. Init => TurnInv
  BY UnknownChain DEF Init, TurnInv, IsKnown
<1>2. ChainInv /\ TurnInv /\ [Next]_vars => TurnInv'
  BY NextTurn
<1>3. ChainInv /\ TurnInv /\ connected => ImageHeldOnce
  <2> SUFFICES ASSUME ChainInv, TurnInv, connected, NEW id \in Ids
               PROVE  IsInjective(held[id])
    BY DEF ImageHeldOnce
  <2>1. CASE IsKnown(id)
    <3> DEFINE n == CountOf(id)
               b == swapchains[id].next_image + n - (Len(held[id]) + Pending(id))
    <3>1. InTurn(id)
      BY <2>1 DEF TurnInv
    <3>2. n \in Nat /\ b \in Int /\ held[id] \in Seq(Nat) /\ Len(held[id]) <= n
      BY <3>1, TurnTypes DEF InTurn
    <3>3. \A k \in 1 .. Len(held[id]) : held[id][k] = Wrap(b + k - 1, n)
      BY <3>1 DEF InTurn, Run
    <3> QED
      BY <3>2, <3>3, RingInjective
  <2>2. CASE ~IsKnown(id)
    <3>1. held[id] = <<>>
      BY <2>2, TurnTypes
    <3> QED
      BY <3>1 DEF IsInjective
  <2> QED
    BY <2>1, <2>2
<1>4. Init => ImageHeldOnce
  BY DEF Init, ImageHeldOnce, IsInjective
<1>5. ImageHeldOnce /\ ChainInv /\ TurnInv /\ [Next]_vars => ImageHeldOnce'
  <2>1. (ChainInv /\ TurnInv /\ connected => ImageHeldOnce)'
    BY <1>3, PTL
  <2> SUFFICES ASSUME ImageHeldOnce, ChainInv, TurnInv, [Next]_vars
               PROVE  ImageHeldOnce'
    OBVIOUS
  <2>2. ChainInv' /\ TurnInv'
    BY <1>2, NextChain
  <2>3. CASE connected'
    BY <2>1, <2>2, <2>3
  <2>4. CASE ~connected'
    BY <2>4, HeldOffline
  <2> QED
    BY <2>3, <2>4
<1> QED
  BY <1>1, <1>2, <1>4, <1>5, ChainAlways, PTL DEF Spec
=============================================================================
