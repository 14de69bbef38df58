--------------------------- MODULE AtomicRingProofs ---------------------------
(***************************************************************************)
(* Proofs about AtomicRing: types, and that the commands of the ring are   *)
(* performed in the order they were issued, none skipped and none twice;   *)
(* with one thread that overtaking leaves nothing behind, that each reply  *)
(* is the call's own, that the transport is the CommandService, and that a *)
(* call is never stuck.  CommandRingProofs carries them over to the steps  *)
(* of the code.                                                            *)
(***************************************************************************)
EXTENDS AtomicRing, TLAPS

-----------------------------------------------------------------------------
(* The inductive invariant: the parts are about the commands issued, those *)
(* performed, those on the wire and those in the buffer.                   *)

\* No command is known before it is issued, and only the ring's commands wait
\* in the buffer.
Known(iss, perf, wire, buf) ==
    /\ \A k \in DOMAIN perf : perf[k] <= Len(iss)
    /\ \A k \in DOMAIN wire : wire[k].id <= Len(iss)
    /\ \A k \in DOMAIN buf : buf[k].id <= Len(iss) /\ iss[buf[k].id] # "direct"

\* What is performed comes before what is on the wire, and that before what is
\* still in the buffer.
Increasing(iss, perf, wire, buf) ==
    /\ \A k, n \in DOMAIN perf :
        k < n /\ iss[perf[k]] # "direct" /\ iss[perf[n]] # "direct" => perf[k] < perf[n]
    /\ \A k \in DOMAIN perf, n \in DOMAIN wire :
        iss[perf[k]] # "direct" /\ iss[wire[n].id] # "direct" => perf[k] < wire[n].id
    /\ \A k, n \in DOMAIN wire :
        k < n /\ iss[wire[k].id] # "direct" /\ iss[wire[n].id] # "direct"
            => wire[k].id < wire[n].id
    /\ \A k \in DOMAIN perf, n \in DOMAIN buf :
        iss[perf[k]] # "direct" => perf[k] < buf[n].id
    /\ \A k \in DOMAIN wire, n \in DOMAIN buf :
        iss[wire[k].id] # "direct" => wire[k].id < buf[n].id
    /\ \A k, n \in DOMAIN buf : k < n => buf[k].id < buf[n].id

\* No command of the ring is lost.
Complete(iss, perf, wire, buf) ==
    \A i \in 1..Len(iss) : iss[i] # "direct" =>
        \/ \E k \in DOMAIN perf : perf[k] = i
        \/ \E k \in DOMAIN wire : wire[k].id = i
        \/ \E k \in DOMAIN buf : buf[k].id = i

\* Loss is possible only with the connection.
Ordered(alive, iss, perf, wire, buf) ==
    /\ Known(iss, perf, wire, buf)
    /\ Increasing(iss, perf, wire, buf)
    /\ alive => Complete(iss, perf, wire, buf)

NoneSkipped ==
    \A j \in Done : \A i \in 1..j : Ring(i) /\ Ring(j) => i \in Done

RingInv == TypeOK /\ Ordered(open, issued, performed, up, pending) /\ NoneSkipped

-----------------------------------------------------------------------------
(* Types.                                                                  *)

\* A message of replies is not empty.
Answers == Seq(1..MaxCommands) \ {<<>>}
Calls   == {Idle} \cup [step : {"reply", "receive"}, id : 1..MaxCommands]
Results == [call : 0..MaxCommands, reply : 0..MaxCommands]

Logged   == issued \in Seq(Kinds) /\ Len(issued) <= MaxCommands
Buffered == pending \in Seq(Command)
Wired    == up \in Seq(Sent)
Replying == replies \in Seq(1..MaxCommands) /\ down \in Seq(Answers)
Calling  == call \in [Thread -> Calls] /\ got \in [Thread -> Results]
Counted  == performed \in Seq(1..MaxCommands) /\ open \in BOOLEAN

LEMMA TypeParts ==
    TypeOK <=> Logged /\ Buffered /\ Wired /\ Replying /\ Calling /\ Counted
BY DEF TypeOK, Logged, Buffered, Wired, Replying, Calling, Counted, Answers, Calls, Results

LEMMA TypePartsPrimed ==
    TypeOK' <=> Logged' /\ Buffered' /\ Wired' /\ Replying' /\ Calling' /\ Counted'
BY DEF TypeOK, Logged, Buffered, Wired, Replying, Calling, Counted, Answers, Calls, Results

LEMMA InitTypes == Init => TypeOK
<1> SUFFICES ASSUME Init PROVE TypeOK
  OBVIOUS
<1>1. Logged
  BY StreamAssumption DEF Init, Logged
<1>2. Buffered /\ Wired /\ Replying /\ Counted
  BY DEF Init, Buffered, Wired, Replying, Counted
<1>3. Calling
  BY StreamAssumption DEF Init, Calling, Calls, Results, Error
<1> QED
  BY <1>1, <1>2, <1>3, TypeParts

LEMMA IssueTypes ==
    ASSUME Logged, NEW k \in Kinds, Issue(k)
    PROVE  /\ Logged'
           /\ Len(issued') = Len(issued) + 1 /\ Len(issued) \in Nat
           /\ issued'[Len(issued) + 1] = k
           /\ \A i \in 1..Len(issued) : issued'[i] = issued[i]
           /\ NextId = Len(issued) + 1 /\ NextId \in 1..MaxCommands
BY StreamAssumption DEF Logged, Issue, NextId

\* What Message makes of a buffer.
LEMMA MessageTypes ==
    ASSUME NEW s \in Seq(Command)
    PROVE  /\ Message(s) \in Seq(Sent)
           /\ Len(Message(s)) = Len(s)
           /\ \A i \in DOMAIN s : Message(s)[i].id = s[i].id
<1>1. DOMAIN s = 1..Len(s) /\ Len(s) \in Nat
  OBVIOUS
<1>2. \A i \in DOMAIN s : s[i].id \in 1..MaxCommands
  <2>1. \A i \in DOMAIN s : s[i] \in Command
    OBVIOUS
  <2> QED
    BY <2>1 DEF Command
<1>3. Message(s) \in [1..Len(s) -> Sent]
  BY <1>1, <1>2 DEF Message, Sent
<1> QED
  BY <1>1, <1>3 DEF Message

\* A flush of the buffer s.
LEMMA FlushTypes ==
    ASSUME Wired, NEW s \in Seq(Command), Flush(s)
    PROVE  Wired' /\ Buffered'
<1>1. Message(s) \in Seq(Sent)
  BY MessageTypes
<1>2. CASE open
  <2>1. up' = up \o Message(s) /\ pending' = <<>>
    BY <1>2 DEF Flush
  <2> QED
    BY <1>1, <2>1 DEF Wired, Buffered
<1>3. CASE ~open
  BY <1>3 DEF Flush, Wired, Buffered
<1> QED
  BY <1>2, <1>3

LEMMA SubmitTypes ==
    ASSUME Wired, Buffered, NEW size \in AsyncSize \cup SyncSize,
           NextId \in 1..MaxCommands, SubmitCommand(size)
    PROVE  Wired' /\ Buffered'
<1> DEFINE buffer == Append(pending, [id |-> NextId, size |-> size])
<1>1. buffer \in Seq(Command)
  BY DEF Buffered, Command
<1>2. Flush(buffer) \/ (pending' = buffer /\ UNCHANGED up)
  BY DEF SubmitCommand
<1> HIDE DEF buffer
<1> QED
  BY <1>1, <1>2, FlushTypes DEF Wired, Buffered

LEMMA ReturnTypes ==
    ASSUME Calling, NEW t \in Thread, call[t].step # "idle",
           NEW r \in 0..MaxCommands, Return(t, r)
    PROVE  Calling'
<1>1. call[t].id \in 1..MaxCommands
  BY DEF Calling, Calls, Idle
<1>2. [call |-> call[t].id, reply |-> r] \in Results
  BY <1>1 DEF Results
<1> QED
  BY <1>2 DEF Return, Calling, Calls

LEMMA TypeStep == TypeOK /\ [Next]_vars => TypeOK'
<1> SUFFICES ASSUME TypeOK, [Next]_vars PROVE TypeOK'
  OBVIOUS
<1>a. Logged /\ Buffered /\ Wired /\ Replying /\ Calling /\ Counted
  BY TypeParts
<1>b. Error \in 0..MaxCommands
  BY StreamAssumption DEF Error
<1>1. CASE Perform
  <2>0. up # <<>> /\ up \in Seq(Sent)
    BY <1>1, <1>a DEF Perform, Wired
  <2>h. Head(up) \in Sent /\ Tail(up) \in Seq(Sent)
    BY <2>0
  <2>1. Head(up).id \in 1..MaxCommands
    BY <2>h DEF Sent
  <2> DEFINE all == Dispatched(Head(up))
  <2>2. all \in Seq(1..MaxCommands)
    <3>1. replies \in Seq(1..MaxCommands) /\ Append(replies, Head(up).id) \in Seq(1..MaxCommands)
      BY <1>a, <2>1 DEF Replying
    <3> QED
      BY <3>1 DEF Dispatched
  <2>3. /\ replies' = LeftReplies(Head(up), all) /\ down' = down \o Answered(Head(up), all)
        /\ up' = Tail(up) /\ performed' = Append(performed, Head(up).id)
        /\ UNCHANGED <<issued, pending, call, got, open>>
    BY <1>1 DEF Perform, client
  <2> HIDE DEF all
  <2>4. LeftReplies(Head(up), all) \in Seq(1..MaxCommands)
    <3>1. LeftReplies(Head(up), all) \in {<<>>, all}
      BY DEF LeftReplies
    <3>2. <<>> \in Seq(1..MaxCommands)
      OBVIOUS
    <3> QED
      BY <2>2, <3>1, <3>2, Zenon
  <2>5. Answered(Head(up), all) \in Seq(Answers)
    <3>1. all # <<>> => all \in Answers
      BY <2>2 DEF Answers
    <3> QED
      BY <3>1 DEF Answered
  <2>6. Replying'
    BY <1>a, <2>3, <2>4, <2>5 DEF Replying
  <2>7. Wired' /\ Counted'
    BY <1>a, <2>1, <2>h, <2>3 DEF Wired, Counted
  <2> QED
    BY <1>a, <2>3, <2>6, <2>7, TypePartsPrimed DEF Logged, Buffered, Calling
<1>2. CASE Break
  <2>1. PICK n \in 0..Len(down) : down' = SubSeq(down, 1, n)
    BY <1>2 DEF Break
  <2>2. Replying'
    BY <1>2, <1>a, <2>1 DEF Break, Replying
  <2>b. up' = <<>> /\ open' = FALSE /\ performed' = performed
    BY <1>2 DEF Break
  <2>3. Wired' /\ Counted'
    <3>1. <<>> \in Seq(Sent) /\ FALSE \in BOOLEAN
      OBVIOUS
    <3> QED
      BY <1>a, <2>b, <3>1, Zenon DEF Wired, Counted
  <2> QED
    BY <1>2, <1>a, <2>2, <2>3, TypePartsPrimed DEF Break, Logged, Buffered, Calling, client
<1>3. CASE Finished \/ UNCHANGED vars
  BY <1>3, <1>a, TypePartsPrimed
     DEF Finished, vars, client, server, Logged, Buffered, Wired, Replying, Calling, Counted
<1>4. ASSUME NEW t \in Thread, Async(t) PROVE TypeOK'
  <2>1. PICK size \in AsyncSize : SubmitCommand(size)
    BY <1>4 DEF Async
  <2>2. Issue("async") /\ "async" \in Kinds
    BY <1>4 DEF Async, Kinds
  <2>3. Logged' /\ Wired' /\ Buffered'
    BY <1>a, <2>1, <2>2, IssueTypes, SubmitTypes
  <2> QED
    BY <1>4, <1>a, <2>3, TypePartsPrimed DEF Async, Replying, Calling, Counted, server
<1>5. ASSUME NEW t \in Thread, BeginCall(t) PROVE TypeOK'
  <2>1. PICK size \in SyncSize : SubmitCommand(size)
    BY <1>5 DEF BeginCall
  <2>2. Issue("sync") /\ "sync" \in Kinds
    BY <1>5 DEF BeginCall, Kinds
  <2>3. Logged' /\ Wired' /\ Buffered' /\ NextId \in 1..MaxCommands
    BY <1>a, <2>1, <2>2, IssueTypes, SubmitTypes
  <2>4. Calling'
    BY <1>5, <1>a, <2>3 DEF BeginCall, Calling, Calls
  <2> QED
    BY <1>5, <1>a, <2>3, <2>4, TypePartsPrimed DEF BeginCall, Replying, Counted, server
<1>6. ASSUME NEW t \in Thread, SendDirect(t) PROVE TypeOK'
  <2>1. Issue("direct") /\ "direct" \in Kinds
    BY <1>6 DEF SendDirect, Kinds
  <2>2. Logged' /\ NextId \in 1..MaxCommands
    BY <1>a, <2>1, IssueTypes
  <2>3. [id |-> NextId, last |-> TRUE] \in Sent
    BY <2>2 DEF Sent
  <2>4. Wired'
    BY <1>6, <1>a, <2>3 DEF SendDirect, Wired
  <2>5. Calling'
    <3>1. [step |-> "receive", id |-> NextId] \in Calls
      BY <2>2 DEF Calls
    <3>2. [call |-> NextId, reply |-> Error] \in Results
      BY <1>b, <2>2 DEF Results
    <3> QED
      BY <1>6, <1>a, <3>1, <3>2 DEF SendDirect, Calling
  <2> QED
    BY <1>6, <1>a, <2>2, <2>4, <2>5, TypePartsPrimed
       DEF SendDirect, Buffered, Replying, Counted, server
<1>7. ASSUME NEW t \in Thread, NothingToFlush(t) PROVE TypeOK'
  <2>1. Calling'
    BY <1>7, <1>a, <1>b, ReturnTypes DEF NothingToFlush
  <2> QED
    BY <1>7, <1>a, <2>1, TypePartsPrimed
       DEF NothingToFlush, Logged, Buffered, Wired, Replying, Counted, server
<1>8. ASSUME NEW t \in Thread, ReceiveFails(t) PROVE TypeOK'
  <2>1. Calling'
    BY <1>8, <1>a, <1>b, ReturnTypes DEF ReceiveFails
  <2> QED
    BY <1>8, <1>a, <2>1, TypePartsPrimed
       DEF ReceiveFails, Logged, Buffered, Wired, Replying, Counted, server
<1>9. ASSUME NEW t \in Thread, Receive(t) PROVE TypeOK'
  <2>1. Head(down) \in Answers /\ Tail(down) \in Seq(Answers)
    BY <1>9, <1>a DEF Receive, Replying
  <2>2. Head(Head(down)) \in 0..MaxCommands
    <3>1. Head(down) \in Seq(1..MaxCommands) /\ Head(down) # <<>>
      BY <2>1 DEF Answers
    <3>2. ASSUME NEW S, NEW s \in Seq(S), s # <<>> PROVE Head(s) \in S
      BY <3>2
    <3>3. Head(Head(down)) \in 1..MaxCommands
      BY <3>1, <3>2
    <3> QED
      BY <3>3
  <2>3. Calling'
    BY <1>9, <1>a, <2>2, ReturnTypes DEF Receive
  <2> QED
    BY <1>9, <1>a, <2>1, <2>3, TypePartsPrimed
       DEF Receive, Logged, Buffered, Wired, Replying, Counted, server
<1>10. ASSUME NEW t \in Thread, FlushForReply(t) PROVE TypeOK'
  <2>1. Wired' /\ Buffered'
    BY <1>10, <1>a, FlushTypes DEF FlushForReply, Buffered
  <2>2. Calling'
    <3>1. CASE pending' = <<>>
      <4>1. [call[t] EXCEPT !.step = "receive"] \in Calls
        BY <1>10, <1>a DEF FlushForReply, Calling, Calls, Idle
      <4>2. call' = [call EXCEPT ![t] = [call[t] EXCEPT !.step = "receive"]] /\ got' = got
        BY <1>10, <3>1 DEF FlushForReply
      <4> QED
        BY <1>a, <4>1, <4>2 DEF Calling
    <3>2. CASE pending' # <<>>
      BY <1>10, <1>a, <1>b, <3>2, ReturnTypes DEF FlushForReply
    <3> QED
      BY <3>1, <3>2
  <2> QED
    BY <1>10, <1>a, <2>1, <2>2, TypePartsPrimed
       DEF FlushForReply, Logged, Replying, Counted, server
<1> QED
  BY <1>1, <1>2, <1>3, <1>4, <1>5, <1>6, <1>7, <1>8, <1>9, <1>10 DEF Next, Client

\* Whatever the threads interleave, the buffer, the messages and the replies are
\* what the ring and the server make them: a reply message is never empty, and
\* no call is left with a number that was never issued.
THEOREM TypeCorrect == Spec => []TypeOK
BY InitTypes, TypeStep, PTL DEF Spec

-----------------------------------------------------------------------------
(* The order of the commands: what each kind of step does to Ordered.      *)

\* What Append does, element by element.
LEMMA AppendFacts ==
    ASSUME NEW S, NEW s \in Seq(S), NEW e \in S
    PROVE  /\ Append(s, e) \in Seq(S) /\ Len(s) \in Nat
           /\ Len(Append(s, e)) = Len(s) + 1
           /\ DOMAIN s = 1..Len(s) /\ DOMAIN Append(s, e) = 1..(Len(s) + 1)
           /\ \A i \in 1..Len(s) : Append(s, e)[i] = s[i]
           /\ Append(s, e)[Len(s) + 1] = e
           /\ \A i \in DOMAIN Append(s, e) :
                \/ i \in DOMAIN s /\ i <= Len(s) /\ Append(s, e)[i] = s[i]
                \/ i \notin DOMAIN s /\ i = Len(s) + 1 /\ Append(s, e)[i] = e
OBVIOUS

\* What \o does, element by element.
LEMMA ConcatFacts ==
    ASSUME NEW S, NEW s \in Seq(S), NEW t \in Seq(S)
    PROVE  /\ s \o t \in Seq(S) /\ Len(s) \in Nat /\ Len(t) \in Nat
           /\ DOMAIN s = 1..Len(s) /\ DOMAIN t = 1..Len(t)
           /\ DOMAIN (s \o t) = 1..(Len(s) + Len(t))
           /\ \A i \in 1..Len(s) : (s \o t)[i] = s[i]
           /\ \A i \in 1..Len(t) : (s \o t)[Len(s) + i] = t[i]
OBVIOUS

LEMMA ElementFacts ==
    ASSUME NEW S, NEW s \in Seq(S)
    PROVE  /\ Len(s) \in Nat /\ DOMAIN s = 1..Len(s)
           /\ \A i \in DOMAIN s : s[i] \in S
OBVIOUS

\* The numbers of what is known are those of commands issued.
LEMMA KnownRange ==
    ASSUME NEW iss \in Seq(Kinds), NEW perf \in Seq(1..MaxCommands),
           NEW wire \in Seq(Sent), NEW buf \in Seq(Command),
           Known(iss, perf, wire, buf)
    PROVE  /\ \A k \in DOMAIN perf : perf[k] \in 1..Len(iss)
           /\ \A k \in DOMAIN wire : wire[k].id \in 1..Len(iss)
           /\ \A k \in DOMAIN buf : buf[k].id \in 1..Len(iss)
<1>1. \A k \in DOMAIN perf : perf[k] \in 1..MaxCommands
  BY ElementFacts
<1>2. \A k \in DOMAIN wire : wire[k].id \in 1..MaxCommands
  <2>1. \A k \in DOMAIN wire : wire[k] \in Sent
    OBVIOUS
  <2> QED
    BY <2>1 DEF Sent
<1>3. \A k \in DOMAIN buf : buf[k].id \in 1..MaxCommands
  <2>1. \A k \in DOMAIN buf : buf[k] \in Command
    OBVIOUS
  <2> QED
    BY <2>1 DEF Command
<1>4. Len(iss) \in Nat
  OBVIOUS
<1> QED
  BY <1>1, <1>2, <1>3, <1>4, StreamAssumption DEF Known

\* A command of the ring is issued and put at the end of the buffer.
LEMMA BufferOrder ==
    ASSUME NEW alive, NEW iss \in Seq(Kinds), NEW perf \in Seq(1..MaxCommands),
           NEW wire \in Seq(Sent), NEW buf \in Seq(Command),
           NEW kind \in Kinds, kind # "direct",
           NEW cmd \in Command, cmd.id = Len(iss) + 1,
           Ordered(alive, iss, perf, wire, buf)
    PROVE  Ordered(alive, Append(iss, kind), perf, wire, Append(buf, cmd))
<1> DEFINE iss2 == Append(iss, kind)
           buf2 == Append(buf, cmd)
<1>1. /\ Len(iss) \in Nat /\ Len(iss2) = Len(iss) + 1
      /\ \A i \in 1..Len(iss) : iss2[i] = iss[i]
      /\ iss2[Len(iss) + 1] = kind
  BY AppendFacts
<1>2. /\ DOMAIN buf = 1..Len(buf) /\ DOMAIN buf2 = 1..(Len(buf) + 1) /\ Len(buf) \in Nat
      /\ \A i \in 1..Len(buf) : buf2[i] = buf[i]
      /\ buf2[Len(buf) + 1] = cmd
  BY AppendFacts
<1>3. /\ \A k \in DOMAIN perf : perf[k] \in 1..Len(iss)
      /\ \A k \in DOMAIN wire : wire[k].id \in 1..Len(iss)
      /\ \A k \in DOMAIN buf : buf[k].id \in 1..Len(iss)
  BY KnownRange DEF Ordered
<1>4. \A n \in DOMAIN buf2 :
        \/ n \in DOMAIN buf /\ n <= Len(buf) /\ buf2[n] = buf[n]
        \/ n \notin DOMAIN buf /\ n = Len(buf) + 1 /\ buf2[n] = cmd
  BY AppendFacts
<1>5. /\ Known(iss, perf, wire, buf) /\ Increasing(iss, perf, wire, buf)
      /\ alive => Complete(iss, perf, wire, buf)
  BY DEF Ordered
<1> HIDE DEF iss2, buf2
<1>6. Known(iss2, perf, wire, buf2)
  <2>1. /\ \A k \in DOMAIN perf : perf[k] <= Len(iss2)
        /\ \A k \in DOMAIN wire : wire[k].id <= Len(iss2)
    BY <1>1, <1>3
  <2>2. ASSUME NEW n \in DOMAIN buf2 PROVE buf2[n].id <= Len(iss2) /\ iss2[buf2[n].id] # "direct"
    <3>1. CASE n \in DOMAIN buf
      BY <1>1, <1>3, <1>4, <1>5, <3>1 DEF Known
    <3>2. CASE n \notin DOMAIN buf
      BY <1>1, <1>4, <3>2
    <3> QED
      BY <3>1, <3>2
  <2> QED
    BY <2>1, <2>2 DEF Known
<1>7. Increasing(iss2, perf, wire, buf2)
  <2>1. /\ \A k \in DOMAIN perf : iss2[perf[k]] = iss[perf[k]]
        /\ \A k \in DOMAIN wire : iss2[wire[k].id] = iss[wire[k].id]
    BY <1>1, <1>3
  <2>2. \A k \in DOMAIN perf, n \in DOMAIN buf2 : iss2[perf[k]] # "direct" => perf[k] < buf2[n].id
    BY <1>1, <1>3, <1>4, <1>5, <2>1 DEF Increasing
  <2>3. \A k \in DOMAIN wire, n \in DOMAIN buf2 :
          iss2[wire[k].id] # "direct" => wire[k].id < buf2[n].id
    BY <1>1, <1>3, <1>4, <1>5, <2>1 DEF Increasing
  <2>4. \A k, n \in DOMAIN buf2 : k < n => buf2[k].id < buf2[n].id
    <3> SUFFICES ASSUME NEW k \in DOMAIN buf2, NEW n \in DOMAIN buf2, k < n
                 PROVE  buf2[k].id < buf2[n].id
      OBVIOUS
    <3>1. k \in DOMAIN buf /\ buf2[k] = buf[k]
      BY <1>2, <1>4
    <3>2. CASE n \in DOMAIN buf
      BY <1>4, <1>5, <3>1, <3>2 DEF Increasing
    <3>3. CASE n \notin DOMAIN buf
      BY <1>1, <1>3, <1>4, <3>1, <3>3
    <3> QED
      BY <3>2, <3>3
  <2> QED
    BY <1>5, <2>1, <2>2, <2>3, <2>4 DEF Increasing
<1>8. ASSUME alive PROVE Complete(iss2, perf, wire, buf2)
  <2> SUFFICES ASSUME NEW i \in 1..Len(iss2), iss2[i] # "direct"
               PROVE  \/ \E k \in DOMAIN perf : perf[k] = i
                      \/ \E k \in DOMAIN wire : wire[k].id = i
                      \/ \E k \in DOMAIN buf2 : buf2[k].id = i
    BY DEF Complete
  <2>1. CASE i \in 1..Len(iss)
    <3>1. iss[i] # "direct"
      BY <1>1, <2>1
    <3>2. \A k \in DOMAIN buf : k \in DOMAIN buf2 /\ buf2[k] = buf[k]
      BY <1>2
    <3> QED
      BY <1>5, <1>8, <2>1, <3>1, <3>2 DEF Complete
  <2>2. CASE i = Len(iss) + 1
    <3>1. Len(buf) + 1 \in DOMAIN buf2 /\ buf2[Len(buf) + 1].id = i
      BY <1>2, <2>2
    <3> QED
      BY <3>1
  <2> QED
    BY <1>1, <2>1, <2>2
<1> QED
  BY <1>6, <1>7, <1>8 DEF Ordered, iss2, buf2

\* A flush moves the buffer to the end of the wire.
LEMMA FlushOrder ==
    ASSUME NEW alive, NEW iss \in Seq(Kinds), NEW perf \in Seq(1..MaxCommands),
           NEW wire \in Seq(Sent), NEW buf \in Seq(Command),
           Ordered(alive, iss, perf, wire, buf)
    PROVE  Ordered(alive, iss, perf, wire \o Message(buf), <<>>)
<1> DEFINE msg == Message(buf)
           wire2 == wire \o msg
<1>1. msg \in Seq(Sent) /\ Len(msg) = Len(buf) /\ \A i \in DOMAIN buf : msg[i].id = buf[i].id
  BY MessageTypes
<1>2. DOMAIN buf = 1..Len(buf) /\ DOMAIN wire = 1..Len(wire) /\ Len(buf) \in Nat /\ Len(wire) \in Nat
  OBVIOUS
<1> HIDE DEF msg
<1>3. /\ DOMAIN wire2 = 1..(Len(wire) + Len(buf))
      /\ \A i \in 1..Len(wire) : wire2[i] = wire[i]
      /\ \A i \in 1..Len(buf) : wire2[Len(wire) + i] = msg[i]
  BY <1>1, ConcatFacts
<1> HIDE DEF wire2
<1>4. \A i \in 1..Len(buf) : wire2[Len(wire) + i].id = buf[i].id
  BY <1>1, <1>2, <1>3
<1>5. \A n \in DOMAIN wire2 :
        \/ n \in DOMAIN wire /\ wire2[n].id = wire[n].id
        \/ /\ n - Len(wire) \in DOMAIN buf /\ wire2[n].id = buf[n - Len(wire)].id
           /\ n \notin DOMAIN wire
  <2> SUFFICES ASSUME NEW n \in DOMAIN wire2, n \notin DOMAIN wire
               PROVE  n - Len(wire) \in DOMAIN buf /\ wire2[n].id = buf[n - Len(wire)].id
    BY <1>2, <1>3
  <2>1. n \in Nat /\ n - Len(wire) \in 1..Len(buf) /\ n = Len(wire) + (n - Len(wire))
    BY <1>2, <1>3
  <2> QED
    BY <1>2, <1>4, <2>1
<1>6. /\ \A k \in DOMAIN perf : perf[k] \in 1..Len(iss)
      /\ \A k \in DOMAIN wire : wire[k].id \in 1..Len(iss)
      /\ \A k \in DOMAIN buf : buf[k].id \in 1..Len(iss)
  BY KnownRange DEF Ordered
<1>7. /\ Known(iss, perf, wire, buf) /\ Increasing(iss, perf, wire, buf)
      /\ alive => Complete(iss, perf, wire, buf)
  BY DEF Ordered
<1>8. DOMAIN << >> = {}
  OBVIOUS
<1>9. Known(iss, perf, wire2, <<>>)
  BY <1>5, <1>7, <1>8 DEF Known
<1>10. Increasing(iss, perf, wire2, <<>>)
  <2>1. \A k \in DOMAIN perf, n \in DOMAIN wire2 :
          iss[perf[k]] # "direct" /\ iss[wire2[n].id] # "direct" => perf[k] < wire2[n].id
    BY <1>5, <1>7 DEF Increasing
  <2>2. \A k, n \in DOMAIN wire2 :
          k < n /\ iss[wire2[k].id] # "direct" /\ iss[wire2[n].id] # "direct"
              => wire2[k].id < wire2[n].id
    <3> SUFFICES ASSUME NEW k \in DOMAIN wire2, NEW n \in DOMAIN wire2, k < n,
                        iss[wire2[k].id] # "direct", iss[wire2[n].id] # "direct"
                 PROVE  wire2[k].id < wire2[n].id
      OBVIOUS
    <3>1. CASE n \in DOMAIN wire
      <4>1. k \in DOMAIN wire
        BY <1>2, <1>3, <3>1
      <4> QED
        BY <1>5, <1>7, <3>1, <4>1 DEF Increasing
    <3>2. CASE n \notin DOMAIN wire /\ k \in DOMAIN wire
      BY <1>5, <1>7, <3>2 DEF Increasing
    <3>3. CASE n \notin DOMAIN wire /\ k \notin DOMAIN wire
      <4>1. k - Len(wire) < n - Len(wire)
        BY <1>2, <1>3
      <4> QED
        BY <1>5, <1>7, <3>3, <4>1 DEF Increasing
    <3> QED
      BY <3>1, <3>2, <3>3
  <2> QED
    BY <1>7, <1>8, <2>1, <2>2 DEF Increasing
<1>11. ASSUME alive PROVE Complete(iss, perf, wire2, <<>>)
  <2> SUFFICES ASSUME NEW i \in 1..Len(iss), iss[i] # "direct"
               PROVE  \/ \E k \in DOMAIN perf : perf[k] = i
                      \/ \E k \in DOMAIN wire2 : wire2[k].id = i
    BY DEF Complete
  <2>1. CASE \E k \in DOMAIN wire : wire[k].id = i
    BY <1>2, <1>3, <2>1
  <2>2. ASSUME NEW k \in DOMAIN buf, buf[k].id = i PROVE \E n \in DOMAIN wire2 : wire2[n].id = i
    <3>1. Len(wire) + k \in DOMAIN wire2 /\ wire2[Len(wire) + k].id = i
      BY <1>2, <1>3, <1>4, <2>2
    <3> QED
      BY <3>1
  <2> QED
    BY <1>7, <1>11, <2>1, <2>2 DEF Complete
<1> QED
  BY <1>9, <1>10, <1>11 DEF Ordered, wire2, msg

\* A message past the buffer is issued and put on the wire.
LEMMA DirectOrder ==
    ASSUME NEW alive, NEW iss \in Seq(Kinds), NEW perf \in Seq(1..MaxCommands),
           NEW wire \in Seq(Sent), NEW buf \in Seq(Command),
           NEW m \in Sent, m.id = Len(iss) + 1,
           Ordered(alive, iss, perf, wire, buf)
    PROVE  /\ Ordered(alive, Append(iss, "direct"), perf, Append(wire, m), buf)
           /\ Ordered(alive, Append(iss, "direct"), perf, wire, buf)
<1> DEFINE iss2 == Append(iss, "direct")
           wire2 == Append(wire, m)
<1>1. /\ Len(iss) \in Nat /\ Len(iss2) = Len(iss) + 1
      /\ \A i \in 1..Len(iss) : iss2[i] = iss[i]
      /\ iss2[Len(iss) + 1] = "direct"
  <2>1. "direct" \in Kinds
    BY DEF Kinds
  <2> QED
    BY <2>1, AppendFacts
<1>2. /\ DOMAIN wire = 1..Len(wire) /\ DOMAIN wire2 = 1..(Len(wire) + 1) /\ Len(wire) \in Nat
      /\ \A i \in 1..Len(wire) : wire2[i] = wire[i]
      /\ wire2[Len(wire) + 1] = m
  BY AppendFacts
<1>3. /\ \A k \in DOMAIN perf : perf[k] \in 1..Len(iss)
      /\ \A k \in DOMAIN wire : wire[k].id \in 1..Len(iss)
      /\ \A k \in DOMAIN buf : buf[k].id \in 1..Len(iss)
  BY KnownRange DEF Ordered
<1>4. /\ Known(iss, perf, wire, buf) /\ Increasing(iss, perf, wire, buf)
      /\ alive => Complete(iss, perf, wire, buf)
  BY DEF Ordered
<1> HIDE DEF iss2, wire2
<1>a. \A n \in DOMAIN wire2 :
        \/ n \in DOMAIN wire /\ wire2[n] = wire[n]
        \/ n \notin DOMAIN wire /\ wire2[n] = m
  BY AppendFacts DEF wire2
<1>5. Known(iss2, perf, wire2, buf) /\ Known(iss2, perf, wire, buf)
  <2>1. \A k \in DOMAIN buf : buf[k].id <= Len(iss2) /\ iss2[buf[k].id] # "direct"
    BY <1>1, <1>3, <1>4 DEF Known
  <2>2. /\ \A k \in DOMAIN perf : perf[k] <= Len(iss2)
        /\ \A k \in DOMAIN wire : wire[k].id <= Len(iss2)
    BY <1>1, <1>3
  <2>3. \A n \in DOMAIN wire2 : wire2[n].id <= Len(iss2)
    BY <1>1, <1>a, <2>2
  <2> QED
    BY <2>1, <2>2, <2>3 DEF Known
<1>6. Increasing(iss2, perf, wire, buf)
  BY <1>1, <1>3, <1>4 DEF Increasing
<1>7. \A n \in DOMAIN wire2 : iss2[wire2[n].id] # "direct" => n \in DOMAIN wire
  BY <1>1, <1>2
<1>8. Increasing(iss2, perf, wire2, buf)
  BY <1>2, <1>6, <1>7 DEF Increasing
<1>9. ASSUME alive PROVE Complete(iss2, perf, wire2, buf) /\ Complete(iss2, perf, wire, buf)
  <2>1. \A i \in 1..Len(iss2) : iss2[i] # "direct" => i \in 1..Len(iss) /\ iss[i] # "direct"
    BY <1>1
  <2>2. Complete(iss2, perf, wire, buf)
    BY <1>4, <1>9, <2>1 DEF Complete
  <2>3. \A k \in DOMAIN wire : k \in DOMAIN wire2 /\ wire2[k] = wire[k]
    BY <1>2
  <2>4. Complete(iss2, perf, wire2, buf)
    BY <2>2, <2>3 DEF Complete
  <2> QED
    BY <2>2, <2>4
<1> QED
  BY <1>5, <1>6, <1>8, <1>9 DEF Ordered, iss2, wire2

\* The first command on the wire is performed.
LEMMA PerformOrder ==
    ASSUME NEW alive, NEW iss \in Seq(Kinds), NEW perf \in Seq(1..MaxCommands),
           NEW wire \in Seq(Sent), NEW buf \in Seq(Command), wire # <<>>,
           Ordered(alive, iss, perf, wire, buf)
    PROVE  Ordered(alive, iss, Append(perf, Head(wire).id), Tail(wire), buf)
<1> DEFINE perf2 == Append(perf, Head(wire).id)
           wire2 == Tail(wire)
<1>1. /\ \A k \in DOMAIN perf : perf[k] \in 1..Len(iss)
      /\ \A k \in DOMAIN wire : wire[k].id \in 1..Len(iss)
      /\ \A k \in DOMAIN buf : buf[k].id \in 1..Len(iss)
  BY KnownRange DEF Ordered
<1>2. /\ Head(wire) = wire[1] /\ 1 \in DOMAIN wire /\ DOMAIN wire = 1..Len(wire)
      /\ Len(wire) \in Nat /\ DOMAIN wire2 = 1..(Len(wire) - 1)
      /\ \A k \in DOMAIN wire2 : wire2[k] = wire[k + 1] /\ k + 1 \in DOMAIN wire
  OBVIOUS
<1>3. wire[1].id \in 1..MaxCommands
  <2>1. wire[1] \in Sent
    BY <1>2
  <2> QED
    BY <2>1 DEF Sent
<1>4. /\ DOMAIN perf = 1..Len(perf) /\ DOMAIN perf2 = 1..(Len(perf) + 1) /\ Len(perf) \in Nat
      /\ \A i \in 1..Len(perf) : perf2[i] = perf[i]
      /\ perf2[Len(perf) + 1] = wire[1].id
  BY <1>2, <1>3, AppendFacts
<1>5. /\ Known(iss, perf, wire, buf) /\ Increasing(iss, perf, wire, buf)
      /\ alive => Complete(iss, perf, wire, buf)
  BY DEF Ordered
<1>6. Len(iss) \in Nat
  OBVIOUS
<1> HIDE DEF perf2, wire2
<1>a. \A k \in DOMAIN perf2 :
        \/ k \in DOMAIN perf /\ perf2[k] = perf[k]
        \/ k = Len(perf) + 1 /\ perf2[k] = wire[1].id
  BY <1>4
<1>7. Known(iss, perf2, wire2, buf)
  <2>1. \A k \in DOMAIN perf2 : perf2[k] <= Len(iss)
    BY <1>2, <1>5, <1>a DEF Known
  <2>2. \A k \in DOMAIN wire2 : wire2[k].id <= Len(iss)
    BY <1>2, <1>5 DEF Known
  <2> QED
    BY <1>5, <2>1, <2>2 DEF Known
<1>8. Increasing(iss, perf2, wire2, buf)
  <2>1. \A k, n \in DOMAIN perf2 :
          k < n /\ iss[perf2[k]] # "direct" /\ iss[perf2[n]] # "direct" => perf2[k] < perf2[n]
    BY <1>2, <1>4, <1>5 DEF Increasing
  <2>2. \A k \in DOMAIN perf2, n \in DOMAIN wire2 :
          iss[perf2[k]] # "direct" /\ iss[wire2[n].id] # "direct" => perf2[k] < wire2[n].id
    <3> SUFFICES ASSUME NEW k \in DOMAIN perf2, NEW n \in DOMAIN wire2,
                        iss[perf2[k]] # "direct", iss[wire2[n].id] # "direct"
                 PROVE  perf2[k] < wire2[n].id
      OBVIOUS
    <3>1. wire2[n] = wire[n + 1] /\ n + 1 \in DOMAIN wire /\ 1 < n + 1
      BY <1>2
    <3>2. CASE k \in DOMAIN perf
      BY <1>4, <1>5, <3>1, <3>2 DEF Increasing
    <3>3. CASE k = Len(perf) + 1
      BY <1>2, <1>4, <1>5, <3>1, <3>3 DEF Increasing
    <3> QED
      BY <1>4, <3>2, <3>3
  <2>3. \A k, n \in DOMAIN wire2 :
          k < n /\ iss[wire2[k].id] # "direct" /\ iss[wire2[n].id] # "direct"
              => wire2[k].id < wire2[n].id
    <3> SUFFICES ASSUME NEW k \in DOMAIN wire2, NEW n \in DOMAIN wire2, k < n,
                        iss[wire2[k].id] # "direct", iss[wire2[n].id] # "direct"
                 PROVE  wire2[k].id < wire2[n].id
      OBVIOUS
    <3>1. /\ wire2[n] = wire[n + 1] /\ n + 1 \in DOMAIN wire
          /\ wire2[k] = wire[k + 1] /\ k + 1 \in DOMAIN wire /\ k + 1 < n + 1
      BY <1>2
    <3> QED
      BY <1>5, <3>1 DEF Increasing
  <2>4. \A k \in DOMAIN perf2, n \in DOMAIN buf : iss[perf2[k]] # "direct" => perf2[k] < buf[n].id
    BY <1>2, <1>a, <1>5 DEF Increasing
  <2>5. \A k \in DOMAIN wire2, n \in DOMAIN buf :
          iss[wire2[k].id] # "direct" => wire2[k].id < buf[n].id
    BY <1>2, <1>5 DEF Increasing
  <2> QED
    BY <1>5, <2>1, <2>2, <2>3, <2>4, <2>5 DEF Increasing
<1>9. ASSUME alive PROVE Complete(iss, perf2, wire2, buf)
  <2> SUFFICES ASSUME NEW i \in 1..Len(iss), iss[i] # "direct"
               PROVE  \/ \E k \in DOMAIN perf2 : perf2[k] = i
                      \/ \E k \in DOMAIN wire2 : wire2[k].id = i
                      \/ \E k \in DOMAIN buf : buf[k].id = i
    BY DEF Complete
  <2>1. CASE \E k \in DOMAIN perf : perf[k] = i
    BY <1>4, <2>1
  <2>2. ASSUME NEW k \in DOMAIN wire, wire[k].id = i
        PROVE  \/ \E n \in DOMAIN perf2 : perf2[n] = i
               \/ \E n \in DOMAIN wire2 : wire2[n].id = i
    <3>1. CASE k = 1
      <4>1. Len(perf) + 1 \in DOMAIN perf2 /\ perf2[Len(perf) + 1] = i
        BY <1>4, <2>2, <3>1
      <4> QED
        BY <4>1
    <3>2. CASE k # 1
      <4>1. k - 1 \in DOMAIN wire2 /\ (k - 1) + 1 = k
        BY <1>2, <3>2
      <4> QED
        BY <1>2, <2>2, <4>1
    <3> QED
      BY <3>1, <3>2
  <2> QED
    BY <1>5, <1>9, <2>1, <2>2 DEF Complete
<1> QED
  BY <1>7, <1>8, <1>9 DEF Ordered, perf2, wire2

\* The connection is lost, with what is on the wire.
LEMMA BreakOrder ==
    ASSUME NEW alive, NEW iss, NEW perf, NEW wire, NEW buf,
           Ordered(alive, iss, perf, wire, buf)
    PROVE  Ordered(FALSE, iss, perf, <<>>, buf)
<1>1. DOMAIN << >> = {}
  OBVIOUS
<1> QED
  BY <1>1 DEF Ordered, Known, Increasing

-----------------------------------------------------------------------------
(* The steps of the client and the server.                                 *)

Order == Ordered(open, issued, performed, up, pending)

\* Every step that performs nothing keeps what was performed without gaps.
LEMMA NothingPerformed ==
    ASSUME Logged, Counted, Order, NoneSkipped, performed' = performed,
           \A i \in 1..Len(issued) : issued'[i] = issued[i]
    PROVE  NoneSkipped'
<1>1. \A j \in Done : j \in 1..Len(issued)
  <2>1. \A k \in DOMAIN performed : performed[k] \in 1..MaxCommands
    BY ElementFacts DEF Counted
  <2>2. \A k \in DOMAIN performed : performed[k] <= Len(issued)
    BY DEF Order, Ordered, Known
  <2> QED
    BY <2>1, <2>2, StreamAssumption, ElementFacts DEF Done, Logged
<1>2. Done' = Done
  BY DEF Done
<1>3. ASSUME NEW j \in Done, NEW i \in 1..j, Ring(i)', Ring(j)' PROVE i \in Done
  <2>1. i \in 1..Len(issued) /\ j \in 1..Len(issued)
    BY <1>1, ElementFacts DEF Logged
  <2>2. Ring(i) /\ Ring(j)
    BY <1>3, <2>1 DEF Ring
  <2> QED
    BY <2>2 DEF NoneSkipped
<1> QED
  BY <1>2, <1>3 DEF NoneSkipped

\* vn_ring_flush_pending keeps the order of what it sends and keeps.
LEMMA FlushStep ==
    ASSUME NEW iss \in Seq(Kinds), Counted, Wired, NEW buf \in Seq(Command),
           Ordered(open, iss, performed, up, buf), Flush(buf)
    PROVE  Ordered(open, iss, performed, up', pending')
<1>1. performed \in Seq(1..MaxCommands) /\ up \in Seq(Sent)
  BY DEF Counted, Wired
<1>2. Ordered(open, iss, performed, up \o Message(buf), <<>>)
  BY <1>1, FlushOrder
<1> QED
  BY <1>2 DEF Flush

\* vn_ring_submit_command, with the command that is issued.
LEMMA SubmitStep ==
    ASSUME Logged, Counted, Wired, Buffered, Order,
           NEW kind \in Kinds, kind # "direct", Issue(kind),
           NEW size \in AsyncSize \cup SyncSize, SubmitCommand(size),
           UNCHANGED <<open, performed>>
    PROVE  Order'
<1> DEFINE cmd    == [id |-> NextId, size |-> size]
           buffer == Append(pending, cmd)
<1>1. NextId = Len(issued) + 1 /\ NextId \in 1..MaxCommands /\ Logged'
  BY IssueTypes
<1>2. cmd \in Command /\ cmd.id = Len(issued) + 1
  BY <1>1 DEF Command
<1>3. /\ issued \in Seq(Kinds) /\ performed \in Seq(1..MaxCommands)
      /\ up \in Seq(Sent) /\ pending \in Seq(Command)
  BY DEF Logged, Counted, Wired, Buffered
<1>4. issued' = Append(issued, kind)
  BY DEF Issue
<1>5. Flush(buffer) \/ (pending' = buffer /\ up' = up)
  BY DEF SubmitCommand
<1> HIDE DEF cmd
<1>6. buffer \in Seq(Command)
  BY <1>2, <1>3, AppendFacts
<1>7. Ordered(open, Append(issued, kind), performed, up, buffer)
  BY <1>2, <1>3, BufferOrder DEF Order
<1> HIDE DEF buffer
<1>8. issued' \in Seq(Kinds)
  BY <1>1 DEF Logged
<1>9. Ordered(open, issued', performed, up', pending')
  <2>1. CASE Flush(buffer)
    BY <1>4, <1>6, <1>7, <1>8, <2>1, FlushStep
  <2>2. CASE pending' = buffer /\ up' = up
    BY <1>4, <1>7, <2>2
  <2> QED
    BY <1>5, <2>1, <2>2
<1> QED
  BY <1>9 DEF Order

\* What a step of the server performs.
LEMMA PerformedNow ==
    ASSUME TypeOK, Perform
    PROVE  Done' = Done \cup {Head(up).id}
<1> DEFINE id == Head(up).id
<1>1. performed \in Seq(1..MaxCommands) /\ up \in Seq(Sent) /\ up # <<>>
  BY DEF TypeOK, Perform
<1>2. id \in 1..MaxCommands
  <2>1. Head(up) \in Sent
    BY <1>1
  <2> QED
    BY <2>1 DEF Sent
<1>3. performed' = Append(performed, id)
  BY DEF Perform
<1> HIDE DEF id
<1>4. /\ DOMAIN performed = 1..Len(performed) /\ Len(performed) \in Nat
      /\ DOMAIN performed' = 1..(Len(performed) + 1)
      /\ \A k \in 1..Len(performed) : performed'[k] = performed[k]
      /\ performed'[Len(performed) + 1] = id
  BY <1>1, <1>2, <1>3, AppendFacts
<1>5. Done' = Done \cup {id}
  BY <1>4 DEF Done
<1> QED
  BY <1>5 DEF id

LEMMA OrderStep == TypeOK /\ Order /\ NoneSkipped /\ [Next]_vars => Order' /\ NoneSkipped'
<1> SUFFICES ASSUME TypeOK, Order, NoneSkipped, [Next]_vars PROVE Order' /\ NoneSkipped'
  OBVIOUS
<1>a. Logged /\ Buffered /\ Wired /\ Counted
  BY TypeParts
<1>b. /\ issued \in Seq(Kinds) /\ performed \in Seq(1..MaxCommands)
      /\ up \in Seq(Sent) /\ pending \in Seq(Command)
  BY <1>a DEF Logged, Counted, Wired, Buffered
<1>c. ASSUME UNCHANGED <<issued, pending, up, open, performed>> PROVE Order' /\ NoneSkipped'
  BY <1>a, <1>c, NothingPerformed DEF Order
<1>1. CASE Perform
  <2> DEFINE id == Head(up).id
  <2>1. /\ up # <<>> /\ open /\ up' = Tail(up) /\ performed' = Append(performed, id)
        /\ UNCHANGED <<issued, pending, open>>
    BY <1>1 DEF Perform, client
  <2>2. Order'
    BY <1>b, <2>1, PerformOrder DEF Order
  <2>3. id = up[1].id /\ 1 \in DOMAIN up /\ DOMAIN up = 1..Len(up) /\ Len(up) \in Nat
    BY <1>b, <2>1
  <2>4. /\ \A k \in DOMAIN performed : performed[k] \in 1..Len(issued)
        /\ \A k \in DOMAIN up : up[k].id \in 1..Len(issued)
        /\ \A k \in DOMAIN pending : pending[k].id \in 1..Len(issued)
    BY <1>b, KnownRange DEF Order, Ordered
  <2>5. Done' = Done \cup {id}
    BY <1>1, PerformedNow
  <2>6. ASSUME NEW i \in 1..id, Ring(i), Ring(id) PROVE i \in Done \cup {id}
    <3>1. id \in 1..Len(issued) /\ i \in 1..Len(issued) /\ Len(issued) \in Nat
      BY <1>b, <2>3, <2>4, ElementFacts
    <3>2. /\ Complete(issued, performed, up, pending)
          /\ Increasing(issued, performed, up, pending)
      BY <2>1 DEF Order, Ordered
    <3>3. CASE \E k \in DOMAIN performed : performed[k] = i
      BY <3>3 DEF Done
    <3>4. ASSUME NEW k \in DOMAIN up, up[k].id = i PROVE i = id
      <4>1. CASE k = 1
        BY <2>3, <3>4, <4>1
      <4>2. CASE 1 < k
        <5>1. id < i
          BY <2>3, <2>6, <3>2, <3>4, <4>2 DEF Increasing, Ring
        <5> QED
          BY <3>1, <5>1
      <4> QED
        BY <2>3, <4>1, <4>2
    <3>5. ASSUME NEW k \in DOMAIN pending, pending[k].id = i PROVE FALSE
      <4>1. id < i
        BY <2>3, <2>6, <3>2, <3>5 DEF Increasing, Ring
      <4> QED
        BY <3>1, <4>1
    <3> QED
      BY <2>6, <3>1, <3>2, <3>3, <3>4, <3>5 DEF Complete, Ring
  <2>7. NoneSkipped'
    <3> HIDE DEF id
    <3>1. \A i : Ring(i)' <=> Ring(i)
      BY <2>1 DEF Ring
    <3> QED
      BY <2>5, <2>6, <3>1 DEF NoneSkipped
  <2> QED
    BY <2>2, <2>7
<1>2. CASE Break
  <2>1. up' = <<>> /\ open' = FALSE /\ UNCHANGED <<issued, pending, performed>>
    BY <1>2 DEF Break, client
  <2>2. Order'
    BY <2>1, BreakOrder DEF Order
  <2> QED
    BY <1>a, <2>1, <2>2, NothingPerformed
<1>3. CASE Finished \/ UNCHANGED vars
  BY <1>3, <1>c DEF Finished, vars, client, server
<1>4. ASSUME NEW t \in Thread, Async(t) \/ BeginCall(t) PROVE Order' /\ NoneSkipped'
  <2>1. PICK kind \in {"async", "sync"} : Issue(kind)
    BY <1>4 DEF Async, BeginCall
  <2>2. PICK size \in AsyncSize \cup SyncSize : SubmitCommand(size)
    BY <1>4 DEF Async, BeginCall
  <2>3. UNCHANGED <<open, performed>>
    BY <1>4 DEF Async, BeginCall, server
  <2>4. kind \in Kinds /\ kind # "direct"
    BY <2>1 DEF Kinds
  <2>5. Order'
    BY <1>a, <2>1, <2>2, <2>3, <2>4, SubmitStep
  <2>6. \A i \in 1..Len(issued) : issued'[i] = issued[i]
    BY <1>a, <2>1, <2>4, IssueTypes
  <2> QED
    BY <1>a, <2>3, <2>5, <2>6, NothingPerformed
<1>5. ASSUME NEW t \in Thread, SendDirect(t) PROVE Order' /\ NoneSkipped'
  <2>1. Issue("direct") /\ "direct" \in Kinds /\ UNCHANGED <<open, pending, performed>>
    BY <1>5 DEF SendDirect, Kinds, server
  <2>2. /\ NextId = Len(issued) + 1 /\ NextId \in 1..MaxCommands
        /\ \A i \in 1..Len(issued) : issued'[i] = issued[i]
    BY <1>a, <2>1, IssueTypes
  <2> DEFINE m == [id |-> NextId, last |-> TRUE]
  <2>3. m \in Sent /\ m.id = Len(issued) + 1
    BY <2>2 DEF Sent
  <2>4. up' = Append(up, m) \/ up' = up
    BY <1>5 DEF SendDirect
  <2>5. issued' = Append(issued, "direct")
    BY <2>1 DEF Issue
  <2> HIDE DEF m
  <2>6. Order'
    BY <1>b, <2>1, <2>3, <2>4, <2>5, DirectOrder DEF Order
  <2> QED
    BY <1>a, <2>1, <2>2, <2>6, NothingPerformed
<1>6. ASSUME NEW t \in Thread, NothingToFlush(t) \/ Receive(t) \/ ReceiveFails(t)
      PROVE  Order' /\ NoneSkipped'
  BY <1>6, <1>c DEF NothingToFlush, Receive, ReceiveFails, server
<1>7. ASSUME NEW t \in Thread, FlushForReply(t) PROVE Order' /\ NoneSkipped'
  <2>1. Flush(pending) /\ UNCHANGED <<issued, open, performed>>
    BY <1>7 DEF FlushForReply, server
  <2>2. Order'
    BY <1>a, <1>b, <2>1, FlushStep DEF Order
  <2> QED
    BY <1>a, <2>1, <2>2, NothingPerformed
<1> QED
  BY <1>1, <1>2, <1>3, <1>4, <1>5, <1>6, <1>7 DEF Next, Client

LEMMA InitOrder == Init => Order /\ NoneSkipped
<1> SUFFICES ASSUME Init PROVE Order /\ NoneSkipped
  OBVIOUS
<1>1. issued = <<>> /\ pending = <<>> /\ up = <<>> /\ performed = <<>>
  BY DEF Init
<1>2. DOMAIN <<>> = {} /\ Len(<<>>) = 0
  OBVIOUS
<1>3. 1..0 = {}
  OBVIOUS
<1>4. Order
  BY <1>1, <1>2, <1>3 DEF Order, Ordered, Known, Increasing, Complete
<1> QED
  BY <1>1, <1>2, <1>4 DEF NoneSkipped, Done

\* With the connection up or lost, for any number of threads that share the
\* ring without a lock: the commands that went through vn_ring_submit_command
\* are performed in the order they were issued, none skipped and none twice.
THEOREM PerformedInIssueOrder == Spec => []PerformedInOrder
<1>1. Init => RingInv
  BY InitTypes, InitOrder DEF RingInv, Order
<1>2. RingInv /\ [Next]_vars => RingInv'
  BY TypeStep, OrderStep DEF RingInv, Order
<1>3. RingInv => PerformedInOrder
  BY DEF RingInv, Ordered, Increasing, NoneSkipped, PerformedInOrder, Ring
<1> QED
  BY <1>1, <1>2, <1>3, PTL DEF Spec

-----------------------------------------------------------------------------
(* One thread.  What follows is about an application whose Vulkan calls    *)
(* come from a single thread: with two, a reply can reach the wrong call.  *)

OneThread == \A t, u \in Thread : t = u

\* No call comes between the async command i and command j.
Unawaited(iss, i, j) == iss[i] = "async" /\ \A k \in i..j-1 : iss[k] # "sync"

\* Every command before one on the wire is performed, or on the wire before it,
\* or nothing has waited for it.
Followed(iss, done, wire) ==
    \A n \in DOMAIN wire : \A i \in 1..wire[n].id :
        \/ i \in done
        \/ \E m \in 1..n : wire[m].id = i
        \/ Unawaited(iss, i, wire[n].id)

\* No command is lost, those past the buffer included.
Accounted(iss, done, wire, buf) ==
    \A i \in 1..Len(iss) :
        \/ i \in done
        \/ \E n \in DOMAIN wire : wire[n].id = i
        \/ \E n \in DOMAIN buf : buf[n].id = i

\* Outside a call, nothing has waited for what is in the buffer.
Waiting(iss, buf) == \A n \in DOMAIN buf : Unawaited(iss, buf[n].id, Len(iss) + 1)

Overtaken ==
    open => /\ Accounted(issued, Done, up, pending)
            /\ Followed(issued, Done, up)
            /\ (\A t \in Thread : call[t].step # "reply") => Waiting(issued, pending)

-----------------------------------------------------------------------------
(* What the steps do to the commands a message past the buffer overtakes.  *)

\* What a flush puts on the wire, element by element.
LEMMA SentFacts ==
    ASSUME NEW wire \in Seq(Sent), NEW buf \in Seq(Command)
    PROVE  /\ wire \o Message(buf) \in Seq(Sent)
           /\ Len(wire) \in Nat /\ Len(buf) \in Nat
           /\ DOMAIN wire = 1..Len(wire) /\ DOMAIN buf = 1..Len(buf)
           /\ DOMAIN (wire \o Message(buf)) = 1..(Len(wire) + Len(buf))
           /\ \A n \in 1..Len(wire) : (wire \o Message(buf))[n] = wire[n]
           /\ \A n \in 1..Len(buf) :
                /\ (wire \o Message(buf))[Len(wire) + n].id = buf[n].id
                /\ (wire \o Message(buf))[Len(wire) + n].last <=> n = Len(buf)
<1> DEFINE msg == Message(buf)
<1>1. msg \in Seq(Sent) /\ Len(msg) = Len(buf) /\ \A i \in DOMAIN buf : msg[i].id = buf[i].id
  BY MessageTypes
<1>2. \A i \in DOMAIN buf : msg[i].last <=> i = Len(buf)
  BY DEF Message
<1>3. DOMAIN buf = 1..Len(buf) /\ Len(buf) \in Nat
  OBVIOUS
<1> HIDE DEF msg
<1>4. /\ wire \o msg \in Seq(Sent) /\ Len(wire) \in Nat
      /\ DOMAIN wire = 1..Len(wire)
      /\ DOMAIN (wire \o msg) = 1..(Len(wire) + Len(buf))
      /\ \A i \in 1..Len(wire) : (wire \o msg)[i] = wire[i]
      /\ \A i \in 1..Len(buf) : (wire \o msg)[Len(wire) + i] = msg[i]
  <2>m. msg \in Seq(Sent)
    BY <1>1
  <2>1. /\ wire \o msg \in Seq(Sent) /\ Len(wire) \in Nat /\ DOMAIN wire = 1..Len(wire)
        /\ DOMAIN (wire \o msg) = 1..(Len(wire) + Len(msg))
        /\ \A i \in 1..Len(wire) : (wire \o msg)[i] = wire[i]
        /\ \A i \in 1..Len(msg) : (wire \o msg)[Len(wire) + i] = msg[i]
    BY <2>m, ConcatFacts
  <2> QED
    BY <1>1, <2>1
<1>5. ASSUME NEW n \in 1..Len(buf)
      PROVE  /\ (wire \o msg)[Len(wire) + n].id = buf[n].id
             /\ (wire \o msg)[Len(wire) + n].last <=> n = Len(buf)
  BY <1>1, <1>2, <1>3, <1>4
<1> QED
  BY <1>3, <1>4, <1>5 DEF msg

\* What was not waited for before a command is issued is not afterwards.
LEMMA StillUnawaited ==
    ASSUME NEW iss \in Seq(Kinds), NEW kind \in Kinds,
           NEW i \in 1..Len(iss), NEW j \in 1..(Len(iss) + 1), Unawaited(iss, i, j)
    PROVE  /\ Unawaited(Append(iss, kind), i, j)
           /\ kind # "sync" /\ j = Len(iss) + 1 => Unawaited(Append(iss, kind), i, j + 1)
<1>1. /\ Len(iss) \in Nat
      /\ \A k \in 1..Len(iss) : Append(iss, kind)[k] = iss[k]
      /\ Append(iss, kind)[Len(iss) + 1] = kind
  BY AppendFacts
<1>2. ASSUME NEW k \in i..j-1 PROVE Append(iss, kind)[k] # "sync"
  BY <1>1, <1>2 DEF Unawaited
<1>3. ASSUME kind # "sync", j = Len(iss) + 1, NEW k \in i..(j + 1)-1
      PROVE  Append(iss, kind)[k] # "sync"
  BY <1>1, <1>3 DEF Unawaited
<1> QED
  BY <1>1, <1>2, <1>3 DEF Unawaited

\* A command is issued.
LEMMA IssueOvertakes ==
    ASSUME NEW iss \in Seq(Kinds), NEW kind \in Kinds, NEW done \in SUBSET (1..Len(iss)),
           NEW wire \in Seq(Sent), NEW buf \in Seq(Command),
           \A n \in DOMAIN wire : wire[n].id \in 1..Len(iss),
           \A n \in DOMAIN buf : buf[n].id \in 1..Len(iss)
    PROVE  /\ Followed(iss, done, wire) => Followed(Append(iss, kind), done, wire)
           /\ kind # "sync" /\ Waiting(iss, buf) => Waiting(Append(iss, kind), buf)
<1> DEFINE iss2 == Append(iss, kind)
<1>1. Len(iss) \in Nat /\ Len(iss2) = Len(iss) + 1
  BY AppendFacts
<1>2. ASSUME NEW i \in 1..Len(iss), NEW j \in 1..(Len(iss) + 1), Unawaited(iss, i, j)
      PROVE  /\ Unawaited(iss2, i, j)
             /\ kind # "sync" /\ j = Len(iss) + 1 => Unawaited(iss2, i, j + 1)
  BY <1>2, StillUnawaited
<1> HIDE DEF iss2
<1>3. ASSUME Followed(iss, done, wire) PROVE Followed(iss2, done, wire)
  <2> SUFFICES ASSUME NEW n \in DOMAIN wire, NEW i \in 1..wire[n].id,
                      Unawaited(iss, i, wire[n].id)
               PROVE  Unawaited(iss2, i, wire[n].id)
    BY <1>3 DEF Followed
  <2>1. i \in 1..Len(iss) /\ wire[n].id \in 1..(Len(iss) + 1)
    BY <1>1
  <2> QED
    BY <1>2, <2>1
<1>4. ASSUME kind # "sync", Waiting(iss, buf) PROVE Waiting(iss2, buf)
  <2> SUFFICES ASSUME NEW n \in DOMAIN buf PROVE Unawaited(iss2, buf[n].id, Len(iss2) + 1)
    BY DEF Waiting
  <2>1. Unawaited(iss, buf[n].id, Len(iss) + 1) /\ buf[n].id \in 1..Len(iss)
    BY <1>4 DEF Waiting
  <2>2. Len(iss) + 1 \in 1..(Len(iss) + 1)
    BY <1>1
  <2> QED
    BY <1>1, <1>2, <1>4, <2>1, <2>2
<1> QED
  BY <1>3, <1>4 DEF iss2

\* The buffer is put on the wire.
LEMMA FlushOvertakes ==
    ASSUME NEW iss \in Seq(Kinds), NEW done \in SUBSET (1..Len(iss)),
           NEW wire \in Seq(Sent), NEW buf \in Seq(Command),
           \A n \in DOMAIN wire : wire[n].id \in 1..Len(iss),
           \A n \in DOMAIN buf : buf[n].id \in 1..Len(iss),
           \A k, n \in DOMAIN buf : k < n => buf[k].id < buf[n].id,
           Accounted(iss, done, wire, buf), Followed(iss, done, wire)
    PROVE  /\ Accounted(iss, done, wire \o Message(buf), <<>>)
           /\ Followed(iss, done, wire \o Message(buf))
<1> DEFINE wire2 == wire \o Message(buf)
<1>1. /\ Len(wire) \in Nat /\ Len(buf) \in Nat
      /\ DOMAIN wire = 1..Len(wire) /\ DOMAIN buf = 1..Len(buf)
      /\ DOMAIN wire2 = 1..(Len(wire) + Len(buf))
      /\ \A n \in 1..Len(wire) : wire2[n] = wire[n]
      /\ \A n \in 1..Len(buf) : wire2[Len(wire) + n].id = buf[n].id
  BY SentFacts
<1> HIDE DEF wire2
<1>2. \A k \in DOMAIN buf : Len(wire) + k \in DOMAIN wire2
  BY <1>1
<1>3. \A k \in DOMAIN wire : k \in DOMAIN wire2
  BY <1>1
<1>4. Accounted(iss, done, wire2, <<>>)
  <2> SUFFICES ASSUME NEW i \in 1..Len(iss), i \notin done
               PROVE  \E n \in DOMAIN wire2 : wire2[n].id = i
    BY DEF Accounted
  <2>1. CASE \E n \in DOMAIN wire : wire[n].id = i
    BY <1>1, <1>3, <2>1
  <2>2. CASE \E n \in DOMAIN buf : buf[n].id = i
    BY <1>1, <1>2, <2>2
  <2> QED
    BY <2>1, <2>2 DEF Accounted
<1>5. Followed(iss, done, wire2)
  <2> SUFFICES ASSUME NEW n \in DOMAIN wire2, NEW i \in 1..wire2[n].id, i \notin done,
                      \A m \in 1..n : wire2[m].id # i
               PROVE  Unawaited(iss, i, wire2[n].id)
    BY DEF Followed
  <2>1. CASE n \in DOMAIN wire
    <3>1. wire2[n] = wire[n] /\ n \in 1..Len(wire)
      BY <1>1, <2>1
    <3>2. \A m \in 1..n : wire[m].id # i
      BY <1>1, <3>1
    <3> QED
      BY <2>1, <3>1, <3>2 DEF Followed
  <2>2. ASSUME n \notin DOMAIN wire PROVE FALSE
    <3> DEFINE p == n - Len(wire)
    <3>1. n \in Nat /\ p \in DOMAIN buf /\ n = Len(wire) + p /\ n > Len(wire)
      BY <1>1, <2>2
    <3>2. wire2[n].id = buf[p].id
      BY <1>1, <3>1
    <3>3. buf[p].id \in 1..Len(iss)
      BY <3>1
    <3>4. i \in 1..Len(iss) /\ i <= buf[p].id
      BY <3>2, <3>3
    <3>5. ASSUME NEW m \in DOMAIN wire PROVE wire[m].id # i
      <4>1. m \in 1..n /\ wire2[m] = wire[m]
        BY <1>1, <3>1
      <4> QED
        BY <4>1
    <3>6. ASSUME NEW m \in DOMAIN buf, buf[m].id = i PROVE FALSE
      <4>1. CASE m <= p
        <5>1. Len(wire) + m \in 1..n /\ wire2[Len(wire) + m].id = i
          BY <1>1, <3>1, <3>6, <4>1
        <5> QED
          BY <5>1
      <4>2. CASE p < m
        <5>1. buf[p].id < buf[m].id
          BY <3>1, <4>2
        <5> QED
          BY <3>3, <3>4, <3>6, <5>1
      <4> QED
        BY <1>1, <3>1, <4>1, <4>2
    <3> QED
      BY <3>4, <3>5, <3>6 DEF Accounted
  <2> QED
    BY <2>1, <2>2
<1> QED
  BY <1>4, <1>5 DEF wire2

\* The first command on the wire is performed: what it overtakes is unawaited.
LEMMA PerformOvertakes ==
    ASSUME NEW iss \in Seq(Kinds), NEW done \in SUBSET (1..Len(iss)),
           NEW wire \in Seq(Sent), NEW buf \in Seq(Command), wire # <<>>,
           \A n \in DOMAIN wire : wire[n].id \in 1..Len(iss),
           Accounted(iss, done, wire, buf), Followed(iss, done, wire)
    PROVE  /\ Accounted(iss, done \cup {Head(wire).id}, Tail(wire), buf)
           /\ Followed(iss, done \cup {Head(wire).id}, Tail(wire))
           /\ \A i \in 1..Head(wire).id :
                i \notin done \cup {Head(wire).id} => Unawaited(iss, i, Head(wire).id)
<1> DEFINE wire2 == Tail(wire)
           done2 == done \cup {wire[1].id}
<1>1. /\ Head(wire) = wire[1] /\ 1 \in DOMAIN wire /\ DOMAIN wire = 1..Len(wire)
      /\ Len(wire) \in Nat /\ DOMAIN wire2 = 1..(Len(wire) - 1)
      /\ \A k \in DOMAIN wire2 : wire2[k] = wire[k + 1] /\ k + 1 \in DOMAIN wire
  OBVIOUS
<1> HIDE DEF wire2
<1>2. \A n \in DOMAIN wire : n = 1 \/ (n - 1 \in DOMAIN wire2 /\ wire2[n - 1] = wire[n])
  BY <1>1
<1>3. Accounted(iss, done2, wire2, buf)
  <2> SUFFICES ASSUME NEW i \in 1..Len(iss), i \notin done2, NEW n \in DOMAIN wire, wire[n].id = i
               PROVE  \E m \in DOMAIN wire2 : wire2[m].id = i
    BY DEF Accounted
  <2> QED
    BY <1>2
<1>4. Followed(iss, done2, wire2)
  <2> SUFFICES ASSUME NEW n \in DOMAIN wire2, NEW i \in 1..wire2[n].id, i \notin done2,
                      \A m \in 1..n : wire2[m].id # i
               PROVE  Unawaited(iss, i, wire2[n].id)
    BY DEF Followed
  <2>1. wire2[n] = wire[n + 1] /\ n + 1 \in DOMAIN wire /\ n \in Nat
    BY <1>1
  <2>2. ASSUME NEW m \in 1..n + 1 PROVE wire[m].id # i
    <3>1. CASE m = 1
      BY <3>1
    <3>2. CASE m # 1
      <4>1. m \in DOMAIN wire /\ m - 1 \in 1..n
        BY <1>1, <2>1, <3>2
      <4> QED
        BY <1>2, <3>2, <4>1
    <3> QED
      BY <3>1, <3>2
  <2> QED
    BY <2>1, <2>2 DEF Followed
<1>5. ASSUME NEW i \in 1..wire[1].id, i \notin done2 PROVE Unawaited(iss, i, wire[1].id)
  <2>1. \A m \in 1..1 : wire[m].id # i
    BY <1>5
  <2> QED
    BY <1>1, <1>5, <2>1 DEF Followed
<1> QED
  BY <1>1, <1>3, <1>4, <1>5 DEF wire2, done2

\* A command of the ring is issued and put at the end of the buffer.
LEMMA BufferOvertakes ==
    ASSUME NEW iss \in Seq(Kinds), NEW kind \in Kinds, NEW done \in SUBSET (1..Len(iss)),
           NEW wire \in Seq(Sent), NEW buf \in Seq(Command),
           NEW cmd \in Command, cmd.id = Len(iss) + 1,
           \A n \in DOMAIN buf : buf[n].id \in 1..Len(iss)
    PROVE  /\ Accounted(iss, done, wire, buf)
                => Accounted(Append(iss, kind), done, wire, Append(buf, cmd))
           /\ kind = "async" /\ Waiting(iss, buf)
                => Waiting(Append(iss, kind), Append(buf, cmd))
<1> DEFINE iss2 == Append(iss, kind)
           buf2 == Append(buf, cmd)
<1>1. /\ Len(iss) \in Nat /\ Len(iss2) = Len(iss) + 1
      /\ iss2[Len(iss) + 1] = kind
  BY AppendFacts
<1>2. /\ DOMAIN buf = 1..Len(buf) /\ DOMAIN buf2 = 1..(Len(buf) + 1) /\ Len(buf) \in Nat
      /\ \A i \in 1..Len(buf) : buf2[i] = buf[i]
      /\ buf2[Len(buf) + 1] = cmd
  BY AppendFacts
<1>3. \A n \in DOMAIN wire : wire[n] \in Sent
  OBVIOUS
<1>4. kind # "sync" /\ Waiting(iss, buf) => Waiting(iss2, buf)
  <2> SUFFICES ASSUME kind # "sync", Waiting(iss, buf), NEW n \in DOMAIN buf
               PROVE  Unawaited(iss2, buf[n].id, Len(iss2) + 1)
    BY DEF Waiting
  <2>1. Unawaited(iss, buf[n].id, Len(iss) + 1) /\ buf[n].id \in 1..Len(iss)
    BY DEF Waiting
  <2>2. Len(iss) + 1 \in 1..(Len(iss) + 1)
    BY <1>1
  <2> QED
    BY <1>1, <2>1, <2>2, StillUnawaited
<1> HIDE DEF iss2, buf2
<1>5. ASSUME Accounted(iss, done, wire, buf) PROVE Accounted(iss2, done, wire, buf2)
  <2> SUFFICES ASSUME NEW i \in 1..Len(iss2)
               PROVE  \/ i \in done
                      \/ \E n \in DOMAIN wire : wire[n].id = i
                      \/ \E n \in DOMAIN buf2 : buf2[n].id = i
    BY DEF Accounted
  <2>1. CASE i \in 1..Len(iss)
    <3>1. \A n \in DOMAIN buf : n \in DOMAIN buf2 /\ buf2[n] = buf[n]
      BY <1>2
    <3> QED
      BY <1>5, <2>1, <3>1 DEF Accounted
  <2>2. CASE i = Len(iss) + 1
    <3>1. Len(buf) + 1 \in DOMAIN buf2 /\ buf2[Len(buf) + 1].id = i
      BY <1>2, <2>2
    <3> QED
      BY <3>1
  <2> QED
    BY <1>1, <2>1, <2>2
<1>6. ASSUME kind = "async", Waiting(iss, buf) PROVE Waiting(iss2, buf2)
  <2> SUFFICES ASSUME NEW n \in DOMAIN buf2 PROVE Unawaited(iss2, buf2[n].id, Len(iss2) + 1)
    BY DEF Waiting
  <2>1. CASE n \in DOMAIN buf
    BY <1>2, <1>4, <1>6, <2>1 DEF Waiting
  <2>2. CASE n \notin DOMAIN buf
    <3>1. buf2[n].id = Len(iss) + 1
      BY <1>2, <2>2
    <3>2. \A k \in (Len(iss) + 1)..((Len(iss) + 2) - 1) : k = Len(iss) + 1
      BY <1>1
    <3> QED
      BY <1>1, <1>6, <3>1, <3>2 DEF Unawaited
  <2> QED
    BY <2>1, <2>2
<1> QED
  BY <1>5, <1>6 DEF iss2, buf2

\* A message past the buffer is issued and put on the wire.
LEMMA DirectOvertakes ==
    ASSUME NEW iss \in Seq(Kinds), NEW done \in SUBSET (1..Len(iss)),
           NEW wire \in Seq(Sent), NEW buf \in Seq(Command),
           NEW m \in Sent, m.id = Len(iss) + 1,
           \A n \in DOMAIN wire : wire[n].id \in 1..Len(iss),
           \A n \in DOMAIN buf : buf[n].id \in 1..Len(iss),
           Accounted(iss, done, wire, buf), Followed(iss, done, wire), Waiting(iss, buf)
    PROVE  /\ Accounted(Append(iss, "direct"), done, Append(wire, m), buf)
           /\ Followed(Append(iss, "direct"), done, Append(wire, m))
<1> DEFINE iss2  == Append(iss, "direct")
           wire2 == Append(wire, m)
<1>0. "direct" \in Kinds
  BY DEF Kinds
<1>1. Len(iss) \in Nat /\ Len(iss2) = Len(iss) + 1
  BY <1>0, AppendFacts
<1>2. /\ DOMAIN wire = 1..Len(wire) /\ DOMAIN wire2 = 1..(Len(wire) + 1) /\ Len(wire) \in Nat
      /\ \A i \in 1..Len(wire) : wire2[i] = wire[i]
      /\ wire2[Len(wire) + 1] = m
  BY AppendFacts
<1>3. Followed(iss2, done, wire)
  BY <1>0, IssueOvertakes
<1>4. ASSUME NEW n \in DOMAIN buf PROVE Unawaited(iss2, buf[n].id, Len(iss) + 1)
  <2>1. Unawaited(iss, buf[n].id, Len(iss) + 1) /\ buf[n].id \in 1..Len(iss)
    BY DEF Waiting
  <2>2. Len(iss) + 1 \in 1..(Len(iss) + 1)
    BY <1>1
  <2> QED
    BY <1>0, <2>1, <2>2, StillUnawaited
<1> HIDE DEF iss2, wire2
<1>5. \A n \in DOMAIN wire : n \in DOMAIN wire2 /\ wire2[n] = wire[n]
  BY <1>2
<1>6. Accounted(iss2, done, wire2, buf)
  <2> SUFFICES ASSUME NEW i \in 1..Len(iss2)
               PROVE  \/ i \in done
                      \/ \E n \in DOMAIN wire2 : wire2[n].id = i
                      \/ \E n \in DOMAIN buf : buf[n].id = i
    BY DEF Accounted
  <2>1. CASE i \in 1..Len(iss)
    BY <1>5, <2>1 DEF Accounted
  <2>2. CASE i = Len(iss) + 1
    <3>1. Len(wire) + 1 \in DOMAIN wire2 /\ wire2[Len(wire) + 1].id = i
      BY <1>2, <2>2
    <3> QED
      BY <3>1
  <2> QED
    BY <1>1, <2>1, <2>2
<1>7. Followed(iss2, done, wire2)
  <2> SUFFICES ASSUME NEW n \in DOMAIN wire2, NEW i \in 1..wire2[n].id, i \notin done,
                      \A k \in 1..n : wire2[k].id # i
               PROVE  Unawaited(iss2, i, wire2[n].id)
    BY DEF Followed
  <2>1. CASE n \in DOMAIN wire
    <3>1. wire2[n] = wire[n] /\ \A k \in 1..n : wire[k].id # i
      BY <1>2, <2>1
    <3> QED
      BY <1>3, <2>1, <3>1 DEF Followed
  <2>2. CASE n = Len(wire) + 1
    <3>1. wire2[n].id = Len(iss) + 1 /\ n \in 1..n /\ i # Len(iss) + 1
      BY <1>2, <2>2
    <3>2. i \in 1..Len(iss)
      BY <1>1, <3>1
    <3>3. \A k \in DOMAIN wire : wire[k].id # i
      BY <1>2, <2>2
    <3> QED
      BY <1>4, <3>1, <3>2, <3>3 DEF Accounted
  <2> QED
    BY <1>2, <2>1, <2>2
<1> QED
  BY <1>6, <1>7 DEF iss2, wire2

-----------------------------------------------------------------------------
(* Overtaking, step by step.                                               *)

\* The numbers of what is known, of what is performed, and of the buffer.
LEMMA RingFacts ==
    ASSUME TypeOK, Order
    PROVE  /\ issued \in Seq(Kinds) /\ performed \in Seq(1..MaxCommands)
           /\ up \in Seq(Sent) /\ pending \in Seq(Command)
           /\ Len(issued) \in Nat
           /\ Done \in SUBSET (1..Len(issued))
           /\ \A n \in DOMAIN up : up[n].id \in 1..Len(issued)
           /\ \A n \in DOMAIN pending : pending[n].id \in 1..Len(issued)
           /\ \A k, n \in DOMAIN pending : k < n => pending[k].id < pending[n].id
<1>1. /\ issued \in Seq(Kinds) /\ performed \in Seq(1..MaxCommands)
      /\ up \in Seq(Sent) /\ pending \in Seq(Command)
  BY DEF TypeOK
<1>2. /\ Known(issued, performed, up, pending)
      /\ Increasing(issued, performed, up, pending)
  BY DEF Order, Ordered
<1>3. /\ \A k \in DOMAIN performed : performed[k] \in 1..Len(issued)
      /\ \A k \in DOMAIN up : up[k].id \in 1..Len(issued)
      /\ \A k \in DOMAIN pending : pending[k].id \in 1..Len(issued)
  BY <1>1, <1>2, KnownRange
<1>4. Done \in SUBSET (1..Len(issued))
  BY <1>3 DEF Done
<1>5. Len(issued) \in Nat
  BY <1>1
<1> QED
  BY <1>1, <1>2, <1>3, <1>4, <1>5 DEF Increasing

\* A step that performs nothing overtakes nothing.
LEMMA NothingOvertaken ==
    ASSUME TypeOK, Order, OvertakesOnlyPending, performed' = performed,
           \A i \in 1..Len(issued) : issued'[i] = issued[i]
    PROVE  OvertakesOnlyPending'
<1>1. Done' = Done
  BY DEF Done
<1>2. Done \in SUBSET (1..Len(issued)) /\ Len(issued) \in Nat
  BY RingFacts
<1>3. ASSUME NEW j \in Done, NEW i \in 1..j, i \notin Done
      PROVE  issued'[i] = "async" /\ \A k \in i..j-1 : issued'[k] # "sync"
  <2>1. issued[i] = "async" /\ \A k \in i..j-1 : issued[k] # "sync"
    BY <1>3 DEF OvertakesOnlyPending
  <2>2. i \in 1..Len(issued) /\ \A k \in i..j-1 : k \in 1..Len(issued)
    BY <1>2
  <2> QED
    BY <2>1, <2>2
<1> QED
  BY <1>1, <1>3 DEF OvertakesOnlyPending

\* vn_ring_submit_command: what is counted, followed and not waited for.
LEMMA SubmitOvertakes ==
    ASSUME TypeOK, Order, NEW kind \in Kinds, kind # "direct", Issue(kind),
           NEW size \in AsyncSize \cup SyncSize, SubmitCommand(size),
           open, UNCHANGED <<open, performed>>,
           Accounted(issued, Done, up, pending), Followed(issued, Done, up)
    PROVE  /\ Accounted(issued', Done, up', pending')
           /\ Followed(issued', Done, up')
           /\ kind = "async" /\ Waiting(issued, pending) => Waiting(issued', pending')
<1> DEFINE cmd    == [id |-> NextId, size |-> size]
           buffer == Append(pending, cmd)
<1>a. /\ Logged /\ Counted /\ Wired /\ Buffered
      /\ issued \in Seq(Kinds) /\ performed \in Seq(1..MaxCommands)
      /\ up \in Seq(Sent) /\ pending \in Seq(Command)
  BY TypeParts DEF Logged, Counted, Wired, Buffered
<1>1. NextId = Len(issued) + 1 /\ NextId \in 1..MaxCommands /\ issued' = Append(issued, kind)
  BY <1>a, IssueTypes DEF Issue
<1>2. cmd \in Command /\ cmd.id = Len(issued) + 1
  BY <1>1 DEF Command
<1>3. (Flush(buffer) \/ (pending' = buffer /\ up' = up))
  BY DEF SubmitCommand
<1> HIDE DEF cmd
<1>4. /\ Done \in SUBSET (1..Len(issued)) /\ Len(issued) \in Nat
      /\ \A n \in DOMAIN up : up[n].id \in 1..Len(issued)
      /\ \A n \in DOMAIN pending : pending[n].id \in 1..Len(issued)
  BY RingFacts
<1>5. /\ Accounted(issued', Done, up, buffer)
      /\ kind = "async" /\ Waiting(issued, pending) => Waiting(issued', buffer)
  BY <1>a, <1>1, <1>2, <1>4, BufferOvertakes
<1>6. Followed(issued', Done, up)
  BY <1>a, <1>1, <1>4, IssueOvertakes
<1>7. buffer \in Seq(Command) /\ issued' \in Seq(Kinds) /\ Len(issued') = Len(issued) + 1
  BY <1>a, <1>1, <1>2, AppendFacts
<1>8. Ordered(open, issued', performed, up, buffer)
  BY <1>a, <1>1, <1>2, BufferOrder DEF Order
<1> HIDE DEF buffer
<1>9. CASE pending' = buffer /\ up' = up
  BY <1>5, <1>6, <1>9
<1>10. CASE Flush(buffer)
  <2>1. up' = up \o Message(buffer) /\ pending' = <<>>
    BY <1>10 DEF Flush
  <2>2. /\ Known(issued', performed, up, buffer) /\ Increasing(issued', performed, up, buffer)
    BY <1>8 DEF Ordered
  <2>3. /\ \A n \in DOMAIN up : up[n].id \in 1..Len(issued')
        /\ \A n \in DOMAIN buffer : buffer[n].id \in 1..Len(issued')
        /\ \A k, n \in DOMAIN buffer : k < n => buffer[k].id < buffer[n].id
    BY <1>a, <1>7, <2>2, KnownRange DEF Increasing
  <2>4. Done \in SUBSET (1..Len(issued'))
    BY <1>4, <1>7
  <2>5. Accounted(issued', Done, up', pending') /\ Followed(issued', Done, up')
    BY <1>a, <1>5, <1>6, <1>7, <2>1, <2>3, <2>4, FlushOvertakes
  <2>6. Waiting(issued', pending')
    BY <2>1 DEF Waiting
  <2> QED
    BY <2>5, <2>6
<1> QED
  BY <1>3, <1>9, <1>10

LEMMA OvertakeStep ==
    OneThread /\ TypeOK /\ Order /\ Overtaken /\ OvertakesOnlyPending /\ [Next]_vars
        => Overtaken' /\ OvertakesOnlyPending'
<1> SUFFICES ASSUME OneThread, TypeOK, Order, Overtaken, OvertakesOnlyPending, [Next]_vars
             PROVE  Overtaken' /\ OvertakesOnlyPending'
  OBVIOUS
<1>a. /\ Logged /\ Buffered /\ Wired /\ Counted
      /\ issued \in Seq(Kinds) /\ performed \in Seq(1..MaxCommands)
      /\ up \in Seq(Sent) /\ pending \in Seq(Command)
  BY TypeParts DEF Logged, Buffered, Wired, Counted
<1>b. /\ Done \in SUBSET (1..Len(issued)) /\ Len(issued) \in Nat
      /\ \A n \in DOMAIN up : up[n].id \in 1..Len(issued)
      /\ \A n \in DOMAIN pending : pending[n].id \in 1..Len(issued)
      /\ \A k, n \in DOMAIN pending : k < n => pending[k].id < pending[n].id
  BY RingFacts
\* A step that issues, sends and performs nothing.
<1>c. ASSUME UNCHANGED <<issued, pending, up, open, performed>>,
             open /\ (\A t \in Thread : call'[t].step # "reply") => Waiting(issued, pending)
      PROVE  Overtaken' /\ OvertakesOnlyPending'
  <2>1. OvertakesOnlyPending'
    BY <1>c, NothingOvertaken
  <2>2. Done' = Done
    BY <1>c DEF Done
  <2> QED
    BY <1>c, <2>1, <2>2 DEF Overtaken
<1>d. ASSUME performed' = performed PROVE Done' = Done
  BY <1>d DEF Done
<1>1. CASE Perform
  <2>1. /\ up # <<>> /\ open /\ up' = Tail(up)
        /\ UNCHANGED <<issued, pending, open, call>>
    BY <1>1 DEF Perform, client
  <2> DEFINE id == Head(up).id
  <2>2. Done' = Done \cup {id}
    BY <1>1, PerformedNow
  <2>3. /\ Accounted(issued, Done \cup {id}, Tail(up), pending)
        /\ Followed(issued, Done \cup {id}, Tail(up))
        /\ \A i \in 1..id : i \notin Done \cup {id} => Unawaited(issued, i, id)
    BY <1>a, <1>b, <2>1, PerformOvertakes DEF Overtaken
  <2> HIDE DEF id
  <2>4. Overtaken'
    BY <2>1, <2>2, <2>3 DEF Overtaken
  <2>5. OvertakesOnlyPending'
    BY <2>1, <2>2, <2>3 DEF OvertakesOnlyPending, Unawaited
  <2> QED
    BY <2>4, <2>5
<1>2. CASE Break
  <2>1. open' = FALSE /\ UNCHANGED <<issued, performed>>
    BY <1>2 DEF Break, client
  <2> QED
    BY <2>1, NothingOvertaken DEF Overtaken
<1>3. CASE Finished \/ UNCHANGED vars
  <2>1. UNCHANGED vars
    BY <1>3 DEF Finished
  <2> QED
    BY <2>1, <1>c DEF vars, client, server, Overtaken
<1>4. ASSUME NEW t \in Thread, Async(t) PROVE Overtaken' /\ OvertakesOnlyPending'
  <2>1. PICK size \in AsyncSize \cup SyncSize : SubmitCommand(size)
    BY <1>4 DEF Async
  <2>2. Issue("async") /\ "async" \in Kinds /\ UNCHANGED <<open, performed, call>>
    BY <1>4 DEF Async, Kinds, server
  <2>3. call[t].step # "reply"
    BY <1>4 DEF Async, Idle
  <2>4. \A u \in Thread : call[u].step # "reply"
    BY <2>3 DEF OneThread
  <2>5. OvertakesOnlyPending'
    BY <1>a, <2>2, IssueTypes, NothingOvertaken
  <2>6. ASSUME open
        PROVE  /\ Accounted(issued', Done, up', pending')
               /\ Followed(issued', Done, up')
               /\ Waiting(issued', pending')
    BY <2>1, <2>2, <2>4, <2>6, SubmitOvertakes DEF Overtaken
  <2> QED
    BY <1>d, <2>2, <2>5, <2>6 DEF Overtaken
<1>5. ASSUME NEW t \in Thread, BeginCall(t) PROVE Overtaken' /\ OvertakesOnlyPending'
  <2>1. PICK size \in AsyncSize \cup SyncSize : SubmitCommand(size)
    BY <1>5 DEF BeginCall
  <2>2. Issue("sync") /\ "sync" \in Kinds /\ UNCHANGED <<open, performed>>
    BY <1>5 DEF BeginCall, Kinds, server
  <2>3. call'[t].step = "reply"
    BY <1>5 DEF BeginCall, TypeOK
  <2>4. OvertakesOnlyPending'
    BY <1>a, <2>2, IssueTypes, NothingOvertaken
  <2>5. ASSUME open
        PROVE  /\ Accounted(issued', Done, up', pending')
               /\ Followed(issued', Done, up')
    BY <2>1, <2>2, <2>5, SubmitOvertakes DEF Overtaken
  <2> QED
    BY <1>d, <2>2, <2>3, <2>4, <2>5 DEF Overtaken
<1>6. ASSUME NEW t \in Thread, SendDirect(t) PROVE Overtaken' /\ OvertakesOnlyPending'
  <2>1. Issue("direct") /\ "direct" \in Kinds /\ UNCHANGED <<open, pending, performed>>
    BY <1>6 DEF SendDirect, Kinds, server
  <2>2. /\ NextId = Len(issued) + 1 /\ NextId \in 1..MaxCommands
        /\ \A i \in 1..Len(issued) : issued'[i] = issued[i]
    BY <1>a, <2>1, IssueTypes
  <2>3. OvertakesOnlyPending'
    BY <2>1, <2>2, NothingOvertaken
  <2>4. \A u \in Thread : call[u].step # "reply"
    <3>1. call[t].step # "reply"
      BY <1>6 DEF SendDirect, Idle
    <3> QED
      BY <3>1 DEF OneThread
  <2>5. issued' = Append(issued, "direct")
    BY <2>1 DEF Issue
  <2> DEFINE m == [id |-> NextId, last |-> TRUE]
  <2>6. m \in Sent /\ m.id = Len(issued) + 1
    BY <2>2 DEF Sent
  <2>7. open => up' = Append(up, m)
    BY <1>6 DEF SendDirect
  <2> HIDE DEF m
  <2>8. ASSUME open
        PROVE  /\ Accounted(issued', Done, up', pending)
               /\ Followed(issued', Done, up')
               /\ Waiting(issued', pending)
    <3>1. /\ Accounted(issued, Done, up, pending) /\ Followed(issued, Done, up)
          /\ Waiting(issued, pending)
      BY <2>4, <2>8 DEF Overtaken
    <3>2. Waiting(Append(issued, "direct"), pending)
      BY <1>a, <1>b, <2>1, <3>1, IssueOvertakes
    <3> QED
      BY <1>a, <1>b, <2>5, <2>6, <2>7, <2>8, <3>1, <3>2, DirectOvertakes
  <2> QED
    BY <1>d, <2>1, <2>3, <2>8 DEF Overtaken
<1>7. ASSUME NEW t \in Thread, NothingToFlush(t) PROVE Overtaken' /\ OvertakesOnlyPending'
  <2>1. Waiting(issued, pending)
    BY <1>7 DEF NothingToFlush, Waiting
  <2> QED
    BY <1>7, <1>c, <2>1 DEF NothingToFlush, server
<1>8. ASSUME NEW t \in Thread, Receive(t) \/ ReceiveFails(t)
      PROVE  Overtaken' /\ OvertakesOnlyPending'
  <2>1. call[t].step # "reply"
    BY <1>8 DEF Receive, ReceiveFails
  <2>2. open => Waiting(issued, pending)
    BY <2>1 DEF OneThread, Overtaken
  <2> QED
    BY <1>8, <1>c, <2>2 DEF Receive, ReceiveFails, server
<1>9. ASSUME NEW t \in Thread, FlushForReply(t) PROVE Overtaken' /\ OvertakesOnlyPending'
  <2>1. Flush(pending) /\ UNCHANGED <<issued, open, performed>>
    BY <1>9 DEF FlushForReply, server
  <2>2. OvertakesOnlyPending'
    BY <2>1, NothingOvertaken
  <2>3. ASSUME open
        PROVE  /\ Accounted(issued, Done, up', pending')
               /\ Followed(issued, Done, up')
               /\ Waiting(issued, pending')
    <3>1. up' = up \o Message(pending) /\ pending' = <<>>
      BY <2>1, <2>3 DEF Flush
    <3>2. Waiting(issued, pending')
      BY <3>1 DEF Waiting
    <3>3. Accounted(issued, Done, up, pending) /\ Followed(issued, Done, up)
      BY <2>3 DEF Overtaken
    <3> QED
      BY <1>a, <1>b, <3>1, <3>2, <3>3, FlushOvertakes
  <2> QED
    BY <1>d, <2>1, <2>2, <2>3 DEF Overtaken
<1> QED
  BY <1>1, <1>2, <1>3, <1>4, <1>5, <1>6, <1>7, <1>8, <1>9 DEF Next, Client

LEMMA InitOvertakes == Init => Overtaken /\ OvertakesOnlyPending
<1> SUFFICES ASSUME Init PROVE Overtaken /\ OvertakesOnlyPending
  OBVIOUS
<1>1. issued = <<>> /\ pending = <<>> /\ up = <<>> /\ performed = <<>>
  BY DEF Init
<1>2. DOMAIN <<>> = {} /\ Len(<<>>) = 0 /\ 1..0 = {}
  OBVIOUS
<1>3. Done = {}
  BY <1>1, <1>2 DEF Done
<1> QED
  BY <1>1, <1>2, <1>3 DEF Overtaken, Accounted, Followed, Waiting, OvertakesOnlyPending

\* With one thread, and wherever the connection breaks, a memory transfer or a
\* swapchain request that goes past the ring's buffer overtakes only commands
\* that nothing has waited for.
THEOREM OvertakesSafely == OneThread => (Spec => []OvertakesOnlyPending)
<1> SUFFICES ASSUME OneThread PROVE Spec => []OvertakesOnlyPending
  OBVIOUS
<1>1. Init => RingInv /\ Overtaken /\ OvertakesOnlyPending
  BY InitTypes, InitOrder, InitOvertakes DEF RingInv, Order
<1>2. /\ RingInv /\ Overtaken /\ OvertakesOnlyPending /\ [Next]_vars
      => RingInv' /\ Overtaken' /\ OvertakesOnlyPending'
  BY TypeStep, OrderStep, OvertakeStep DEF RingInv, Order
<1> QED
  BY <1>1, <1>2, PTL DEF Spec

-----------------------------------------------------------------------------
(* Replies.  With one thread, a call gets its own reply as long as no call *)
(* is the command that takes the buffer past its threshold.                *)

\* No call crosses the threshold: the flush for its reply is what sends it.
CallsStayBuffered == \A t \in Thread : BeginCall(t) => UNCHANGED up

\* Calls in progress are of commands that ask for a reply, and newer than the
\* calls that have returned.
CallsKnown ==
    \A t \in Thread :
        /\ got[t].call <= Len(issued)
        /\ call[t] # Idle =>
             /\ call[t].id <= Len(issued) /\ issued[call[t].id] # "async"
             /\ got[t].call < call[t].id

Quiet == \A n \in DOMAIN up : issued[up[n].id] = "async"

\* Before the flush for its reply, the command of a call is the last of the
\* buffer, and no other there asks for a reply.
AtTheEnd(t) ==
    /\ pending # <<>> /\ pending[Len(pending)].id = call[t].id
    /\ issued[call[t].id] = "sync"
    /\ \A n \in 1..Len(pending)-1 : issued[pending[n].id] = "async"

\* Then it is on its way, the last of its message ...
OnItsWay(t) ==
    /\ down = <<>> /\ call[t].id \notin Done
    /\ \E n \in DOMAIN up :
        /\ up[n].id = call[t].id /\ up[n].last
        /\ \A m \in DOMAIN up : m # n => issued[up[m].id] = "async"

\* ... or performed, and its reply is all that is on its way back.
Replied(t) == down = << <<call[t].id>> >> /\ call[t].id \in Done

Served(t) ==
    /\ open /\ call[t].step = "reply" => AtTheEnd(t)
    /\ open /\ call[t].step = "receive" => OnItsWay(t) \/ (Replied(t) /\ Quiet)
    /\ ~open /\ call[t].step = "receive" => down = <<>> \/ Replied(t)

CallInv ==
    /\ open => replies = <<>>
    /\ open /\ (\A t \in Thread : call[t].step # "receive") => down = <<>> /\ Quiet
    /\ \A t \in Thread : Served(t)

LEMMA KnownStep == TypeOK /\ CallsKnown /\ [Next]_vars => CallsKnown'
<1> SUFFICES ASSUME TypeOK, CallsKnown, [Next]_vars PROVE CallsKnown'
  OBVIOUS
<1>a. /\ Logged /\ issued \in Seq(Kinds) /\ Len(issued) \in Nat
      /\ call \in [Thread -> Calls] /\ got \in [Thread -> Results]
  BY TypeParts DEF Logged, Calling
<1>1. ASSUME UNCHANGED <<issued, call, got>> PROVE CallsKnown'
  BY <1>1 DEF CallsKnown
<1>2. ASSUME NEW kind \in Kinds, Issue(kind), UNCHANGED <<call, got>> PROVE CallsKnown'
  <2>1. /\ Len(issued') = Len(issued) + 1
        /\ \A i \in 1..Len(issued) : issued'[i] = issued[i]
    BY <1>a, <1>2, IssueTypes
  <2> SUFFICES ASSUME NEW t \in Thread
               PROVE  /\ got[t].call <= Len(issued')
                      /\ call[t] # Idle =>
                           /\ call[t].id <= Len(issued') /\ issued'[call[t].id] # "async"
                           /\ got[t].call < call[t].id
    BY <1>2 DEF CallsKnown
  <2>2. got[t] \in Results /\ call[t] \in Calls
    BY <1>a
  <2>3. got[t].call \in Nat /\ (call[t] # Idle => call[t].id \in 1..MaxCommands)
    BY <2>2 DEF Results, Calls
  <2> QED
    BY <1>a, <2>1, <2>3, StreamAssumption DEF CallsKnown
\* The thread t begins the call of the command just issued.
<1>3. ASSUME NEW t \in Thread, NEW kind \in Kinds, kind # "async", Issue(kind), call[t] = Idle,
             NEW step, call' = [call EXCEPT ![t] = [step |-> step, id |-> NextId]], got' = got
      PROVE  CallsKnown'
  <2>1. /\ Len(issued') = Len(issued) + 1 /\ NextId = Len(issued) + 1
        /\ issued'[Len(issued) + 1] = kind
        /\ \A i \in 1..Len(issued) : issued'[i] = issued[i]
    BY <1>a, <1>3, IssueTypes
  <2> SUFFICES ASSUME NEW u \in Thread
               PROVE  /\ got[u].call <= Len(issued')
                      /\ call'[u] # Idle =>
                           /\ call'[u].id <= Len(issued') /\ issued'[call'[u].id] # "async"
                           /\ got[u].call < call'[u].id
    BY <1>3 DEF CallsKnown
  <2>2. got[u] \in Results /\ call[u] \in Calls
    BY <1>a
  <2>3. got[u].call \in Nat /\ (call[u] # Idle => call[u].id \in 1..MaxCommands)
    BY <2>2 DEF Results, Calls
  <2>4. got[u].call <= Len(issued) /\ got[u].call < Len(issued) + 1
    BY <1>a, <2>3 DEF CallsKnown
  <2>5. CASE u = t
    <3>1. call'[u] = [step |-> step, id |-> Len(issued) + 1]
      BY <1>a, <1>3, <2>1, <2>5
    <3> QED
      BY <1>a, <1>3, <2>1, <2>3, <2>4, <3>1
  <2>6. CASE u # t
    <3>1. call'[u] = call[u]
      BY <1>a, <1>3, <2>6
    <3> QED
      BY <1>a, <2>1, <2>3, <2>4, <3>1, StreamAssumption DEF CallsKnown
  <2> QED
    BY <2>5, <2>6
<1>4. ASSUME NEW t \in Thread, NEW r, Return(t, r), call[t] # Idle, issued' = issued
      PROVE  CallsKnown'
  <2>1. /\ call' = [call EXCEPT ![t] = Idle]
        /\ got' = [got EXCEPT ![t] = [call |-> call[t].id, reply |-> r]]
    BY <1>4 DEF Return
  <2>2. call'[t] = Idle /\ got'[t].call = call[t].id
    BY <1>a, <2>1
  <2>3. \A u \in Thread : u # t => call'[u] = call[u] /\ got'[u] = got[u]
    BY <1>a, <2>1
  <2> QED
    BY <1>4, <2>2, <2>3 DEF CallsKnown
<1>5. ASSUME NEW t \in Thread, Async(t) PROVE CallsKnown'
  <2>1. Issue("async") /\ "async" \in Kinds /\ UNCHANGED <<call, got>>
    BY <1>5 DEF Async, Kinds
  <2> QED
    BY <1>2, <2>1
<1>6. ASSUME NEW t \in Thread, BeginCall(t) PROVE CallsKnown'
  <2>1. Issue("sync") /\ "sync" \in Kinds /\ call[t] = Idle /\ got' = got
    BY <1>6 DEF BeginCall, Kinds
  <2>2. call' = [call EXCEPT ![t] = [step |-> "reply", id |-> NextId]]
    BY <1>6 DEF BeginCall
  <2> QED
    BY <1>3, <2>1, <2>2
<1>7. ASSUME NEW t \in Thread, SendDirect(t) PROVE CallsKnown'
  <2>1. Issue("direct") /\ "direct" \in Kinds /\ call[t] = Idle
    BY <1>7 DEF SendDirect, Kinds
  <2>2. CASE open
    <3>1. call' = [call EXCEPT ![t] = [step |-> "receive", id |-> NextId]] /\ got' = got
      BY <1>7, <2>2 DEF SendDirect
    <3> QED
      BY <1>3, <2>1, <3>1
  <2>3. CASE ~open
    <3>1. got' = [got EXCEPT ![t] = [call |-> NextId, reply |-> Error]] /\ call' = call
      BY <1>7, <2>3 DEF SendDirect
    <3>2. /\ Len(issued') = Len(issued) + 1 /\ NextId = Len(issued) + 1
          /\ \A i \in 1..Len(issued) : issued'[i] = issued[i]
      BY <1>a, <2>1, IssueTypes
    <3> SUFFICES ASSUME NEW u \in Thread
                 PROVE  /\ got'[u].call <= Len(issued')
                        /\ call[u] # Idle =>
                             /\ call[u].id <= Len(issued') /\ issued'[call[u].id] # "async"
                             /\ got'[u].call < call[u].id
      BY <3>1 DEF CallsKnown
    <3>3. CASE u = t
      <4>1. got'[u].call = Len(issued) + 1
        BY <1>a, <3>1, <3>2, <3>3
      <4> QED
        BY <1>a, <2>1, <3>2, <3>3, <4>1
    <3>4. CASE u # t
      <4>1. got'[u] = got[u]
        BY <1>a, <3>1, <3>4
      <4>2. got[u] \in Results /\ call[u] \in Calls
        BY <1>a
      <4>3. got[u].call \in Nat /\ (call[u] # Idle => call[u].id \in 1..MaxCommands)
        BY <4>2 DEF Results, Calls
      <4> QED
        BY <1>a, <3>2, <4>1, <4>3, StreamAssumption DEF CallsKnown
    <3> QED
      BY <3>3, <3>4
  <2> QED
    BY <2>2, <2>3
<1>8. ASSUME NEW t \in Thread, NothingToFlush(t) \/ Receive(t) \/ ReceiveFails(t)
      PROVE  CallsKnown'
  <2>1. call[t] # Idle /\ issued' = issued
    BY <1>8 DEF NothingToFlush, Receive, ReceiveFails, Idle
  <2>2. Return(t, Error) \/ Return(t, Head(Head(down)))
    BY <1>8 DEF NothingToFlush, Receive, ReceiveFails
  <2> QED
    BY <1>4, <2>1, <2>2
<1>9. ASSUME NEW t \in Thread, FlushForReply(t) PROVE CallsKnown'
  <2>1. call[t] # Idle /\ issued' = issued
    BY <1>9 DEF FlushForReply, Idle
  <2>2. CASE Return(t, Error)
    BY <1>4, <2>1, <2>2
  <2>3. CASE call' = [call EXCEPT ![t].step = "receive"] /\ got' = got
    <3>1. call'[t].id = call[t].id
      BY <1>a, <2>3
    <3>2. \A u \in Thread : u # t => call'[u] = call[u]
      BY <1>a, <2>3
    <3> QED
      BY <2>1, <2>3, <3>1, <3>2 DEF CallsKnown
  <2> QED
    BY <1>9, <2>2, <2>3 DEF FlushForReply
<1>10. CASE Perform \/ Break \/ Finished \/ UNCHANGED vars
  BY <1>1, <1>10 DEF Perform, Break, Finished, vars, client
<1> QED
  BY <1>5, <1>6, <1>7, <1>8, <1>9, <1>10 DEF Next, Client

\* What the server makes of a command that asks for no reply, and of one that
\* asks for a reply at the end of its message.
LEMMA PerformReplies ==
    ASSUME TypeOK, Perform, replies = <<>>
    PROVE  /\ issued[Head(up).id] = "async" => replies' = <<>> /\ down' = down
           /\ issued[Head(up).id] # "async" /\ Head(up).last
                => replies' = <<>> /\ (down = <<>> => down' = << <<Head(up).id>> >>)
<1> DEFINE cmd == Head(up)
<1>1. /\ replies' = LeftReplies(cmd, Dispatched(cmd))
      /\ down' = down \o Answered(cmd, Dispatched(cmd))
  BY DEF Perform
<1>2. down \in Seq(Answers)
  BY TypeParts DEF Replying
<1> HIDE DEF cmd
<1>3. ASSUME issued[cmd.id] = "async" PROVE replies' = <<>> /\ down' = down
  <2>1. Dispatched(cmd) = <<>>
    BY <1>3 DEF Dispatched
  <2>2. Answered(cmd, Dispatched(cmd)) = <<>> /\ LeftReplies(cmd, Dispatched(cmd)) = <<>>
    BY <2>1 DEF Answered, LeftReplies
  <2> QED
    BY <1>1, <1>2, <2>2
<1>4. ASSUME issued[cmd.id] # "async", cmd.last
      PROVE  replies' = <<>> /\ (down = <<>> => down' = << <<cmd.id>> >>)
  <2>1. Dispatched(cmd) = <<cmd.id>>
    BY <1>4 DEF Dispatched
  <2>2. Answered(cmd, Dispatched(cmd)) = << <<cmd.id>> >> /\ LeftReplies(cmd, Dispatched(cmd)) = <<>>
    BY <1>4, <2>1 DEF Answered, LeftReplies
  <2>3. \A r : <<>> \o <<r>> = <<r>>
    OBVIOUS
  <2> QED
    BY <1>1, <2>2, <2>3
<1> QED
  BY <1>3, <1>4 DEF cmd

\* The rest of the wire, command by command.
LEMMA TailFacts ==
    ASSUME NEW wire \in Seq(Sent), wire # <<>>
    PROVE  /\ Head(wire) = wire[1] /\ 1 \in DOMAIN wire /\ DOMAIN wire = 1..Len(wire)
           /\ \A n \in DOMAIN Tail(wire) : Tail(wire)[n] = wire[n + 1] /\ n + 1 \in DOMAIN wire
           /\ \A n \in DOMAIN wire :
                n # 1 => n - 1 \in DOMAIN Tail(wire) /\ Tail(wire)[n - 1] = wire[n]
OBVIOUS

\* Nothing asks for a reply: so it stays when a command is performed.
LEMMA QuietPerform ==
    ASSUME TypeOK, Perform, replies = <<>>, Quiet
    PROVE  Quiet' /\ replies' = <<>> /\ down' = down
<1>1. up \in Seq(Sent) /\ up # <<>> /\ up' = Tail(up) /\ issued' = issued
  BY DEF TypeOK, Perform, client
<1>2. issued[Head(up).id] = "async"
  BY <1>1, TailFacts DEF Quiet
<1>3. Quiet'
  BY <1>1, TailFacts DEF Quiet
<1> QED
  BY <1>2, <1>3, PerformReplies

\* The command of a call on its way is performed, or one before it.
LEMMA OnItsWayPerform ==
    ASSUME TypeOK, CallsKnown, Perform, replies = <<>>,
           NEW t \in Thread, call[t].step = "receive", OnItsWay(t)
    PROVE  replies' = <<>> /\ (OnItsWay(t)' \/ (Replied(t)' /\ Quiet'))
<1>1. /\ up \in Seq(Sent) /\ up # <<>> /\ up' = Tail(up) /\ UNCHANGED <<issued, call>>
  BY DEF TypeOK, Perform, client
<1>2. PICK n \in DOMAIN up :
        /\ up[n].id = call[t].id /\ up[n].last
        /\ \A m \in DOMAIN up : m # n => issued[up[m].id] = "async"
  BY DEF OnItsWay
<1>3. issued[call[t].id] # "async"
  BY DEF CallsKnown, Idle
<1>4. Done' = Done \cup {Head(up).id}
  BY PerformedNow
<1>5. down = <<>> /\ call[t].id \notin Done
  BY DEF OnItsWay
<1>6. CASE n = 1
  <2>1. Head(up).id = call[t].id /\ Head(up).last
    BY <1>1, <1>2, <1>6, TailFacts
  <2>2. replies' = <<>> /\ down' = << <<call[t].id>> >>
    BY <1>3, <1>5, <2>1, PerformReplies
  <2>3. call[t].id \in Done'
    BY <1>4, <2>1
  <2>4. Quiet'
    <3> SUFFICES ASSUME NEW m \in DOMAIN Tail(up) PROVE issued[Tail(up)[m].id] = "async"
      BY <1>1 DEF Quiet
    <3>1. Tail(up)[m] = up[m + 1] /\ m + 1 \in DOMAIN up /\ m + 1 # 1
      BY <1>1
    <3> QED
      BY <1>2, <1>6, <3>1
  <2> QED
    BY <1>1, <2>2, <2>3, <2>4 DEF Replied
<1>7. CASE n # 1
  <2>1. issued[Head(up).id] = "async"
    BY <1>1, <1>2, <1>7, TailFacts
  <2>2. replies' = <<>> /\ down' = <<>>
    BY <1>5, <2>1, PerformReplies
  <2>3. call[t].id \notin Done'
    BY <1>3, <1>4, <1>5, <2>1
  <2>4. n - 1 \in DOMAIN Tail(up) /\ Tail(up)[n - 1] = up[n]
    BY <1>1, <1>7, TailFacts
  <2>5. ASSUME NEW m \in DOMAIN Tail(up), m # n - 1 PROVE issued[Tail(up)[m].id] = "async"
    <3>0. m \in Nat /\ n \in Nat
      BY <1>1, <1>2
    <3>1. Tail(up)[m] = up[m + 1] /\ m + 1 \in DOMAIN up /\ m + 1 # n
      BY <1>1, <2>5, <3>0, TailFacts
    <3> QED
      BY <1>2, <3>1
  <2> QED
    BY <1>1, <1>2, <2>2, <2>3, <2>4, <2>5 DEF OnItsWay
<1> QED
  BY <1>6, <1>7

\* Commands that nothing has waited for ask for no reply.
LEMMA WaitingIsAsync ==
    ASSUME NEW iss, NEW buf, Waiting(iss, buf)
    PROVE  \A n \in DOMAIN buf : iss[buf[n].id] = "async"
BY DEF Waiting, Unawaited

\* The buffer of vn_ring_submit_command, and what it does with it.
LEMMA SubmitBuffer ==
    ASSUME TypeOK, Order, NEW kind \in Kinds, Issue(kind),
           NEW size \in AsyncSize \cup SyncSize, SubmitCommand(size)
    PROVE  \E buffer \in Seq(Command) :
             /\ Flush(buffer) \/ (pending' = buffer /\ up' = up)
             /\ Len(pending) \in Nat /\ Len(buffer) = Len(pending) + 1
             /\ DOMAIN pending = 1..Len(pending) /\ DOMAIN buffer = 1..Len(pending) + 1
             /\ \A n \in DOMAIN pending : buffer[n] = pending[n]
             /\ buffer[Len(pending) + 1].id = Len(issued) + 1
             /\ issued'[Len(issued) + 1] = kind
             /\ \A n \in DOMAIN pending : issued'[buffer[n].id] = issued[pending[n].id]
             /\ \A n \in DOMAIN up : issued'[up[n].id] = issued[up[n].id]
<1> DEFINE cmd    == [id |-> NextId, size |-> size]
           buffer == Append(pending, cmd)
<1>a. Logged /\ pending \in Seq(Command)
  BY TypeParts DEF Buffered
<1>1. /\ NextId = Len(issued) + 1 /\ NextId \in 1..MaxCommands
      /\ issued'[Len(issued) + 1] = kind
      /\ \A i \in 1..Len(issued) : issued'[i] = issued[i]
  BY <1>a, IssueTypes
<1>2. cmd \in Command /\ cmd.id = Len(issued) + 1
  BY <1>1 DEF Command
<1>3. Flush(buffer) \/ (pending' = buffer /\ up' = up)
  BY DEF SubmitCommand
<1> HIDE DEF cmd
<1>4. /\ buffer \in Seq(Command) /\ Len(pending) \in Nat /\ Len(buffer) = Len(pending) + 1
      /\ DOMAIN pending = 1..Len(pending) /\ DOMAIN buffer = 1..Len(pending) + 1
      /\ \A n \in 1..Len(pending) : buffer[n] = pending[n]
      /\ buffer[Len(pending) + 1] = cmd
  BY <1>a, <1>2, AppendFacts
<1>5. /\ \A n \in DOMAIN up : up[n].id \in 1..Len(issued)
      /\ \A n \in DOMAIN pending : pending[n].id \in 1..Len(issued)
  BY RingFacts
<1> HIDE DEF buffer
<1>6. /\ \A n \in DOMAIN pending : issued'[buffer[n].id] = issued[pending[n].id]
      /\ \A n \in DOMAIN up : issued'[up[n].id] = issued[up[n].id]
  BY <1>1, <1>4, <1>5
<1> QED
  BY <1>1, <1>2, <1>3, <1>4, <1>6

LEMMA WholeSeq ==
    ASSUME NEW S, NEW s \in Seq(S) PROVE SubSeq(s, 1, Len(s)) = s
OBVIOUS

\* With one thread, it is enough to follow that thread.
LEMMA OneCaller ==
    ASSUME OneThread, NEW t \in Thread,
           open' => replies' = <<>>,
           open' /\ call'[t].step # "receive" => down' = <<>> /\ Quiet',
           Served(t)'
    PROVE  CallInv'
<1>1. \A u \in Thread : u = t
  BY DEF OneThread
<1>2. \A u \in Thread : Served(u)'
  BY <1>1
<1> QED
  BY <1>2 DEF CallInv

LEMMA CallStep ==
    /\ OneThread /\ TypeOK /\ Order /\ Overtaken /\ CallsKnown /\ CallInv
    /\ [Next]_vars /\ [CallsStayBuffered]_vars
    => CallInv'
<1> SUFFICES ASSUME OneThread, TypeOK, Order, Overtaken, CallsKnown, CallInv,
                    [Next]_vars, [CallsStayBuffered]_vars
             PROVE  CallInv'
  OBVIOUS
<1>a. /\ Logged /\ issued \in Seq(Kinds) /\ Len(issued) \in Nat
      /\ up \in Seq(Sent) /\ pending \in Seq(Command)
      /\ call \in [Thread -> Calls]
      /\ Len(pending) \in Nat /\ DOMAIN pending = 1..Len(pending)
      /\ Len(up) \in Nat /\ DOMAIN up = 1..Len(up)
  BY TypeParts DEF Logged, Buffered, Wired, Calling
<1>b. /\ Done \in SUBSET (1..Len(issued))
      /\ \A n \in DOMAIN up : up[n].id \in 1..Len(issued)
      /\ \A n \in DOMAIN pending : pending[n].id \in 1..Len(issued)
  BY RingFacts
<1>c. open => replies = <<>>
  BY DEF CallInv
\* A thread that waits for no reply: none is on its way.
<1>d. ASSUME open, NEW t \in Thread, call[t].step # "receive"
      PROVE  down = <<>> /\ Quiet
  <2>1. \A u \in Thread : call[u].step # "receive"
    BY <1>d DEF OneThread
  <2> QED
    BY <1>d, <2>1 DEF CallInv
\* A thread that is not about to flush: nothing in the buffer asks for a reply.
<1>e. ASSUME open, NEW t \in Thread, call[t].step # "reply"
      PROVE  Waiting(issued, pending) /\ \A n \in DOMAIN pending : issued[pending[n].id] = "async"
  <2>1. \A u \in Thread : call[u].step # "reply"
    BY <1>e DEF OneThread
  <2>2. Waiting(issued, pending)
    BY <1>e, <2>1 DEF Overtaken
  <2> QED
    BY <2>2, WaitingIsAsync
<1>1. CASE Perform
  <2>1. open /\ open' /\ UNCHANGED <<issued, pending, call>>
    BY <1>1 DEF Perform, client
  <2>2. replies = <<>>
    BY <1>c, <2>1
  <2>3. CASE \A t \in Thread : call[t].step # "receive"
    <3>1. down = <<>> /\ Quiet
      BY <2>1, <2>3 DEF CallInv
    <3>2. Quiet' /\ replies' = <<>> /\ down' = <<>>
      BY <1>1, <2>2, <3>1, QuietPerform
    <3>3. ASSUME NEW t \in Thread PROVE Served(t)'
      <4>1. open /\ call[t].step = "reply" => AtTheEnd(t)
        BY DEF CallInv, Served
      <4>2. open' /\ call'[t].step = "reply" => AtTheEnd(t)'
        BY <2>1, <4>1 DEF AtTheEnd
      <4> QED
        BY <2>1, <2>3, <4>2 DEF Served
    <3> QED
      BY <3>2, <3>3 DEF CallInv
  <2>4. ASSUME NEW t \in Thread, call[t].step = "receive" PROVE CallInv'
    <3>1. OnItsWay(t) \/ (Replied(t) /\ Quiet)
      BY <2>1, <2>4 DEF CallInv, Served
    <3>2. CASE OnItsWay(t)
      <4>1. replies' = <<>> /\ (OnItsWay(t)' \/ (Replied(t)' /\ Quiet'))
        BY <1>1, <2>2, <2>4, <3>2, OnItsWayPerform
      <4>2. Served(t)'
        BY <2>1, <2>4, <4>1 DEF Served
      <4> QED
        BY <2>1, <2>4, <4>1, <4>2, OneCaller
    <3>3. CASE Replied(t) /\ Quiet
      <4>1. Quiet' /\ replies' = <<>> /\ down' = down
        BY <1>1, <2>2, <3>3, QuietPerform
      <4>2. Done' = Done \cup {Head(up).id}
        BY <1>1, PerformedNow
      <4>3. Replied(t)'
        BY <2>1, <3>3, <4>1, <4>2 DEF Replied
      <4>4. Served(t)'
        BY <2>1, <2>4, <4>1, <4>3 DEF Served
      <4> QED
        BY <2>1, <2>4, <4>1, <4>4, OneCaller
    <3> QED
      BY <3>1, <3>2, <3>3
  <2> QED
    BY <2>3, <2>4
<1>2. CASE Break
  <2>1. open /\ ~open' /\ UNCHANGED <<call, performed>>
    BY <1>2 DEF Break, client
  <2>2. PICK n \in 0..Len(down) : down' = SubSeq(down, 1, n)
    BY <1>2 DEF Break
  <2>3. Done' = Done
    BY <2>1 DEF Done
  <2>4. ASSUME NEW t \in Thread PROVE Served(t)'
    <3> SUFFICES ASSUME call[t].step = "receive" PROVE down' = <<>> \/ Replied(t)'
      BY <2>1 DEF Served
    <3>1. OnItsWay(t) \/ Replied(t)
      BY <2>1 DEF CallInv, Served
    <3>2. CASE down = <<>>
      <4>1. Len(down) = 0
        BY <3>2
      <4>2. n = 0
        BY <2>2, <4>1
      <4> QED
        BY <2>2, <4>2
    <3>3. CASE Replied(t)
      <4>1. down = << <<call[t].id>> >> /\ Len(down) = 1 /\ call[t].id \in Done
        BY <3>3 DEF Replied
      <4>2. n = 0 \/ n = 1
        BY <2>2, <4>1
      <4>3. CASE n = 0
        BY <2>2, <4>3
      <4>4. CASE n = 1
        <5>0. down \in Seq(Answers)
          BY TypeParts DEF Replying
        <5>1. down' = down
          BY <2>2, <4>1, <4>4, <5>0, WholeSeq
        <5> QED
          BY <2>1, <2>3, <4>1, <5>1 DEF Replied
      <4> QED
        BY <4>2, <4>3, <4>4
    <3> QED
      BY <3>1, <3>2, <3>3 DEF OnItsWay
  <2> QED
    BY <2>1, <2>4 DEF CallInv
<1>3. CASE Finished \/ UNCHANGED vars
  <2>1. /\ UNCHANGED <<issued, pending, call, up, down, open, replies, performed>>
    BY <1>3 DEF Finished, vars, client, server
  <2>2. Done' = Done /\ (Quiet' <=> Quiet)
    BY <2>1 DEF Done, Quiet
  <2>3. ASSUME NEW t \in Thread PROVE Served(t)'
    <3>1. Served(t)
      BY DEF CallInv
    <3> QED
      BY <2>1, <2>2, <3>1 DEF Served, AtTheEnd, OnItsWay, Replied
  <2> QED
    BY <2>1, <2>2, <2>3 DEF CallInv
<1>4. ASSUME NEW t \in Thread, Async(t) PROVE CallInv'
  <2>1. PICK size \in AsyncSize \cup SyncSize : SubmitCommand(size)
    BY <1>4 DEF Async
  <2>2. /\ Issue("async") /\ "async" \in Kinds /\ UNCHANGED <<open, call, down, replies>>
        /\ call[t].step = "idle"
    BY <1>4 DEF Async, Kinds, server, Idle
  <2>3. PICK buffer \in Seq(Command) :
          /\ Flush(buffer) \/ (pending' = buffer /\ up' = up)
          /\ Len(buffer) = Len(pending) + 1 /\ DOMAIN buffer = 1..Len(pending) + 1
          /\ \A n \in DOMAIN pending : buffer[n] = pending[n]
          /\ buffer[Len(pending) + 1].id = Len(issued) + 1
          /\ issued'[Len(issued) + 1] = "async"
          /\ \A n \in DOMAIN pending : issued'[buffer[n].id] = issued[pending[n].id]
          /\ \A n \in DOMAIN up : issued'[up[n].id] = issued[up[n].id]
    BY <2>1, <2>2, SubmitBuffer
  <2>4. ASSUME open PROVE down' = <<>> /\ Quiet'
    <3>1. down = <<>> /\ Quiet /\ \A n \in DOMAIN pending : issued[pending[n].id] = "async"
      BY <1>d, <1>e, <2>2, <2>4
    <3>2. \A n \in DOMAIN buffer : issued'[buffer[n].id] = "async"
      BY <1>a, <2>3, <3>1
    <3>3. \A n \in DOMAIN up : issued'[up[n].id] = "async"
      BY <2>3, <3>1 DEF Quiet
    <3>4. CASE up' = up
      BY <2>2, <3>1, <3>3, <3>4 DEF Quiet
    <3>5. CASE Flush(buffer)
      <4>1. up' = up \o Message(buffer)
        BY <2>4, <3>5 DEF Flush
      <4>2. /\ DOMAIN up' = 1..(Len(up) + Len(buffer))
            /\ \A n \in 1..Len(up) : up'[n] = up[n]
            /\ \A n \in 1..Len(buffer) : up'[Len(up) + n].id = buffer[n].id
            /\ Len(buffer) \in Nat /\ DOMAIN buffer = 1..Len(buffer)
        BY <1>a, <4>1, SentFacts
      <4>3. ASSUME NEW n \in DOMAIN up' PROVE issued'[up'[n].id] = "async"
        <5>1. CASE n \in DOMAIN up
          BY <1>a, <3>3, <4>2, <5>1
        <5>2. CASE n \notin DOMAIN up
          <6>1. n - Len(up) \in DOMAIN buffer /\ n = Len(up) + (n - Len(up))
            BY <1>a, <4>2, <5>2
          <6>2. up'[n].id = buffer[n - Len(up)].id
            BY <4>2, <6>1
          <6> QED
            BY <3>2, <6>1, <6>2
        <5> QED
          BY <5>1, <5>2
      <4> QED
        BY <2>2, <3>1, <4>3 DEF Quiet
    <3> QED
      BY <2>3, <3>4, <3>5
  <2>5. Served(t)'
    BY <2>2 DEF Served
  <2> QED
    BY <1>c, <2>2, <2>4, <2>5, OneCaller
<1>5. ASSUME NEW t \in Thread, BeginCall(t) PROVE CallInv'
  <2>1. PICK size \in AsyncSize \cup SyncSize : SubmitCommand(size)
    BY <1>5 DEF BeginCall
  <2>2. /\ Issue("sync") /\ "sync" \in Kinds /\ UNCHANGED <<open, down, replies>>
        /\ call[t].step = "idle"
    BY <1>5 DEF BeginCall, Kinds, server, Idle
  <2>3. PICK buffer \in Seq(Command) :
          /\ Flush(buffer) \/ (pending' = buffer /\ up' = up)
          /\ Len(buffer) = Len(pending) + 1 /\ DOMAIN buffer = 1..Len(pending) + 1
          /\ \A n \in DOMAIN pending : buffer[n] = pending[n]
          /\ buffer[Len(pending) + 1].id = Len(issued) + 1
          /\ issued'[Len(issued) + 1] = "sync"
          /\ \A n \in DOMAIN pending : issued'[buffer[n].id] = issued[pending[n].id]
          /\ \A n \in DOMAIN up : issued'[up[n].id] = issued[up[n].id]
    BY <2>1, <2>2, SubmitBuffer
  <2>4. call'[t] = [step |-> "reply", id |-> Len(issued) + 1]
    BY <1>5, <1>a DEF BeginCall, NextId
  <2>5. up' = up
    <3>1. Len(issued') = Len(issued) + 1
      BY <1>a, <2>2, IssueTypes
    <3>2. issued' # issued
      BY <1>a, <3>1
    <3> QED
      BY <1>5, <3>2 DEF CallsStayBuffered, vars, client
  <2>6. ASSUME open PROVE pending' = buffer
    <3>1. ASSUME Flush(buffer) PROVE FALSE
      <4>1. up' = up \o Message(buffer)
        BY <2>6, <3>1 DEF Flush
      <4>2. DOMAIN up' = 1..(Len(up) + Len(buffer))
        BY <1>a, <4>1, SentFacts
      <4>3. Len(up) + 1 \in DOMAIN up'
        BY <1>a, <2>3, <4>2
      <4> QED
        BY <1>a, <2>5, <4>3
    <3> QED
      BY <2>3, <3>1
  <2>7. ASSUME open PROVE down' = <<>> /\ Quiet' /\ AtTheEnd(t)'
    <3>1. down = <<>> /\ Quiet /\ \A n \in DOMAIN pending : issued[pending[n].id] = "async"
      BY <1>d, <1>e, <2>2, <2>7
    <3>2. Quiet'
      BY <2>3, <2>5, <3>1 DEF Quiet
    <3>3. pending' # <<>> /\ Len(pending') = Len(pending) + 1
      BY <1>a, <2>3, <2>6, <2>7
    <3>4. \A n \in 1..Len(pending) : issued'[buffer[n].id] = "async"
      BY <1>a, <2>3, <3>1
    <3>5. (Len(pending) + 1) - 1 = Len(pending)
      BY <1>a
    <3> QED
      BY <2>2, <2>3, <2>4, <2>6, <2>7, <3>1, <3>2, <3>3, <3>4, <3>5 DEF AtTheEnd
  <2>8. Served(t)'
    BY <2>2, <2>4, <2>7 DEF Served
  <2> QED
    BY <1>c, <2>2, <2>7, <2>8, OneCaller
<1>6. ASSUME NEW t \in Thread, SendDirect(t) PROVE CallInv'
  <2>1. /\ Issue("direct") /\ "direct" \in Kinds
        /\ UNCHANGED <<open, pending, down, replies, performed>>
        /\ call[t].step = "idle"
    BY <1>6 DEF SendDirect, Kinds, server, Idle
  <2>2. /\ NextId = Len(issued) + 1 /\ NextId \in 1..MaxCommands
        /\ \A i \in 1..Len(issued) : issued'[i] = issued[i]
    BY <1>a, <2>1, IssueTypes
  <2>3. CASE open
    <3> DEFINE m == [id |-> NextId, last |-> TRUE]
    <3>1. up' = Append(up, m) /\ call'[t] = [step |-> "receive", id |-> NextId]
      BY <1>6, <1>a, <2>3 DEF SendDirect
    <3>2. m \in Sent /\ m.id = Len(issued) + 1 /\ m.last
      BY <2>2 DEF Sent
    <3> HIDE DEF m
    <3>3. /\ DOMAIN up' = 1..(Len(up) + 1) /\ up'[Len(up) + 1] = m
          /\ \A n \in 1..Len(up) : up'[n] = up[n]
      BY <1>a, <3>1, <3>2, AppendFacts
    <3>4. down = <<>> /\ Quiet
      BY <1>d, <2>1, <2>3
    <3>5. ASSUME NEW n \in DOMAIN up', n # Len(up) + 1 PROVE issued'[up'[n].id] = "async"
      <4>1. n \in DOMAIN up /\ up'[n] = up[n]
        BY <1>a, <3>3, <3>5
      <4> QED
        BY <1>b, <2>2, <3>4, <4>1 DEF Quiet
    <3>6. Len(issued) + 1 \notin Done /\ Done' = Done
      <4>1. Done' = Done
        BY <2>1 DEF Done
      <4> QED
        BY <1>a, <1>b, <4>1
    <3>7. Len(up) + 1 \in DOMAIN up'
      BY <1>a, <3>3
    <3>8. OnItsWay(t)'
      BY <2>1, <2>2, <3>1, <3>2, <3>3, <3>4, <3>5, <3>6, <3>7 DEF OnItsWay
    <3>9. Served(t)'
      BY <2>1, <2>3, <3>1, <3>8 DEF Served
    <3> QED
      BY <1>c, <2>1, <3>1, <3>9, OneCaller
  <2>4. CASE ~open
    <3>1. ~open' /\ call' = call
      BY <1>6, <2>1, <2>4 DEF SendDirect
    <3>2. Served(t)'
      BY <2>1, <3>1 DEF Served
    <3> QED
      BY <3>1, <3>2, OneCaller
  <2> QED
    BY <2>3, <2>4
<1>7. ASSUME NEW t \in Thread, NothingToFlush(t) PROVE CallInv'
  <2>1. pending = <<>> /\ call[t].step = "reply" /\ open' = open /\ call'[t] = Idle
    BY <1>7, <1>a DEF NothingToFlush, Return
  <2>2. ~open
    BY <2>1 DEF CallInv, Served, AtTheEnd
  <2>3. Served(t)'
    BY <2>1 DEF Served, Idle
  <2> QED
    BY <2>1, <2>2, <2>3, OneCaller
<1>8. ASSUME NEW t \in Thread, FlushForReply(t) PROVE CallInv'
  <2>1. /\ pending # <<>> /\ call[t].step = "reply"
        /\ Flush(pending) /\ UNCHANGED <<issued, open, down, replies, performed>>
    BY <1>8 DEF FlushForReply, server
  <2>2. CASE open
    <3>1. up' = up \o Message(pending) /\ pending' = <<>>
      BY <2>1, <2>2 DEF Flush
    <3>2. call'[t].step = "receive" /\ call'[t].id = call[t].id
      <4>1. call' = [call EXCEPT ![t] = [call[t] EXCEPT !.step = "receive"]]
        BY <1>8, <3>1 DEF FlushForReply
      <4>2. call[t] \in [step : {"reply", "receive"}, id : 1..MaxCommands]
        BY <1>a, <2>1 DEF Calls, Idle
      <4> QED
        BY <1>a, <4>1, <4>2
    <3>w. up \in Seq(Sent) /\ pending \in Seq(Command)
      BY <1>a
    <3>3. /\ DOMAIN up' = 1..(Len(up) + Len(pending))
          /\ \A n \in 1..Len(up) : up'[n] = up[n]
          /\ \A n \in 1..Len(pending) :
               /\ up'[Len(up) + n].id = pending[n].id
               /\ up'[Len(up) + n].last <=> n = Len(pending)
      <4> DEFINE wire2 == up \o Message(pending)
      <4>1. /\ DOMAIN wire2 = 1..(Len(up) + Len(pending))
            /\ \A n \in 1..Len(up) : wire2[n] = up[n]
            /\ \A n \in 1..Len(pending) :
                 /\ wire2[Len(up) + n].id = pending[n].id
                 /\ wire2[Len(up) + n].last <=> n = Len(pending)
        BY <3>w, SentFacts
      <4> HIDE DEF wire2
      <4>2. up' = wire2
        BY <3>1 DEF wire2
      <4> QED
        BY <4>1, <4>2
    <3>4. AtTheEnd(t)
      BY <2>1, <2>2 DEF CallInv, Served
    <3>5. down = <<>> /\ Quiet
      BY <1>d, <2>1, <2>2
    <3> DEFINE p == Len(pending)
    <3>6. p \in Nat \ {0} /\ p \in DOMAIN pending /\ Len(up) + p \in DOMAIN up'
      <4>1. p # 0
        BY <2>1, <3>w
      <4> HIDE DEF p
      <4>2. p \in Nat \ {0} /\ DOMAIN pending = 1..p /\ DOMAIN up' = 1..(Len(up) + p)
        BY <1>a, <3>3, <4>1 DEF p
      <4> QED
        BY <1>a, <4>2
    <3>7. up'[Len(up) + p].id = call[t].id /\ up'[Len(up) + p].last
      BY <3>3, <3>4, <3>6 DEF AtTheEnd
    <3>8. ASSUME NEW n \in DOMAIN up', n # Len(up) + p PROVE issued[up'[n].id] = "async"
      <4>1. CASE n \in DOMAIN up
        BY <1>a, <3>3, <3>5, <4>1 DEF Quiet
      <4>2. CASE n \notin DOMAIN up
        <5>0. n \in 1..(Len(up) + p) /\ p \in Nat /\ n \notin 1..Len(up)
          BY <1>a, <3>3, <3>6, <4>2
        <5>1. /\ n - Len(up) \in 1..p /\ n - Len(up) # p
              /\ n = Len(up) + (n - Len(up))
          BY <1>a, <3>8, <5>0
        <5>2. up'[n].id = pending[n - Len(up)].id
          BY <3>3, <5>1
        <5>3. n - Len(up) \in 1..Len(pending)-1
          BY <3>6, <5>1
        <5> QED
          BY <3>4, <5>2, <5>3 DEF AtTheEnd
      <4> QED
        BY <4>1, <4>2
    <3>9. call[t].id \notin Done /\ Done' = Done
      <4>1. ASSUME NEW k \in DOMAIN performed, performed[k] = call[t].id PROVE FALSE
        <5>1. /\ pending[p].id = performed[k] /\ issued[performed[k]] # "direct"
          BY <3>4, <4>1 DEF AtTheEnd
        <5>2. performed[k] < pending[p].id
          BY <3>6, <5>1 DEF Order, Ordered, Increasing
        <5>3. pending[p].id \in Nat
          BY <1>a, <1>b, <3>6
        <5> QED
          BY <5>1, <5>2, <5>3
      <4> QED
        BY <2>1, <4>1 DEF Done
    <3> HIDE DEF p
    <3>10. OnItsWay(t)'
      BY <2>1, <3>2, <3>5, <3>6, <3>7, <3>8, <3>9 DEF OnItsWay
    <3>11. Served(t)'
      BY <2>1, <2>2, <3>2, <3>10 DEF Served
    <3> QED
      BY <1>c, <2>1, <3>2, <3>11, OneCaller
  <2>3. CASE ~open
    <3>1. pending' = pending
      BY <2>1, <2>3 DEF Flush
    <3>2. ~open' /\ call'[t] = Idle
      BY <1>8, <1>a, <2>1, <2>3, <3>1 DEF FlushForReply, Return
    <3>3. Served(t)'
      BY <3>2 DEF Served, Idle
    <3> QED
      BY <3>2, <3>3, OneCaller
  <2> QED
    BY <2>2, <2>3
<1>9. ASSUME NEW t \in Thread, Receive(t) PROVE CallInv'
  <2>1. /\ down # <<>> /\ call[t].step = "receive" /\ call'[t] = Idle
        /\ down' = Tail(down) /\ UNCHANGED <<issued, up, open, replies>>
    BY <1>9, <1>a DEF Receive, Return, server
  <2>2. ASSUME open PROVE down' = <<>> /\ Quiet'
    <3>1. Replied(t) /\ Quiet
      BY <2>1, <2>2 DEF CallInv, Served, OnItsWay
    <3>2. down' = <<>>
      <4>1. down = << <<call[t].id>> >>
        BY <3>1 DEF Replied
      <4> QED
        BY <2>1, <4>1
    <3> QED
      BY <2>1, <3>1, <3>2 DEF Quiet
  <2>3. Served(t)'
    BY <2>1 DEF Served, Idle
  <2> QED
    BY <1>c, <2>1, <2>2, <2>3, OneCaller
<1>10. ASSUME NEW t \in Thread, ReceiveFails(t) PROVE CallInv'
  <2>1. ~open' /\ call'[t] = Idle
    BY <1>10, <1>a DEF ReceiveFails, Return
  <2>2. Served(t)'
    BY <2>1 DEF Served, Idle
  <2> QED
    BY <2>1, <2>2, OneCaller
<1> QED
  BY <1>1, <1>2, <1>3, <1>4, <1>5, <1>6, <1>7, <1>8, <1>9, <1>10 DEF Next, Client

LEMMA InitCalls == Init => CallsKnown /\ CallInv
<1> SUFFICES ASSUME Init PROVE CallsKnown /\ CallInv
  OBVIOUS
<1>1. /\ issued = <<>> /\ up = <<>> /\ replies = <<>> /\ down = <<>> /\ open = TRUE
      /\ \A t \in Thread : call[t] = Idle /\ got[t].call = 0
  BY DEF Init
<1>2. Len(<<>>) = 0 /\ DOMAIN <<>> = {}
  OBVIOUS
<1>3. CallsKnown
  BY <1>1, <1>2 DEF CallsKnown
<1>4. \A t \in Thread : Served(t)
  BY <1>1 DEF Served, Idle
<1>5. Quiet
  BY <1>1, <1>2 DEF Quiet
<1> QED
  BY <1>1, <1>3, <1>4, <1>5 DEF CallInv

\* What is received is the reply to the call that waits.
LEMMA ReceivesOwn ==
    ASSUME CallInv, NEW t \in Thread, Receive(t)
    PROVE  Replied(t) /\ Head(Head(down)) = call[t].id
<1>1. down # <<>> /\ call[t].step = "receive"
  BY DEF Receive
<1>2. Replied(t)
  BY <1>1 DEF CallInv, Served, OnItsWay
<1>3. \A r : Head(<<r>>) = r
  OBVIOUS
<1> QED
  BY <1>2, <1>3 DEF Replied

LEMMA ResultStep ==
    /\ OneThread /\ TypeOK /\ CallInv /\ ReplyIsOwn /\ ErrorOnlyWhenBroken /\ [Next]_vars
    => ReplyIsOwn' /\ ErrorOnlyWhenBroken'
<1> SUFFICES ASSUME OneThread, TypeOK, CallInv, ReplyIsOwn, ErrorOnlyWhenBroken, [Next]_vars
             PROVE  ReplyIsOwn' /\ ErrorOnlyWhenBroken'
  OBVIOUS
<1>a. /\ call \in [Thread -> Calls] /\ got \in [Thread -> Results]
      /\ Len(issued) \in Nat /\ Logged
  BY TypeParts DEF Calling, Logged
<1>1. ASSUME got' = got, open' = open \/ ~open' PROVE ReplyIsOwn' /\ ErrorOnlyWhenBroken'
  BY <1>1 DEF ReplyIsOwn, ErrorOnlyWhenBroken
\* A call ends with its own reply, or the connection is lost.
<1>2. ASSUME NEW t \in Thread, NEW c, NEW r,
             got' = [got EXCEPT ![t] = [call |-> c, reply |-> r]], open' = open,
             (r = c /\ c # Error) \/ (r = Error /\ ~open)
      PROVE  ReplyIsOwn' /\ ErrorOnlyWhenBroken'
  <2>1. got'[t] = [call |-> c, reply |-> r]
    BY <1>a, <1>2
  <2>2. \A u \in Thread : u # t => got'[u] = got[u]
    BY <1>a, <1>2
  <2> QED
    BY <1>2, <2>1, <2>2 DEF ReplyIsOwn, ErrorOnlyWhenBroken
<1>3. ASSUME NEW t \in Thread, Async(t) \/ BeginCall(t) PROVE ReplyIsOwn' /\ ErrorOnlyWhenBroken'
  BY <1>1, <1>3 DEF Async, BeginCall
<1>4. ASSUME NEW t \in Thread, SendDirect(t) PROVE ReplyIsOwn' /\ ErrorOnlyWhenBroken'
  <2>1. got' = got \/ (got' = [got EXCEPT ![t] = [call |-> NextId, reply |-> Error]] /\ ~open)
    BY <1>4 DEF SendDirect
  <2>2. open' = open
    BY <1>4 DEF SendDirect
  <2> QED
    BY <1>1, <1>2, <2>1, <2>2
<1>5. ASSUME NEW t \in Thread, NothingToFlush(t) PROVE ReplyIsOwn' /\ ErrorOnlyWhenBroken'
  <2>1. ~open /\ open' = open
    BY <1>5 DEF NothingToFlush, CallInv, Served, AtTheEnd
  <2> QED
    BY <1>2, <1>5, <2>1 DEF NothingToFlush, Return
<1>6. ASSUME NEW t \in Thread, FlushForReply(t) PROVE ReplyIsOwn' /\ ErrorOnlyWhenBroken'
  <2>1. got' = got \/ (Return(t, Error) /\ ~open)
    BY <1>6 DEF FlushForReply, Flush
  <2>2. open' = open
    BY <1>6 DEF FlushForReply
  <2> QED
    BY <1>1, <1>2, <2>1, <2>2 DEF Return
<1>7. ASSUME NEW t \in Thread, Receive(t) PROVE ReplyIsOwn' /\ ErrorOnlyWhenBroken'
  <2>1. Return(t, call[t].id) /\ open' = open /\ call[t].step = "receive"
    BY <1>7, ReceivesOwn DEF Receive
  <2>2. call[t].id \in 1..MaxCommands
    <3>1. call[t] \in Calls
      BY <1>a
    <3>2. call[t] \in [step : {"reply", "receive"}, id : 1..MaxCommands]
      BY <2>1, <3>1 DEF Calls, Idle
    <3> QED
      BY <3>2
  <2>3. call[t].id # Error
    BY <2>2, StreamAssumption DEF Error
  <2>4. got' = [got EXCEPT ![t] = [call |-> call[t].id, reply |-> call[t].id]]
    BY <2>1 DEF Return
  <2>5. got'[t] = [call |-> call[t].id, reply |-> call[t].id]
    BY <1>a, <2>4
  <2>6. \A u \in Thread : u # t => got'[u] = got[u]
    BY <1>a, <2>4
  <2> QED
    BY <2>1, <2>3, <2>5, <2>6 DEF ReplyIsOwn, ErrorOnlyWhenBroken
<1>8. ASSUME NEW t \in Thread, ReceiveFails(t) PROVE ReplyIsOwn' /\ ErrorOnlyWhenBroken'
  BY <1>2, <1>8 DEF ReceiveFails, Return
<1>9. CASE Perform \/ Break \/ Finished \/ UNCHANGED vars
  BY <1>1, <1>9 DEF Perform, Break, Finished, vars, client
<1> QED
  BY <1>3, <1>4, <1>5, <1>6, <1>7, <1>8, <1>9 DEF Next, Client

LEMMA InitResults == Init => ReplyIsOwn /\ ErrorOnlyWhenBroken
BY DEF Init, ReplyIsOwn, ErrorOnlyWhenBroken

\* All that a step needs to know of the calls.
ReplyInv == RingInv /\ Overtaken /\ OvertakesOnlyPending /\ CallsKnown /\ CallInv

LEMMA InitReplyInv == Init => ReplyInv
BY InitTypes, InitOrder, InitOvertakes, InitCalls DEF ReplyInv, RingInv, Order

LEMMA ReplyInvStep ==
    OneThread /\ ReplyInv /\ [Next]_vars /\ [CallsStayBuffered]_vars => ReplyInv'
BY TypeStep, OrderStep, OvertakeStep, KnownStep, CallStep DEF ReplyInv, RingInv, Order

\* With one thread, and no call that crosses the threshold of the buffer: a call
\* that returns a reply returns its own, the one vn_decode_X_reply asserts.
THEOREM RepliesAreOwn ==
    OneThread => (Spec /\ [][CallsStayBuffered]_vars => []ReplyIsOwn)
<1> SUFFICES ASSUME OneThread PROVE Spec /\ [][CallsStayBuffered]_vars => []ReplyIsOwn
  OBVIOUS
<1>1. Init => ReplyInv /\ ReplyIsOwn /\ ErrorOnlyWhenBroken
  BY InitReplyInv, InitResults
<1>2. /\ ReplyInv /\ ReplyIsOwn /\ ErrorOnlyWhenBroken
      /\ [Next]_vars /\ [CallsStayBuffered]_vars
      => ReplyInv' /\ ReplyIsOwn' /\ ErrorOnlyWhenBroken'
  BY ReplyInvStep, ResultStep DEF ReplyInv, RingInv
<1> QED
  BY <1>1, <1>2, PTL DEF Spec

\* With one thread, and no call that crosses the threshold: a call reports an
\* error only when the connection is lost.
THEOREM ErrorsAreLosses ==
    OneThread => (Spec /\ [][CallsStayBuffered]_vars => []ErrorOnlyWhenBroken)
<1> SUFFICES ASSUME OneThread PROVE Spec /\ [][CallsStayBuffered]_vars => []ErrorOnlyWhenBroken
  OBVIOUS
<1>1. Init => ReplyInv /\ ReplyIsOwn /\ ErrorOnlyWhenBroken
  BY InitReplyInv, InitResults
<1>2. /\ ReplyInv /\ ReplyIsOwn /\ ErrorOnlyWhenBroken
      /\ [Next]_vars /\ [CallsStayBuffered]_vars
      => ReplyInv' /\ ReplyIsOwn' /\ ErrorOnlyWhenBroken'
  BY ReplyInvStep, ResultStep DEF ReplyInv, RingInv
<1> QED
  BY <1>1, <1>2, PTL DEF Spec

\* With one thread, and no call that crosses the threshold: between two calls no
\* reply is on its way that the next one could take for its own.
THEOREM RepliesAreConsumed ==
    OneThread => (Spec /\ [][CallsStayBuffered]_vars => []NoStrayReply)
<1> SUFFICES ASSUME OneThread PROVE Spec /\ [][CallsStayBuffered]_vars => []NoStrayReply
  OBVIOUS
<1>1. ReplyInv /\ [Next]_vars /\ [CallsStayBuffered]_vars => ReplyInv'
  BY ReplyInvStep
<1>2. ReplyInv => NoStrayReply
  <2> SUFFICES ASSUME ReplyInv, open, \A t \in Thread : call[t] = Idle PROVE down = <<>> /\ Quiet
    BY DEF NoStrayReply, Quiet
  <2>1. \A t \in Thread : call[t].step # "receive"
    BY DEF Idle
  <2> QED
    BY <2>1 DEF ReplyInv, CallInv
<1> QED
  BY <1>1, <1>2, InitReplyInv, PTL DEF Spec

-----------------------------------------------------------------------------
(* The ring and the server implement CommandService.                       *)

\* The command performed was not performed before, and what CommandService
\* wants performed before it has been.
LEMMA PerformServes ==
    ASSUME OneThread, ReplyInv, Perform
    PROVE  \E i \in 1..Len(issued) : Service!Perform(i)
<1> DEFINE id == Head(up).id
<1>a. /\ TypeOK /\ Order /\ NoneSkipped /\ Overtaken /\ OvertakesOnlyPending
      /\ CallsKnown /\ CallInv
  BY DEF ReplyInv, RingInv, Order
<1>1. /\ up # <<>> /\ open /\ UNCHANGED <<issued, got>>
  BY DEF Perform, client
<1>2. up \in Seq(Sent) /\ performed \in Seq(1..MaxCommands)
  BY <1>a DEF TypeOK
<1>3. id = up[1].id /\ 1 \in DOMAIN up
  BY <1>1, <1>2
<1>4. id \in 1..Len(issued) /\ Done \in SUBSET (1..Len(issued)) /\ Len(issued) \in Nat
  BY <1>3, <1>a, RingFacts
<1>5. Done' = Done \cup {id}
  BY <1>a, PerformedNow
<1>6. NoneSkipped' /\ OvertakesOnlyPending'
  BY <1>a, OrderStep, OvertakeStep DEF Next
<1> HIDE DEF id
<1>7. id \notin Done
  <2>1. CASE issued[id] # "direct"
    <3> SUFFICES ASSUME NEW k \in DOMAIN performed, performed[k] = id PROVE FALSE
      BY DEF Done
    <3>1. performed[k] < up[1].id
      BY <1>3, <1>a, <2>1 DEF Order, Ordered, Increasing
    <3> QED
      BY <1>3, <1>4, <3>1
  <2>2. CASE issued[id] = "direct"
    <3>1. ~Quiet
      BY <1>3, <2>2 DEF Quiet
    <3>2. PICK t \in Thread : call[t].step = "receive"
      BY <1>1, <1>a, <3>1 DEF CallInv
    <3>3. OnItsWay(t)
      BY <1>1, <1>a, <3>1, <3>2 DEF CallInv, Served
    <3>4. up[1].id = call[t].id
      BY <1>3, <2>2, <3>3 DEF OnItsWay
    <3> QED
      BY <1>3, <3>3, <3>4 DEF OnItsWay
  <2> QED
    BY <2>1, <2>2
<1>8. Service!Before(id) \subseteq Done
  <2> SUFFICES ASSUME NEW k \in Service!Before(id) PROVE k \in Done
    OBVIOUS
  <2>1. k \in 1..id-1 /\ k \in 1..id /\ k # id
    BY <1>4 DEF Service!Before
  <2>2. id \in Done'
    BY <1>5
  <2>3. CASE issued[id] = "direct"
    <3>1. PICK n \in k..id-1 : issued[n] = "sync"
      BY <2>3 DEF Service!Before
    <3>2. k \in Done'
      BY <1>1, <1>6, <2>1, <2>2, <3>1 DEF OvertakesOnlyPending
    <3> QED
      BY <1>5, <2>1, <3>2
  <2>4. CASE issued[id] # "direct"
    <3>1. issued[k] # "direct"
      BY <2>4 DEF Service!Before
    <3>2. k \in Done'
      BY <1>1, <1>6, <2>1, <2>2, <2>4, <3>1 DEF NoneSkipped, Ring
    <3> QED
      BY <1>5, <2>1, <3>2
  <2> QED
    BY <2>3, <2>4
<1>9. Service!Perform(id)
  BY <1>1, <1>5, <1>7, <1>8 DEF Service!Perform
<1> QED
  BY <1>4, <1>9

\* A call of CommandService is answered when a call returns.
LEMMA ReturnServes ==
    ASSUME TypeOK, CallsKnown, NEW t \in Thread, call[t].step # "idle",
           NEW r \in {Error, call[t].id}, r = Error \/ r \in Done,
           Return(t, r), UNCHANGED <<issued, performed>>
    PROVE  \E i \in 1..Len(issued) : Service!Answer(t, i)
<1> DEFINE c == call[t].id
<1>1. call[t] \in Calls /\ Len(issued) \in Nat
  BY DEF TypeOK, Calls
<1>2. call[t] # Idle
  BY DEF Idle
<1>3. c \in 1..MaxCommands
  BY <1>1, <1>2 DEF Calls
<1>4. c <= Len(issued) /\ issued[c] # "async" /\ c > got[t].call
  <2>1. got[t] \in Results
    BY DEF TypeOK, Results
  <2>2. got[t].call \in Nat
    BY <2>1, StreamAssumption DEF Results
  <2> QED
    BY <1>2, <1>3, <2>2, StreamAssumption DEF CallsKnown
<1>5. Done' = Done /\ issued' = issued
  BY DEF Done
<1>6. got' = [got EXCEPT ![t] = [call |-> c, reply |-> r]]
  BY DEF Return
<1> HIDE DEF c
<1>7. \/ c \in Done /\ got' = [got EXCEPT ![t] = [call |-> c, reply |-> c]]
      \/ got' = [got EXCEPT ![t] = [call |-> c, reply |-> Service!Error]]
  BY <1>6 DEF c, Error, Service!Error
<1>8. Service!Answer(t, c)
  BY <1>4, <1>5, <1>7 DEF Service!Answer
<1> QED
  BY <1>1, <1>3, <1>4, <1>8, StreamAssumption

LEMMA ServiceStep ==
    OneThread /\ ReplyInv /\ [Next]_vars => [Service!Next]_(Service!vars)
<1> SUFFICES ASSUME OneThread, ReplyInv, [Next]_vars PROVE [Service!Next]_(Service!vars)
  OBVIOUS
<1>a. /\ TypeOK /\ CallsKnown /\ CallInv /\ got \in [Thread -> Results]
      /\ Logged /\ Len(issued) \in Nat
  BY TypeParts DEF ReplyInv, RingInv, Calling, Logged
<1>b. ASSUME performed' = performed PROVE Done' = Done
  BY <1>b DEF Done
<1>1. CASE Perform
  BY <1>1, PerformServes DEF Service!Next
<1>2. CASE Break \/ Finished \/ UNCHANGED vars
  <2>1. UNCHANGED <<issued, got, performed>>
    BY <1>2 DEF Break, Finished, vars, client, server
  <2> QED
    BY <1>b, <2>1 DEF Service!vars
<1>3. ASSUME NEW t \in Thread, Async(t) \/ BeginCall(t) PROVE Service!Next
  <2>1. /\ issued' = Append(issued, "async") \/ issued' = Append(issued, "sync")
        /\ UNCHANGED <<got, performed>>
    BY <1>3 DEF Async, BeginCall, Issue, server
  <2> QED
    BY <1>b, <2>1 DEF Service!Next, Service!Issue
<1>4. ASSUME NEW t \in Thread, SendDirect(t) PROVE Service!Next
  <2>1. issued' = Append(issued, "direct") /\ performed' = performed
    BY <1>4 DEF SendDirect, Issue, server
  <2>2. CASE got' = got
    BY <1>b, <2>1, <2>2 DEF Service!Next, Service!Issue
  <2>3. CASE got' = [got EXCEPT ![t] = [call |-> NextId, reply |-> Error]]
    <3>1. Service!Refuse(t)
      BY <1>b, <2>1, <2>3 DEF Service!Refuse, Service!Error, NextId, Error
    <3> QED
      BY <3>1 DEF Service!Next
  <2> QED
    BY <1>4, <2>2, <2>3 DEF SendDirect
<1>5. ASSUME NEW t \in Thread, NothingToFlush(t) \/ ReceiveFails(t) PROVE Service!Next
  <2>1. call[t].step # "idle" /\ Return(t, Error) /\ UNCHANGED <<issued, performed>>
    BY <1>5 DEF NothingToFlush, ReceiveFails, server
  <2>2. \E i \in 1..Len(issued) : Service!Answer(t, i)
    BY <1>a, <2>1, ReturnServes
  <2> QED
    BY <2>2 DEF Service!Next
<1>6. ASSUME NEW t \in Thread, Receive(t) PROVE Service!Next
  <2>1. call[t].step # "idle" /\ Return(t, Head(Head(down))) /\ UNCHANGED <<issued, performed>>
    BY <1>6 DEF Receive, server
  <2>2. Head(Head(down)) = call[t].id /\ call[t].id \in Done
    BY <1>6, <1>a, ReceivesOwn DEF Replied
  <2>3. \E i \in 1..Len(issued) : Service!Answer(t, i)
    BY <1>a, <2>1, <2>2, ReturnServes
  <2> QED
    BY <2>3 DEF Service!Next
<1>7. ASSUME NEW t \in Thread, FlushForReply(t) PROVE [Service!Next]_(Service!vars)
  <2>1. call[t].step # "idle" /\ UNCHANGED <<issued, performed>>
    BY <1>7 DEF FlushForReply, server
  <2>2. CASE got' = got
    BY <1>b, <2>1, <2>2 DEF Service!vars
  <2>3. CASE Return(t, Error)
    <3>1. \E i \in 1..Len(issued) : Service!Answer(t, i)
      BY <1>a, <2>1, <2>3, ReturnServes
    <3> QED
      BY <3>1 DEF Service!Next
  <2> QED
    BY <1>7, <2>2, <2>3 DEF FlushForReply
<1> QED
  BY <1>1, <1>2, <1>3, <1>4, <1>5, <1>6, <1>7 DEF Next, Client

LEMMA ServiceInit == Init => Service!Init
<1> SUFFICES ASSUME Init PROVE Service!Init
  OBVIOUS
<1>1. Done = {}
  BY DEF Init, Done
<1> QED
  BY <1>1 DEF Init, Service!Init, Error, Service!Error

\* With one thread, and no call that crosses the threshold, the ring, the socket
\* and the server are a command service: commands performed in order, a message
\* past the ring overtaking only commands nothing has waited for, and every call
\* answered at most once, with the reply to a command performed or an error.
THEOREM ServiceImplemented ==
    OneThread => (Spec /\ [][CallsStayBuffered]_vars => ImplementsService)
<1> SUFFICES ASSUME OneThread
             PROVE  Spec /\ [][CallsStayBuffered]_vars => ImplementsService
  OBVIOUS
<1>1. ReplyInv /\ [Next]_vars /\ [CallsStayBuffered]_vars => ReplyInv'
  BY ReplyInvStep
<1>2. ReplyInv /\ [Next]_vars => [Service!Next]_(Service!vars)
  BY ServiceStep
<1> QED
  BY <1>1, <1>2, InitReplyInv, ServiceInit, PTL DEF Spec, ImplementsService, Service!Spec

-----------------------------------------------------------------------------
(* Progress.  That a call returns is liveness; what can be said of it      *)
(* without fairness is that it is never stuck, and that the steps of the   *)
(* others while it lasts are bounded by what is on its way to the server.  *)

\* Can the call of t take its next step, can the server perform a command?
CanGoOn(t) ==
    \/ call[t].step = "reply"
    \/ call[t].step = "receive" /\ (down # <<>> \/ ~open)
CanPerform == up # <<>> /\ open

\* No call waits for a reply when nothing is left that could bring one: it can
\* go on, or the server has commands to perform.
NotStuck == \A t \in Thread : call[t] # Idle => CanGoOn(t) \/ CanPerform

\* A step during a call takes the call further, or leaves it alone and has the
\* server perform a command or the connection end.
Advances ==
    \A t \in Thread : call[t] # Idle =>
        \/ call'[t] = Idle
        \/ call[t].step = "reply" /\ call'[t] = [call[t] EXCEPT !.step = "receive"]
        \/ /\ call' = call
           /\ \/ open' = open /\ Len(up') < Len(up)
              \/ open /\ ~open' /\ Len(up') <= Len(up)

\* Messages end, and replies are kept back only for the rest of a message.
MessagesEnd ==
    /\ up # <<>> => up[Len(up)].last
    /\ open /\ replies # <<>> => up # <<>>

\* A call that is to flush the buffer finds its own command there, or nothing;
\* one that waits for a reply has some command before it that will be answered.
Owed(t) ==
    /\ open /\ call[t].step = "reply" =>
         pending = <<>> \/ issued[pending[Len(pending)].id] = "sync"
    /\ open /\ call[t].step = "receive" =>
         \/ down # <<>> \/ replies # <<>>
         \/ \E n \in DOMAIN up : issued[up[n].id] # "async"

ProgressInv == MessagesEnd /\ \A t \in Thread : Owed(t)

LEMMA InitProgress == Init => ProgressInv
BY DEF Init, ProgressInv, MessagesEnd, Owed, Idle

\* A message is added whole.
LEMMA MessageEnds ==
    ASSUME TypeOK, MessagesEnd, NEW s \in Seq(Command), s # <<>>, Flush(s)
    PROVE  /\ up' # <<>> => up'[Len(up')].last
           /\ up # <<>> => up' # <<>>
           /\ open => /\ pending' = <<>> /\ Len(up') \in DOMAIN up'
                      /\ up'[Len(up')].id = s[Len(s)].id
<1>1. CASE open
  <2> DEFINE m == Message(s)
  <2>1. up \in Seq(Sent)
    BY DEF TypeOK
  <2>2. Len(s) \in Nat \ {0} /\ DOMAIN s = 1..Len(s)
    OBVIOUS
  <2>3. m \in Seq(Sent) /\ Len(m) = Len(s) /\ m[Len(s)].last /\ m[Len(s)].id = s[Len(s)].id
    <3>1. m[Len(s)] = [id |-> s[Len(s)].id, last |-> Len(s) = Len(s)]
      BY <2>2 DEF Message
    <3> HIDE DEF m
    <3>2. m[Len(s)].last
      <4> DEFINE d == m[Len(s)]
      <4>1. (Len(s) = Len(s)) = TRUE
        OBVIOUS
      <4>2. d = [id |-> s[Len(s)].id, last |-> TRUE]
        BY <3>1, <4>1
      <4> HIDE DEF d
      <4>3. d.last
        BY <4>2
      <4> QED
        BY <4>3 DEF d
    <3> USE DEF m
    <3> QED
      BY <2>2, <3>2, MessageTypes
  <2>4. up' = up \o m /\ pending' = <<>>
    BY <1>1 DEF Flush
  <2> HIDE DEF m
  <2>5. Len(up') = Len(up) + Len(s) /\ up'[Len(up) + Len(s)] = m[Len(s)]
    <3>1. (up \o m)[Len(up) + Len(s)] = m[Len(s)]
      BY <2>1, <2>2, <2>3, ConcatFacts
    <3>2. Len(up \o m) = Len(up) + Len(m)
      BY <2>1, <2>3
    <3> QED
      BY <2>3, <2>4, <3>1, <3>2
  <2>6. DOMAIN up' = 1..Len(up') /\ Len(up) \in Nat
    BY <2>1, <2>3, <2>4
  <2>7. up' # <<>>
    BY <2>2, <2>5, <2>6
  <2> QED
    BY <1>1, <2>2, <2>3, <2>4, <2>5, <2>6, <2>7
<1>2. CASE ~open
  BY <1>2 DEF Flush, MessagesEnd
<1> QED
  BY <1>1, <1>2

LEMMA SubmitEnds ==
    ASSUME TypeOK, MessagesEnd, NEW k \in Kinds, Issue(k),
           NEW size \in AsyncSize \cup SyncSize, SubmitCommand(size)
    PROVE  /\ up' # <<>> => up'[Len(up')].last
           /\ up # <<>> => up' # <<>>
           /\ open => pending' = <<>> \/ issued'[pending'[Len(pending')].id] = k
<1> DEFINE cmd    == [id |-> NextId, size |-> size]
           buffer == Append(pending, cmd)
<1>1. NextId \in 1..MaxCommands /\ pending \in Seq(Command) /\ issued'[NextId] = k
  BY DEF Issue, NextId, TypeOK
<1>2. cmd \in Command /\ cmd.id = NextId
  BY <1>1 DEF Command
<1>3. \/ Flush(buffer)
      \/ pending' = buffer /\ up' = up
  BY DEF SubmitCommand
<1> HIDE DEF cmd
<1>4. buffer \in Seq(Command) /\ buffer # <<>> /\ buffer[Len(buffer)] = cmd
  BY <1>1, <1>2
<1> HIDE DEF buffer
<1>5. CASE Flush(buffer)
  BY <1>4, <1>5, MessageEnds
<1>6. CASE pending' = buffer /\ up' = up
  BY <1>1, <1>2, <1>4, <1>6 DEF MessagesEnd
<1> QED
  BY <1>3, <1>5, <1>6

LEMMA PerformProgress ==
    ASSUME TypeOK, ProgressInv, Perform
    PROVE  ProgressInv'
<1> DEFINE cmd  == Head(up)
           all  == Dispatched(cmd)
<1>1. /\ up # <<>> /\ open /\ up' = Tail(up)
      /\ replies' = IF cmd.last THEN <<>> ELSE all
      /\ down' = down \o (IF cmd.last /\ all # <<>> THEN <<all>> ELSE <<>>)
      /\ issued' = issued /\ pending' = pending /\ call' = call /\ open' = open
  BY DEF Perform, LeftReplies, Answered, client
<1>2. up \in Seq(Sent) /\ down \in Seq(Answers) /\ replies \in Seq(1..MaxCommands)
  BY DEF TypeOK, Answers
<1>3. /\ Len(up) \in Nat \ {0} /\ DOMAIN up = 1..Len(up) /\ cmd = up[1]
      /\ Len(up') = Len(up) - 1 /\ DOMAIN up' = 1..Len(up) - 1
      /\ \A n \in 1..Len(up) - 1 : up'[n] = up[n + 1]
      /\ (up' = <<>>) <=> Len(up) = 1
  <2> HIDE DEF cmd, all
  <2>1. Len(up) \in Nat \ {0} /\ DOMAIN up = 1..Len(up)
    BY <1>1, <1>2
  <2>2. Tail(up) \in Seq(Sent) /\ Len(Tail(up)) = Len(up) - 1
    BY <1>1, <1>2
  <2>3. \A n \in 1..Len(up) - 1 : Tail(up)[n] = up[n + 1]
    BY <1>1, <1>2
  <2>4. cmd = up[1]
    BY <1>1, <1>2 DEF cmd
  <2>5. (Tail(up) = <<>>) <=> Len(Tail(up)) = 0
    BY <2>2
  <2>6. DOMAIN Tail(up) = 1..Len(up) - 1
    BY <2>1, <2>2
  <2>7. (up' = <<>>) <=> Len(up) = 1
    BY <1>1, <2>1, <2>2, <2>5
  <2> QED
    BY <1>1, <2>1, <2>2, <2>3, <2>4, <2>6, <2>7
<1>4. replies # <<>> \/ issued[cmd.id] # "async" => all # <<>>
  BY <1>2 DEF Dispatched
<1>5. down # <<>> => down' # <<>>
  <2>1. down' = down \/ down' = down \o <<all>>
    BY <1>1, <1>2
  <2> HIDE DEF all, cmd
  <2> QED
    BY <1>2, <2>1
<1>6. cmd.last /\ all # <<>> => down' # <<>>
  <2> HIDE DEF all, cmd
  <2>1. ASSUME cmd.last, all # <<>> PROVE down' = Append(down, all)
    BY <1>1, <1>2, <2>1
  <2> QED
    BY <1>2, <2>1
<1>7. ~cmd.last => up' # <<>> /\ replies' = all
  BY <1>1, <1>3 DEF ProgressInv, MessagesEnd
<1> HIDE DEF all, cmd
<1>8. MessagesEnd'
  <2>1. up' # <<>> => up'[Len(up')].last
    <3>1. up[Len(up)].last
      BY <1>1 DEF ProgressInv, MessagesEnd
    <3>2. Len(up) # 1 => up'[Len(up) - 1] = up[Len(up)]
      BY <1>3
    <3> QED
      BY <1>3, <3>1, <3>2
  <2>2. replies' # <<>> => up' # <<>>
    BY <1>1, <1>7
  <2> QED
    BY <2>1, <2>2 DEF MessagesEnd
<1>9. ASSUME NEW t \in Thread PROVE Owed(t)'
  <2>0. Owed(t)
    BY DEF ProgressInv
  <2>1. ASSUME call[t].step = "receive"
        PROVE  \/ down' # <<>> \/ replies' # <<>>
               \/ \E n \in DOMAIN up' : issued[up'[n].id] # "async"
    <3>1. CASE down # <<>>
      BY <3>1, <1>5
    <3>2. CASE all # <<>>
      BY <3>2, <1>6, <1>7
    <3>3. CASE \E n \in DOMAIN up : n # 1 /\ issued[up[n].id] # "async"
      <4>1. PICK n \in 2..Len(up) : issued[up[n].id] # "async"
        BY <3>3, <1>3
      <4>2. n - 1 \in 1..Len(up) - 1 /\ up'[n - 1] = up[(n - 1) + 1] /\ (n - 1) + 1 = n
        BY <1>3
      <4> QED
        BY <4>1, <4>2, <1>3
    <3> QED
      BY <2>0, <2>1, <3>1, <3>2, <3>3, <1>1, <1>3, <1>4 DEF Owed
  <2> QED
    BY <2>0, <2>1, <1>1 DEF Owed
<1> QED
  BY <1>8, <1>9 DEF ProgressInv

LEMMA ProgressStep == OneThread /\ TypeOK /\ ProgressInv /\ [Next]_vars => ProgressInv'
<1> SUFFICES ASSUME OneThread, TypeOK, ProgressInv, [Next]_vars PROVE ProgressInv'
  OBVIOUS
<1>1. ASSUME NEW t \in Thread, Async(t) PROVE ProgressInv'
  <2>1. PICK size \in AsyncSize : SubmitCommand(size)
    BY <1>1 DEF Async
  <2>2. Issue("async") /\ "async" \in Kinds /\ MessagesEnd
    BY <1>1 DEF Async, Kinds, ProgressInv
  <2>3. MessagesEnd'
    BY <2>1, <2>2, <1>1, SubmitEnds DEF Async, MessagesEnd, server
  <2>4. \A u \in Thread : call'[u] = Idle
    BY <1>1 DEF Async, OneThread
  <2> QED
    BY <2>3, <2>4 DEF ProgressInv, Owed, Idle
<1>2. ASSUME NEW t \in Thread, BeginCall(t) PROVE ProgressInv'
  <2>1. PICK size \in SyncSize : SubmitCommand(size)
    BY <1>2 DEF BeginCall
  <2>2. Issue("sync") /\ "sync" \in Kinds /\ MessagesEnd
    BY <1>2 DEF BeginCall, Kinds, ProgressInv
  <2>3. /\ MessagesEnd'
        /\ open => pending' = <<>> \/ issued'[pending'[Len(pending')].id] = "sync"
    BY <2>1, <2>2, <1>2, SubmitEnds DEF BeginCall, MessagesEnd, server
  <2>4. \A u \in Thread : call'[u].step = "reply"
    BY <1>2 DEF BeginCall, OneThread, TypeOK
  <2>5. open' = open
    BY <1>2 DEF BeginCall
  <2> QED
    BY <2>3, <2>4, <2>5 DEF ProgressInv, Owed
<1>3. ASSUME NEW t \in Thread, SendDirect(t) PROVE ProgressInv'
  <2> DEFINE sent == [id |-> NextId, last |-> TRUE]
  <2>1. up \in Seq(Sent) /\ sent \in Sent /\ issued'[NextId] = "direct"
    BY <1>3 DEF SendDirect, Issue, NextId, TypeOK, Sent
  <2>2. replies' = replies /\ open' = open /\ pending' = pending /\ sent.last /\ sent.id = NextId
    BY <1>3 DEF SendDirect, server
  <2>3. CASE open
    <3>1. up' = Append(up, sent)
      BY <1>3, <2>3 DEF SendDirect
    <3>2. \A u \in Thread : call'[u].step = "receive"
      BY <1>3, <2>3 DEF SendDirect, OneThread, TypeOK
    <3> HIDE DEF sent
    <3>3. up' # <<>> /\ Len(up') \in DOMAIN up' /\ up'[Len(up')] = sent
      BY <2>1, <3>1
    <3> QED
      BY <2>1, <2>2, <3>2, <3>3 DEF ProgressInv, MessagesEnd, Owed
  <2>4. CASE ~open
    <3>1. up' = up
      BY <1>3, <2>4 DEF SendDirect
    <3> QED
      BY <2>2, <2>4, <3>1 DEF ProgressInv, MessagesEnd, Owed
  <2> QED
    BY <2>3, <2>4
<1>4. ASSUME NEW t \in Thread, NothingToFlush(t) \/ Receive(t) \/ ReceiveFails(t)
      PROVE  ProgressInv'
  <2>1. UNCHANGED <<up, open, replies>>
    BY <1>4 DEF NothingToFlush, Receive, ReceiveFails, server
  <2>2. \A u \in Thread : call'[u] = Idle
    BY <1>4 DEF NothingToFlush, Receive, ReceiveFails, Return, OneThread, TypeOK
  <2> QED
    BY <2>1, <2>2 DEF ProgressInv, MessagesEnd, Owed, Idle
<1>5. ASSUME NEW t \in Thread, FlushForReply(t) PROVE ProgressInv'
  <2>1. pending \in Seq(Command) /\ pending # <<>> /\ Flush(pending)
    BY <1>5 DEF FlushForReply, TypeOK
  <2>2. UNCHANGED <<issued, down, open, replies>>
    BY <1>5 DEF FlushForReply, server
  <2>3. /\ up' # <<>> => up'[Len(up')].last
        /\ up # <<>> => up' # <<>>
        /\ open => /\ pending' = <<>> /\ Len(up') \in DOMAIN up'
                   /\ up'[Len(up')].id = pending[Len(pending)].id
    BY <2>1, MessageEnds DEF ProgressInv
  <2>4. open => issued[pending[Len(pending)].id] = "sync"
    BY <1>5, <2>1 DEF FlushForReply, ProgressInv, Owed
  <2>5. open => \A u \in Thread : call'[u].step = "receive"
    <3>1. open => call' = [call EXCEPT ![t].step = "receive"]
      BY <1>5, <2>3 DEF FlushForReply
    <3>2. call[t] \in [step : {"reply", "receive"}, id : 1..MaxCommands]
      BY <1>5 DEF FlushForReply, TypeOK, Idle
    <3> QED
      BY <3>1, <3>2 DEF OneThread, TypeOK
  <2> QED
    BY <2>2, <2>3, <2>4, <2>5 DEF ProgressInv, MessagesEnd, Owed
<1>6. CASE Perform
  BY <1>6, PerformProgress
<1>7. CASE Break
  BY <1>7 DEF Break, ProgressInv, MessagesEnd, Owed
<1>8. CASE UNCHANGED vars
  BY <1>8 DEF vars, client, server, ProgressInv, MessagesEnd, Owed
<1> QED
  BY <1>1, <1>2, <1>3, <1>4, <1>5, <1>6, <1>7, <1>8 DEF Next, Client, Finished

\* With one thread no call is ever stuck, also when calls cross the threshold of
\* the buffer: vn_ring_get_command_reply does not wait for a reply that cannot
\* come.
THEOREM CallsAreNotStuck == OneThread => (Spec => []NotStuck)
<1> SUFFICES ASSUME OneThread PROVE Spec => []NotStuck
  OBVIOUS
<1>1. Init => TypeOK /\ ProgressInv
  BY InitTypes, InitProgress
<1>2. TypeOK /\ ProgressInv /\ [Next]_vars => TypeOK' /\ ProgressInv'
  BY TypeStep, ProgressStep
<1>3. TypeOK /\ ProgressInv => NotStuck
  <2> SUFFICES ASSUME TypeOK, ProgressInv, NEW t \in Thread, call[t] # Idle
               PROVE  CanGoOn(t) \/ CanPerform
    BY DEF NotStuck
  <2>1. call[t].step \in {"reply", "receive"}
    BY DEF TypeOK
  <2>2. up \in Seq(Sent)
    BY DEF TypeOK
  <2>3. (\E n \in DOMAIN up : TRUE) => up # <<>>
    OBVIOUS
  <2> QED
    BY <2>1, <2>3 DEF ProgressInv, MessagesEnd, Owed, CanGoOn, CanPerform
<1> QED
  BY <1>1, <1>2, <1>3, PTL DEF Spec

\* With one thread, while a call is in progress only its own steps, the server's
\* and the loss of the connection happen, and nothing is added to what the
\* server has to perform once the call waits: at most Len(up) commands and the
\* loss separate it from its reply (vn_call_X, handle_client_message).
THEOREM CallsAdvance == OneThread => (Spec => [][Advances]_vars)
<1> SUFFICES ASSUME OneThread PROVE Spec => [][Advances]_vars
  OBVIOUS
<1>1. TypeOK /\ [Next]_vars => [Advances]_vars
  <2> SUFFICES ASSUME TypeOK, Next, ~ UNCHANGED vars, NEW t \in Thread, call[t] # Idle
               PROVE  \/ call'[t] = Idle
                      \/ /\ call[t].step = "reply"
                         /\ call'[t] = [call[t] EXCEPT !.step = "receive"]
                      \/ /\ call' = call
                         /\ \/ open' = open /\ Len(up') < Len(up)
                            \/ open /\ ~open' /\ Len(up') <= Len(up)
    BY DEF Advances
  <2>0. up \in Seq(Sent) /\ call \in [Thread -> {Idle} \cup
                           [step : {"reply", "receive"}, id : 1..MaxCommands]]
    BY DEF TypeOK
  <2>1. ASSUME NEW u \in Thread, Client(u)
        PROVE  \/ call'[t] = Idle
               \/ /\ call[t].step = "reply"
                  /\ call'[t] = [call[t] EXCEPT !.step = "receive"]
    <3>1. u = t
      BY DEF OneThread
    <3>2. NothingToFlush(t) \/ FlushForReply(t) \/ Receive(t) \/ ReceiveFails(t)
      BY <2>1, <3>1 DEF Client, Async, BeginCall, SendDirect
    <3> QED
      BY <2>0, <3>2 DEF NothingToFlush, FlushForReply, Receive, ReceiveFails, Return
  <2>2. CASE Perform
    BY <2>0, <2>2 DEF Perform, client
  <2>3. CASE Break
    <3>1. up' = <<>> /\ open /\ ~open' /\ call' = call
      BY <2>3 DEF Break, client
    <3>2. Len(up') = 0 /\ Len(up) \in Nat
      BY <2>0, <3>1
    <3>3. Len(up') <= Len(up)
      BY <3>2
    <3> QED
      BY <3>1, <3>3, Zenon
  <2> QED
    BY <2>1, <2>2, <2>3 DEF Next, Finished
<1> QED
  BY <1>1, TypeCorrect, PTL DEF Spec
=============================================================================
