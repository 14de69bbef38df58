-------------------------- MODULE CommandRingProofs --------------------------
(***************************************************************************)
(* Proofs about CommandRing: types for any number of threads; with one     *)
(* thread, that the steps of its calls implement AtomicRing, and with that *)
(* what AtomicRingProofs proves of order, replies and errors; and that a   *)
(* call is never stuck.                                                    *)
(***************************************************************************)
EXTENDS CommandRing, TLAPS, SequenceTheorems

-----------------------------------------------------------------------------
(* Types.                                                                  *)

\* A message of replies is not empty.
Answers == Seq(1..MaxCommands) \ {<<>>}
Calls   == {Idle} \cup [step : Steps, id : 1..MaxCommands,
                        then : {"idle", "reply", "verify"}]
Results == [call : 0..MaxCommands, reply : 0..MaxCommands]

Logged   == issued \in Seq(Kinds) /\ Len(issued) <= MaxCommands
Buffered == pending \in Seq(Command)
Wired    == up \in Seq(Sent)
Replying == replies \in Seq(1..MaxCommands) /\ down \in Seq(Answers)
Calling  == call \in [Thread -> Calls] /\ got \in [Thread -> Results]
Counted  == performed \in Seq(1..MaxCommands) /\ open \in BOOLEAN

LEMMA TypeParts ==
    TypeOK <=> Logged /\ Buffered /\ Wired /\ Replying /\ Calling /\ Counted
BY DEF TypeOK, Logged, Buffered, Wired, Replying, Calling, Counted, Answers, Calls, Results

LEMMA TypePartsPrimed ==
    TypeOK' <=> Logged' /\ Buffered' /\ Wired' /\ Replying' /\ Calling' /\ Counted'
BY DEF TypeOK, Logged, Buffered, Wired, Replying, Calling, Counted, Answers, Calls, Results

LEMMA InitTypes == Init => TypeOK
<1> SUFFICES ASSUME Init PROVE TypeOK
  OBVIOUS
<1>1. Logged /\ Buffered /\ Wired /\ Replying /\ Counted
  BY StreamAssumption DEF Init, Logged, Buffered, Wired, Replying, Counted
<1>2. Calling
  BY StreamAssumption DEF Init, Calling, Calls, Results, Error
<1> QED
  BY <1>1, <1>2, TypeParts

LEMMA IssueTypes ==
    ASSUME Logged, NEW k \in Kinds, Issue(k)
    PROVE  Logged' /\ NextId \in 1..MaxCommands
BY StreamAssumption DEF Logged, Issue, NextId

LEMMA MessageTypes ==
    ASSUME NEW s \in Seq(Command)
    PROVE  Message(s) \in Seq(Sent)
<1>1. DOMAIN s = 1..Len(s) /\ Len(s) \in Nat
  OBVIOUS
<1>2. \A i \in DOMAIN s : s[i].id \in 1..MaxCommands
  <2>1. \A i \in DOMAIN s : s[i] \in Command
    OBVIOUS
  <2> QED
    BY <2>1 DEF Command
<1>3. Message(s) \in [1..Len(s) -> Sent]
  BY <1>1, <1>2 DEF Message, Sent
<1> QED
  BY <1>1, <1>3

\* The ways the record of a call changes.
LEMMA CallTypes ==
    ASSUME Calling, NEW t \in Thread, call[t].step # "idle"
    PROVE  /\ call[t] = [step |-> call[t].step, id |-> call[t].id, then |-> call[t].then]
           /\ call[t].step \in Steps /\ call[t].id \in 1..MaxCommands
           /\ call[t].then \in {"idle", "reply", "verify"}
BY DEF Calling, Calls, Idle

LEMMA EnterTypes ==
    ASSUME Calling, NEW t \in Thread, call[t].step # "idle", NEW step \in Steps,
           NEW then \in {"idle", "reply", "verify"}, Enter(t, step, then), got' = got
    PROVE  Calling'
<1>1. [step |-> step, id |-> call[t].id, then |-> then] \in Calls
  BY CallTypes DEF Calls
<1> QED
  BY <1>1 DEF Enter, Calling

LEMMA LeaveTypes ==
    ASSUME Calling, NEW t \in Thread, call[t].step # "idle", Leave(t), got' = got
    PROVE  Calling'
<1>1. call[t].then # "idle" =>
        [step |-> call[t].then, id |-> call[t].id, then |-> "idle"] \in Calls
  BY CallTypes DEF Calls, Steps
<1> QED
  BY <1>1 DEF Leave, Calling, Calls

LEMMA ReturnTypes ==
    ASSUME Calling, NEW t \in Thread, call[t].step # "idle",
           NEW r \in 0..MaxCommands, Return(t, r)
    PROVE  Calling'
<1>1. call[t].id \in 1..MaxCommands
  BY CallTypes
<1>2. [call |-> call[t].id, reply |-> r] \in Results
  BY <1>1 DEF Results
<1> QED
  BY <1>2 DEF Return, Calling, Calls

LEMMA TypeStep == TypeOK /\ [Next]_vars => TypeOK'
<1> SUFFICES ASSUME TypeOK, [Next]_vars PROVE TypeOK'
  OBVIOUS
<1>a. Logged /\ Buffered /\ Wired /\ Replying /\ Calling /\ Counted
  BY TypeParts
<1>b. Error \in 0..MaxCommands
  BY StreamAssumption DEF Error
<1>1. CASE Perform
  <2>0. up # <<>> /\ up \in Seq(Sent)
    BY <1>1, <1>a DEF Perform, Wired
  <2>h. Head(up) \in Sent /\ Tail(up) \in Seq(Sent)
    BY <2>0
  <2>1. Head(up).id \in 1..MaxCommands
    BY <2>h DEF Sent
  <2> DEFINE all == Dispatched(Head(up))
  <2>2. all \in Seq(1..MaxCommands)
    <3>1. replies \in Seq(1..MaxCommands) /\ Append(replies, Head(up).id) \in Seq(1..MaxCommands)
      BY <1>a, <2>1 DEF Replying
    <3> QED
      BY <3>1 DEF Dispatched
  <2>3. /\ replies' = LeftReplies(Head(up), all) /\ down' = down \o Answered(Head(up), all)
        /\ up' = Tail(up) /\ performed' = Append(performed, Head(up).id)
        /\ UNCHANGED <<issued, pending, call, got, open>>
    BY <1>1 DEF Perform, client
  <2> HIDE DEF all
  <2>4. LeftReplies(Head(up), all) \in Seq(1..MaxCommands)
    <3>1. LeftReplies(Head(up), all) \in {<<>>, all}
      BY DEF LeftReplies
    <3>2. <<>> \in Seq(1..MaxCommands)
      OBVIOUS
    <3> QED
      BY <2>2, <3>1, <3>2, Zenon
  <2>5. Answered(Head(up), all) \in Seq(Answers)
    <3>1. all # <<>> => all \in Answers
      BY <2>2 DEF Answers
    <3> QED
      BY <3>1 DEF Answered
  <2>6. Replying'
    BY <1>a, <2>3, <2>4, <2>5 DEF Replying
  <2>7. Wired' /\ Counted'
    BY <1>a, <2>1, <2>h, <2>3 DEF Wired, Counted
  <2> QED
    BY <1>a, <2>3, <2>6, <2>7, TypePartsPrimed DEF Logged, Buffered, Calling
<1>2. CASE Break
  <2>1. PICK n \in 0..Len(down) : down' = SubSeq(down, 1, n)
    BY <1>2 DEF Break
  <2>2. Replying'
    BY <1>2, <1>a, <2>1 DEF Break, Replying
  <2>b. up' = <<>> /\ open' = FALSE /\ performed' = performed
    BY <1>2 DEF Break
  <2>3. Wired' /\ Counted'
    <3>1. <<>> \in Seq(Sent) /\ FALSE \in BOOLEAN
      OBVIOUS
    <3> QED
      BY <1>a, <2>b, <3>1, Zenon DEF Wired, Counted
  <2> QED
    BY <1>2, <1>a, <2>2, <2>3, TypePartsPrimed DEF Break, Logged, Buffered, Calling, client
<1>3. CASE Finished \/ UNCHANGED vars
  BY <1>3, <1>a, TypePartsPrimed
     DEF Finished, vars, client, server, Logged, Buffered, Wired, Replying, Calling, Counted
<1>4. ASSUME NEW t \in Thread, NEW k \in {"async", "sync"},
             NEW size \in AsyncSize \cup SyncSize, SubmitCommand(t, k, size)
      PROVE  TypeOK'
  <2>1. Issue(k) /\ k \in Kinds
    BY <1>4 DEF SubmitCommand, Kinds
  <2>2. Logged' /\ NextId \in 1..MaxCommands
    BY <1>a, <2>1, IssueTypes
  <2>3. Buffered'
    <3>1. [id |-> NextId, size |-> size] \in Command
      BY <2>2 DEF Command
    <3> QED
      BY <1>4, <1>a, <3>1 DEF SubmitCommand, Buffered
  <2>4. Calling'
    <3>1. [step |-> "check", id |-> NextId,
           then |-> IF k = "async" THEN "idle" ELSE "reply"] \in Calls
      BY <2>2 DEF Calls, Steps
    <3> QED
      BY <1>4, <1>a, <3>1 DEF SubmitCommand, Calling
  <2> QED
    BY <1>4, <1>a, <2>2, <2>3, <2>4, TypePartsPrimed
       DEF SubmitCommand, Wired, Replying, Counted, server
<1>5. ASSUME NEW t \in Thread, CheckSize(t) PROVE TypeOK'
  <2>1. Calling'
    BY <1>5, <1>a, CallTypes, EnterTypes, LeaveTypes DEF CheckSize, At, Steps
  <2> QED
    BY <1>5, <1>a, <2>1, TypePartsPrimed
       DEF CheckSize, Logged, Buffered, Wired, Replying, Counted, server
<1>6. ASSUME NEW t \in Thread, SendDirect(t) PROVE TypeOK'
  <2>1. Issue("direct") /\ "direct" \in Kinds
    BY <1>6 DEF SendDirect, Kinds
  <2>2. Logged' /\ NextId \in 1..MaxCommands
    BY <1>a, <2>1, IssueTypes
  <2>3. [id |-> NextId, last |-> TRUE] \in Sent
    BY <2>2 DEF Sent
  <2>4. Wired'
    BY <1>6, <1>a, <2>3 DEF SendDirect, Wired
  <2>5. Calling'
    <3>1. [step |-> "receive", id |-> NextId, then |-> "idle"] \in Calls
      BY <2>2 DEF Calls, Steps
    <3>2. [call |-> NextId, reply |-> Error] \in Results
      BY <1>b, <2>2 DEF Results
    <3> QED
      BY <1>6, <1>a, <3>1, <3>2 DEF SendDirect, Calling
  <2> QED
    BY <1>6, <1>a, <2>2, <2>4, <2>5, TypePartsPrimed
       DEF SendDirect, Buffered, Replying, Counted, server
<1>7. ASSUME NEW t \in Thread, NothingToFlush(t) PROVE TypeOK'
  <2>1. Calling'
    BY <1>7, <1>a, <1>b, ReturnTypes DEF NothingToFlush, At
  <2> QED
    BY <1>7, <1>a, <2>1, TypePartsPrimed
       DEF NothingToFlush, Logged, Buffered, Wired, Replying, Counted, server
<1>8. ASSUME NEW t \in Thread, ReceiveFails(t) PROVE TypeOK'
  <2>1. Calling'
    BY <1>8, <1>a, <1>b, ReturnTypes DEF ReceiveFails, At
  <2> QED
    BY <1>8, <1>a, <2>1, TypePartsPrimed
       DEF ReceiveFails, Logged, Buffered, Wired, Replying, Counted, server
<1>9. ASSUME NEW t \in Thread, Receive(t) PROVE TypeOK'
  <2>1. Head(down) \in Answers /\ Tail(down) \in Seq(Answers)
    BY <1>9, <1>a DEF Receive, Replying
  <2>2. Head(Head(down)) \in 0..MaxCommands
    <3>1. Head(down) \in Seq(1..MaxCommands) /\ Head(down) # <<>>
      BY <2>1 DEF Answers
    <3>2. ASSUME NEW S, NEW s \in Seq(S), s # <<>> PROVE Head(s) \in S
      BY <3>2
    <3>3. Head(Head(down)) \in 1..MaxCommands
      BY <3>1, <3>2
    <3> QED
      BY <3>3
  <2>3. Calling'
    BY <1>9, <1>a, <2>2, ReturnTypes DEF Receive, At
  <2> QED
    BY <1>9, <1>a, <2>1, <2>3, TypePartsPrimed
       DEF Receive, Logged, Buffered, Wired, Replying, Counted, server
<1>10. ASSUME NEW t \in Thread, FlushForReply(t) PROVE TypeOK'
  <2>1. Calling'
    BY <1>10, <1>a, EnterTypes DEF FlushForReply, At, Steps
  <2> QED
    BY <1>10, <1>a, <2>1, TypePartsPrimed
       DEF FlushForReply, Logged, Buffered, Wired, Replying, Counted, server
<1>11. ASSUME NEW t \in Thread, FlushPending(t) PROVE TypeOK'
  <2>1. Calling'
    BY <1>11, <1>a, CallTypes, EnterTypes, LeaveTypes DEF FlushPending, At, Steps
  <2>2. Wired'
    <3>1. Message(pending) \in Seq(Sent) /\ up \in Seq(Sent)
      BY <1>a, MessageTypes DEF Wired, Buffered
    <3>2. CASE up' = up \o Message(pending)
      BY <3>1, <3>2 DEF Wired
    <3>3. CASE up' = up
      BY <3>1, <3>3 DEF Wired
    <3> QED
      BY <1>11, <3>2, <3>3 DEF FlushPending
  <2> QED
    BY <1>11, <1>a, <2>1, <2>2, TypePartsPrimed
       DEF FlushPending, Logged, Buffered, Replying, Counted, server
<1>12. ASSUME NEW t \in Thread, ClearPending(t) PROVE TypeOK'
  <2>1. Calling'
    BY <1>12, <1>a, LeaveTypes DEF ClearPending, At
  <2> QED
    BY <1>12, <1>a, <2>1, TypePartsPrimed
       DEF ClearPending, Logged, Buffered, Wired, Replying, Counted, server
<1>13. ASSUME NEW t \in Thread, VerifyFlushed(t) PROVE TypeOK'
  <2>1. Calling'
    BY <1>13, <1>a, <1>b, EnterTypes, ReturnTypes DEF VerifyFlushed, At, Steps
  <2> QED
    BY <1>13, <1>a, <2>1, TypePartsPrimed
       DEF VerifyFlushed, Logged, Buffered, Wired, Replying, Counted, server
<1> QED
  BY <1>1, <1>2, <1>3, <1>4, <1>5, <1>6, <1>7, <1>8, <1>9, <1>10, <1>11, <1>12, <1>13
     DEF Next, Client, InCall, Async, BeginCall

\* Whatever the threads interleave, the buffer, the messages and the replies are
\* what the ring and the server make them: a reply message is never empty, and
\* no call is left with a number that was never issued.
THEOREM TypeCorrect == Spec => []TypeOK
BY InitTypes, TypeStep, PTL DEF Spec

-----------------------------------------------------------------------------
(* One thread.  Its calls implement those of AtomicRing.                   *)

OneThread == \A t, u \in Thread : t = u

Proved == INSTANCE AtomicRingProofs
          WITH issued <- mIssued, pending <- mPending, call <- mCall

LEMMA Vocabulary ==
    /\ Proved!Kinds = Kinds /\ Proved!Command = Command /\ Proved!Sent = Sent
    /\ Proved!Idle = [step |-> "idle", id |-> 0] /\ Proved!Error = Error
    /\ \A s : Proved!Message(s) = Message(s)
    /\ Proved!StreamAssumption
BY StreamAssumption
   DEF Proved!StreamAssumption, Kinds, Proved!Kinds, Command, Proved!Command, Sent, Proved!Sent,
       Proved!Idle, Error, Proved!Error, Message, Proved!Message

\* The command of a call still in vn_ring_submit_command is the last issued and
\* the last in the buffer, and the function returns to what its kind calls for.
Unsub(t) == At(t, "check") \/ (At(t, "flush") /\ call[t].then # "verify")
Entered(t) ==
    /\ issued # <<>> /\ pending # <<>>
    /\ call[t].id = Len(issued) /\ pending[Len(pending)].id = Len(issued)
    /\ \/ /\ call[t].then = "idle" /\ issued[Len(issued)] = "async"
          /\ pending[Len(pending)].size \in AsyncSize
       \/ /\ call[t].then = "reply" /\ issued[Len(issued)] = "sync"
          /\ pending[Len(pending)].size \in SyncSize

\* A buffer that a reply needs flushed is not empty, and one that is still full
\* after the flush could not be sent.
Shape(t) ==
    /\ Unsub(t) => Entered(t)
    /\ At(t, "flush") /\ call[t].then = "verify" => pending # <<>>
    /\ At(t, "verify") /\ pending # <<>> => ~open

StepInv == \A t \in Thread : Shape(t)

LEMMA FrontSeq ==
    ASSUME NEW S, NEW s \in Seq(S), s # <<>>
    PROVE  /\ Front(s) \in Seq(S) /\ Len(Front(s)) = Len(s) - 1
           /\ \A i \in 1..Len(s)-1 : Front(s)[i] = s[i]
           /\ Len(s) \in Nat \ {0} /\ s[Len(s)] \in S
<1>1. Len(s) \in Nat \ {0} /\ \A i \in 1..Len(s) : s[i] \in S
  OBVIOUS
<1> DEFINE n == Len(s) - 1
<1>2. n \in Nat /\ 1 \in Int /\ n \in Int /\ \A i \in 1..n : s[i] \in S
  BY <1>1
<1>3. /\ SubSeq(s, 1, n) \in Seq(S)
      /\ Len(SubSeq(s, 1, n)) = IF 1 <= n THEN n - 1 + 1 ELSE 0
      /\ \A i \in 1 .. n - 1 + 1 : SubSeq(s, 1, n)[i] = s[1 + i - 1]
  BY <1>2, SubSeqProperties
<1> HIDE DEF n
<1>4. Len(SubSeq(s, 1, n)) = n
  BY <1>2, <1>3
<1>5. ASSUME NEW i \in 1..n PROVE SubSeq(s, 1, n)[i] = s[i]
  <2>1. i \in 1 .. n - 1 + 1 /\ 1 + i - 1 = i
    BY <1>2
  <2> QED
    BY <1>3, <2>1
<1> QED
  BY <1>1, <1>3, <1>4, <1>5 DEF Front, n

LEMMA FrontFacts ==
    ASSUME NEW S, NEW s \in Seq(S)
    PROVE  /\ \A e \in S : Front(Append(s, e)) = s
           /\ s # <<>> => /\ Front(s) \in Seq(S) /\ Len(Front(s)) + 1 = Len(s)
                          /\ s[Len(s)] \in S /\ Append(Front(s), s[Len(s)]) = s
                          /\ Len(s) \in Nat \ {0} /\ Len(Front(s)) \in Nat
<1>1. ASSUME NEW e \in S PROVE Front(Append(s, e)) = s
  <2> DEFINE a == Append(s, e)
  <2>1. /\ a \in Seq(S) /\ a # <<>> /\ Len(a) = Len(s) + 1 /\ Len(s) \in Nat
        /\ \A i \in 1..Len(s) : a[i] = s[i]
    OBVIOUS
  <2> HIDE DEF a
  <2>2. Front(a) \in Seq(S) /\ Len(Front(a)) = Len(s) /\ \A i \in 1..Len(s) : Front(a)[i] = s[i]
    <3>1. Len(a) - 1 = Len(s)
      BY <2>1
    <3>2. /\ Front(a) \in Seq(S) /\ Len(Front(a)) = Len(a) - 1
          /\ \A i \in 1..Len(a)-1 : Front(a)[i] = a[i]
      BY <2>1, FrontSeq
    <3> QED
      BY <2>1, <3>1, <3>2
  <2>3. Front(a) = s
    BY <2>2, SeqEqual
  <2> QED
    BY <2>3 DEF a
<1>2. ASSUME s # <<>> PROVE Append(Front(s), s[Len(s)]) = s
  <2> DEFINE f == Front(s)
             a == Append(f, s[Len(s)])
  <2>1. /\ f \in Seq(S) /\ Len(f) = Len(s) - 1 /\ Len(s) \in Nat \ {0}
        /\ \A i \in 1..Len(s)-1 : f[i] = s[i]
        /\ s[Len(s)] \in S
    BY <1>2, FrontSeq
  <2> HIDE DEF f
  <2>2. /\ a \in Seq(S) /\ Len(a) = Len(s) /\ \A i \in 1..Len(f) : a[i] = f[i]
        /\ a[Len(s)] = s[Len(s)]
    BY <2>1
  <2>3. \A i \in 1..Len(a) : a[i] = s[i]
    BY <2>1, <2>2
  <2> HIDE DEF a
  <2>4. a = s
    BY <2>2, <2>3, SeqEqual
  <2> QED
    BY <2>4 DEF a, f
<1> QED
  BY <1>1, <1>2, FrontSeq

\* What AtomicRing sees while thread t is at a step.
LEMMA Mapped ==
    ASSUME OneThread, NEW t \in Thread
    PROVE  /\ Unsub(t) => mIssued = Front(issued) /\ mPending = Front(pending)
           /\ ~Unsub(t) => mIssued = issued
           /\ At(t, "clear") => mPending = <<>>
           /\ ~Unsub(t) /\ ~At(t, "clear") => mPending = pending
BY DEF OneThread, Unsub, mIssued, mPending, Unsubmitted, Sending, At

LEMMA MappedPrimed ==
    ASSUME OneThread, NEW t \in Thread
    PROVE  /\ Unsub(t)' => mIssued' = Front(issued)' /\ mPending' = Front(pending)'
           /\ ~Unsub(t)' => mIssued' = issued'
           /\ At(t, "clear")' => mPending' = <<>>
           /\ ~Unsub(t)' /\ ~At(t, "clear")' => mPending' = pending'
BY DEF OneThread, Unsub, mIssued, mPending, Unsubmitted, Sending, At

LEMMA MappedCall ==
    ASSUME OneThread, NEW t \in Thread
    PROVE  /\ mCall[t] = Submitted(call[t])
           /\ mCall' = [mCall EXCEPT ![t] = Submitted(call[t])']
           /\ Submitted(call[t])' = Submitted(call[t]) => mCall' = mCall
BY DEF OneThread, mCall

LEMMA ShapeStep == OneThread /\ TypeOK /\ StepInv /\ [Next]_vars => StepInv'
<1> SUFFICES ASSUME OneThread, TypeOK, StepInv, [Next]_vars, NEW t \in Thread
             PROVE  Shape(t)'
  BY DEF StepInv
<1>a. /\ Logged /\ Buffered /\ Calling /\ Shape(t)
      /\ issued \in Seq(Kinds) /\ pending \in Seq(Command)
  BY TypeParts DEF StepInv, Logged, Buffered
<1>1. CASE Perform \/ Finished \/ UNCHANGED vars
  BY <1>1, <1>a DEF Perform, Finished, vars, client, Shape, Unsub, Entered, At
<1>2. CASE Break
  BY <1>2, <1>a DEF Break, client, Shape, Unsub, Entered, At
<1>3. ASSUME Client(t) PROVE Shape(t)'
  <2>1. ASSUME NEW k \in {"async", "sync"},
               NEW size \in IF k = "async" THEN AsyncSize ELSE SyncSize,
               SubmitCommand(t, k, size)
        PROVE  Shape(t)'
    <3> DEFINE cmd == [id |-> Len(issued) + 1, size |-> size]
    <3>1. /\ issued' = Append(issued, k) /\ pending' = Append(pending, cmd)
          /\ call'[t] = [step |-> "check", id |-> Len(issued) + 1,
                         then |-> IF k = "async" THEN "idle" ELSE "reply"]
      BY <1>a, <2>1 DEF SubmitCommand, Issue, NextId, Calling
    <3>2. k \in Kinds /\ cmd \in Command
      BY <1>a, <2>1, IssueTypes DEF SubmitCommand, Kinds, Command, NextId
    <3> HIDE DEF cmd
    <3>3. /\ issued' # <<>> /\ pending' # <<>> /\ Len(issued') = Len(issued) + 1
          /\ issued'[Len(issued')] = k /\ pending'[Len(pending')] = cmd
      BY <1>a, <3>1, <3>2
    <3> QED
      BY <1>a, <2>1, <3>1, <3>3 DEF Shape, Unsub, Entered, At, cmd
  <2>2. CASE Async(t) \/ BeginCall(t)
    <3>1. CASE Async(t)
      BY <2>1, <3>1 DEF Async
    <3>2. CASE BeginCall(t)
      BY <2>1, <3>2 DEF BeginCall
    <3> QED
      BY <2>2, <3>1, <3>2
  <2>3. CASE SendDirect(t)
    <3>1. call'[t].step \in {"receive", "idle"}
      BY <1>a, <2>3 DEF SendDirect, Calling, Idle
    <3> QED
      BY <3>1 DEF Shape, Unsub, At
  <2>4. CASE NothingToFlush(t) \/ Receive(t) \/ ReceiveFails(t) \/ VerifyFlushed(t)
    <3>1. call'[t].step \in {"receive", "idle"}
      BY <1>a, <2>4
         DEF NothingToFlush, Receive, ReceiveFails, VerifyFlushed, Return, Enter, Calling, Idle
    <3> QED
      BY <3>1 DEF Shape, Unsub, At
  <2>5. CASE CheckSize(t) \/ FlushPending(t) \/ ClearPending(t) \/ FlushForReply(t)
    <3>1. call[t] \in Calls /\ call[t].step # "idle"
      BY <1>a, <2>5 DEF CheckSize, FlushPending, ClearPending, FlushForReply, Calling, At
    <3>2. CASE CheckSize(t)
      BY <1>a, <3>1, <3>2
         DEF CheckSize, Enter, Leave, Shape, Unsub, Entered, At, Calling, Idle
    <3>3. CASE FlushPending(t)
      BY <1>a, <3>1, <3>3
         DEF FlushPending, Enter, Leave, Shape, Unsub, Entered, At, Calling, Idle
    <3>4. CASE ClearPending(t)
      BY <1>a, <3>1, <3>4, CallTypes DEF ClearPending, Leave, Shape, Unsub, At, Calling, Idle
    <3>5. CASE FlushForReply(t)
      BY <1>a, <3>1, <3>5 DEF FlushForReply, Enter, Shape, Unsub, At, Calling
    <3> QED
      BY <2>5, <3>2, <3>3, <3>4, <3>5
  <2> QED
    BY <1>3, <2>2, <2>3, <2>4, <2>5 DEF Client, InCall
<1> QED
  BY <1>1, <1>2, <1>3 DEF Next, OneThread

\* Nothing changes for AtomicRing when nothing changes but for the steps it
\* leaves out.
Same == UNCHANGED <<mIssued, mPending, up, replies, down, open, mCall, got, performed>>

LEMMA SameStutters == Same => [Proved!Next]_(Proved!vars)
BY DEF Same, Proved!vars, Proved!client, Proved!server

\* The calls of the only thread, when they do not change.
LEMMA ClientSame == UNCHANGED <<issued, pending, call>> => UNCHANGED <<mIssued, mPending, mCall>>
BY DEF mIssued, mPending, mCall, Unsubmitted, Sending, At, Submitted

\* What AtomicRing has issued is all but perhaps the last of the commands.
LEMMA MappedIssued ==
    ASSUME TypeOK
    PROVE  \A i \in 1..Len(mIssued) : i \in 1..Len(issued) /\ mIssued[i] = issued[i]
<1>a. issued \in Seq(Kinds) /\ mIssued \in {issued, Front(issued)}
  BY TypeParts DEF Logged, mIssued
<1> SUFFICES ASSUME NEW i \in 1..Len(mIssued)
             PROVE  i \in 1..Len(issued) /\ mIssued[i] = issued[i]
  OBVIOUS
<1>1. CASE mIssued = issued
  BY <1>1
<1>2. CASE mIssued = Front(issued) /\ issued # <<>>
  <2>1. Len(mIssued) = Len(issued) - 1 /\ Len(issued) \in Nat
    BY <1>a, <1>2, FrontSeq
  <2>2. i \in 1..Len(issued)-1
    BY <2>1
  <2> QED
    BY <1>a, <1>2, <2>1, <2>2, FrontSeq
<1>3. CASE mIssued = Front(issued) /\ issued = <<>>
  <2>1. Front(issued) = <<>>
    BY <1>3, SubSeqEmpty DEF Front
  <2> QED
    BY <1>3, <2>1
<1> QED
  BY <1>a, <1>1, <1>2, <1>3

LEMMA PerformImplements ==
    ASSUME TypeOK, Proved!RingInv, Perform
    PROVE  Proved!Perform
<1>1. /\ up \in Seq(Sent) /\ up # <<>> /\ issued \in Seq(Kinds)
  BY TypeParts DEF Perform, Wired, Logged
<1>2. /\ Head(up) = up[1] /\ 1 \in DOMAIN up /\ Head(up) \in Sent
  BY <1>1
<1> DEFINE id == Head(up).id
<1>3. id \in Nat /\ 1 <= id /\ id <= Len(mIssued)
  BY <1>2, StreamAssumption
     DEF Sent, Proved!RingInv, Proved!Ordered, Proved!Known
<1>4. mIssued[id] = issued[id]
  BY <1>3, MappedIssued
<1>5. Proved!Dispatched(Head(up)) = Dispatched(Head(up))
  BY <1>4 DEF Dispatched, Proved!Dispatched
<1>6. UNCHANGED <<mIssued, mPending, mCall>>
  BY ClientSame DEF Perform, client
<1> QED
  BY <1>5, <1>6
     DEF Perform, Proved!Perform, LeftReplies, Proved!LeftReplies, Answered, Proved!Answered,
         client, Proved!client

\* A command leaves vn_ring_submit_command, kept or sent.
LEMMA SubmitImplements ==
    ASSUME OneThread, TypeOK, NEW t \in Thread, Unsub(t), Entered(t), ~Unsub(t)',
           UNCHANGED <<issued, pending, down, open, got, replies, performed>>,
           \/ At(t, "clear")' /\ open /\ up' = up \o Message(pending)
           \/ ~At(t, "clear")' /\ up' = up,
           Submitted(call[t])' = IF call[t].then = "idle" THEN [step |-> "idle", id |-> 0]
                                 ELSE [step |-> "reply", id |-> call[t].id]
    PROVE  Proved!Async(t) \/ Proved!BeginCall(t)
<1>a. issued \in Seq(Kinds) /\ Len(issued) <= MaxCommands /\ pending \in Seq(Command)
  BY TypeParts DEF Logged, Buffered
<1> DEFINE k    == issued[Len(issued)]
           last == pending[Len(pending)]
<1>1. /\ mIssued = Front(issued) /\ mPending = Front(pending)
      /\ mIssued' = issued /\ mPending' = IF At(t, "clear")' THEN <<>> ELSE pending
  BY Mapped, MappedPrimed
<1>2. /\ issued = Append(mIssued, k) /\ Len(mIssued) + 1 = Len(issued)
      /\ pending = Append(mPending, last) /\ last \in Command
  BY <1>1, <1>a, FrontFacts DEF Entered
<1>3. last = [id |-> Proved!NextId, size |-> last.size]
  BY <1>2 DEF Command, Entered, Proved!NextId
<1>4. Proved!SubmitCommand(last.size)
  <2>1. pending = Append(mPending, [id |-> Proved!NextId, size |-> last.size])
    BY <1>2, <1>3
  <2>2. CASE At(t, "clear")'
    <3>1. Proved!Flush(pending)
      BY <1>1, <2>2, Vocabulary DEF Proved!Flush
    <3> QED
      BY <2>1, <3>1 DEF Proved!SubmitCommand
  <2>3. CASE ~At(t, "clear")'
    BY <1>1, <2>1, <2>3 DEF Proved!SubmitCommand
  <2> QED
    BY <2>2, <2>3
<1>5. Proved!Issue(k)
  BY <1>1, <1>2, <1>a DEF Proved!Issue, Proved!NextId
<1>6. mCall[t] = Proved!Idle
  <2>1. Submitted(call[t]) = [step |-> "idle", id |-> 0]
    BY DEF Submitted, Unsub, At
  <2> QED
    BY <2>1, MappedCall, Vocabulary
<1>7. CASE call[t].then = "idle"
  <2>1. k = "async" /\ last.size \in AsyncSize
    BY <1>7 DEF Entered
  <2>2. mCall' = mCall
    BY <1>6, <1>7, MappedCall, Vocabulary
  <2> QED
    BY <1>4, <1>5, <1>6, <2>1, <2>2 DEF Proved!Async, Proved!server
<1>8. CASE call[t].then = "reply"
  <2>1. k = "sync" /\ last.size \in SyncSize
    BY <1>8 DEF Entered
  <2>2. mCall' = [mCall EXCEPT ![t] = [step |-> "reply", id |-> Proved!NextId]]
    BY <1>2, <1>8, MappedCall DEF Entered, Proved!NextId
  <2> QED
    BY <1>4, <1>5, <1>6, <2>1, <2>2 DEF Proved!BeginCall, Proved!server
<1> QED
  BY <1>7, <1>8 DEF Entered

\* The step the call of t is at, as Submitted tells it.
View(t) ==
    /\ Unsub(t) \/ At(t, "idle") => Submitted(call[t]) = [step |-> "idle", id |-> 0]
    /\ At(t, "reply") \/ (At(t, "flush") /\ ~Unsub(t))
        => Submitted(call[t]) = [step |-> "reply", id |-> call[t].id]
    /\ At(t, "receive") => Submitted(call[t]) = [step |-> "receive", id |-> call[t].id]
    /\ At(t, "verify") /\ pending = <<>> =>
            Submitted(call[t]) = [step |-> "receive", id |-> call[t].id]
    /\ At(t, "verify") /\ pending # <<>> =>
            Submitted(call[t]) = [step |-> "reply", id |-> call[t].id]
    /\ At(t, "clear") /\ call[t].then = "idle" =>
            Submitted(call[t]) = [step |-> "idle", id |-> 0]
    /\ At(t, "clear") /\ call[t].then = "reply" =>
            Submitted(call[t]) = [step |-> "reply", id |-> call[t].id]
    /\ At(t, "clear") /\ call[t].then = "verify" =>
            Submitted(call[t]) = [step |-> "receive", id |-> call[t].id]

LEMMA Views == \A t \in Thread : View(t)
BY DEF View, Submitted, Unsub, At

LEMMA ViewsPrimed == \A t \in Thread : View(t)'
BY DEF View, Submitted, Unsub, At

LEMMA ClientImplements ==
    ASSUME OneThread, TypeOK, TypeOK', NEW t \in Thread, Shape(t), Client(t)
    PROVE  Same \/ Proved!Client(t)
<1>a. /\ issued \in Seq(Kinds) /\ pending \in Seq(Command) /\ Calling /\ Calling'
      /\ call \in [Thread -> Calls] /\ Logged
  BY TypeParts, TypePartsPrimed DEF Logged, Buffered, Calling
<1>v. View(t) /\ View(t)'
  BY Views, ViewsPrimed
<1>1. ASSUME NEW k \in {"async", "sync"}, NEW size \in AsyncSize \cup SyncSize,
             SubmitCommand(t, k, size)
      PROVE  Same
  <2> DEFINE cmd == [id |-> NextId, size |-> size]
  <2>1. /\ issued' = Append(issued, k) /\ pending' = Append(pending, cmd)
        /\ call[t] = Idle /\ At(t, "check")'
        /\ UNCHANGED <<up, down, open, got, replies, performed>>
    BY <1>a, <1>1 DEF SubmitCommand, Issue, At, server
  <2>2. k \in Kinds /\ cmd \in Command
    BY <1>a, <1>1, IssueTypes DEF SubmitCommand, Kinds, Command
  <2>3. ~Unsub(t) /\ At(t, "idle") /\ ~At(t, "clear") /\ Unsub(t)'
    BY <2>1 DEF Unsub, At, Idle
  <2> HIDE DEF cmd
  <2>4. mIssued' = mIssued /\ mPending' = mPending
    <3>1. Front(issued') = issued /\ Front(pending') = pending
      <4>1. Front(Append(issued, k)) = issued
        BY <1>a, <2>2, FrontFacts
      <4>2. Front(Append(pending, cmd)) = pending
        BY <1>a, <2>2, FrontFacts
      <4> QED
        BY <2>1, <4>1, <4>2
    <3> QED
      BY <2>3, <3>1, Mapped, MappedPrimed
  <2>5. mCall' = mCall
    BY <1>v, <2>3, MappedCall DEF View
  <2> QED
    BY <2>1, <2>4, <2>5 DEF Same
<1>2. CASE CheckSize(t)
  <2>1. /\ At(t, "check") /\ Entered(t)
        /\ UNCHANGED <<issued, pending, up, down, open, got, replies, performed>>
    BY <1>2 DEF CheckSize, Shape, Unsub, server
  <2>2. CASE Enter(t, "flush", call[t].then)
    <3>1. Unsub(t)' /\ Unsub(t)
      BY <1>a, <2>1, <2>2 DEF Enter, Unsub, At, Entered
    <3> QED
      BY <1>v, <2>1, <3>1, Mapped, MappedPrimed, MappedCall DEF Same, View
  <2>3. CASE Leave(t)
    <3>1. /\ Unsub(t) /\ ~Unsub(t)' /\ ~At(t, "clear")'
          /\ call'[t] = IF call[t].then = "idle" THEN Idle
                        ELSE [step |-> "reply", id |-> call[t].id, then |-> "idle"]
      BY <1>a, <2>1, <2>3 DEF Leave, Unsub, At, Entered, Idle
    <3>2. Submitted(call[t])' = IF call[t].then = "idle" THEN [step |-> "idle", id |-> 0]
                                ELSE [step |-> "reply", id |-> call[t].id]
      BY <1>v, <3>1 DEF View, At, Idle
    <3> QED
      BY <2>1, <3>1, <3>2, SubmitImplements DEF Proved!Client
  <2> QED
    BY <1>2, <2>2, <2>3 DEF CheckSize
<1>3. CASE FlushPending(t) /\ call[t].then # "verify"
  <2>1. /\ Unsub(t) /\ Entered(t) /\ At(t, "flush")
        /\ UNCHANGED <<issued, pending, down, open, got, replies, performed>>
    BY <1>3 DEF FlushPending, Shape, Unsub, server
  <2>2. CASE open
    <3>1. /\ up' = up \o Message(pending)
          /\ call'[t] = [step |-> "clear", id |-> call[t].id, then |-> call[t].then]
      BY <1>a, <1>3, <2>1, <2>2 DEF FlushPending, Enter, Entered
    <3>2. At(t, "clear")' /\ ~Unsub(t)'
      BY <3>1 DEF At, Unsub
    <3>3. Submitted(call[t])' = IF call[t].then = "idle" THEN [step |-> "idle", id |-> 0]
                                ELSE [step |-> "reply", id |-> call[t].id]
      BY <1>v, <2>1, <3>1, <3>2 DEF View, Entered
    <3> QED
      BY <2>1, <2>2, <3>1, <3>2, <3>3, SubmitImplements DEF Proved!Client
  <2>3. CASE ~open
    <3>1. /\ up' = up
          /\ call'[t] = IF call[t].then = "idle" THEN Idle
                        ELSE [step |-> "reply", id |-> call[t].id, then |-> "idle"]
      BY <1>a, <1>3, <2>1, <2>3 DEF FlushPending, Leave, Entered
    <3>2. ~At(t, "clear")' /\ ~Unsub(t)'
      BY <3>1 DEF At, Unsub, Idle
    <3>3. Submitted(call[t])' = IF call[t].then = "idle" THEN [step |-> "idle", id |-> 0]
                                ELSE [step |-> "reply", id |-> call[t].id]
      BY <1>v, <3>1 DEF View, At, Idle
    <3> QED
      BY <2>1, <3>1, <3>2, <3>3, SubmitImplements DEF Proved!Client
  <2> QED
    BY <2>2, <2>3
<1>4. CASE FlushPending(t) /\ call[t].then = "verify"
  <2>1. /\ ~Unsub(t) /\ At(t, "flush") /\ ~At(t, "clear") /\ pending # <<>>
        /\ UNCHANGED <<issued, pending, down, open, got, replies, performed>>
    BY <1>4 DEF FlushPending, Shape, Unsub, At, server
  <2>2. mCall[t] = [step |-> "reply", id |-> call[t].id] /\ mIssued = issued /\ mPending = pending
    BY <1>v, <2>1, MappedCall, Mapped DEF View
  <2>3. CASE open
    <3>1. /\ up' = up \o Message(pending)
          /\ call'[t] = [step |-> "clear", id |-> call[t].id, then |-> "verify"]
      BY <1>a, <1>4, <2>1, <2>3 DEF FlushPending, Enter
    <3>2. At(t, "clear")' /\ ~Unsub(t)'
      BY <3>1 DEF At, Unsub
    <3>3. mIssued' = issued' /\ mPending' = <<>>
      BY <3>2, MappedPrimed
    <3>4. mCall' = [mCall EXCEPT ![t] = [step |-> "receive", id |-> call[t].id]]
      BY <1>v, <3>1, <3>2, MappedCall DEF View
    <3>5. mCall' = [mCall EXCEPT ![t].step = "receive"]
      <4>1. [mCall[t] EXCEPT !.step = "receive"] = [step |-> "receive", id |-> call[t].id]
        BY <2>2
      <4> QED
        BY <3>4, <4>1
    <3>6. Proved!FlushForReply(t)
      BY <2>1, <2>2, <2>3, <3>1, <3>3, <3>5, Vocabulary
         DEF Proved!FlushForReply, Proved!Flush, Proved!server
    <3> QED
      BY <3>6 DEF Proved!Client
  <2>4. CASE ~open
    <3>1. up' = up /\ call'[t] = [step |-> "verify", id |-> call[t].id, then |-> "idle"]
      BY <1>a, <1>4, <2>1, <2>4 DEF FlushPending, Leave
    <3>2. At(t, "verify")' /\ ~At(t, "clear")' /\ ~Unsub(t)'
      BY <3>1 DEF At, Unsub
    <3> QED
      BY <1>v, <2>1, <2>2, <3>1, <3>2, MappedCall, MappedPrimed DEF Same, View
  <2> QED
    BY <2>3, <2>4
<1>5. CASE ClearPending(t)
  <2>1. /\ At(t, "clear") /\ ~Unsub(t) /\ pending' = <<>>
        /\ UNCHANGED <<issued, up, down, open, got, replies, performed>>
        /\ call'[t] = IF call[t].then = "idle" THEN Idle
                      ELSE [step |-> call[t].then, id |-> call[t].id, then |-> "idle"]
        /\ call[t].then \in {"idle", "reply", "verify"}
    BY <1>a, <1>5, CallTypes DEF ClearPending, Leave, Unsub, At, server
  <2>2. ~At(t, "clear")' /\ ~Unsub(t)'
    BY <2>1 DEF At, Unsub, Idle
  <2>3. Submitted(call[t])' = Submitted(call[t])
    BY <1>v, <2>1 DEF View, At, Idle
  <2> QED
    BY <2>1, <2>2, <2>3, Mapped, MappedPrimed, MappedCall DEF Same
<1>6. CASE FlushForReply(t)
  <2>1. /\ At(t, "reply") /\ ~Unsub(t) /\ ~At(t, "clear")
        /\ UNCHANGED <<issued, pending, up, down, open, got, replies, performed>>
        /\ call'[t] = [step |-> "flush", id |-> call[t].id, then |-> "verify"]
    BY <1>a, <1>6 DEF FlushForReply, Enter, Unsub, At, server
  <2>2. At(t, "flush")' /\ ~Unsub(t)' /\ ~At(t, "clear")'
    BY <2>1 DEF At, Unsub
  <2>3. Submitted(call[t])' = Submitted(call[t])
    BY <1>v, <2>1, <2>2 DEF View
  <2> QED
    BY <2>1, <2>2, <2>3, Mapped, MappedPrimed, MappedCall DEF Same
\* What the remaining steps have in common: the call returns r.
<1>r. ASSUME NEW r, Return(t, r), call[t].step \in {"reply", "verify", "receive"},
             UNCHANGED <<issued, pending>>
      PROVE  /\ Proved!Return(t, r) /\ UNCHANGED <<mIssued, mPending>>
             /\ mIssued = issued /\ mPending = pending
  <2>1. call'[t] = Idle /\ got' = [got EXCEPT ![t] = [call |-> call[t].id, reply |-> r]]
    BY <1>a, <1>r DEF Return
  <2>2. /\ ~Unsub(t) /\ ~At(t, "clear") /\ At(t, "idle")'
        /\ ~Unsub(t)' /\ ~At(t, "clear")'
    BY <1>r, <2>1 DEF Unsub, At, Idle
  <2>3. mCall[t].id = call[t].id
    BY <1>v, <1>r, MappedCall DEF View, At
  <2>4. mCall' = [mCall EXCEPT ![t] = Proved!Idle]
    BY <1>v, <2>2, MappedCall, Vocabulary DEF View
  <2> QED
    BY <1>r, <2>1, <2>2, <2>3, <2>4, Mapped, MappedPrimed DEF Proved!Return
<1>7. CASE NothingToFlush(t)
  <2>1. /\ call[t].step = "reply" /\ pending = <<>> /\ Return(t, Error)
        /\ UNCHANGED <<issued, pending, up, down, open, server>>
    BY <1>7 DEF NothingToFlush, At
  <2>2. mCall[t].step = "reply"
    BY <1>v, <2>1, MappedCall DEF View, At
  <2>3. Proved!NothingToFlush(t)
    BY <1>r, <2>1, <2>2, Vocabulary DEF Proved!NothingToFlush, Proved!server, server
  <2> QED
    BY <2>3 DEF Proved!Client
<1>8. CASE VerifyFlushed(t)
  <2>1. /\ At(t, "verify") /\ ~Unsub(t) /\ ~At(t, "clear")
        /\ UNCHANGED <<issued, pending, up, down, open, server>>
    BY <1>8 DEF VerifyFlushed, At, Unsub
  <2>2. CASE pending = <<>>
    <3>1. call'[t] = [step |-> "receive", id |-> call[t].id, then |-> "idle"] /\ got' = got
      BY <1>a, <1>8, <2>2 DEF VerifyFlushed, Enter
    <3>2. At(t, "receive")' /\ ~Unsub(t)' /\ ~At(t, "clear")'
      BY <3>1 DEF At, Unsub
    <3>3. Submitted(call[t])' = Submitted(call[t])
      BY <1>v, <2>1, <2>2, <3>1, <3>2 DEF View
    <3> QED
      BY <2>1, <3>1, <3>2, <3>3, Mapped, MappedPrimed, MappedCall DEF Same, server
  <2>3. CASE pending # <<>>
    <3>1. Return(t, Error) /\ ~open
      BY <1>8, <2>1, <2>3 DEF VerifyFlushed, Shape
    <3>2. mCall[t].step = "reply" /\ mPending = pending /\ mPending' = pending
      BY <1>v, <2>1, <2>3, <3>1, <1>r, MappedCall DEF View, At
    <3>3. Proved!FlushForReply(t)
      BY <1>r, <2>1, <2>3, <3>1, <3>2, Vocabulary
         DEF Proved!FlushForReply, Proved!Flush, Proved!server, server, At
    <3> QED
      BY <3>3 DEF Proved!Client
  <2> QED
    BY <2>2, <2>3
<1>9. CASE Receive(t)
  <2>1. /\ call[t].step = "receive" /\ down # <<>> /\ Return(t, Head(Head(down)))
        /\ down' = Tail(down) /\ UNCHANGED <<issued, pending, up, open, server>>
    BY <1>9 DEF Receive, At
  <2>2. mCall[t].step = "receive"
    BY <1>v, <2>1, MappedCall DEF View, At
  <2>3. Proved!Receive(t)
    BY <1>r, <2>1, <2>2 DEF Proved!Receive, Proved!server, server
  <2> QED
    BY <2>3 DEF Proved!Client
<1>10. CASE ReceiveFails(t)
  <2>1. /\ call[t].step = "receive" /\ ~open /\ Return(t, Error)
        /\ UNCHANGED <<issued, pending, up, down, open, server>>
    BY <1>10 DEF ReceiveFails, At
  <2>2. mCall[t].step = "receive"
    BY <1>v, <2>1, MappedCall DEF View, At
  <2>3. Proved!ReceiveFails(t)
    BY <1>r, <2>1, <2>2, Vocabulary DEF Proved!ReceiveFails, Proved!server, server
  <2> QED
    BY <2>3 DEF Proved!Client
<1>11. CASE SendDirect(t)
  <2>1. /\ Direct /\ call[t] = Idle /\ Issue("direct")
        /\ UNCHANGED <<pending, down, open, server>>
        /\ At(t, "idle") /\ ~Unsub(t) /\ ~At(t, "clear")
    BY <1>11 DEF SendDirect, At, Unsub, Idle
  <2>2. mCall[t] = Proved!Idle /\ mIssued = issued /\ mPending = pending
    BY <1>v, <2>1, Mapped, MappedCall, Vocabulary DEF View
  <2>3. Proved!NextId = NextId
    BY <2>2 DEF Proved!NextId, NextId
  <2>4. CASE open
    <3>1. /\ up' = Append(up, [id |-> NextId, last |-> TRUE]) /\ got' = got
          /\ call'[t] = [step |-> "receive", id |-> NextId, then |-> "idle"]
      BY <1>a, <1>11, <2>4 DEF SendDirect
    <3>2. At(t, "receive")' /\ ~Unsub(t)' /\ ~At(t, "clear")'
      BY <3>1 DEF At, Unsub
    <3>3. mIssued' = issued' /\ mPending' = pending'
      BY <3>2, MappedPrimed
    <3>4. mCall' = [mCall EXCEPT ![t] = [step |-> "receive", id |-> NextId]]
      BY <1>v, <3>1, <3>2, MappedCall DEF View
    <3>5. Proved!SendDirect(t)
      BY <2>1, <2>2, <2>3, <2>4, <3>1, <3>3, <3>4
         DEF Proved!SendDirect, Proved!Issue, Issue, Proved!server, server
    <3> QED
      BY <3>5 DEF Proved!Client
  <2>5. CASE ~open
    <3>1. /\ got' = [got EXCEPT ![t] = [call |-> NextId, reply |-> Error]]
          /\ up' = up /\ call' = call
      BY <1>11, <2>5 DEF SendDirect
    <3>2. At(t, "idle")' /\ ~Unsub(t)' /\ ~At(t, "clear")'
      BY <2>1, <3>1 DEF At, Unsub
    <3>3. mIssued' = issued' /\ mPending' = pending' /\ mCall' = mCall
      BY <1>v, <2>1, <3>2, MappedPrimed, MappedCall DEF View
    <3>4. Proved!SendDirect(t)
      BY <2>1, <2>2, <2>3, <2>5, <3>1, <3>3, Vocabulary
         DEF Proved!SendDirect, Proved!Issue, Issue, Proved!server, server
    <3> QED
      BY <3>4 DEF Proved!Client
  <2> QED
    BY <2>4, <2>5
<1> QED
  BY <1>1, <1>2, <1>3, <1>4, <1>5, <1>6, <1>7, <1>8, <1>9, <1>10, <1>11
     DEF Client, InCall, Async, BeginCall

LEMMA StepImplements ==
    OneThread /\ TypeOK /\ TypeOK' /\ StepInv /\ Proved!RingInv /\ [Next]_vars
        => [Proved!Next]_(Proved!vars)
<1> SUFFICES ASSUME OneThread, TypeOK, TypeOK', StepInv, Proved!RingInv, [Next]_vars
             PROVE  [Proved!Next]_(Proved!vars)
  OBVIOUS
<1>1. CASE Perform
  BY <1>1, PerformImplements DEF Proved!Next
<1>2. CASE Break
  <2>1. UNCHANGED <<mIssued, mPending, mCall>>
    BY <1>2, ClientSame DEF Break, client
  <2>2. Proved!Break
    BY <1>2, <2>1 DEF Break, Proved!Break, client, Proved!client
  <2> QED
    BY <2>2 DEF Proved!Next
<1>3. CASE Finished \/ UNCHANGED vars
  <2>1. UNCHANGED vars
    BY <1>3 DEF Finished
  <2>2. UNCHANGED <<mIssued, mPending, mCall>>
    BY <2>1, ClientSame DEF vars, client
  <2> QED
    BY <2>1, <2>2, SameStutters DEF Same, vars, client, server
<1>4. ASSUME NEW t \in Thread, Client(t) PROVE [Proved!Next]_(Proved!vars)
  <2>1. Same \/ Proved!Client(t)
    BY <1>4, ClientImplements DEF StepInv
  <2> QED
    BY <2>1, SameStutters DEF Proved!Next
<1> QED
  BY <1>1, <1>2, <1>3, <1>4 DEF Next

LEMMA InitImplements == Init => Proved!Init
<1> SUFFICES ASSUME Init PROVE Proved!Init
  OBVIOUS
<1>1. ~Unsubmitted /\ ~Sending
  BY DEF Init, Unsubmitted, Sending, At, Idle
<1>2. mIssued = <<>> /\ mPending = <<>> /\ mCall = [t \in Thread |-> Proved!Idle]
  BY <1>1, Vocabulary DEF Init, mIssued, mPending, mCall, Submitted, Idle
<1> QED
  BY <1>2, Vocabulary DEF Init, Proved!Init

\* The inductive invariant: the shape of a call, and the order AtomicRing keeps.
CallsInv == TypeOK /\ StepInv /\ Proved!RingInv

LEMMA InitCallsInv == Init => CallsInv
<1>1. Init => StepInv
  BY DEF Init, StepInv, Shape, Unsub, At, Idle
<1>2. Init => Proved!RingInv
  BY InitImplements, StreamAssumption, Proved!InitTypes, Proved!InitOrder
     DEF Proved!RingInv, Proved!Order
<1> QED
  BY <1>1, <1>2, InitTypes DEF CallsInv

LEMMA CallsInvStep ==
    OneThread /\ CallsInv /\ [Next]_vars => CallsInv' /\ [Proved!Next]_(Proved!vars)
<1> SUFFICES ASSUME OneThread, CallsInv, [Next]_vars
             PROVE  CallsInv' /\ [Proved!Next]_(Proved!vars)
  OBVIOUS
<1>1. TypeOK' /\ StepInv'
  BY TypeStep, ShapeStep DEF CallsInv
<1>2. [Proved!Next]_(Proved!vars)
  BY <1>1, StepImplements DEF CallsInv
<1>3. Proved!RingInv'
  BY <1>2, StreamAssumption, Proved!TypeStep, Proved!OrderStep
     DEF CallsInv, Proved!RingInv, Proved!Order
<1> QED
  BY <1>1, <1>2, <1>3 DEF CallsInv

LEMMA SpecImplements == OneThread => (Spec => Proved!Spec /\ []CallsInv)
<1> SUFFICES ASSUME OneThread PROVE Spec => Proved!Spec /\ []CallsInv
  OBVIOUS
<1>1. CallsInv /\ [Next]_vars => CallsInv' /\ [Proved!Next]_(Proved!vars)
  BY CallsInvStep
<1> QED
  BY <1>1, InitCallsInv, InitImplements, PTL DEF Spec, Proved!Spec

\* One thread cannot tell that a command enters the buffer, is counted, sent and
\* erased in steps of their own (vn_ring_submit_command, vn_ring_flush_pending,
\* vn_ring_get_command_reply): the ring is the AtomicRing.
THEOREM AtomicRingImplemented == OneThread => (Spec => ImplementsAtomicRing)
<1>1. Proved!Init => Atomic!Init
  BY DEF Atomic!Init, Proved!Init, Atomic!Idle, Proved!Idle, Atomic!Error, Proved!Error
<1>2. UNCHANGED Proved!vars => UNCHANGED Atomic!vars
  BY DEF Atomic!vars, Proved!vars, Atomic!client, Proved!client, Atomic!server, Proved!server
<1>3. Proved!Next => Atomic!Next
  <2>1. CASE Proved!Perform
    BY <2>1 DEF Atomic!Next, Atomic!Perform, Proved!Perform,
           Atomic!Dispatched, Proved!Dispatched, Atomic!LeftReplies, Proved!LeftReplies,
           Atomic!Answered, Proved!Answered, Atomic!client, Proved!client
  <2>3. CASE Proved!Break
    BY <2>3 DEF Atomic!Next, Atomic!Break, Proved!Break, Atomic!client, Proved!client
  <2>4. CASE Proved!Finished
    BY <1>2, <2>4 DEF Atomic!Next, Atomic!Finished, Proved!Finished,
           Atomic!NextId, Proved!NextId, Atomic!Idle, Proved!Idle
  <2>2. ASSUME NEW t \in Thread, Proved!Client(t) PROVE Atomic!Client(t)
    BY <2>2 DEF Atomic!Client, Proved!Client, Atomic!Async, Proved!Async,
           Atomic!BeginCall, Proved!BeginCall, Atomic!SendDirect, Proved!SendDirect,
           Atomic!NothingToFlush, Proved!NothingToFlush,
           Atomic!FlushForReply, Proved!FlushForReply, Atomic!Receive, Proved!Receive,
           Atomic!ReceiveFails, Proved!ReceiveFails, Atomic!Return, Proved!Return,
           Atomic!SubmitCommand, Proved!SubmitCommand, Atomic!Flush, Proved!Flush,
           Atomic!Message, Proved!Message, Atomic!Issue, Proved!Issue,
           Atomic!NextId, Proved!NextId, Atomic!Idle, Proved!Idle,
           Atomic!Error, Proved!Error, Atomic!server, Proved!server
  <2> QED
    BY <2>1, <2>2, <2>3, <2>4 DEF Atomic!Next, Proved!Next
<1>4. [Proved!Next]_(Proved!vars) => [Atomic!Next]_(Atomic!vars)
  BY <1>2, <1>3
<1> QED
  BY <1>1, <1>4, SpecImplements, PTL DEF ImplementsAtomicRing, Atomic!Spec, Proved!Spec

-----------------------------------------------------------------------------
(* What AtomicRing has, CommandRing has.                                   *)

\* What is performed has been issued, for AtomicRing too.
LEMMA DoneFacts ==
    ASSUME CallsInv
    PROVE  /\ Proved!Done = Done
           /\ performed \in Seq(1..MaxCommands)
           /\ \A k \in DOMAIN performed : performed[k] \in 1..Len(mIssued)
           /\ \A j \in Done : j \in 1..Len(mIssued)
           /\ \A i \in 1..Len(mIssued) : mIssued[i] = issued[i]
<1>1. performed \in Seq(1..MaxCommands)
  BY TypeParts DEF CallsInv, Counted
<1>2. \A k \in DOMAIN performed : performed[k] \in 1..MaxCommands
  <2>1. ASSUME NEW S, NEW s \in Seq(S), NEW k \in DOMAIN s PROVE s[k] \in S
    BY <2>1
  <2> QED
    BY <1>1, <2>1
<1>3. \A k \in DOMAIN performed : performed[k] <= Len(mIssued)
  BY DEF CallsInv, Proved!RingInv, Proved!Ordered, Proved!Known
<1>4. Len(mIssued) \in Nat
  <2>1. mIssued \in Seq(Proved!Kinds)
    BY DEF CallsInv, Proved!RingInv, Proved!TypeOK
  <2> QED
    BY <2>1
<1>5. \A k \in DOMAIN performed : performed[k] \in 1..Len(mIssued)
  BY <1>2, <1>3, <1>4, StreamAssumption
<1>6. \A i \in 1..Len(mIssued) : mIssued[i] = issued[i]
  BY MappedIssued DEF CallsInv
<1> QED
  BY <1>1, <1>5, <1>6 DEF Done, Proved!Done

\* With one thread, the connection up or lost: the commands that went through
\* vn_ring_submit_command are performed in the order they were issued, none
\* skipped and none twice.
THEOREM PerformedInIssueOrder == OneThread => (Spec => []PerformedInOrder)
<1>1. CallsInv => PerformedInOrder
  <2> SUFFICES ASSUME CallsInv PROVE PerformedInOrder
    OBVIOUS
  <2>1. /\ \A k, n \in DOMAIN performed :
                k < n /\ mIssued[performed[k]] # "direct" /\ mIssued[performed[n]] # "direct"
                    => performed[k] < performed[n]
        /\ \A j \in Proved!Done : \A i \in 1..j :
                mIssued[i] # "direct" /\ mIssued[j] # "direct" => i \in Proved!Done
    BY DEF CallsInv, Proved!RingInv, Proved!Ordered, Proved!Increasing, Proved!NoneSkipped,
           Proved!Ring
  <2>2. \A k \in DOMAIN performed : mIssued[performed[k]] = issued[performed[k]]
    BY DoneFacts
  <2>3. ASSUME NEW j \in Done, NEW i \in 1..j PROVE mIssued[i] = issued[i]
    <3>1. j \in 1..Len(mIssued)
      BY DoneFacts
    <3>2. Len(mIssued) \in Nat \/ i \in 1..Len(mIssued)
      <4>1. mIssued \in Seq(Proved!Kinds)
        BY DEF CallsInv, Proved!RingInv, Proved!TypeOK
      <4> QED
        BY <4>1
    <3>3. i \in 1..Len(mIssued)
      BY <3>1, <3>2
    <3> QED
      BY <3>3, DoneFacts
  <2>4. ASSUME NEW j \in Done PROVE mIssued[j] = issued[j]
    BY DoneFacts
  <2> QED
    BY <2>1, <2>2, <2>3, <2>4, DoneFacts DEF PerformedInOrder, Ring
<1> QED
  BY <1>1, SpecImplements, PTL

\* With one thread, what a memory transfer or a swapchain request overtakes are
\* commands without a reply that no call has waited for: they were still in the
\* buffer when it was sent past them.
THEOREM OvertakesSafely == OneThread => (Spec => []OvertakesOnlyPending)
<1> SUFFICES ASSUME OneThread PROVE Spec => []OvertakesOnlyPending
  OBVIOUS
<1>1. Proved!Spec => []Proved!OvertakesOnlyPending
  BY StreamAssumption, Proved!OvertakesSafely DEF OneThread, Proved!OneThread
<1>2. CallsInv /\ Proved!OvertakesOnlyPending => OvertakesOnlyPending
  <2> SUFFICES ASSUME CallsInv, Proved!OvertakesOnlyPending, NEW j \in Done, NEW i \in 1..j,
                      i \notin Done
               PROVE  issued[i] = "async" /\ \A k \in i..j-1 : issued[k] # "sync"
    BY DEF OvertakesOnlyPending
  <2>1. mIssued[i] = "async" /\ \A k \in i..j-1 : mIssued[k] # "sync"
    BY DoneFacts DEF Proved!OvertakesOnlyPending
  <2>2. j \in 1..Len(mIssued)
    BY DoneFacts
  <2>3. Len(mIssued) \in Nat
    <3>1. mIssued \in Seq(Proved!Kinds)
      BY DEF CallsInv, Proved!RingInv, Proved!TypeOK
    <3> QED
      BY <3>1
  <2>4. i \in 1..Len(mIssued) /\ \A k \in i..j-1 : k \in 1..Len(mIssued)
    BY <2>2, <2>3
  <2> QED
    BY <2>1, <2>4, DoneFacts
<1> QED
  BY <1>1, <1>2, SpecImplements, PTL

-----------------------------------------------------------------------------
(* Replies, as long as no call takes the buffer past its threshold.        *)

\* No call crosses the threshold: the flush for its reply is what sends it.
CallsStayBuffered ==
    \A t \in Thread :
        ~(At(t, "check") /\ call[t].then = "reply" /\ Bytes(pending) >= MaxPending)

\* So no call is flushed for its size.
NoneCrosses == \A t \in Thread : ~(At(t, "flush") /\ call[t].then = "reply")

LEMMA NoneCrossesStep ==
    OneThread /\ TypeOK /\ CallsStayBuffered /\ NoneCrosses /\ [Next]_vars => NoneCrosses'
<1> SUFFICES ASSUME OneThread, TypeOK, CallsStayBuffered, NoneCrosses, [Next]_vars,
                    NEW t \in Thread
             PROVE  ~(At(t, "flush") /\ call[t].then = "reply")'
  BY DEF NoneCrosses
<1>a. call \in [Thread -> Calls]
  BY TypeParts DEF Calling
<1>b. ~(At(t, "flush") /\ call[t].then = "reply")
  BY DEF NoneCrosses
<1>1. CASE Perform \/ Break \/ Finished \/ UNCHANGED vars
  BY <1>1, <1>b DEF Perform, Break, Finished, vars, client, At
<1>2. ASSUME NEW u \in Thread, Client(u) PROVE ~(At(t, "flush") /\ call[t].then = "reply")'
  <2>1. u = t
    BY DEF OneThread
  <2>2. CASE \E k \in {"async", "sync"}, size \in AsyncSize \cup SyncSize : SubmitCommand(t, k, size)
    <3>1. call'[t].step = "check"
      BY <1>a, <2>2 DEF SubmitCommand
    <3> QED
      BY <3>1 DEF At
  <2>3. CASE CheckSize(t)
    <3>1. CASE Bytes(pending) >= MaxPending
      <4>1. call[t].then # "reply"
        BY <2>3, <3>1 DEF CallsStayBuffered, CheckSize
      <4>2. call'[t].then = call[t].then
        BY <1>a, <2>3, <3>1 DEF CheckSize, Enter
      <4> QED
        BY <4>1, <4>2
    <3>2. CASE ~(Bytes(pending) >= MaxPending)
      <4>1. Leave(t)
        BY <2>3, <3>2 DEF CheckSize
      <4> QED
        BY <1>a, <4>1 DEF Leave, Idle, At
    <3> QED
      BY <3>1, <3>2
  <2>4. CASE FlushPending(t) \/ ClearPending(t) \/ FlushForReply(t) \/ VerifyFlushed(t)
    BY <1>a, <2>4 DEF FlushPending, ClearPending, FlushForReply, VerifyFlushed,
                      Enter, Leave, Return, Idle, At
  <2>5. CASE NothingToFlush(t) \/ Receive(t) \/ ReceiveFails(t)
    BY <1>a, <2>5 DEF NothingToFlush, Receive, ReceiveFails, Return, Idle, At
  <2>6. CASE SendDirect(t)
    BY <1>a, <1>b, <2>6 DEF SendDirect, At
  <2> QED
    BY <1>2, <2>1, <2>2, <2>3, <2>4, <2>5, <2>6 DEF Client, InCall, Async, BeginCall
<1> QED
  BY <1>1, <1>2 DEF Next

\* Then no call of AtomicRing is sent as it is issued.
LEMMA StaysBuffered ==
    ASSUME OneThread, CallsInv, NoneCrosses, [Next]_vars
    PROVE  [Proved!CallsStayBuffered]_(Proved!vars)
<1> SUFFICES ASSUME NEW t \in Thread, Proved!BeginCall(t), up' # up PROVE FALSE
  BY DEF Proved!CallsStayBuffered
<1>a. call \in [Thread -> Calls] /\ mIssued \in Seq(Kinds) /\ View(t)'
  BY TypeParts, ViewsPrimed, Vocabulary DEF CallsInv, Calling, Proved!RingInv, Proved!TypeOK
<1>1. mIssued' = Append(mIssued, "sync")
  BY DEF Proved!BeginCall, Proved!Issue
<1>2. mCall'[t].step = "reply"
  BY DEF Proved!BeginCall, mCall
<1>3. mIssued' # mIssued
  BY <1>1, <1>a
<1>4. CASE Perform \/ Break \/ Finished \/ UNCHANGED vars
  BY <1>3, <1>4, ClientSame DEF Perform, Break, Finished, vars, client
<1>5. ASSUME NEW u \in Thread, Client(u) PROVE FALSE
  <2>1. u = t /\ mCall'[t] = Submitted(call[t])'
    BY DEF OneThread, mCall
  <2>2. FlushPending(t) \/ SendDirect(t)
    BY <1>5, <2>1 DEF Client, InCall, Async, BeginCall, SubmitCommand, CheckSize, ClearPending,
           NothingToFlush, FlushForReply, VerifyFlushed, Receive, ReceiveFails
  <2>3. CASE FlushPending(t)
    <3>1. call'[t] = [step |-> "clear", id |-> call[t].id, then |-> call[t].then]
      BY <1>a, <2>3 DEF FlushPending, Enter
    <3>2. call[t].then # "reply" /\ call[t].then \in {"idle", "reply", "verify"}
      BY <1>a, <2>3 DEF FlushPending, NoneCrosses, Calls, At, Idle
    <3>3. Submitted(call[t])'.step # "reply"
      BY <1>a, <3>1, <3>2 DEF View, At
    <3> QED
      BY <1>2, <2>1, <3>3
  <2>4. CASE SendDirect(t)
    <3>1. call'[t] = [step |-> "receive", id |-> NextId, then |-> "idle"]
      BY <1>a, <2>4 DEF SendDirect
    <3>2. Submitted(call[t])'.step # "reply"
      BY <1>a, <3>1 DEF View, At
    <3> QED
      BY <1>2, <2>1, <3>2
  <2> QED
    BY <2>2, <2>3, <2>4
<1> QED
  BY <1>4, <1>5 DEF Next

LEMMA BufferedImplements ==
    OneThread =>
        (Spec /\ []CallsStayBuffered => /\ Proved!Spec /\ []CallsInv
                                        /\ [][Proved!CallsStayBuffered]_(Proved!vars))
<1> SUFFICES ASSUME OneThread
             PROVE  Spec /\ []CallsStayBuffered =>
                        /\ Proved!Spec /\ []CallsInv
                        /\ [][Proved!CallsStayBuffered]_(Proved!vars)
  OBVIOUS
<1>1. Init => NoneCrosses
  BY DEF Init, NoneCrosses, At, Idle
<1>2. CallsInv /\ CallsStayBuffered /\ NoneCrosses /\ [Next]_vars => NoneCrosses'
  BY NoneCrossesStep DEF CallsInv
<1>3. CallsInv /\ NoneCrosses /\ [Next]_vars => [Proved!CallsStayBuffered]_(Proved!vars)
  BY StaysBuffered
<1> QED
  BY <1>1, <1>2, <1>3, SpecImplements, PTL DEF Spec

\* With one thread, and no call that crosses the threshold of the buffer: a call
\* that returns a reply returns its own, the one vn_decode_X_reply asserts.
THEOREM RepliesAreOwn == OneThread => (Spec /\ []CallsStayBuffered => []ReplyIsOwn)
<1> SUFFICES ASSUME OneThread PROVE Spec /\ []CallsStayBuffered => []ReplyIsOwn
  OBVIOUS
<1>1. Proved!Spec /\ [][Proved!CallsStayBuffered]_(Proved!vars) => []Proved!ReplyIsOwn
  BY StreamAssumption, Proved!RepliesAreOwn DEF OneThread, Proved!OneThread
<1>2. Proved!ReplyIsOwn => ReplyIsOwn
  BY Vocabulary DEF Proved!ReplyIsOwn, ReplyIsOwn
<1> QED
  BY <1>1, <1>2, BufferedImplements, PTL

\* With one thread and no call that crosses the threshold: a call that fails has
\* lost its connection.
THEOREM ErrorsAreLosses == OneThread => (Spec /\ []CallsStayBuffered => []ErrorOnlyWhenBroken)
<1> SUFFICES ASSUME OneThread PROVE Spec /\ []CallsStayBuffered => []ErrorOnlyWhenBroken
  OBVIOUS
<1>1. Proved!Spec /\ [][Proved!CallsStayBuffered]_(Proved!vars) => []Proved!ErrorOnlyWhenBroken
  BY StreamAssumption, Proved!ErrorsAreLosses DEF OneThread, Proved!OneThread
<1>2. Proved!ErrorOnlyWhenBroken => ErrorOnlyWhenBroken
  BY Vocabulary DEF Proved!ErrorOnlyWhenBroken, ErrorOnlyWhenBroken
<1> QED
  BY <1>1, <1>2, BufferedImplements, PTL

\* With one thread and no call that crosses the threshold: between calls no reply
\* is left for the next one to take.
THEOREM RepliesAreConsumed == OneThread => (Spec /\ []CallsStayBuffered => []NoStrayReply)
<1> SUFFICES ASSUME OneThread PROVE Spec /\ []CallsStayBuffered => []NoStrayReply
  OBVIOUS
<1>1. Proved!Spec /\ [][Proved!CallsStayBuffered]_(Proved!vars) => []Proved!NoStrayReply
  BY StreamAssumption, Proved!RepliesAreConsumed DEF OneThread, Proved!OneThread
<1>2. Proved!NoStrayReply => NoStrayReply
  <2> SUFFICES ASSUME Proved!NoStrayReply, open, \A t \in Thread : call[t] = Idle
               PROVE  down = <<>> /\ \A k \in DOMAIN up : issued[up[k].id] = "async"
    BY DEF NoStrayReply
  <2>1. ~Unsubmitted
    BY DEF Unsubmitted, At, Idle
  <2>2. mIssued = issued /\ \A t \in Thread : mCall[t] = Proved!Idle
    BY <2>1, Vocabulary DEF mIssued, mCall, Submitted, Idle
  <2> QED
    BY <2>2 DEF Proved!NoStrayReply
<1> QED
  BY <1>1, <1>2, BufferedImplements, PTL

\* With one thread and no call that crosses the threshold, ring, socket and server
\* keep the promise of CommandService: in order, each command once, each call
\* answered once, with the reply to a command performed or an error.
THEOREM ServiceImplemented ==
    OneThread => (Spec /\ []CallsStayBuffered => ImplementsService)
<1> SUFFICES ASSUME OneThread PROVE Spec /\ []CallsStayBuffered => ImplementsService
  OBVIOUS
<1>1. Proved!Spec /\ [][Proved!CallsStayBuffered]_(Proved!vars) => Proved!ImplementsService
  BY StreamAssumption, Proved!ServiceImplemented DEF OneThread, Proved!OneThread
<1>2. Proved!Service!Init => Atomic!Service!Init
  BY DEF Atomic!Service!Init, Proved!Service!Init, Atomic!Done, Proved!Done,
         Atomic!Service!Error, Proved!Service!Error
<1>3. UNCHANGED Proved!Service!vars => UNCHANGED Atomic!Service!vars
  BY DEF Atomic!Service!vars, Proved!Service!vars, Atomic!Done, Proved!Done
<1>4. Proved!Service!Next => Atomic!Service!Next
  BY DEF Atomic!Service!Next, Proved!Service!Next, Atomic!Service!Issue, Proved!Service!Issue,
         Atomic!Service!Perform, Proved!Service!Perform, Atomic!Service!Before,
         Proved!Service!Before, Atomic!Service!Answer, Proved!Service!Answer,
         Atomic!Service!Refuse, Proved!Service!Refuse, Atomic!Service!Error,
         Proved!Service!Error, Atomic!Done, Proved!Done
<1>5. [Proved!Service!Next]_(Proved!Service!vars) => [Atomic!Service!Next]_(Atomic!Service!vars)
  BY <1>3, <1>4
<1> QED
  BY <1>1, <1>2, <1>5, BufferedImplements, PTL
     DEF ImplementsService, Atomic!ImplementsService, Proved!ImplementsService,
         Atomic!Service!Spec, Proved!Service!Spec

-----------------------------------------------------------------------------
(* Progress.                                                               *)

\* No call waits for a reply when nothing is left that could bring one.
NotStuck ==
    \A t \in Thread : At(t, "receive") => down # <<>> \/ ~open \/ up # <<>>

\* With one thread no call is ever stuck, also when calls cross the threshold of
\* the buffer: vn_ring_get_command_reply does not wait for a reply that cannot
\* come.
THEOREM CallsAreNotStuck == OneThread => (Spec => []NotStuck)
<1> SUFFICES ASSUME OneThread PROVE Spec => []NotStuck
  OBVIOUS
<1>1. Proved!Spec => []Proved!NotStuck
  BY StreamAssumption, Proved!CallsAreNotStuck DEF OneThread, Proved!OneThread
<1>2. Proved!NotStuck => NotStuck
  <2> SUFFICES ASSUME Proved!NotStuck, NEW t \in Thread, At(t, "receive")
               PROVE  down # <<>> \/ ~open \/ up # <<>>
    BY DEF NotStuck
  <2>1. mCall[t].step = "receive"
    BY DEF mCall, Submitted, At
  <2>2. mCall[t] # Proved!Idle
    BY <2>1 DEF Proved!Idle
  <2> QED
    BY <2>1, <2>2 DEF Proved!NotStuck, Proved!CanGoOn, Proved!CanPerform
<1> QED
  BY <1>1, <1>2, SpecImplements, PTL

\* How far a call is: through vn_ring_submit_command, then the flush for the
\* reply, then the wait.
Stage(c) ==
    CASE c.step = "check"                            -> 1
      [] c.step = "flush" /\ c.then # "verify"       -> 2
      [] c.step = "clear" /\ c.then # "verify"       -> 3
      [] c.step = "reply"                            -> 4
      [] c.step = "flush" /\ c.then = "verify"       -> 5
      [] c.step = "clear" /\ c.then = "verify"       -> 6
      [] c.step = "verify"                           -> 7
      [] c.step = "receive"                          -> 8
      [] OTHER                                       -> 0

\* A step during a call ends the call or takes it to a later stage, or leaves it
\* alone and has the server perform a command or the connection end.
Advances ==
    \A t \in Thread : call[t] # Idle =>
        \/ call'[t] = Idle
        \/ Stage(call'[t]) > Stage(call[t])
        \/ /\ call' = call
           /\ \/ open' = open /\ Len(up') < Len(up)
              \/ open /\ ~open' /\ Len(up') <= Len(up)

\* With one thread, while a call is in progress only its own steps, the server's
\* and the loss of the connection happen, and nothing is added to what the
\* server has to perform once the call waits: eight steps, Len(up) commands and
\* the loss separate it from its return (vn_call_X, handle_client_message).
THEOREM CallsAdvance == OneThread => (Spec => [][Advances]_vars)
<1> SUFFICES ASSUME OneThread PROVE Spec => [][Advances]_vars
  OBVIOUS
<1>1. TypeOK /\ [Next]_vars => [Advances]_vars
  <2> SUFFICES ASSUME TypeOK, Next, ~ UNCHANGED vars, NEW t \in Thread, call[t] # Idle
               PROVE  \/ call'[t] = Idle
                      \/ Stage(call'[t]) > Stage(call[t])
                      \/ /\ call' = call
                         /\ \/ open' = open /\ Len(up') < Len(up)
                            \/ open /\ ~open' /\ Len(up') <= Len(up)
    BY DEF Advances
  <2>0. up \in Seq(Sent) /\ call \in [Thread -> Calls]
    BY TypeParts DEF Wired, Calling
  <2>1. call[t].step \in Steps /\ call[t].then \in {"idle", "reply", "verify"}
    BY <2>0 DEF Calls
  <2>2. ASSUME NEW u \in Thread, Client(u)
        PROVE  call'[t] = Idle \/ Stage(call'[t]) > Stage(call[t])
    <3>1. u = t
      BY DEF OneThread
    <3>2. InCall(t)
      BY <2>2, <3>1 DEF Client, Async, BeginCall, SubmitCommand, SendDirect
    <3>3. CASE CheckSize(t)
      BY <2>0, <2>1, <3>3 DEF CheckSize, Enter, Leave, At, Stage
    <3>4. CASE FlushPending(t)
      BY <2>0, <2>1, <3>4 DEF FlushPending, Enter, Leave, At, Stage
    <3>5. CASE ClearPending(t)
      BY <2>0, <2>1, <3>5 DEF ClearPending, Leave, At, Stage
    <3>6. CASE FlushForReply(t)
      BY <2>0, <2>1, <3>6 DEF FlushForReply, Enter, At, Stage
    <3>7. CASE VerifyFlushed(t)
      BY <2>0, <2>1, <3>7 DEF VerifyFlushed, Enter, Return, At, Stage
    <3>8. CASE NothingToFlush(t) \/ Receive(t) \/ ReceiveFails(t)
      BY <2>0, <3>8 DEF NothingToFlush, Receive, ReceiveFails, Return
    <3> QED
      BY <3>2, <3>3, <3>4, <3>5, <3>6, <3>7, <3>8 DEF InCall
  <2>3. CASE Perform
    BY <2>0, <2>3 DEF Perform, client
  <2>4. CASE Break
    <3>1. up' = <<>> /\ open /\ ~open' /\ call' = call
      BY <2>4 DEF Break, client
    <3>2. Len(up') = 0 /\ Len(up) \in Nat
      BY <2>0, <3>1
    <3>3. Len(up') <= Len(up)
      BY <3>2
    <3> QED
      BY <3>1, <3>3, Zenon
  <2> QED
    BY <2>2, <2>3, <2>4 DEF Next, Finished
<1> QED
  BY <1>1, TypeCorrect, PTL DEF Spec
=============================================================================
