---------------------------- MODULE CommandRing ----------------------------
(***************************************************************************)
(* The command stream between the client ICD and the server.               *)
(*                                                                         *)
(* The client encodes commands into ring->pending_buffer.  A command       *)
(* without a reply (vn_async_X) stays there until a later command flushes  *)
(* the buffer; one with a reply (vn_call_X) flushes it and waits.  Memory  *)
(* transfers and swapchain requests are messages of their own, sent on the *)
(* same socket past the buffer.  The server reads one message at a time,   *)
(* performs its commands, and sends their replies as one message.          *)
(*                                                                         *)
(* Commands are numbered in the order they enter the buffer.  Every step   *)
(* of a call that reads or writes the buffer, the socket or the answer is  *)
(* an action: the code takes no lock, and another thread can come between  *)
(* any two of them.  The properties are about one thread; with two, what   *)
(* one appends between the send and the clear of the other is lost, and a  *)
(* buffer can be sent twice.  Two inserts at once, a data race on the      *)
(* vector itself, and two interleaved writes to the socket do even more    *)
(* than the model shows.                                                   *)
(***************************************************************************)
EXTENDS CommandStream

VARIABLES
    issued,         \* the kind of every command issued so far
    pending,        \* vn_ring::pending_buffer
    up,             \* commands on their way to the server
    replies,        \* replies encoded for the message in progress
    down,           \* reply messages on their way to the client
    open,           \* the connection is up
    call,           \* per thread: the step of its call, the command's number,
                    \* and the step at which the function it is in returns
    got,            \* per thread: its latest call and the reply it returned
    performed       \* history: the numbers of the commands performed, in order

client == <<issued, pending, call, got>>
server == <<replies, performed>>
vars   == <<client, up, down, open, server>>

Idle    == [step |-> "idle", id |-> 0, then |-> "idle"]
Steps   == {"check", "flush", "clear", "reply", "verify", "receive"}

TypeOK ==
    /\ issued \in Seq(Kinds) /\ Len(issued) <= MaxCommands
    /\ pending \in Seq(Command)
    /\ up \in Seq(Sent)
    /\ replies \in Seq(1..MaxCommands)
    /\ down \in Seq(Seq(1..MaxCommands) \ {<<>>})
    /\ open \in BOOLEAN
    /\ call \in [Thread -> {Idle} \cup [step : Steps, id : 1..MaxCommands,
                                         then : {"idle", "reply", "verify"}]]
    /\ got \in [Thread -> [call : 0..MaxCommands, reply : 0..MaxCommands]]
    /\ performed \in Seq(1..MaxCommands)

Init ==
    /\ issued = <<>> /\ pending = <<>> /\ up = <<>> /\ replies = <<>>
    /\ down = <<>> /\ open = TRUE
    /\ call = [t \in Thread |-> Idle]
    /\ got = [t \in Thread |-> [call |-> 0, reply |-> Error]]
    /\ performed = <<>>

-----------------------------------------------------------------------------
(* The client.                                                             *)

NextId == Len(issued) + 1
Issue(k) == NextId <= MaxCommands /\ issued' = Append(issued, k)

Bytes(s) == FoldLeft(LAMBDA n, cmd : n + cmd.size, 0, s)

At(t, step) == call[t].step = step

\* The call goes on at step, in a function that returns to then.
Enter(t, step, then) ==
    call' = [call EXCEPT ![t] = [step |-> step, id |-> @.id, then |-> then]]

\* The function the call is in returns.
Leave(t) ==
    call' = [call EXCEPT ![t] = IF @.then = "idle" THEN Idle
                                ELSE [step |-> @.then, id |-> @.id, then |-> "idle"]]

\* The call of t returns r; Error stands for the null decoder.
Return(t, r) ==
    /\ call' = [call EXCEPT ![t] = Idle]
    /\ got' = [got EXCEPT ![t] = [call |-> call[t].id, reply |-> r]]

\* vn_ring_submit_command: the encoded command enters the buffer.
SubmitCommand(t, kind, size) ==
    /\ call[t] = Idle
    /\ Issue(kind)
    /\ pending' = Append(pending, [id |-> NextId, size |-> size])
    /\ call' = [call EXCEPT ![t] =
                    [step |-> "check", id |-> NextId,
                     then |-> IF kind = "async" THEN "idle" ELSE "reply"]]
    /\ UNCHANGED <<up, down, open, got, server>>

\* vn_async_X, and vn_call_X, which goes on in vn_ring_get_command_reply.
Async(t)     == \E size \in AsyncSize : SubmitCommand(t, "async", size)
BeginCall(t) == \E size \in SyncSize : SubmitCommand(t, "sync", size)

\* Mutation: every command is sent at once.
CheckNothing(t) ==
    /\ At(t, "check")
    /\ Enter(t, "flush", call[t].then)
    /\ UNCHANGED <<issued, pending, up, down, open, got, server>>

\* ... and is flushed past the threshold.
CheckSize(t) ==
    /\ At(t, "check")
    /\ IF Bytes(pending) >= MaxPending THEN Enter(t, "flush", call[t].then) ELSE Leave(t)
    /\ UNCHANGED <<issued, pending, up, down, open, got, server>>

\* vn_ring_flush_pending: nothing to send, or it cannot be sent: it returns and
\* keeps what is there.
FlushPending(t) ==
    /\ At(t, "flush")
    /\ IF pending # <<>> /\ open
       THEN up' = up \o Message(pending) /\ Enter(t, "clear", call[t].then)
       ELSE Leave(t) /\ UNCHANGED up
    /\ UNCHANGED <<issued, pending, down, open, got, server>>

\* Mutation: what was sent stays in the buffer.
ClearNothing(t) == At(t, "clear") /\ Leave(t)
                   /\ UNCHANGED <<issued, pending, up, down, open, got, server>>

\* What was sent is erased, and whatever else is in the buffer by now.
ClearPending(t) ==
    /\ At(t, "clear")
    /\ pending' = <<>>
    /\ Leave(t)
    /\ UNCHANGED <<issued, up, down, open, got, server>>

\* Mutation: a buffer below the threshold is not flushed for a reply.
NotEnoughToFlush(t) ==
    /\ At(t, "reply")
    /\ Bytes(pending) < MaxPending
    /\ Return(t, Error)
    /\ UNCHANGED <<issued, pending, up, down, open, server>>

\* vn_ring_get_command_reply: nothing left to flush: null, and no reply is read.
NothingToFlush(t) ==
    /\ At(t, "reply")
    /\ pending = <<>>
    /\ Return(t, Error)
    /\ UNCHANGED <<issued, pending, up, down, open, server>>

FlushForReply(t) ==
    /\ At(t, "reply")
    /\ pending # <<>>
    /\ Enter(t, "flush", "verify")
    /\ UNCHANGED <<issued, pending, up, down, open, got, server>>

\* Null when the flush has not emptied the buffer; otherwise the reply is read.
VerifyFlushed(t) ==
    /\ At(t, "verify")
    /\ IF pending # <<>> THEN Return(t, Error)
                         ELSE Enter(t, "receive", "idle") /\ UNCHANGED got
    /\ UNCHANGED <<issued, pending, up, down, open, server>>

\* NetworkClient::receive: the next message, whatever it answers; vn_decode_X
\* takes the reply at its front.
Receive(t) ==
    /\ At(t, "receive")
    /\ down # <<>>
    /\ Return(t, Head(Head(down)))
    /\ down' = Tail(down)
    /\ UNCHANGED <<issued, pending, up, open, server>>

ReceiveFails(t) ==
    /\ At(t, "receive")
    /\ ~open
    /\ Return(t, Error)
    /\ UNCHANGED <<issued, pending, up, down, open, server>>

\* A memory transfer or a swapchain request: g_client.send past the buffer,
\* then g_client.receive.
SendDirect(t) ==
    /\ Direct
    /\ call[t] = Idle
    /\ Issue("direct")
    /\ IF open
       THEN /\ up' = Append(up, [id |-> NextId, last |-> TRUE])
            /\ call' = [call EXCEPT ![t] = [step |-> "receive", id |-> NextId,
                                            then |-> "idle"]]
            /\ UNCHANGED got
       ELSE /\ got' = [got EXCEPT ![t] = [call |-> NextId, reply |-> Error]]
            /\ UNCHANGED <<up, call>>
    /\ UNCHANGED <<pending, down, open, server>>

-----------------------------------------------------------------------------
(* The server: handle_client_message and venus_renderer_handle.            *)

\* Mutation: a reply is encoded whether the command asks for one or not.
AlwaysReplies(cmd) == Append(replies, cmd.id)

\* vn_dispatch_command: a reply only when VK_COMMAND_GENERATE_REPLY_BIT is set.
Dispatched(cmd) ==
    IF issued[cmd.id] = "async" THEN replies ELSE Append(replies, cmd.id)

\* Mutation: the encoder is not started afresh for every message.
KeptReplies(cmd, all) == all

\* The encoder starts empty with every message.
LeftReplies(cmd, all) == IF cmd.last THEN <<>> ELSE all

\* Mutation: a message is answered even when there is nothing to answer.
AlwaysAnswered(cmd, all) == IF cmd.last THEN <<all>> ELSE <<>>

\* Mutation: a message that came past the ring is not acknowledged.
NoAcknowledgement(cmd, all) ==
    IF cmd.last /\ all # <<>> /\ issued[cmd.id] # "direct" THEN <<all>> ELSE <<>>

\* At the end of a message its replies, if any, are sent.
Answered(cmd, all) == IF cmd.last /\ all # <<>> THEN <<all>> ELSE <<>>

\* The next command of the message is performed.
Perform ==
    /\ up # <<>> /\ open
    /\ LET cmd == Head(up) IN
       /\ performed' = Append(performed, cmd.id)
       /\ replies' = LeftReplies(cmd, Dispatched(cmd))
       /\ down' = down \o Answered(cmd, Dispatched(cmd))
    /\ up' = Tail(up)
    /\ UNCHANGED <<client, open>>

\* The connection ends: the network fails, or a command of a batch cannot be
\* decoded (the ones before it stay performed).  The server closes the socket
\* and waits for another client; this client never connects again.
Break ==
    /\ Breaks /\ open
    /\ open' = FALSE
    /\ up' = <<>> /\ replies' = <<>>
    /\ \E n \in 0..Len(down) : down' = SubSeq(down, 1, n)
    /\ UNCHANGED <<client, performed>>

-----------------------------------------------------------------------------
InCall(t) ==
    \/ CheckSize(t) \/ FlushPending(t) \/ ClearPending(t)
    \/ NothingToFlush(t) \/ FlushForReply(t) \/ VerifyFlushed(t)
    \/ Receive(t) \/ ReceiveFails(t)

Client(t) == Async(t) \/ BeginCall(t) \/ SendDirect(t) \/ InCall(t)

\* The bound MaxCommands ends a run only between calls: TLC reports a deadlock
\* of anything else.
Finished ==
    /\ NextId > MaxCommands /\ \A t \in Thread : call[t] = Idle
    /\ UNCHANGED vars

Next == Perform \/ Break \/ Finished \/ \E t \in Thread : Client(t)

Spec == Init /\ [][Next]_vars

\* The server performs what it has received, and a thread inside a call goes on.
FairSpec ==
    Spec /\ WF_vars(Perform) /\ \A t \in Thread : WF_vars(InCall(t))

-----------------------------------------------------------------------------
(* Properties.                                                             *)

Ring(i) == issued[i] # "direct"
Done    == {performed[k] : k \in DOMAIN performed}

\* The commands one thread puts through the ring are performed in the order they
\* were issued, none skipped and none twice, whatever is flushed when and
\* wherever the connection breaks.
PerformedInOrder ==
    /\ \A k, n \in DOMAIN performed :
            k < n /\ Ring(performed[k]) /\ Ring(performed[n])
                => performed[k] < performed[n]
    /\ \A j \in Done : \A i \in 1..j : Ring(i) /\ Ring(j) => i \in Done

\* A message sent past the buffer overtakes only commands that nothing has
\* waited for: when it is performed, so is every call with a reply before it
\* and all that was issued before that call.
OvertakesOnlyPending ==
    \A j \in Done : \A i \in 1..j :
        i \notin Done => issued[i] = "async" /\ \A k \in i..j-1 : issued[k] # "sync"

\* A call that returns a reply returns the reply to its own command: the
\* assert(command_type == ...) at the head of every vn_decode_X_reply.
ReplyIsOwn == \A t \in Thread : got[t].reply \in {Error, got[t].call}

\* A call reports an error only when the connection is lost.
ErrorOnlyWhenBroken ==
    \A t \in Thread : got[t].call # 0 /\ got[t].reply = Error => ~open

\* No reply is left over when no call is in progress: it would be taken for the
\* reply to the next call.
NoStrayReply ==
    open /\ (\A t \in Thread : call[t] = Idle) =>
        /\ down = <<>>
        /\ \A k \in DOMAIN up : issued[up[k].id] = "async"

\* Every call returns.
CallsReturn == \A t \in Thread : (call[t] # Idle) ~> (call[t] = Idle)

\* One thread cannot tell the steps of a call from the calls of AtomicRing: a
\* command is issued when vn_ring_submit_command has kept it or sent it, and a
\* buffer is empty when it is sent.
Unsubmitted ==
    \E t \in Thread : At(t, "check") \/ (At(t, "flush") /\ call[t].then # "verify")
Sending == \E t \in Thread : At(t, "clear")

Submitted(c) ==
    CASE c.step \in {"reply", "receive"}                    -> [step |-> c.step, id |-> c.id]
      [] c.step = "clear" /\ c.then = "reply"               -> [step |-> "reply", id |-> c.id]
      [] c.step = "clear" /\ c.then = "verify"              -> [step |-> "receive", id |-> c.id]
      [] c.step = "flush" /\ c.then = "verify"              -> [step |-> "reply", id |-> c.id]
      [] c.step = "verify" -> [step |-> IF pending = <<>> THEN "receive" ELSE "reply",
                               id |-> c.id]
      [] OTHER -> [step |-> "idle", id |-> 0]

mIssued  == IF Unsubmitted THEN Front(issued) ELSE issued
mPending == IF Unsubmitted THEN Front(pending) ELSE IF Sending THEN <<>> ELSE pending
mCall    == [t \in Thread |-> Submitted(call[t])]

Atomic == INSTANCE AtomicRing
          WITH issued <- mIssued, pending <- mPending, call <- mCall
ImplementsAtomicRing == Atomic!Spec

\* With one thread, ring, socket and server keep the promise of CommandService.
ImplementsService == Atomic!ImplementsService
=============================================================================
