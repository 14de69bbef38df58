----------------------------- MODULE AtomicRing -----------------------------
(***************************************************************************)
(* The command stream as one thread sees it: CommandRing with the steps of *)
(* a call between two operations on the network taken together.  A command *)
(* is appended, and the buffer flushed and cleared, in one step; how full  *)
(* the buffer is when it is flushed is left open.                          *)
(*                                                                         *)
(* CommandRing implements this with one thread, and so has with one thread *)
(* what is proved of it here.  The variables are those of CommandRing,     *)
(* where they are explained.                                               *)
(***************************************************************************)
EXTENDS CommandStream

VARIABLES
    issued,         \* the kind of every command issued so far
    pending,        \* vn_ring::pending_buffer
    up,             \* commands on their way to the server
    replies,        \* replies encoded for the message in progress
    down,           \* reply messages on their way to the client
    open,           \* the connection is up
    call,           \* per thread: the step of its call and the command's number
    got,            \* per thread: its latest call and the reply it returned
    performed       \* history: the numbers of the commands performed, in order

client == <<issued, pending, call, got>>
server == <<replies, performed>>
vars   == <<client, up, down, open, server>>

Idle    == [step |-> "idle", id |-> 0]

TypeOK ==
    /\ issued \in Seq(Kinds) /\ Len(issued) <= MaxCommands
    /\ pending \in Seq(Command)
    /\ up \in Seq(Sent)
    /\ replies \in Seq(1..MaxCommands)
    /\ down \in Seq(Seq(1..MaxCommands) \ {<<>>})
    /\ open \in BOOLEAN
    /\ call \in [Thread -> {Idle} \cup
                           [step : {"reply", "receive"}, id : 1..MaxCommands]]
    /\ got \in [Thread -> [call : 0..MaxCommands, reply : 0..MaxCommands]]
    /\ performed \in Seq(1..MaxCommands)

Init ==
    /\ issued = <<>> /\ pending = <<>> /\ up = <<>> /\ replies = <<>>
    /\ down = <<>> /\ open = TRUE
    /\ call = [t \in Thread |-> Idle]
    /\ got = [t \in Thread |-> [call |-> 0, reply |-> Error]]
    /\ performed = <<>>

-----------------------------------------------------------------------------
(* The client.                                                             *)

NextId == Len(issued) + 1
Issue(k) == NextId <= MaxCommands /\ issued' = Append(issued, k)

\* vn_ring_flush_pending on the buffer s: kept when the message cannot be sent.
Flush(s) ==
    IF open
    THEN up' = up \o Message(s) /\ pending' = <<>>
    ELSE UNCHANGED up /\ pending' = s

\* vn_ring_submit_command: appended, and flushed or kept.  When the threshold is
\* reached is left open.
SubmitCommand(size) ==
    LET buffer == Append(pending, [id |-> NextId, size |-> size]) IN
    Flush(buffer) \/ (pending' = buffer /\ UNCHANGED up)

\* vn_async_X.
Async(t) ==
    /\ call[t] = Idle
    /\ Issue("async")
    /\ \E size \in AsyncSize : SubmitCommand(size)
    /\ UNCHANGED <<down, open, call, got, server>>

\* vn_call_X: vn_submit_X, then vn_ring_get_command_reply.
BeginCall(t) ==
    /\ call[t] = Idle
    /\ Issue("sync")
    /\ \E size \in SyncSize : SubmitCommand(size)
    /\ call' = [call EXCEPT ![t] = [step |-> "reply", id |-> NextId]]
    /\ UNCHANGED <<down, open, got, server>>

\* The call of t returns r; Error stands for the null decoder.
Return(t, r) ==
    /\ call' = [call EXCEPT ![t] = Idle]
    /\ got' = [got EXCEPT ![t] = [call |-> call[t].id, reply |-> r]]

\* Nothing left to flush: null, and no reply is read.
NothingToFlush(t) ==
    /\ call[t].step = "reply"
    /\ pending = <<>>
    /\ Return(t, Error)
    /\ UNCHANGED <<issued, pending, up, down, open, server>>

FlushForReply(t) ==
    /\ call[t].step = "reply"
    /\ pending # <<>>
    /\ Flush(pending)
    /\ IF pending' = <<>>
       THEN call' = [call EXCEPT ![t].step = "receive"] /\ UNCHANGED got
       ELSE Return(t, Error)
    /\ UNCHANGED <<issued, down, open, server>>

\* NetworkClient::receive: the next message, whatever it answers; vn_decode_X
\* takes the reply at its front.
Receive(t) ==
    /\ call[t].step = "receive"
    /\ down # <<>>
    /\ Return(t, Head(Head(down)))
    /\ down' = Tail(down)
    /\ UNCHANGED <<issued, pending, up, open, server>>

ReceiveFails(t) ==
    /\ call[t].step = "receive"
    /\ ~open
    /\ Return(t, Error)
    /\ UNCHANGED <<issued, pending, up, down, open, server>>

\* A memory transfer or a swapchain request: g_client.send past the buffer,
\* then g_client.receive.
SendDirect(t) ==
    /\ Direct
    /\ call[t] = Idle
    /\ Issue("direct")
    /\ IF open
       THEN /\ up' = Append(up, [id |-> NextId, last |-> TRUE])
            /\ call' = [call EXCEPT ![t] = [step |-> "receive", id |-> NextId]]
            /\ UNCHANGED got
       ELSE /\ got' = [got EXCEPT ![t] = [call |-> NextId, reply |-> Error]]
            /\ UNCHANGED <<up, call>>
    /\ UNCHANGED <<pending, down, open, server>>

-----------------------------------------------------------------------------
(* The server: handle_client_message and venus_renderer_handle.            *)

\* vn_dispatch_command: a reply only when VK_COMMAND_GENERATE_REPLY_BIT is set.
Dispatched(cmd) ==
    IF issued[cmd.id] = "async" THEN replies ELSE Append(replies, cmd.id)

\* The encoder starts empty with every message.
LeftReplies(cmd, all) == IF cmd.last THEN <<>> ELSE all

\* At the end of a message its replies, if any, are sent.
Answered(cmd, all) == IF cmd.last /\ all # <<>> THEN <<all>> ELSE <<>>

\* The next command of the message is performed.
Perform ==
    /\ up # <<>> /\ open
    /\ LET cmd == Head(up) IN
       /\ performed' = Append(performed, cmd.id)
       /\ replies' = LeftReplies(cmd, Dispatched(cmd))
       /\ down' = down \o Answered(cmd, Dispatched(cmd))
    /\ up' = Tail(up)
    /\ UNCHANGED <<client, open>>

\* The connection ends: the network fails, or a command of a batch cannot be
\* decoded (the ones before it stay performed).  The server closes the socket
\* and waits for another client; this client never connects again.
Break ==
    /\ Breaks /\ open
    /\ open' = FALSE
    /\ up' = <<>> /\ replies' = <<>>
    /\ \E n \in 0..Len(down) : down' = SubSeq(down, 1, n)
    /\ UNCHANGED <<client, performed>>

-----------------------------------------------------------------------------
Client(t) ==
    \/ Async(t) \/ BeginCall(t) \/ SendDirect(t)
    \/ NothingToFlush(t) \/ FlushForReply(t) \/ Receive(t) \/ ReceiveFails(t)

\* The bound MaxCommands ends a run only between calls: TLC reports a deadlock
\* of anything else.
Finished ==
    /\ NextId > MaxCommands /\ \A t \in Thread : call[t] = Idle
    /\ UNCHANGED vars

Next == Perform \/ Break \/ Finished \/ \E t \in Thread : Client(t)

Spec == Init /\ [][Next]_vars

-----------------------------------------------------------------------------
(* Properties.                                                             *)

Ring(i) == issued[i] # "direct"
Done    == {performed[k] : k \in DOMAIN performed}

\* The commands that went through the ring are performed in the order they were
\* issued, none skipped and none twice, whatever is flushed when and wherever
\* the connection breaks.
PerformedInOrder ==
    /\ \A k, n \in DOMAIN performed :
            k < n /\ Ring(performed[k]) /\ Ring(performed[n])
                => performed[k] < performed[n]
    /\ \A j \in Done : \A i \in 1..j : Ring(i) /\ Ring(j) => i \in Done

\* A message sent past the buffer overtakes only commands that nothing has
\* waited for: when it is performed, so is every call with a reply before it
\* and all that was issued before that call.
OvertakesOnlyPending ==
    \A j \in Done : \A i \in 1..j :
        i \notin Done => issued[i] = "async" /\ \A k \in i..j-1 : issued[k] # "sync"

\* A call that returns a reply returns the reply to its own command: the
\* assert(command_type == ...) at the head of every vn_decode_X_reply.
ReplyIsOwn == \A t \in Thread : got[t].reply \in {Error, got[t].call}

\* A call reports an error only when the connection is lost.
ErrorOnlyWhenBroken ==
    \A t \in Thread : got[t].call # 0 /\ got[t].reply = Error => ~open

\* No reply is left over when no call is in progress: it would be taken for the
\* reply to the next call.
NoStrayReply ==
    open /\ (\A t \in Thread : call[t] = Idle) =>
        /\ down = <<>>
        /\ \A k \in DOMAIN up : issued[up[k].id] = "async"

\* The ring and the server implement the promise of CommandService.
Service == INSTANCE CommandService WITH performed <- Done
ImplementsService == Service!Spec
=============================================================================
