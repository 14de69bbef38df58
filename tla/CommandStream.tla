---------------------------- MODULE CommandStream ----------------------------
(***************************************************************************)
(* What goes through the ring and over the socket: commands with a number  *)
(* and a size, kept in the buffer, and messages of such commands.          *)
(***************************************************************************)
EXTENDS Naturals, SequencesExt

CONSTANTS
    Thread,         \* the application's threads that make Vulkan calls
    AsyncSize,      \* sizes of encoded commands without a reply
    SyncSize,       \* sizes of encoded commands with a reply
    MaxPending,     \* kMaxPendingBytes
    Direct,         \* TRUE when messages that go past the buffer are used
    Breaks,         \* TRUE when the connection may be lost
    MaxCommands     \* bound on the number of commands

ASSUME StreamAssumption ==
    /\ AsyncSize \subseteq Nat \ {0} /\ SyncSize \subseteq Nat \ {0}
    /\ MaxPending \in Nat \ {0}
    /\ Direct \in BOOLEAN /\ Breaks \in BOOLEAN
    /\ MaxCommands \in Nat

Kinds == {"async", "sync", "direct"}
Error == 0          \* VK_ERROR_OUT_OF_HOST_MEMORY, without a reply

\* Commands on the client, and on the wire: `last' ends a message.
Command == [id : 1..MaxCommands, size : AsyncSize \cup SyncSize]
Sent    == [id : 1..MaxCommands, last : BOOLEAN]

\* NetworkClient::send: one framed message.
Message(s) == [i \in DOMAIN s |-> [id |-> s[i].id, last |-> i = Len(s)]]
=============================================================================
