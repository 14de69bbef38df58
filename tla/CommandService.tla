--------------------------- MODULE CommandService ---------------------------
(***************************************************************************)
(* What the connection promises the client ICD.                            *)
(*                                                                         *)
(* The commands of the ring are performed in the order they were issued.   *)
(* A message past the ring may overtake some of them, but only commands    *)
(* issued after the latest command with a reply.  A call that returns a    *)
(* reply returns the reply to its own command, which by then has been      *)
(* performed.  A call may also report an error.                            *)
(***************************************************************************)
EXTENDS Naturals, Sequences

CONSTANT Thread

VARIABLES issued,       \* the kind of every command issued
          performed,    \* the numbers of those that have been performed
          got           \* per thread: its latest call and the reply it returned

vars == <<issued, performed, got>>

Error == 0              \* the reply of a call that reports an error

Init ==
    /\ issued = <<>> /\ performed = {}
    /\ got = [t \in Thread |-> [call |-> 0, reply |-> Error]]

Issue(kind) ==
    /\ issued' = Append(issued, kind)
    /\ UNCHANGED <<performed, got>>

\* What must have been performed before command i.
Before(i) ==
    IF issued[i] = "direct"
    THEN {k \in 1..i-1 : \E n \in k..i-1 : issued[n] = "sync"}
    ELSE {k \in 1..i-1 : issued[k] # "direct"}

Perform(i) ==
    /\ i \notin performed /\ Before(i) \subseteq performed
    /\ performed' = performed \cup {i}
    /\ UNCHANGED <<issued, got>>

\* Only a command that asks for a reply is answered, once.
Answer(t, i) ==
    /\ i > got[t].call /\ issued[i] # "async"
    /\ \/ i \in performed /\ got' = [got EXCEPT ![t] = [call |-> i, reply |-> i]]
       \/ got' = [got EXCEPT ![t] = [call |-> i, reply |-> Error]]
    /\ UNCHANGED <<issued, performed>>

\* A message that cannot be sent is reported at once.
Refuse(t) ==
    /\ issued' = Append(issued, "direct")
    /\ got' = [got EXCEPT ![t] = [call |-> Len(issued) + 1, reply |-> Error]]
    /\ UNCHANGED performed

Next ==
    \/ \E kind \in {"async", "sync", "direct"} : Issue(kind)
    \/ \E i \in 1..Len(issued) : Perform(i)
    \/ \E t \in Thread : Refuse(t) \/ \E i \in 1..Len(issued) : Answer(t, i)

Spec == Init /\ [][Next]_vars
=============================================================================
