---------------------------- MODULE FrameMailbox ----------------------------
(***************************************************************************)
(* What posting an event to the frame thread promises to who posts and to  *)
(* who listens: a mailbox without bound, emptied in the order each         *)
(* producer filled it, and never more than one frame behind.  There are no *)
(* queues, pools or dequeues here; EventDelivery, which has them all, is   *)
(* shown to implement this specification.                                  *)
(***************************************************************************)
EXTENDS Naturals, Sequences

CONSTANTS Producers, MaxPosts

VARIABLES
    sent,       \* events each producer has posted; the n-th is the number n
    received,   \* the events of each producer the sink was given
    owed        \* what each had posted when the frame's drain began

vars == <<sent, received, owed>>

Init ==
    /\ sent = [p \in Producers |-> 0]
    /\ received = [p \in Producers |-> <<>>]
    /\ owed = [p \in Producers |-> 0]

Send(p) ==
    /\ sent[p] < MaxPosts
    /\ sent' = [sent EXCEPT ![p] = @ + 1]
    /\ UNCHANGED <<received, owed>>

\* The next event of its producer, and only one that was posted.
Receive(p) ==
    /\ Len(received[p]) < sent[p]
    /\ received' = [received EXCEPT ![p] = Append(@, Len(@) + 1)]
    /\ UNCHANGED <<sent, owed>>

\* No frame's drain begins before what the last one owed was received.
NewFrame ==
    /\ \A p \in Producers : Len(received[p]) >= owed[p]
    /\ owed' = sent
    /\ UNCHANGED <<sent, received>>

Next == NewFrame \/ \E p \in Producers : Send(p) \/ Receive(p)

Spec == Init /\ [][Next]_vars
=============================================================================
