---------------------------- MODULE EventDelivery ----------------------------
(***************************************************************************)
(* Cross-thread events: worker threads post() to a CrossThreadEventQueue   *)
(* (or, when there is one of them, an SpscEventQueue); the frame thread    *)
(* alternates World::tick(), whose last act is Dispatcher::update(), with  *)
(* a drain_into() that enqueues what it dequeues on that dispatcher.       *)
(*                                                                         *)
(* The n-th event a producer posts is the number n.  The queues keep a     *)
(* FIFO per producer and promise no order between producers, so every      *)
(* container here is one sequence per producer.  A dequeue that finds      *)
(* nothing has looked at one producer after the other while they go on     *)
(* posting.                                                                *)
(***************************************************************************)
EXTENDS Naturals, Sequences

CONSTANTS
    Producers,
    MaxPosts        \* events one producer posts (bound)

ASSUME DeliveryAssumption == MaxPosts \in Nat

VARIABLES
    posted,     \* events each producer has posted
    queue,      \* the moodycamel queue's FIFO of each producer
    pool,       \* enqueued on the dispatcher until its next update()
    delivered,  \* (history) what the sink received
    mainPc,     \* "tick" or "drain"
    seenEmpty,  \* producers the running try_dequeue() found nothing of
    mark, due   \* (history) posted when the last two drains began

vars == <<posted, queue, pool, delivered, mainPc, seenEmpty, mark, due>>

TypeOK ==
    /\ posted \in [Producers -> 0 .. MaxPosts]
    /\ queue \in [Producers -> Seq(1 .. MaxPosts)]
    /\ pool \in [Producers -> Seq(1 .. MaxPosts)]
    /\ delivered \in [Producers -> Seq(1 .. MaxPosts)]
    /\ mainPc \in {"tick", "drain"}
    /\ seenEmpty \subseteq Producers
    /\ mark \in [Producers -> 0 .. MaxPosts]
    /\ due \in [Producers -> 0 .. MaxPosts]

Init ==
    /\ posted = [p \in Producers |-> 0]
    /\ queue = [p \in Producers |-> <<>>]
    /\ pool = [p \in Producers |-> <<>>]
    /\ delivered = [p \in Producers |-> <<>>]
    /\ mainPc = "tick"
    /\ seenEmpty = {}
    /\ mark = [p \in Producers |-> 0] /\ due = [p \in Producers |-> 0]

-----------------------------------------------------------------------------
\* Variant with a bug: try_enqueue() drops the event while the first block,
\* here of one element, is full (what SpscEventQueue's stress test caught).
PostBounded(p) ==
    /\ posted[p] < MaxPosts
    /\ posted' = [posted EXCEPT ![p] = @ + 1]
    /\ queue' = IF Len(queue[p]) < 1
                THEN [queue EXCEPT ![p] = Append(@, posted[p] + 1)] ELSE queue
    /\ UNCHANGED <<pool, delivered, mainPc, seenEmpty, mark, due>>

\* Variant with a bug: the count starts at zero.
PostFromZero(p) ==
    /\ posted[p] < MaxPosts
    /\ posted' = [posted EXCEPT ![p] = @ + 1]
    /\ queue' = [queue EXCEPT ![p] = Append(@, posted[p])]
    /\ UNCHANGED <<pool, delivered, mainPc, seenEmpty, mark, due>>

\* post(), on any thread: allocates, never drops, never blocks.
Post(p) ==
    /\ posted[p] < MaxPosts
    /\ posted' = [posted EXCEPT ![p] = @ + 1]
    /\ queue' = [queue EXCEPT ![p] = Append(@, posted[p] + 1)]
    /\ UNCHANGED <<pool, delivered, mainPc, seenEmpty, mark, due>>

-----------------------------------------------------------------------------
\* World::tick(): update() publishes to the sink, one after the other, the events
\* the dispatcher held when it began, and returns.
Publish(p) ==
    /\ mainPc = "tick"
    /\ pool[p] # <<>>
    /\ delivered' = [delivered EXCEPT ![p] = Append(@, Head(pool[p]))]
    /\ pool' = [pool EXCEPT ![p] = Tail(@)]
    /\ UNCHANGED <<posted, queue, mainPc, seenEmpty, mark, due>>

UpdateEnds ==
    /\ mainPc = "tick"
    /\ \A p \in Producers : pool[p] = <<>>
    /\ mainPc' = "drain" /\ seenEmpty' = {}
    /\ mark' = posted /\ due' = mark
    /\ UNCHANGED <<posted, queue, pool, delivered>>

\* Variant with a bug: one event of a producer per drain.
DequeueOnce(p) ==
    /\ mainPc = "drain"
    /\ queue[p] # <<>>
    /\ pool' = [pool EXCEPT ![p] = Append(@, Head(queue[p]))]
    /\ queue' = [queue EXCEPT ![p] = Tail(@)]
    /\ seenEmpty' = Producers
    /\ UNCHANGED <<posted, delivered, mainPc, mark, due>>

\* Variant with a bug: the newest event first.
DequeueNewest(p) ==
    /\ mainPc = "drain"
    /\ queue[p] # <<>>
    /\ pool' = [pool EXCEPT ![p] = Append(@, queue[p][Len(queue[p])])]
    /\ queue' = [queue EXCEPT ![p] = SubSeq(@, 1, Len(@) - 1)]
    /\ seenEmpty' = {}
    /\ UNCHANGED <<posted, delivered, mainPc, mark, due>>

\* drain_into(): try_dequeue() succeeded; the next one looks everywhere again.
Dequeue(p) ==
    /\ mainPc = "drain"
    /\ queue[p] # <<>>
    /\ pool' = [pool EXCEPT ![p] = Append(@, Head(queue[p]))]
    /\ queue' = [queue EXCEPT ![p] = Tail(@)]
    /\ seenEmpty' = {}
    /\ UNCHANGED <<posted, delivered, mainPc, mark, due>>

LookAt(p) ==
    /\ mainPc = "drain"
    /\ queue[p] = <<>> /\ p \notin seenEmpty
    /\ seenEmpty' = seenEmpty \cup {p}
    /\ UNCHANGED <<posted, queue, pool, delivered, mainPc, mark, due>>

\* try_dequeue() returned false.
DrainEnds ==
    /\ mainPc = "drain"
    /\ seenEmpty = Producers
    /\ mainPc' = "tick"
    /\ UNCHANGED <<posted, queue, pool, delivered, seenEmpty, mark, due>>

Frame ==
    \/ UpdateEnds \/ DrainEnds
    \/ \E p \in Producers : Publish(p) \/ Dequeue(p) \/ LookAt(p)

Next == Frame \/ \E p \in Producers : Post(p)

Spec == Init /\ [][Next]_vars

\* Frames keep coming and the frame thread keeps running.
FairSpec == Spec /\ WF_vars(Frame)

-----------------------------------------------------------------------------
\* Every event posted is in exactly one place on its way to the sink, or was
\* delivered, and a producer's events stay in the order it posted them: none is
\* lost, duplicated or overtaken, whatever is posted while a drain runs.
InOrderFrom(seq, n) == \A i \in 1 .. Len(seq) : seq[i] = n + i
Accounted(sunk, held, queued, n) ==
    /\ InOrderFrom(sunk, 0)
    /\ InOrderFrom(held, Len(sunk))
    /\ InOrderFrom(queued, Len(sunk) + Len(held))
    /\ n = Len(sunk) + Len(held) + Len(queued)
LosslessInOrder ==
    \A p \in Producers : Accounted(delivered[p], pool[p], queue[p], posted[p])

\* One frame of latency, never two (cross_thread_event_queue.hpp:33-35): what
\* was posted before a drain began is delivered by the update() that follows.
OneFrameLate ==
    mainPc = "drain" => \A p \in Producers : Len(delivered[p]) >= due[p]

\* Every event that is posted is delivered.
EveryEventDelivered ==
    \A p \in Producers, n \in 1 .. MaxPosts :
        posted[p] >= n ~> Len(delivered[p]) >= n

-----------------------------------------------------------------------------
\* The queues, the dispatcher and the frames implement the mailbox.
Mailbox == INSTANCE FrameMailbox WITH sent <- posted, received <- delivered, owed <- mark
MailboxSpec == Mailbox!Spec
=============================================================================
