--------------------------- MODULE NextEventAwaiter ---------------------------
(***************************************************************************)
(* events/next_event_awaiter.hpp on the dispatcher of EventDelivery: one   *)
(* coroutine of the frame thread awaits next() again and again.  next() is *)
(* a lazy task: nothing of it runs before it is awaited, and a call that   *)
(* is not awaited yet hears nothing.  coro::event resumes who awaits it    *)
(* inside set(), that is inside the sink's call of on_event(), where the   *)
(* coroutine may await the next event at once or do something else first.  *)
(***************************************************************************)
EXTENDS EventDelivery, FiniteSets

VARIABLES
    consumer,   \* "busy", "waiting" in next(), or "gone" with the awaiter
    ready,      \* ready_ is set
    last,       \* last_value_
    heard,      \* (history) what was published since the coroutine, waiting for
                \*   the first event of its loop, began to listen
    got,        \* (history) what next() returned to that loop
    dangling    \* (history) the sink called an awaiter that was gone

awaiterVars == <<consumer, ready, last, heard, got, dangling>>
allVars == <<posted, queue, pool, delivered, mainPc, seenEmpty, mark, due,
             consumer, ready, last, heard, got, dangling>>

Event == Producers \X (1 .. MaxPosts)
NoEvent == <<>>     \* last_value_{}

AwaiterTypeOK ==
    /\ TypeOK
    /\ consumer \in {"busy", "waiting", "gone"}
    /\ ready \in BOOLEAN
    /\ last \in Event \cup {NoEvent}
    /\ heard \in Seq(Event)
    /\ got \in Seq(Event \cup {NoEvent})
    /\ dangling \in BOOLEAN

AwaiterInit ==
    /\ Init
    /\ consumer = "busy"
    /\ ready = FALSE
    /\ last = NoEvent
    /\ heard = <<>> /\ got = <<>>
    /\ dangling = FALSE

-----------------------------------------------------------------------------
\* Variant with a bug: ready_ is not reset before it is awaited.
NextWithoutReset ==
    /\ consumer = "busy" /\ mainPc = "tick"
    /\ IF ready THEN got' = <<last>> /\ UNCHANGED consumer
       ELSE got' = <<>> /\ consumer' = "waiting"
    /\ heard' = <<>>
    /\ UNCHANGED <<ready, last, dangling>>

\* co_await next() by a coroutine that was doing something else: the events of
\* that time are missed.
NextCalled ==
    /\ consumer = "busy" /\ mainPc = "tick"
    /\ ready' = FALSE
    /\ consumer' = "waiting"
    /\ heard' = <<>> /\ got' = <<>>
    /\ UNCHANGED <<last, dangling>>

\* co_return last_value_: the coroutine has the event, and awaits the next one
\* at once or does something else.
Returned ==
    /\ got' = Append(got, last')
    /\ \/ consumer' = "waiting" /\ ready' = FALSE
       \/ consumer' = "busy" /\ ready' = TRUE

\* Variant with a bug: who waits runs before last_value_ is assigned.
OnEventSetFirst(event) ==
    /\ last' = event
    /\ IF consumer = "waiting"
       THEN /\ got' = Append(got, last)
            /\ consumer' = "waiting" /\ ready' = FALSE
       ELSE ready' = TRUE /\ UNCHANGED <<consumer, got>>

\* Variant with a bug: the sink is disconnected by the first event.
OnEventOnce(event) ==
    IF last # NoEvent THEN UNCHANGED <<consumer, ready, last, got>>
    ELSE /\ last' = event
         /\ IF consumer = "waiting" THEN Returned
            ELSE ready' = TRUE /\ UNCHANGED <<consumer, got>>

OnEvent(event) ==
    /\ last' = event
    /\ IF consumer = "waiting" THEN Returned
       ELSE ready' = TRUE /\ UNCHANGED <<consumer, got>>

\* update() publishes an event.  The constructor connected the sink and nothing
\* disconnects it: after the awaiter is gone on_event() writes freed memory.
Published(p) ==
    /\ Publish(p)
    /\ IF consumer = "gone"
       THEN dangling' = TRUE /\ UNCHANGED <<consumer, ready, last, heard, got>>
       ELSE /\ OnEvent(<<p, Head(pool[p])>>)
            /\ heard' = IF consumer = "waiting"
                        THEN Append(heard, <<p, Head(pool[p])>>) ELSE heard
            /\ UNCHANGED dangling

\* The owner destroys the awaiter, never under a coroutine that waits on it.
Destroyed ==
    /\ consumer = "busy" /\ mainPc = "tick"
    /\ consumer' = "gone"
    /\ UNCHANGED <<ready, last, heard, got, dangling>>

-----------------------------------------------------------------------------
Publishing == \E p \in Producers : Published(p)

Elsewhere ==
    \/ UpdateEnds \/ DrainEnds
    \/ \E p \in Producers : Post(p) \/ Dequeue(p) \/ LookAt(p)

AwaiterNext ==
    \/ Publishing
    \/ Elsewhere /\ UNCHANGED awaiterVars
    \/ (NextCalled \/ Destroyed) /\ UNCHANGED vars

FrameThread == Publishing \/ (Elsewhere /\ Frame /\ UNCHANGED awaiterVars)

\* As in EventDelivery, frames keep coming and the frame thread keeps running.
AwaiterSpec == AwaiterInit /\ [][AwaiterNext]_allVars /\ WF_allVars(FrameThread)

-----------------------------------------------------------------------------
\* next() returns what fires strictly after it began to wait, never a stale event,
\* and a coroutine that awaits the next event as soon as it has one misses none.
AnswersAreNext == got = heard

\* A coroutine that waits while an event is on its way resumes.
EventOnItsWay == \E p \in Producers : posted[p] > Len(delivered[p])
AwaitIsAnswered ==
    \A k \in 0 .. Cardinality(Event) :
        (consumer = "waiting" /\ Len(got) = k /\ EventOnItsWay)
            ~> (consumer # "waiting" \/ Len(got) > k)

\* next_event_awaiter.hpp:46-47, "connects to dispatcher for as long as this object
\* lives": the sink does not call an awaiter that was destroyed.
ConnectedWhileAlive == ~dangling
=============================================================================
