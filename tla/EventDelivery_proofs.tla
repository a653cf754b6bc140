------------------------- MODULE EventDelivery_proofs -------------------------
(***************************************************************************)
(* Delivery is lossless, in order and one frame late, for every set of     *)
(* producers and any number of events; a coroutine that awaits events on   *)
(* the dispatcher changes nothing of that and misses none while it waits.  *)
(***************************************************************************)
EXTENDS NextEventAwaiter, SequenceTheorems, TLAPS

Events == 1 .. MaxPosts

\* What was posted before the drain began has left the queue of every producer
\* the running drain has found empty, and of all of them when it is over.
Drained ==
    \A p \in Producers : mainPc = "tick" \/ p \in seenEmpty
        => Len(delivered[p]) + Len(pool[p]) >= mark[p]

MarkPosted == \A p \in Producers : mark[p] <= posted[p]

IInv == TypeOK /\ LosslessInOrder /\ OneFrameLate /\ Drained /\ MarkPosted

-----------------------------------------------------------------------------
\* Sequences that count upwards.

LEMMA LenIsNat == ASSUME NEW S, NEW s \in Seq(S) PROVE Len(s) \in Nat
  BY LenProperties

LEMMA EmptyInOrder == \A n : InOrderFrom(<<>>, n)
  BY DEF InOrderFrom

LEMMA AppendInOrder ==
    ASSUME NEW S, NEW s \in Seq(S), NEW n \in Nat, InOrderFrom(s, n),
           NEW e \in S, e = n + Len(s) + 1
    PROVE  /\ Append(s, e) \in Seq(S) /\ Len(Append(s, e)) = Len(s) + 1
           /\ InOrderFrom(Append(s, e), n)
  <1>1. /\ Append(s, e) \in Seq(S) /\ Len(Append(s, e)) = Len(s) + 1
        /\ \A i \in 1 .. Len(s) : Append(s, e)[i] = s[i]
        /\ Append(s, e)[Len(s) + 1] = e
    BY AppendProperties
  <1>2. Len(s) \in Nat
    BY LenProperties
  <1>3. ASSUME NEW i \in 1 .. Len(s) + 1 PROVE Append(s, e)[i] = n + i
    <2>1. i \in 1 .. Len(s) \/ i = Len(s) + 1
      BY <1>2
    <2>2. CASE i \in 1 .. Len(s)
      BY <1>1, <2>2 DEF InOrderFrom
    <2>3. CASE i = Len(s) + 1
      <3>1. Append(s, e)[i] = e
        BY <1>1, <2>3
      <3>2. e = n + i
        BY <1>2, <2>3
      <3> QED
        BY <3>1, <3>2
    <2> QED
      BY <2>1, <2>2, <2>3
  <1> QED
    BY <1>1, <1>3 DEF InOrderFrom

LEMMA TailInOrder ==
    ASSUME NEW S, NEW s \in Seq(S), s # <<>>, NEW n \in Nat, InOrderFrom(s, n)
    PROVE  /\ Head(s) = n + 1 /\ Head(s) \in S
           /\ Tail(s) \in Seq(S) /\ Len(Tail(s)) = Len(s) - 1 /\ Len(s) > 0
           /\ InOrderFrom(Tail(s), n + 1)
  BY DEF InOrderFrom

-----------------------------------------------------------------------------
\* What each step does to the events of one producer.

LEMMA AccountedPost ==
    ASSUME NEW S, NEW d \in Seq(S), NEW h \in Seq(S), NEW q \in Seq(S), NEW n,
           n + 1 \in S, Accounted(d, h, q, n)
    PROVE  Accounted(d, h, Append(q, n + 1), n + 1)
  <1>1. Len(d) \in Nat /\ Len(h) \in Nat /\ Len(q) \in Nat
    BY LenIsNat
  <1>2. n + 1 = (Len(d) + Len(h)) + Len(q) + 1 /\ Len(d) + Len(h) \in Nat
    BY <1>1 DEF Accounted
  <1>3. /\ InOrderFrom(Append(q, n + 1), Len(d) + Len(h))
        /\ Len(Append(q, n + 1)) = Len(q) + 1
    BY <1>2, AppendInOrder DEF Accounted
  <1>4. n + 1 = Len(d) + Len(h) + Len(Append(q, n + 1))
    BY <1>1, <1>2, <1>3
  <1> QED
    BY <1>3, <1>4 DEF Accounted

LEMMA AccountedPublish ==
    ASSUME NEW S, NEW d \in Seq(S), NEW h \in Seq(S), NEW q \in Seq(S), NEW n,
           h # <<>>, Accounted(d, h, q, n)
    PROVE  /\ Append(d, Head(h)) \in Seq(S) /\ Tail(h) \in Seq(S) /\ Head(h) \in S
           /\ Len(Append(d, Head(h))) + Len(Tail(h)) = Len(d) + Len(h)
           /\ Accounted(Append(d, Head(h)), Tail(h), q, n)
  <1>1. Len(d) \in Nat /\ Len(h) \in Nat /\ Len(q) \in Nat
    BY LenIsNat
  <1>2. /\ Head(h) = Len(d) + 1 /\ Head(h) \in S
        /\ Tail(h) \in Seq(S) /\ Len(Tail(h)) = Len(h) - 1
        /\ InOrderFrom(Tail(h), Len(d) + 1)
    BY <1>1, TailInOrder DEF Accounted
  <1>3. Head(h) = 0 + Len(d) + 1
    BY <1>1, <1>2
  <1>4. /\ Append(d, Head(h)) \in Seq(S) /\ Len(Append(d, Head(h))) = Len(d) + 1
        /\ InOrderFrom(Append(d, Head(h)), 0)
    BY <1>2, <1>3, AppendInOrder DEF Accounted
  <1>5. Len(Append(d, Head(h))) + Len(Tail(h)) = Len(d) + Len(h)
    BY <1>1, <1>2, <1>4
  <1> QED
    BY <1>2, <1>4, <1>5 DEF Accounted

LEMMA AccountedDequeue ==
    ASSUME NEW S, NEW d \in Seq(S), NEW h \in Seq(S), NEW q \in Seq(S), NEW n,
           q # <<>>, Accounted(d, h, q, n)
    PROVE  /\ Append(h, Head(q)) \in Seq(S) /\ Tail(q) \in Seq(S)
           /\ Accounted(d, Append(h, Head(q)), Tail(q), n)
  <1>1. Len(d) \in Nat /\ Len(h) \in Nat /\ Len(q) \in Nat /\ Len(d) + Len(h) \in Nat
    BY LenIsNat
  <1>2. /\ Head(q) = Len(d) + Len(h) + 1 /\ Head(q) \in S
        /\ Tail(q) \in Seq(S) /\ Len(Tail(q)) = Len(q) - 1
        /\ InOrderFrom(Tail(q), Len(d) + Len(h) + 1)
    BY <1>1, TailInOrder DEF Accounted
  <1>3. /\ Append(h, Head(q)) \in Seq(S) /\ Len(Append(h, Head(q))) = Len(h) + 1
        /\ InOrderFrom(Append(h, Head(q)), Len(d))
    BY <1>1, <1>2, AppendInOrder DEF Accounted
  <1>4. Len(d) + Len(Append(h, Head(q))) = Len(d) + Len(h) + 1
    BY <1>1, <1>3
  <1>5. n = Len(d) + Len(Append(h, Head(q))) + Len(Tail(q))
    <2>1. n = Len(d) + Len(h) + Len(q)
      BY DEF Accounted
    <2> QED
      BY <1>1, <1>2, <1>4, <2>1
  <1> QED
    BY <1>2, <1>3, <1>4, <1>5 DEF Accounted

LEMMA AccountedEmpty ==
    ASSUME NEW S, NEW d \in Seq(S), NEW h \in Seq(S), NEW n, Accounted(d, h, <<>>, n)
    PROVE  Len(d) + Len(h) = n
  <1>1. Len(d) \in Nat /\ Len(h) \in Nat /\ Len(<<>>) = 0
    BY LenIsNat
  <1> QED
    BY <1>1 DEF Accounted

LEMMA AccountedInit == Accounted(<<>>, <<>>, <<>>, 0)
  <1>1. 0 = Len(<<>>) + Len(<<>>) + Len(<<>>)
    OBVIOUS
  <1> QED
    BY <1>1, EmptyInOrder DEF Accounted

\* The containers of a producer hold events.
LEMMA Containers ==
    ASSUME TypeOK, NEW p \in Producers
    PROVE  /\ delivered[p] \in Seq(Events) /\ pool[p] \in Seq(Events)
           /\ queue[p] \in Seq(Events)
           /\ posted[p] \in 0 .. MaxPosts /\ mark[p] \in 0 .. MaxPosts
  BY DEF TypeOK, Events

-----------------------------------------------------------------------------
LEMMA InitIInv == Init => IInv
  <1> SUFFICES ASSUME Init PROVE IInv
    OBVIOUS
  <1>1. TypeOK
    BY DeliveryAssumption DEF Init, TypeOK
  <1>2. LosslessInOrder
    BY AccountedInit DEF Init, LosslessInOrder
  <1>3. OneFrameLate /\ Drained /\ MarkPosted
    BY DEF Init, OneFrameLate, Drained, MarkPosted
  <1> QED
    BY <1>1, <1>2, <1>3 DEF IInv

LEMMA PostStep == ASSUME IInv, NEW p \in Producers, Post(p) PROVE IInv'
  <1>1. posted[p] + 1 \in Events /\ posted[p] + 1 \in 0 .. MaxPosts
    BY DeliveryAssumption DEF IInv, TypeOK, Post, Events
  <1>2. UNCHANGED <<pool, delivered, mainPc, seenEmpty, mark, due>>
    BY DEF Post
  <1>3. /\ posted' = [posted EXCEPT ![p] = posted[p] + 1]
        /\ queue' = [queue EXCEPT ![p] = Append(queue[p], posted[p] + 1)]
    BY DEF Post
  <1>4. TypeOK'
    <2>1. Append(queue[p], posted[p] + 1) \in Seq(Events)
      BY <1>1, Containers, AppendProperties DEF IInv
    <2>2. /\ posted' \in [Producers -> 0 .. MaxPosts]
          /\ queue' \in [Producers -> Seq(Events)]
      BY <1>1, <1>3, <2>1 DEF IInv, TypeOK, Events
    <2> QED
      BY <1>2, <2>2 DEF IInv, TypeOK, Events
  <1>5. ASSUME NEW r \in Producers
        PROVE  Accounted(delivered[r], pool[r], queue'[r], posted'[r])
    <2>1. Accounted(delivered[r], pool[r], queue[r], posted[r])
      BY DEF IInv, LosslessInOrder
    <2>2. CASE r = p
      <3>1. queue'[r] = Append(queue[r], posted[r] + 1) /\ posted'[r] = posted[r] + 1
        BY <1>3, <2>2 DEF IInv, TypeOK
      <3> QED
        BY <1>1, <2>1, <2>2, <3>1, Containers, AccountedPost DEF IInv
    <2>3. CASE r # p
      <3>1. queue'[r] = queue[r] /\ posted'[r] = posted[r]
        BY <1>3, <2>3 DEF IInv, TypeOK
      <3> QED
        BY <2>1, <3>1
    <2> QED
      BY <2>2, <2>3
  <1>6. LosslessInOrder'
    BY <1>2, <1>5 DEF LosslessInOrder
  <1>7. OneFrameLate' /\ Drained'
    BY <1>2 DEF IInv, OneFrameLate, Drained
  <1>8. MarkPosted'
    <2> SUFFICES ASSUME NEW r \in Producers PROVE mark[r] <= posted'[r]
      BY <1>2 DEF MarkPosted
    <2>1. mark[r] \in Nat /\ posted[r] \in Nat /\ mark[r] <= posted[r]
      BY Containers DEF IInv, MarkPosted
    <2>2. posted'[r] = posted[r] \/ posted'[r] = posted[r] + 1
      BY <1>3 DEF IInv, TypeOK
    <2> QED
      BY <2>1, <2>2
  <1> QED
    BY <1>4, <1>6, <1>7, <1>8 DEF IInv

\* update() moves the oldest event of a producer from the dispatcher to the sink.
LEMMA PublishStep == ASSUME IInv, NEW p \in Producers, Publish(p) PROVE IInv'
  <1>1. UNCHANGED <<posted, queue, mainPc, seenEmpty, mark, due>> /\ mainPc = "tick"
    BY DEF Publish
  <1>2. /\ delivered' = [delivered EXCEPT ![p] = Append(delivered[p], Head(pool[p]))]
        /\ pool' = [pool EXCEPT ![p] = Tail(pool[p])]
        /\ pool[p] # <<>>
    BY DEF Publish
  <1> DEFINE sunk == Append(delivered[p], Head(pool[p]))
  <1>3. /\ sunk \in Seq(Events) /\ Tail(pool[p]) \in Seq(Events)
        /\ Len(sunk) + Len(Tail(pool[p])) = Len(delivered[p]) + Len(pool[p])
        /\ Accounted(sunk, Tail(pool[p]), queue[p], posted[p])
    <2>1. Accounted(delivered[p], pool[p], queue[p], posted[p])
      BY DEF IInv, LosslessInOrder
    <2> QED
      BY <1>2, <2>1, Containers, AccountedPublish DEF IInv
  <1>4. TypeOK'
    <2>1. delivered' \in [Producers -> Seq(Events)] /\ pool' \in [Producers -> Seq(Events)]
      BY <1>2, <1>3 DEF IInv, TypeOK, Events
    <2> QED
      BY <1>1, <2>1 DEF IInv, TypeOK, Events
  <1>5. ASSUME NEW r \in Producers
        PROVE  /\ Accounted(delivered'[r], pool'[r], queue[r], posted[r])
               /\ Len(delivered'[r]) + Len(pool'[r]) = Len(delivered[r]) + Len(pool[r])
    <2>1. CASE r = p
      <3>1. delivered'[r] = sunk /\ pool'[r] = Tail(pool[p])
        BY <1>2, <2>1 DEF IInv, TypeOK
      <3> QED
        BY <1>3, <2>1, <3>1
    <2>2. CASE r # p
      <3>1. delivered'[r] = delivered[r] /\ pool'[r] = pool[r]
        BY <1>2, <2>2 DEF IInv, TypeOK
      <3> QED
        BY <3>1 DEF IInv, LosslessInOrder
    <2> QED
      BY <2>1, <2>2
  <1>6. LosslessInOrder'
    BY <1>1, <1>5 DEF LosslessInOrder
  <1>7. OneFrameLate' /\ MarkPosted'
    BY <1>1 DEF IInv, OneFrameLate, MarkPosted
  <1>8. Drained'
    <2>1. \A r \in Producers : Len(delivered[r]) + Len(pool[r]) >= mark[r]
      BY <1>1 DEF IInv, Drained
    <2> QED
      BY <1>1, <1>5, <2>1 DEF Drained
  <1> QED
    BY <1>4, <1>6, <1>7, <1>8 DEF IInv

\* update() is over when all of the pool was delivered.
LEMMA UpdateEndsStep == ASSUME IInv, UpdateEnds PROVE IInv'
  <1>1. UNCHANGED <<posted, queue, pool, delivered>> /\ mainPc = "tick"
        /\ mainPc' = "drain" /\ seenEmpty' = {} /\ mark' = posted /\ due' = mark
        /\ \A p \in Producers : pool[p] = <<>>
    BY DEF UpdateEnds
  <1>2. TypeOK' /\ LosslessInOrder'
    BY <1>1 DEF IInv, TypeOK, LosslessInOrder
  <1>3. OneFrameLate'
    <2> SUFFICES ASSUME NEW p \in Producers PROVE Len(delivered[p]) >= mark[p]
      BY <1>1 DEF OneFrameLate
    <2>1. Len(delivered[p]) + Len(<<>>) >= mark[p]
      BY <1>1 DEF IInv, Drained
    <2>2. Len(delivered[p]) \in Nat /\ Len(<<>>) = 0
      BY Containers, LenIsNat DEF IInv
    <2> QED
      BY <2>1, <2>2
  <1>4. Drained'
    BY <1>1 DEF Drained
  <1>5. MarkPosted'
    BY <1>1, Containers DEF MarkPosted, IInv
  <1> QED
    BY <1>2, <1>3, <1>4, <1>5 DEF IInv

\* A dequeue moves the oldest event of one producer to the end of the pool.
LEMMA DequeueStep == ASSUME IInv, NEW p \in Producers, Dequeue(p) PROVE IInv'
  <1>1. UNCHANGED <<posted, delivered, mainPc, mark, due>> /\ seenEmpty' = {}
        /\ mainPc = "drain"
    BY DEF Dequeue
  <1>2. /\ pool' = [pool EXCEPT ![p] = Append(pool[p], Head(queue[p]))]
        /\ queue' = [queue EXCEPT ![p] = Tail(queue[p])]
        /\ queue[p] # <<>>
    BY DEF Dequeue
  <1>3. /\ Append(pool[p], Head(queue[p])) \in Seq(Events)
        /\ Tail(queue[p]) \in Seq(Events)
        /\ Accounted(delivered[p], Append(pool[p], Head(queue[p])), Tail(queue[p]), posted[p])
    <2>1. Accounted(delivered[p], pool[p], queue[p], posted[p])
      BY DEF IInv, LosslessInOrder
    <2> QED
      BY <1>2, <2>1, Containers, AccountedDequeue DEF IInv
  <1>4. TypeOK'
    <2>1. pool' \in [Producers -> Seq(Events)] /\ queue' \in [Producers -> Seq(Events)]
      BY <1>2, <1>3 DEF IInv, TypeOK, Events
    <2> QED
      BY <1>1, <2>1 DEF IInv, TypeOK, Events
  <1>5. ASSUME NEW r \in Producers
        PROVE  Accounted(delivered[r], pool'[r], queue'[r], posted[r])
    <2>1. CASE r = p
      <3>1. pool'[r] = Append(pool[p], Head(queue[p])) /\ queue'[r] = Tail(queue[p])
        BY <1>2, <2>1 DEF IInv, TypeOK
      <3> QED
        BY <1>3, <2>1, <3>1
    <2>2. CASE r # p
      <3>1. pool'[r] = pool[r] /\ queue'[r] = queue[r]
        BY <1>2, <2>2 DEF IInv, TypeOK
      <3> QED
        BY <3>1 DEF IInv, LosslessInOrder
    <2> QED
      BY <2>1, <2>2
  <1>6. LosslessInOrder'
    BY <1>1, <1>5 DEF LosslessInOrder
  <1>7. OneFrameLate' /\ MarkPosted'
    BY <1>1 DEF IInv, OneFrameLate, MarkPosted
  <1>8. Drained'
    BY <1>1 DEF Drained
  <1> QED
    BY <1>4, <1>6, <1>7, <1>8 DEF IInv

\* A producer found empty has everything it posted past the queue.
LEMMA LookAtStep == ASSUME IInv, NEW p \in Producers, LookAt(p) PROVE IInv'
  <1>1. UNCHANGED <<posted, queue, pool, delivered, mainPc, mark, due>>
        /\ seenEmpty' = seenEmpty \cup {p} /\ mainPc = "drain" /\ queue[p] = <<>>
    BY DEF LookAt
  <1>2. TypeOK' /\ LosslessInOrder' /\ OneFrameLate' /\ MarkPosted'
    BY <1>1 DEF IInv, TypeOK, LosslessInOrder, OneFrameLate, MarkPosted
  <1>3. Len(delivered[p]) + Len(pool[p]) = posted[p]
    <2>1. Accounted(delivered[p], pool[p], <<>>, posted[p])
      BY <1>1 DEF IInv, LosslessInOrder
    <2> QED
      BY <2>1, Containers, AccountedEmpty DEF IInv
  <1>4. Len(delivered[p]) + Len(pool[p]) >= mark[p]
    BY <1>3, Containers DEF IInv, MarkPosted
  <1>5. Drained'
    BY <1>1, <1>4 DEF IInv, Drained
  <1> QED
    BY <1>2, <1>5 DEF IInv

LEMMA DrainEndsStep == ASSUME IInv, DrainEnds PROVE IInv'
  <1>1. UNCHANGED <<posted, queue, pool, delivered, seenEmpty, mark, due>>
        /\ seenEmpty = Producers /\ mainPc' = "tick"
    BY DEF DrainEnds
  <1>2. TypeOK' /\ LosslessInOrder' /\ OneFrameLate' /\ MarkPosted'
    BY <1>1 DEF IInv, TypeOK, LosslessInOrder, OneFrameLate, MarkPosted
  <1>3. Drained'
    BY <1>1 DEF IInv, Drained
  <1> QED
    BY <1>2, <1>3 DEF IInv

LEMMA NextIInv == IInv /\ [Next]_vars => IInv'
  <1>1. ASSUME IInv, UNCHANGED vars PROVE IInv'
    BY <1>1 DEF vars, IInv, TypeOK, LosslessInOrder, OneFrameLate, Drained, MarkPosted
  <1> QED
    BY <1>1, PostStep, PublishStep, UpdateEndsStep, DequeueStep, LookAtStep, DrainEndsStep
    DEF Next, Frame

-----------------------------------------------------------------------------
\* The inductive invariant of delivery.
THEOREM DeliveryInductive == Spec => []IInv
  BY InitIInv, NextIInv, PTL DEF Spec

\* Types.
THEOREM EventsTyped == Spec => []TypeOK
  <1>1. IInv => TypeOK
    BY DEF IInv
  <1> QED
    BY <1>1, DeliveryInductive, PTL

\* post(), drain_into() and update() lose, duplicate and reorder nothing a
\* producer posted, for any number of producers posting at any time.
THEOREM NothingLostOrReordered == Spec => []LosslessInOrder
  <1>1. IInv => LosslessInOrder
    BY DEF IInv
  <1> QED
    BY <1>1, DeliveryInductive, PTL

\* What was posted when a drain_into() began is delivered by the update() that
\* follows it.
THEOREM OneFrameOfLatency == Spec => []OneFrameLate
  <1>1. IInv => OneFrameLate
    BY DEF IInv
  <1> QED
    BY <1>1, DeliveryInductive, PTL
-----------------------------------------------------------------------------
\* The mailbox: how each step looks to who posts and to who listens.

LEMMA PublishReceives ==
    ASSUME IInv, NEW p \in Producers, Publish(p) PROVE Mailbox!Receive(p)
  <1>1. /\ Accounted(delivered[p], pool[p], queue[p], posted[p]) /\ pool[p] # <<>>
        /\ delivered[p] \in Seq(Events) /\ pool[p] \in Seq(Events)
        /\ queue[p] \in Seq(Events)
    BY Containers DEF IInv, LosslessInOrder, Publish
  <1>2. Len(delivered[p]) \in Nat /\ Len(pool[p]) \in Nat /\ Len(queue[p]) \in Nat
    BY <1>1, LenIsNat
  <1>3. Head(pool[p]) = Len(delivered[p]) + 1 /\ Len(pool[p]) > 0
    BY <1>1, <1>2, TailInOrder DEF Accounted
  <1>4. Len(delivered[p]) < posted[p]
    <2>1. posted[p] = Len(delivered[p]) + Len(pool[p]) + Len(queue[p])
      BY <1>1 DEF Accounted
    <2>2. \A a, b, c \in Nat : b > 0 => a < a + b + c
      OBVIOUS
    <2> QED
      BY <1>2, <1>3, <2>1, <2>2
  <1>5. delivered' = [delivered EXCEPT ![p] = Append(delivered[p], Head(pool[p]))]
    BY DEF Publish
  <1>6. delivered' = [delivered EXCEPT ![p] = Append(delivered[p], Len(delivered[p]) + 1)]
    BY <1>3, <1>5
  <1>7. UNCHANGED <<posted, mark>>
    BY DEF Publish
  <1> QED
    BY <1>4, <1>6, <1>7 DEF Mailbox!Receive

LEMMA UpdateEndsFrame == ASSUME IInv, UpdateEnds PROVE Mailbox!NewFrame
  <1>1. ASSUME NEW p \in Producers PROVE Len(delivered[p]) >= mark[p]
    <2>1. Len(delivered[p]) + Len(<<>>) >= mark[p]
      BY DEF UpdateEnds, IInv, Drained
    <2>2. Len(delivered[p]) \in Nat /\ Len(<<>>) = 0
      BY Containers, LenIsNat DEF IInv
    <2> QED
      BY <2>1, <2>2
  <1> QED
    BY <1>1 DEF UpdateEnds, Mailbox!NewFrame

\* Posting to the frame thread is posting to a mailbox: no queue, pool or drain
\* shows, and no frame begins its drain while an event from before the last
\* one's is still on its way.
THEOREM DeliveryImplementsMailbox == Spec => MailboxSpec
  <1>1. Init => Mailbox!Init
    BY DEF Init, Mailbox!Init
  <1>2. ASSUME IInv, [Next]_vars PROVE [Mailbox!Next]_Mailbox!vars
    <2>1. CASE \E p \in Producers : Post(p)
      BY <2>1 DEF Post, Mailbox!Send, Mailbox!Next
    <2>2. CASE \E p \in Producers : Publish(p)
      BY <1>2, <2>2, PublishReceives DEF Mailbox!Next
    <2>3. CASE UpdateEnds
      BY <1>2, <2>3, UpdateEndsFrame DEF Mailbox!Next
    <2>4. CASE DrainEnds \/ UNCHANGED vars \/ \E p \in Producers : Dequeue(p) \/ LookAt(p)
      BY <2>4 DEF DrainEnds, Dequeue, LookAt, vars, Mailbox!vars
    <2> QED
      BY <1>2, <2>1, <2>2, <2>3, <2>4 DEF Next, Frame
  <1> QED
    BY <1>1, <1>2, DeliveryInductive, PTL DEF Spec, MailboxSpec, Mailbox!Spec

-----------------------------------------------------------------------------
\* The awaiter listens: the events move as if it were not there.

LEMMA AwaiterStep == [AwaiterNext]_allVars => [Next]_vars
  <1> SUFFICES ASSUME [AwaiterNext]_allVars PROVE [Next]_vars
    OBVIOUS
  <1>1. CASE Publishing
    BY <1>1 DEF Publishing, Published, Next, Frame
  <1>2. CASE Elsewhere
    BY <1>2 DEF Elsewhere, Next, Frame
  <1>3. CASE UNCHANGED vars
    BY <1>3
  <1>4. CASE UNCHANGED allVars
    BY <1>4 DEF allVars, vars
  <1> QED
    BY <1>1, <1>2, <1>3, <1>4 DEF AwaiterNext

\* The dispatcher with an awaiter connected to it implements the one without.
THEOREM AwaiterImplementsDelivery == AwaiterSpec => Spec
  <1>1. AwaiterInit => Init
    BY DEF AwaiterInit
  <1> QED
    BY <1>1, AwaiterStep, PTL DEF AwaiterSpec, Spec

AwaiterTypes ==
    /\ consumer \in {"busy", "waiting", "gone"}
    /\ ready \in BOOLEAN
    /\ last \in Event \cup {NoEvent}
    /\ heard \in Seq(Event)
    /\ got \in Seq(Event \cup {NoEvent})
    /\ dangling \in BOOLEAN

AwaiterInv == AwaiterTypes /\ AnswersAreNext

LEMMA NothingHeard == <<>> \in Seq(Event) /\ <<>> \in Seq(Event \cup {NoEvent})
  OBVIOUS

LEMMA AwaiterInitInv == AwaiterInit => AwaiterInv
  <1> SUFFICES ASSUME AwaiterInit PROVE AwaiterInv
    OBVIOUS
  <1>1. heard = <<>> /\ got = <<>>
    BY DEF AwaiterInit
  <1>2. consumer = "busy" /\ ready \in BOOLEAN /\ last = NoEvent /\ dangling \in BOOLEAN
    BY DEF AwaiterInit
  <1> QED
    BY <1>1, <1>2, NothingHeard DEF AwaiterInv, AwaiterTypes, AnswersAreNext

LEMMA AppendEvent ==
    ASSUME NEW S, NEW s \in Seq(S), NEW e \in S PROVE Append(s, e) \in Seq(S)
  BY AppendProperties

\* What is published to a coroutine that waits is what next() returns to it.
LEMMA PublishedStep ==
    ASSUME IInv, AwaiterInv, NEW p \in Producers, Published(p) PROVE AwaiterInv'
  <1> DEFINE e == <<p, Head(pool[p])>>
  <1>1. e \in Event
    <2>1. Accounted(delivered[p], pool[p], queue[p], posted[p]) /\ pool[p] # <<>>
      BY DEF IInv, LosslessInOrder, Published, Publish
    <2>2. Head(pool[p]) \in Events
      BY <2>1, Containers, AccountedPublish DEF IInv
    <2> QED
      BY <2>2 DEF Event, Events
  <1>2. CASE consumer = "gone"
    BY <1>2 DEF Published, AwaiterInv, AwaiterTypes, AnswersAreNext
  <1>3. CASE consumer = "waiting"
    <2>1. /\ last' = e /\ got' = Append(got, e) /\ heard' = Append(heard, e)
          /\ consumer' \in {"busy", "waiting"} /\ ready' \in BOOLEAN
          /\ UNCHANGED dangling
      BY <1>3 DEF Published, OnEvent, Returned
    <2>2. Append(heard, e) \in Seq(Event) /\ Append(got, e) \in Seq(Event \cup {NoEvent})
      BY <1>1, AppendEvent DEF AwaiterInv, AwaiterTypes
    <2> HIDE DEF e
    <2> QED
      BY <1>1, <2>1, <2>2 DEF AwaiterInv, AwaiterTypes, AnswersAreNext
  <1>4. CASE consumer \notin {"gone", "waiting"}
    <2>1. last' = e /\ ready' = TRUE /\ UNCHANGED <<consumer, got, heard, dangling>>
      BY <1>4 DEF Published, OnEvent
    <2> HIDE DEF e
    <2> QED
      BY <1>1, <2>1 DEF AwaiterInv, AwaiterTypes, AnswersAreNext
  <1> QED
    BY <1>2, <1>3, <1>4

LEMMA AwaiterNextInv == IInv /\ AwaiterInv /\ [AwaiterNext]_allVars => AwaiterInv'
  <1> SUFFICES ASSUME IInv, AwaiterInv, [AwaiterNext]_allVars PROVE AwaiterInv'
    OBVIOUS
  <1>1. CASE Publishing
    BY <1>1, PublishedStep DEF Publishing
  <1>2. CASE NextCalled
    <2>1. heard' = <<>> /\ got' = <<>>
      BY <1>2 DEF NextCalled
    <2>2. consumer' = "waiting" /\ ready' \in BOOLEAN /\ UNCHANGED <<last, dangling>>
      BY <1>2 DEF NextCalled
    <2> QED
      BY <2>1, <2>2, NothingHeard DEF AwaiterInv, AwaiterTypes, AnswersAreNext
  <1>3. CASE Destroyed
    BY <1>3 DEF Destroyed, AwaiterInv, AwaiterTypes, AnswersAreNext
  <1>4. CASE UNCHANGED awaiterVars
    BY <1>4 DEF awaiterVars, AwaiterInv, AwaiterTypes, AnswersAreNext
  <1>5. CASE UNCHANGED allVars
    BY <1>4, <1>5 DEF allVars, awaiterVars
  <1> QED
    BY <1>1, <1>2, <1>3, <1>4, <1>5 DEF AwaiterNext

THEOREM AwaiterInductive == AwaiterSpec => [](IInv /\ AwaiterInv)
  BY AwaiterImplementsDelivery, DeliveryInductive, AwaiterInitInv, AwaiterNextInv, PTL
  DEF AwaiterSpec

\* Types, with the awaiter's.
THEOREM AwaiterTyped == AwaiterSpec => []AwaiterTypeOK
  <1>1. IInv /\ AwaiterInv => AwaiterTypeOK
    BY DEF IInv, AwaiterInv, AwaiterTypes, AwaiterTypeOK
  <1> QED
    BY <1>1, AwaiterInductive, PTL

\* next() returns neither a stale event nor the same one twice, and a coroutine
\* that awaits the next event at once misses none.
THEOREM NextIsFresh == AwaiterSpec => []AnswersAreNext
  <1>1. IInv /\ AwaiterInv => AnswersAreNext
    BY DEF AwaiterInv
  <1> QED
    BY <1>1, AwaiterInductive, PTL
=============================================================================
