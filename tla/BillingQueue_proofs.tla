------------------------- MODULE BillingQueue_proofs -------------------------
(***************************************************************************)
(* Proofs about BillingQueue for any sets of senders, receivers and        *)
(* payloads and any number of sends.                                       *)
(***************************************************************************)
EXTENDS BillingQueue, SequenceTheorems, TLAPS

\* What a sender's local message and the gauge are at the statements between
\* the assignment of the id and the release of the mutex.
SenderLocals ==
  \A s \in Senders :
    /\ pc[s] = "idle" => local[s] = NoMessage
    /\ pc[s] # "idle" => local[s].payload \in Payloads
    /\ pc[s] = "push" => local[s].id = Len(queue) /\ gauge = Len(queue)
    /\ pc[s] = "pushed" => gauge = Len(queue) - 1

\* A receiver has a message only from front() to its return.
ReceiverLocals ==
  \A r \in Receivers :
    /\ pc[r] \in {"idle", "lockPoll", "front"} => local[r] = NoMessage
    /\ local[r].id # NoId => local[r].payload \in Payloads

\* What is queued has a payload.
QueuedHavePayloads == \A i \in 1..Len(queue) : queue[i].payload \in Payloads

\* The metric lags, stated without the exception for the sender in between.
GaugeBound == gauge \in {Len(queue) - 1, Len(queue)}

IInv ==
  /\ TypeOK /\ MutexHeld /\ SenderLocals /\ ReceiverLocals
  /\ QueuedHaveIds /\ QueuedHavePayloads /\ FrontStable /\ GaugeBound /\ IdsCoverPosition

USE ThreadsAssumption, PayloadAssumption, BoundAssumption DEF Threads

-------------------------------------------------------------------------------
\* Moving out of front() empties the id of the first message and leaves
\* everything else in the queue alone.
LEMMA MoveFront ==
  ASSUME NEW q \in Seq(Message), q # <<>>
  PROVE  /\ [q EXCEPT ![1].id = NoId] \in Seq(Message)
         /\ Len([q EXCEPT ![1].id = NoId]) = Len(q)
         /\ q[1] \in Message /\ 1 \in 1..Len(q)
         /\ \A i \in 1..Len(q) : [q EXCEPT ![1].id = NoId][i] =
                                   IF i = 1 THEN [q[1] EXCEPT !.id = NoId] ELSE q[i]
<1> DEFINE e == [q[1] EXCEPT !.id = NoId]
<1>1. 1 \in 1..Len(q)
  BY EmptySeq
<1>2. q[1] \in Message
  BY <1>1, ElementOfSeq
<1>3. e \in Message
  BY <1>2 DEF Message, MessageIds
<1>4. [q EXCEPT ![1].id = NoId] = [q EXCEPT ![1] = e]
  OBVIOUS
<1> HIDE DEF e
<1>5. /\ [q EXCEPT ![1] = e] \in Seq(Message)
      /\ Len([q EXCEPT ![1] = e]) = Len(q)
      /\ \A i \in 1..Len(q) : [q EXCEPT ![1] = e][i] = IF i = 1 THEN e ELSE q[i]
  BY <1>1, <1>3, ExceptSeq
<1> QED BY <1>1, <1>2, <1>4, <1>5 DEF e

\* The types hold at the start, and every step keeps them as long as nothing is
\* popped from an empty queue.
LEMMA TypeInit == Init => TypeOK
BY DEF Init, TypeOK, NoMessage, Message, MessageIds, NoId, SenderLabels, ReceiverLabels

\* A step keeps the types, given that poll_receive_one pops no empty queue.
LEMMA TypeStep == TypeOK /\ FrontStable /\ [Next]_vars => TypeOK'
<1> SUFFICES ASSUME TypeOK, FrontStable, [Next]_vars PROVE TypeOK'
  OBVIOUS
<1> USE DEF TypeOK, SenderLabels, ReceiverLabels, Goto
<1>1. ASSUME NEW s \in Senders, NEW p \in Payloads, SendCall(s, p) PROVE TypeOK'
  BY <1>1 DEF SendCall, Message, MessageIds, NoId
<1>2. ASSUME NEW s \in Senders, SendLock(s) PROVE TypeOK'
  BY <1>2 DEF SendLock, Acquire
<1>3. ASSUME NEW s \in Senders, SendAssign(s) PROVE TypeOK'
  BY <1>3 DEF SendAssign, UpdateQueueMetric, Message, MessageIds
<1>4. ASSUME NEW s \in Senders, SendPush(s) PROVE TypeOK'
  BY <1>4 DEF SendPush
<1>5. ASSUME NEW s \in Senders, SendThrow(s) PROVE TypeOK'
  BY <1>5 DEF SendThrow
<1>6. ASSUME NEW s \in Senders, SendUnlock(s) PROVE TypeOK'
  BY <1>6 DEF SendUnlock
<1>7. ASSUME NEW s \in Senders, SendUnwind(s) PROVE TypeOK'
  BY <1>7 DEF SendUnwind, Message, MessageIds
<1>8. ASSUME NEW s \in Senders, SendReturn(s) PROVE TypeOK'
  BY <1>8 DEF SendReturn, NoMessage, Message, MessageIds, NoId
<1>9. ASSUME NEW r \in Receivers, PollCall(r) PROVE TypeOK'
  BY <1>9 DEF PollCall
<1>10. ASSUME NEW r \in Receivers, PollLock(r) PROVE TypeOK'
  BY <1>10 DEF PollLock, Acquire
<1>11. ASSUME NEW r \in Receivers, PollEmpty(r) PROVE TypeOK'
  BY <1>11 DEF PollEmpty
<1>12. ASSUME NEW r \in Receivers, PollFront(r) PROVE TypeOK'
  BY <1>12, MoveFront, ElementOfSeq DEF PollFront
<1>13. ASSUME NEW r \in Receivers, PollPop(r) PROVE TypeOK'
  BY <1>13, HeadTailProperties, LenProperties DEF PollPop, UpdateQueueMetric, FrontStable
<1>14. ASSUME NEW r \in Receivers, PollUnlock(r) PROVE TypeOK'
  BY <1>14 DEF PollUnlock
<1>15. ASSUME NEW r \in Receivers, PollReturn(r) PROVE TypeOK'
  BY <1>15 DEF PollReturn, NoMessage, Message, MessageIds, NoId
<1>16. CASE UNCHANGED vars
  BY <1>16 DEF vars
<1> QED
  BY <1>1, <1>2, <1>3, <1>4, <1>5, <1>6, <1>7, <1>8, <1>9, <1>10, <1>11, <1>12,
     <1>13, <1>14, <1>15, <1>16
     DEF Next, SenderNext, ReceiverNext, SendStep, PollStep

-------------------------------------------------------------------------------
\* The lock_guard: a step enters a critical section only with the free mutex
\* and leaves it only by releasing the mutex.
LEMMA MutexInit == Init => MutexHeld
BY DEF Init, MutexHeld, Critical

\* Every step into or out of a critical section moves the mutex with it.
LEMMA MutexStep == TypeOK /\ MutexHeld /\ [Next]_vars => MutexHeld'
<1> SUFFICES ASSUME TypeOK, MutexHeld, [Next]_vars PROVE MutexHeld'
  OBVIOUS
<1> USE DEF TypeOK, MutexHeld, Critical, Goto
<1>1. ASSUME NEW s \in Senders, NEW p \in Payloads, SendCall(s, p) PROVE MutexHeld'
  BY <1>1 DEF SendCall
<1>2. ASSUME NEW s \in Senders, SendLock(s) PROVE MutexHeld'
  BY <1>2 DEF SendLock, Acquire
<1>3. ASSUME NEW s \in Senders, SendAssign(s) PROVE MutexHeld'
  BY <1>3 DEF SendAssign
<1>4. ASSUME NEW s \in Senders, SendPush(s) PROVE MutexHeld'
  BY <1>4 DEF SendPush
<1>5. ASSUME NEW s \in Senders, SendThrow(s) PROVE MutexHeld'
  BY <1>5 DEF SendThrow
<1>6. ASSUME NEW s \in Senders, SendUnlock(s) PROVE MutexHeld'
  BY <1>6 DEF SendUnlock
<1>7. ASSUME NEW s \in Senders, SendUnwind(s) PROVE MutexHeld'
  BY <1>7 DEF SendUnwind
<1>8. ASSUME NEW s \in Senders, SendReturn(s) PROVE MutexHeld'
  BY <1>8 DEF SendReturn
<1>9. ASSUME NEW r \in Receivers, PollCall(r) PROVE MutexHeld'
  BY <1>9 DEF PollCall
<1>10. ASSUME NEW r \in Receivers, PollLock(r) PROVE MutexHeld'
  BY <1>10 DEF PollLock, Acquire
<1>11. ASSUME NEW r \in Receivers, PollEmpty(r) PROVE MutexHeld'
  BY <1>11 DEF PollEmpty
<1>12. ASSUME NEW r \in Receivers, PollFront(r) PROVE MutexHeld'
  BY <1>12 DEF PollFront
<1>13. ASSUME NEW r \in Receivers, PollPop(r) PROVE MutexHeld'
  BY <1>13 DEF PollPop
<1>14. ASSUME NEW r \in Receivers, PollUnlock(r) PROVE MutexHeld'
  BY <1>14 DEF PollUnlock
<1>15. ASSUME NEW r \in Receivers, PollReturn(r) PROVE MutexHeld'
  BY <1>15 DEF PollReturn
<1>16. CASE UNCHANGED vars
  BY <1>16 DEF vars
<1> QED
  BY <1>1, <1>2, <1>3, <1>4, <1>5, <1>6, <1>7, <1>8, <1>9, <1>10, <1>11, <1>12,
     <1>13, <1>14, <1>15, <1>16
     DEF Next, SenderNext, ReceiverNext, SendStep, PollStep

\* No two calls of send or poll_receive_one are between the constructor and the
\* destructor of their lock_guards.
LEMMA OneInside ==
  ASSUME MutexHeld, NEW t \in Threads, NEW u \in Threads, pc[t] \in Critical, pc[u] \in Critical
  PROVE  t = u
BY DEF MutexHeld

\* Only the holder of the mutex is between two statements of its call, so what
\* it has read is still so.
LEMMA LocalsStep == TypeOK /\ MutexHeld /\ FrontStable /\ SenderLocals /\ [Next]_vars => SenderLocals'
<1> SUFFICES ASSUME TypeOK, MutexHeld, FrontStable, SenderLocals, [Next]_vars PROVE SenderLocals'
  OBVIOUS
<1> USE DEF TypeOK, MutexHeld, SenderLocals, Critical, SenderLabels, ReceiverLabels, Message, MessageIds, NoMessage, NoId, Goto
<1>1. ASSUME NEW s \in Senders, NEW p \in Payloads, SendCall(s, p) PROVE SenderLocals'
  BY <1>1 DEF SendCall
<1>2. ASSUME NEW s \in Senders, SendLock(s) PROVE SenderLocals'
  BY <1>2 DEF SendLock, Acquire
<1>3. ASSUME NEW s \in Senders, SendAssign(s) PROVE SenderLocals'
  BY <1>3 DEF SendAssign, UpdateQueueMetric
<1>4. ASSUME NEW s \in Senders, SendPush(s) PROVE SenderLocals'
  BY <1>4, LenProperties DEF SendPush
<1>5. ASSUME NEW s \in Senders, SendThrow(s) PROVE SenderLocals'
  BY <1>5 DEF SendThrow
<1>6. ASSUME NEW s \in Senders, SendUnlock(s) PROVE SenderLocals'
  BY <1>6 DEF SendUnlock
<1>7. ASSUME NEW s \in Senders, SendUnwind(s) PROVE SenderLocals'
  BY <1>7 DEF SendUnwind
<1>8. ASSUME NEW s \in Senders, SendReturn(s) PROVE SenderLocals'
  BY <1>8 DEF SendReturn
<1>9. ASSUME NEW r \in Receivers, PollCall(r) PROVE SenderLocals'
  BY <1>9 DEF PollCall
<1>10. ASSUME NEW r \in Receivers, PollLock(r) PROVE SenderLocals'
  BY <1>10 DEF PollLock, Acquire
<1>11. ASSUME NEW r \in Receivers, PollEmpty(r) PROVE SenderLocals'
  BY <1>11 DEF PollEmpty
<1>12. ASSUME NEW r \in Receivers, PollFront(r) PROVE SenderLocals'
  BY <1>12, MoveFront DEF PollFront
<1>13. ASSUME NEW r \in Receivers, PollPop(r) PROVE SenderLocals'
  BY <1>13 DEF PollPop, UpdateQueueMetric
<1>14. ASSUME NEW r \in Receivers, PollUnlock(r) PROVE SenderLocals'
  BY <1>14 DEF PollUnlock
<1>15. ASSUME NEW r \in Receivers, PollReturn(r) PROVE SenderLocals'
  BY <1>15 DEF PollReturn
<1>16. CASE UNCHANGED vars
  BY <1>16 DEF vars
<1> QED
  BY <1>1, <1>2, <1>3, <1>4, <1>5, <1>6, <1>7, <1>8, <1>9, <1>10, <1>11, <1>12,
     <1>13, <1>14, <1>15, <1>16
     DEF Next, SenderNext, ReceiverNext, SendStep, PollStep

\* A receiver holds a message of the queue from front() to its return.
LEMMA ReceiverStep == TypeOK /\ MutexHeld /\ ReceiverLocals /\ QueuedHavePayloads /\ [Next]_vars => ReceiverLocals'
<1> SUFFICES ASSUME TypeOK, MutexHeld, ReceiverLocals, QueuedHavePayloads, [Next]_vars PROVE ReceiverLocals'
  OBVIOUS
<1> USE DEF TypeOK, MutexHeld, Critical, SenderLabels, ReceiverLabels, Goto, ReceiverLocals, NoMessage, Message, MessageIds, NoId
<1>1. ASSUME NEW s \in Senders, NEW p \in Payloads, SendCall(s, p) PROVE ReceiverLocals'
  BY <1>1 DEF SendCall
<1>2. ASSUME NEW s \in Senders, SendLock(s) PROVE ReceiverLocals'
  BY <1>2 DEF SendLock, Acquire
<1>3. ASSUME NEW s \in Senders, SendAssign(s) PROVE ReceiverLocals'
  BY <1>3 DEF SendAssign
<1>4. ASSUME NEW s \in Senders, SendPush(s) PROVE ReceiverLocals'
  BY <1>4 DEF SendPush
<1>5. ASSUME NEW s \in Senders, SendThrow(s) PROVE ReceiverLocals'
  BY <1>5 DEF SendThrow
<1>6. ASSUME NEW s \in Senders, SendUnlock(s) PROVE ReceiverLocals'
  BY <1>6 DEF SendUnlock
<1>7. ASSUME NEW s \in Senders, SendUnwind(s) PROVE ReceiverLocals'
  BY <1>7 DEF SendUnwind
<1>8. ASSUME NEW s \in Senders, SendReturn(s) PROVE ReceiverLocals'
  BY <1>8 DEF SendReturn
<1>9. ASSUME NEW r \in Receivers, PollCall(r) PROVE ReceiverLocals'
  BY <1>9 DEF PollCall
<1>10. ASSUME NEW r \in Receivers, PollLock(r) PROVE ReceiverLocals'
  BY <1>10 DEF PollLock, Acquire
<1>11. ASSUME NEW r \in Receivers, PollEmpty(r) PROVE ReceiverLocals'
  BY <1>11 DEF PollEmpty
<1>12. ASSUME NEW r \in Receivers, PollFront(r) PROVE ReceiverLocals'
  BY <1>12, MoveFront DEF PollFront, QueuedHavePayloads
<1>13. ASSUME NEW r \in Receivers, PollPop(r) PROVE ReceiverLocals'
  BY <1>13 DEF PollPop
<1>14. ASSUME NEW r \in Receivers, PollUnlock(r) PROVE ReceiverLocals'
  BY <1>14 DEF PollUnlock
<1>15. ASSUME NEW r \in Receivers, PollReturn(r) PROVE ReceiverLocals'
  BY <1>15 DEF PollReturn
<1>16. CASE UNCHANGED vars
  BY <1>16 DEF vars
<1> QED
  BY <1>1, <1>2, <1>3, <1>4, <1>5, <1>6, <1>7, <1>8, <1>9, <1>10, <1>11, <1>12,
     <1>13, <1>14, <1>15, <1>16
     DEF Next, SenderNext, ReceiverNext, SendStep, PollStep

\* Every message that enters the queue has the payload send was called with.
LEMMA PayloadsStep == TypeOK /\ MutexHeld /\ FrontStable /\ SenderLocals /\ QueuedHavePayloads /\ [Next]_vars => QueuedHavePayloads'
<1> SUFFICES ASSUME TypeOK, MutexHeld, FrontStable, SenderLocals, QueuedHavePayloads, [Next]_vars PROVE QueuedHavePayloads'
  OBVIOUS
<1> USE DEF TypeOK, MutexHeld, Critical, SenderLabels, ReceiverLabels, Goto, QueuedHavePayloads, Message
<1>1. ASSUME NEW s \in Senders, NEW p \in Payloads, SendCall(s, p) PROVE QueuedHavePayloads'
  BY <1>1 DEF SendCall
<1>2. ASSUME NEW s \in Senders, SendLock(s) PROVE QueuedHavePayloads'
  BY <1>2 DEF SendLock, Acquire
<1>3. ASSUME NEW s \in Senders, SendAssign(s) PROVE QueuedHavePayloads'
  BY <1>3 DEF SendAssign
<1>4. ASSUME NEW s \in Senders, SendPush(s) PROVE QueuedHavePayloads'
  BY <1>4, LenProperties DEF SendPush, SenderLocals
<1>5. ASSUME NEW s \in Senders, SendThrow(s) PROVE QueuedHavePayloads'
  BY <1>5 DEF SendThrow
<1>6. ASSUME NEW s \in Senders, SendUnlock(s) PROVE QueuedHavePayloads'
  BY <1>6 DEF SendUnlock
<1>7. ASSUME NEW s \in Senders, SendUnwind(s) PROVE QueuedHavePayloads'
  BY <1>7 DEF SendUnwind
<1>8. ASSUME NEW s \in Senders, SendReturn(s) PROVE QueuedHavePayloads'
  BY <1>8 DEF SendReturn
<1>9. ASSUME NEW r \in Receivers, PollCall(r) PROVE QueuedHavePayloads'
  BY <1>9 DEF PollCall
<1>10. ASSUME NEW r \in Receivers, PollLock(r) PROVE QueuedHavePayloads'
  BY <1>10 DEF PollLock, Acquire
<1>11. ASSUME NEW r \in Receivers, PollEmpty(r) PROVE QueuedHavePayloads'
  BY <1>11 DEF PollEmpty
<1>12. ASSUME NEW r \in Receivers, PollFront(r) PROVE QueuedHavePayloads'
  BY <1>12, MoveFront DEF PollFront
<1>13. ASSUME NEW r \in Receivers, PollPop(r) PROVE QueuedHavePayloads'
  BY <1>13, HeadTailProperties, LenProperties DEF PollPop, FrontStable
<1>14. ASSUME NEW r \in Receivers, PollUnlock(r) PROVE QueuedHavePayloads'
  BY <1>14 DEF PollUnlock
<1>15. ASSUME NEW r \in Receivers, PollReturn(r) PROVE QueuedHavePayloads'
  BY <1>15 DEF PollReturn
<1>16. CASE UNCHANGED vars
  BY <1>16 DEF vars
<1> QED
  BY <1>1, <1>2, <1>3, <1>4, <1>5, <1>6, <1>7, <1>8, <1>9, <1>10, <1>11, <1>12,
     <1>13, <1>14, <1>15, <1>16
     DEF Next, SenderNext, ReceiverNext, SendStep, PollStep

\* The front is only replaced by the receiver that holds the mutex.
LEMMA FrontStep == TypeOK /\ MutexHeld /\ FrontStable /\ QueuedHaveIds /\ [Next]_vars => FrontStable'
<1> SUFFICES ASSUME TypeOK, MutexHeld, FrontStable, QueuedHaveIds, [Next]_vars PROVE FrontStable'
  OBVIOUS
<1> USE DEF TypeOK, MutexHeld, Critical, SenderLabels, ReceiverLabels, Goto, FrontStable, Message, MessageIds
<1>1. ASSUME NEW s \in Senders, NEW p \in Payloads, SendCall(s, p) PROVE FrontStable'
  BY <1>1 DEF SendCall
<1>2. ASSUME NEW s \in Senders, SendLock(s) PROVE FrontStable'
  BY <1>2 DEF SendLock, Acquire
<1>3. ASSUME NEW s \in Senders, SendAssign(s) PROVE FrontStable'
  BY <1>3 DEF SendAssign
<1>4. ASSUME NEW s \in Senders, SendPush(s) PROVE FrontStable'
  BY <1>4, LenProperties DEF SendPush
<1>5. ASSUME NEW s \in Senders, SendThrow(s) PROVE FrontStable'
  BY <1>5 DEF SendThrow
<1>6. ASSUME NEW s \in Senders, SendUnlock(s) PROVE FrontStable'
  BY <1>6 DEF SendUnlock
<1>7. ASSUME NEW s \in Senders, SendUnwind(s) PROVE FrontStable'
  BY <1>7 DEF SendUnwind
<1>8. ASSUME NEW s \in Senders, SendReturn(s) PROVE FrontStable'
  BY <1>8 DEF SendReturn
<1>9. ASSUME NEW r \in Receivers, PollCall(r) PROVE FrontStable'
  BY <1>9 DEF PollCall
<1>10. ASSUME NEW r \in Receivers, PollLock(r) PROVE FrontStable'
  BY <1>10 DEF PollLock, Acquire
<1>11. ASSUME NEW r \in Receivers, PollEmpty(r) PROVE FrontStable'
  BY <1>11 DEF PollEmpty
<1>12. ASSUME NEW r \in Receivers, PollFront(r) PROVE FrontStable'
  <2>1. /\ queue # <<>> /\ local' = [local EXCEPT ![r] = queue[1]]
        /\ queue' = [queue EXCEPT ![1].id = NoId] /\ pc[r] = "front"
        /\ pc' = [pc EXCEPT ![r] = "pop"]
    BY <1>12 DEF PollFront
  <2>2. /\ queue[1] \in Message /\ 1 \in 1..Len(queue) /\ Len(queue') = Len(queue)
        /\ queue'[1] = [queue[1] EXCEPT !.id = NoId] /\ queue' \in Seq(Message)
    <3> HIDE DEF Message, MessageIds
    <3>1. queue \in Seq(Message)
      OBVIOUS
    <3> HIDE DEF TypeOK, MutexHeld, FrontStable
    <3> QED BY <2>1, <3>1, MoveFront
  <2>3. \A u \in Receivers : pc[u] # "pop"
    BY <2>1
  <2>4. queue[1].id # NoId
    BY <2>2, <2>3 DEF QueuedHaveIds
  <2>5. queue' # <<>>
    BY <2>2, EmptySeq
  <2>6. ASSUME NEW u \in Receivers, pc'[u] = "pop"
        PROVE  /\ queue'[1] = [local'[u] EXCEPT !.id = NoId]
               /\ local'[u].id # NoId
    <3>1. u = r
      BY <2>1, <2>3, <2>6
    <3>2. local'[u] = queue[1]
      BY <2>1, <3>1
    <3> QED BY <3>2, <2>2, <2>4
  <2> QED
    BY <2>5, <2>6
<1>13. ASSUME NEW r \in Receivers, PollPop(r) PROVE FrontStable'
  BY <1>13 DEF PollPop, UpdateQueueMetric
<1>14. ASSUME NEW r \in Receivers, PollUnlock(r) PROVE FrontStable'
  BY <1>14 DEF PollUnlock
<1>15. ASSUME NEW r \in Receivers, PollReturn(r) PROVE FrontStable'
  BY <1>15 DEF PollReturn
<1>16. CASE UNCHANGED vars
  BY <1>16 DEF vars
<1> QED
  BY <1>1, <1>2, <1>3, <1>4, <1>5, <1>6, <1>7, <1>8, <1>9, <1>10, <1>11, <1>12,
     <1>13, <1>14, <1>15, <1>16
     DEF Next, SenderNext, ReceiverNext, SendStep, PollStep

\* Ids enter the queue as sizes, and only front() empties one.
LEMMA IdsStep == TypeOK /\ MutexHeld /\ FrontStable /\ SenderLocals /\ QueuedHaveIds /\ [Next]_vars => QueuedHaveIds'
<1> SUFFICES ASSUME TypeOK, MutexHeld, FrontStable, SenderLocals, QueuedHaveIds, [Next]_vars PROVE QueuedHaveIds'
  OBVIOUS
<1> USE DEF TypeOK, MutexHeld, Critical, SenderLabels, ReceiverLabels, Goto, QueuedHaveIds, Message, MessageIds, NoId
<1>1. ASSUME NEW s \in Senders, NEW p \in Payloads, SendCall(s, p) PROVE QueuedHaveIds'
  BY <1>1 DEF SendCall
<1>2. ASSUME NEW s \in Senders, SendLock(s) PROVE QueuedHaveIds'
  BY <1>2 DEF SendLock, Acquire
<1>3. ASSUME NEW s \in Senders, SendAssign(s) PROVE QueuedHaveIds'
  BY <1>3 DEF SendAssign
<1>4. ASSUME NEW s \in Senders, SendPush(s) PROVE QueuedHaveIds'
  BY <1>4, LenProperties DEF SendPush, SenderLocals
<1>5. ASSUME NEW s \in Senders, SendThrow(s) PROVE QueuedHaveIds'
  BY <1>5 DEF SendThrow
<1>6. ASSUME NEW s \in Senders, SendUnlock(s) PROVE QueuedHaveIds'
  BY <1>6 DEF SendUnlock
<1>7. ASSUME NEW s \in Senders, SendUnwind(s) PROVE QueuedHaveIds'
  BY <1>7 DEF SendUnwind
<1>8. ASSUME NEW s \in Senders, SendReturn(s) PROVE QueuedHaveIds'
  BY <1>8 DEF SendReturn
<1>9. ASSUME NEW r \in Receivers, PollCall(r) PROVE QueuedHaveIds'
  BY <1>9 DEF PollCall
<1>10. ASSUME NEW r \in Receivers, PollLock(r) PROVE QueuedHaveIds'
  BY <1>10 DEF PollLock, Acquire
<1>11. ASSUME NEW r \in Receivers, PollEmpty(r) PROVE QueuedHaveIds'
  BY <1>11 DEF PollEmpty
<1>12. ASSUME NEW r \in Receivers, PollFront(r) PROVE QueuedHaveIds'
  BY <1>12, MoveFront, LenProperties DEF PollFront
<1>13. ASSUME NEW r \in Receivers, PollPop(r) PROVE QueuedHaveIds'
  <2>1. queue # <<>> /\ queue' = Tail(queue) /\ pc[r] = "pop" /\ pc' = [pc EXCEPT ![r] = "popped"]
    BY <1>13 DEF PollPop, FrontStable
  <2>2. Len(queue') = Len(queue) - 1 /\ \A i \in 1..Len(queue') : queue'[i] = queue[i + 1]
    BY <2>1, HeadTailProperties
  <2>3. Len(queue) \in Nat
    BY LenProperties
  <2>4. \A i \in 1..Len(queue') : queue[i + 1].id # NoId
    BY <2>2, <2>3
  <2> QED
    BY <2>2, <2>3, <2>4
<1>14. ASSUME NEW r \in Receivers, PollUnlock(r) PROVE QueuedHaveIds'
  BY <1>14 DEF PollUnlock
<1>15. ASSUME NEW r \in Receivers, PollReturn(r) PROVE QueuedHaveIds'
  BY <1>15 DEF PollReturn
<1>16. CASE UNCHANGED vars
  BY <1>16 DEF vars
<1> QED
  BY <1>1, <1>2, <1>3, <1>4, <1>5, <1>6, <1>7, <1>8, <1>9, <1>10, <1>11, <1>12,
     <1>13, <1>14, <1>15, <1>16
     DEF Next, SenderNext, ReceiverNext, SendStep, PollStep

\* A message moves to a lower position only, and starts at its id or below.
LEMMA PositionsStep == TypeOK /\ MutexHeld /\ FrontStable /\ SenderLocals /\ IdsCoverPosition /\ [Next]_vars => IdsCoverPosition'
<1> SUFFICES ASSUME TypeOK, MutexHeld, FrontStable, SenderLocals, IdsCoverPosition, [Next]_vars PROVE IdsCoverPosition'
  OBVIOUS
<1> USE DEF TypeOK, MutexHeld, Critical, SenderLabels, ReceiverLabels, Goto, IdsCoverPosition, Message, MessageIds, NoId
<1>1. ASSUME NEW s \in Senders, NEW p \in Payloads, SendCall(s, p) PROVE IdsCoverPosition'
  BY <1>1 DEF SendCall
<1>2. ASSUME NEW s \in Senders, SendLock(s) PROVE IdsCoverPosition'
  BY <1>2 DEF SendLock, Acquire
<1>3. ASSUME NEW s \in Senders, SendAssign(s) PROVE IdsCoverPosition'
  BY <1>3 DEF SendAssign
<1>4. ASSUME NEW s \in Senders, SendPush(s) PROVE IdsCoverPosition'
  BY <1>4, LenProperties DEF SendPush, SenderLocals
<1>5. ASSUME NEW s \in Senders, SendThrow(s) PROVE IdsCoverPosition'
  BY <1>5 DEF SendThrow
<1>6. ASSUME NEW s \in Senders, SendUnlock(s) PROVE IdsCoverPosition'
  BY <1>6 DEF SendUnlock
<1>7. ASSUME NEW s \in Senders, SendUnwind(s) PROVE IdsCoverPosition'
  BY <1>7 DEF SendUnwind
<1>8. ASSUME NEW s \in Senders, SendReturn(s) PROVE IdsCoverPosition'
  BY <1>8 DEF SendReturn
<1>9. ASSUME NEW r \in Receivers, PollCall(r) PROVE IdsCoverPosition'
  BY <1>9 DEF PollCall
<1>10. ASSUME NEW r \in Receivers, PollLock(r) PROVE IdsCoverPosition'
  BY <1>10 DEF PollLock, Acquire
<1>11. ASSUME NEW r \in Receivers, PollEmpty(r) PROVE IdsCoverPosition'
  BY <1>11 DEF PollEmpty
<1>12. ASSUME NEW r \in Receivers, PollFront(r) PROVE IdsCoverPosition'
  BY <1>12, MoveFront, LenProperties DEF PollFront
<1>13. ASSUME NEW r \in Receivers, PollPop(r) PROVE IdsCoverPosition'
  <2>1. queue # <<>> /\ queue' = Tail(queue) /\ pc[r] = "pop" /\ pc' = [pc EXCEPT ![r] = "popped"]
    BY <1>13 DEF PollPop, FrontStable
  <2>2. Len(queue') = Len(queue) - 1 /\ \A i \in 1..Len(queue') : queue'[i] = queue[i + 1]
    BY <2>1, HeadTailProperties
  <2>3. Len(queue) \in Nat
    BY LenProperties
  <2>4. ASSUME NEW i \in 2..Len(queue') PROVE queue'[i].id >= i - 1
    <3>1. i + 1 \in 2..Len(queue) /\ i + 1 \in 1..Len(queue) /\ i \in Nat
      BY <2>2, <2>3
    <3>2. queue \in Seq(Message)
      OBVIOUS
    <3>3. queue[i + 1].id \in Int
      <4> HIDE DEF Message
      <4>1. queue[i + 1] \in Message
        BY <3>1, <3>2, ElementOfSeq
      <4> QED BY <4>1 DEF Message
    <3>4. queue[i + 1].id >= (i + 1) - 1
      BY <3>1
    <3>5. queue'[i] = queue[i + 1]
      BY <2>2, <3>1
    <3> QED
      BY <3>1, <3>3, <3>4, <3>5
  <2> QED
    BY <2>4
<1>14. ASSUME NEW r \in Receivers, PollUnlock(r) PROVE IdsCoverPosition'
  BY <1>14 DEF PollUnlock
<1>15. ASSUME NEW r \in Receivers, PollReturn(r) PROVE IdsCoverPosition'
  BY <1>15 DEF PollReturn
<1>16. CASE UNCHANGED vars
  BY <1>16 DEF vars
<1> QED
  BY <1>1, <1>2, <1>3, <1>4, <1>5, <1>6, <1>7, <1>8, <1>9, <1>10, <1>11, <1>12,
     <1>13, <1>14, <1>15, <1>16
     DEF Next, SenderNext, ReceiverNext, SendStep, PollStep

\* The metric is set before a push, whose sender keeps the mutex, and after a
\* pop.
LEMMA GaugeStep == TypeOK /\ MutexHeld /\ FrontStable /\ SenderLocals /\ GaugeBound /\ [Next]_vars => GaugeBound'
<1> SUFFICES ASSUME TypeOK, MutexHeld, FrontStable, SenderLocals, GaugeBound, [Next]_vars PROVE GaugeBound'
  OBVIOUS
<1> USE DEF TypeOK, MutexHeld, Critical, SenderLabels, ReceiverLabels, Goto, GaugeBound
<1>1. ASSUME NEW s \in Senders, NEW p \in Payloads, SendCall(s, p) PROVE GaugeBound'
  BY <1>1 DEF SendCall
<1>2. ASSUME NEW s \in Senders, SendLock(s) PROVE GaugeBound'
  BY <1>2 DEF SendLock, Acquire
<1>3. ASSUME NEW s \in Senders, SendAssign(s) PROVE GaugeBound'
  BY <1>3, LenProperties DEF SendAssign, UpdateQueueMetric
<1>4. ASSUME NEW s \in Senders, SendPush(s) PROVE GaugeBound'
  BY <1>4, LenProperties DEF SendPush, SenderLocals
<1>5. ASSUME NEW s \in Senders, SendThrow(s) PROVE GaugeBound'
  BY <1>5 DEF SendThrow
<1>6. ASSUME NEW s \in Senders, SendUnlock(s) PROVE GaugeBound'
  BY <1>6 DEF SendUnlock
<1>7. ASSUME NEW s \in Senders, SendUnwind(s) PROVE GaugeBound'
  BY <1>7 DEF SendUnwind
<1>8. ASSUME NEW s \in Senders, SendReturn(s) PROVE GaugeBound'
  BY <1>8 DEF SendReturn
<1>9. ASSUME NEW r \in Receivers, PollCall(r) PROVE GaugeBound'
  BY <1>9 DEF PollCall
<1>10. ASSUME NEW r \in Receivers, PollLock(r) PROVE GaugeBound'
  BY <1>10 DEF PollLock, Acquire
<1>11. ASSUME NEW r \in Receivers, PollEmpty(r) PROVE GaugeBound'
  BY <1>11 DEF PollEmpty
<1>12. ASSUME NEW r \in Receivers, PollFront(r) PROVE GaugeBound'
  BY <1>12, MoveFront, LenProperties DEF PollFront
<1>13. ASSUME NEW r \in Receivers, PollPop(r) PROVE GaugeBound'
  BY <1>13, HeadTailProperties, LenProperties DEF PollPop, FrontStable, UpdateQueueMetric
<1>14. ASSUME NEW r \in Receivers, PollUnlock(r) PROVE GaugeBound'
  BY <1>14 DEF PollUnlock
<1>15. ASSUME NEW r \in Receivers, PollReturn(r) PROVE GaugeBound'
  BY <1>15 DEF PollReturn
<1>16. CASE UNCHANGED vars
  BY <1>16 DEF vars
<1> QED
  BY <1>1, <1>2, <1>3, <1>4, <1>5, <1>6, <1>7, <1>8, <1>9, <1>10, <1>11, <1>12,
     <1>13, <1>14, <1>15, <1>16
     DEF Next, SenderNext, ReceiverNext, SendStep, PollStep

-------------------------------------------------------------------------------
\* The inductive invariant: it holds at the start and every step keeps it.
LEMMA InvInit == Init => IInv
<1> SUFFICES ASSUME Init PROVE IInv
  OBVIOUS
<1>1. TypeOK
  BY TypeInit
<1>2. MutexHeld
  BY MutexInit
<1>3. queue = <<>> /\ Len(queue) = 0 /\ gauge = 0
  BY DEF Init
<1>4. SenderLocals /\ ReceiverLocals /\ FrontStable
  BY DEF Init, SenderLocals, ReceiverLocals, FrontStable, NoMessage
<1>5. QueuedHaveIds /\ QueuedHavePayloads /\ GaugeBound /\ IdsCoverPosition
  BY <1>3 DEF QueuedHaveIds, QueuedHavePayloads, GaugeBound, IdsCoverPosition
<1> QED BY <1>1, <1>2, <1>4, <1>5 DEF IInv

\* Every step keeps the inductive invariant: the step lemmas together.
LEMMA InvStep == IInv /\ [Next]_vars => IInv'
BY TypeStep, MutexStep, LocalsStep, ReceiverStep, PayloadsStep, FrontStep, IdsStep,
   PositionsStep, GaugeStep DEF IInv

\* The inductive invariant holds in every state of every behaviour.
THEOREM Invariance == Spec => []IInv
<1>1. Init => IInv
  BY InvInit
<1>2. IInv /\ [Next]_vars => IInv'
  BY InvStep
<1> QED BY <1>1, <1>2, PTL DEF Spec

\* Every variable keeps its type; in particular nothing is ever popped from an
\* empty queue (billing_queue.h:78), and the gauge is never negative.
THEOREM TypeCorrect == Spec => []TypeOK
<1>1. IInv => TypeOK
  BY DEF IInv
<1> QED BY Invariance, <1>1, PTL

\* m_queue_mut is held by exactly the thread between lock_guard's constructor
\* and destructor, so two calls never overlap there (billing_queue.h:63, 74).
THEOREM MutualExclusion == Spec => []MutexHeld
<1>1. IInv => MutexHeld
  BY DEF IInv
<1> QED BY Invariance, <1>1, PTL

\* No message without an id is in the queue, except for the one that is about
\* to be popped: poll_receive_one reports "no message" only of an empty queue.
THEOREM NoFalseEmpty == Spec => []QueuedHaveIds
<1>1. IInv => QueuedHaveIds
  BY DEF IInv
<1> QED BY Invariance, <1>1, PTL

\* The message popped is the one that was moved from (billing_queue.h:77-78).
THEOREM FrontUntouched == Spec => []FrontStable
<1>1. IInv => FrontStable
  BY DEF IInv
<1> QED BY Invariance, <1>1, PTL

\* A queued message's id is never below the number of messages ahead of it.
THEOREM PositionsCovered == Spec => []IdsCoverPosition
<1>1. IInv => IdsCoverPosition
  BY DEF IInv
<1> QED BY Invariance, <1>1, PTL

\* The metric is exactly one behind while a sender holds the mutex after its
\* push, and at most one behind at any other time.
THEOREM GaugeLags == Spec => []GaugeLag
<1>1. IInv => GaugeLag
  <2> SUFFICES ASSUME IInv PROVE GaugeLag
    OBVIOUS
  <2>1. ASSUME NEW t \in Threads, pc[t] = "pushed" PROVE gauge = Len(queue) - 1
    <3>1. t \notin Receivers
      BY <2>1 DEF IInv, TypeOK, ReceiverLabels
    <3> QED BY <2>1, <3>1 DEF IInv, SenderLocals
  <2> QED BY <2>1 DEF IInv, GaugeBound, GaugeLag
<1> QED BY Invariance, <1>1, PTL

-------------------------------------------------------------------------------
\* The refinement of FifoQueue.  What a step of one thread does to the mapped
\* variables: those of all other threads stay as they are.
LEMMA SenderFrame ==
  ASSUME TypeOK, NEW s \in Senders, NEW l, NEW m,
         pc' = [pc EXCEPT ![s] = l], local' = [local EXCEPT ![s] = m]
  PROVE  /\ askedBar' = [askedBar EXCEPT ![s] = m.payload]
         /\ replyBar' = [replyBar EXCEPT ![s] = ReplyOf(s)']
         /\ gotBar' = gotBar
<1>1. \A t \in Threads : t # s => ReplyOf(t)' = ReplyOf(t) /\ local'[t] = local[t]
  BY DEF TypeOK, ReplyOf
<1>2. \A r \in Receivers : r # s /\ r \in Threads
  OBVIOUS
<1>3. s \in Threads /\ local'[s] = m
  BY DEF TypeOK
<1>4. askedBar' = [askedBar EXCEPT ![s] = m.payload]
  <2>1. \A x \in Senders : local'[x].payload = IF x = s THEN m.payload ELSE local[x].payload
    BY <1>1, <1>3
  <2>2. askedBar' = [x \in Senders |-> IF x = s THEN m.payload ELSE local[x].payload]
    BY <2>1 DEF askedBar
  <2> QED BY <2>2 DEF askedBar
<1>5. replyBar' = [replyBar EXCEPT ![s] = ReplyOf(s)']
  BY <1>1, <1>3 DEF replyBar
<1>6. gotBar' = gotBar
  BY <1>1, <1>2 DEF gotBar
<1> QED BY <1>4, <1>5, <1>6

\* The same for a step of a receiver.
LEMMA ReceiverFrame ==
  ASSUME TypeOK, NEW r \in Receivers, NEW l, NEW m,
         pc' = [pc EXCEPT ![r] = l], local' = [local EXCEPT ![r] = m]
  PROVE  /\ askedBar' = askedBar
         /\ replyBar' = [replyBar EXCEPT ![r] = ReplyOf(r)']
         /\ gotBar' = [gotBar EXCEPT ![r] =
                         IF ReplyOf(r)' = "message" THEN m.payload ELSE NoPayload]
<1>1. \A t \in Threads : t # r => ReplyOf(t)' = ReplyOf(t) /\ local'[t] = local[t]
  BY DEF TypeOK, ReplyOf
<1>2. \A s \in Senders : s # r /\ s \in Threads
  OBVIOUS
<1>3. r \in Threads /\ local'[r] = m
  BY DEF TypeOK
<1>4. askedBar' = askedBar
  BY <1>1, <1>2 DEF askedBar
<1>5. replyBar' = [replyBar EXCEPT ![r] = ReplyOf(r)']
  BY <1>1, <1>3 DEF replyBar
<1>6. gotBar' = [gotBar EXCEPT ![r] =
                   IF ReplyOf(r)' = "message" THEN m.payload ELSE NoPayload]
  <2> DEFINE Got(x) == IF ReplyOf(x) = "message" THEN local[x].payload ELSE NoPayload
             New == IF ReplyOf(r)' = "message" THEN m.payload ELSE NoPayload
  <2>1. \A x \in Receivers : Got(x)' = IF x = r THEN New ELSE Got(x)
    BY <1>1, <1>3
  <2>2. gotBar = [x \in Receivers |-> Got(x)] /\ gotBar' = [x \in Receivers |-> Got(x)']
    BY DEF gotBar
  <2> HIDE DEF Got, New
  <2>3. gotBar' = [x \in Receivers |-> IF x = r THEN New ELSE Got(x)]
    BY <2>1, <2>2
  <2>4. gotBar' = [gotBar EXCEPT ![r] = New]
    BY <2>2, <2>3
  <2> QED BY <2>4 DEF New
<1> QED BY <1>4, <1>5, <1>6

\* Every initial state is one of FifoQueue.
LEMMA FifoInitial == Init => Fifo!FifoInit
<1> SUFFICES ASSUME Init PROVE Fifo!FifoInit
  OBVIOUS
<1>1. backlogBar = <<>>
  BY DEF Init, backlogBar
<1>2. \A t \in Threads : ReplyOf(t) = "idle"
  BY DEF Init, ReplyOf
<1>3. askedBar = [s \in Senders |-> NoPayload]
  BY DEF Init, askedBar, NoMessage
<1>4. replyBar = [t \in Threads |-> "idle"] /\ gotBar = [r \in Receivers |-> NoPayload]
  BY <1>2 DEF replyBar, gotBar
<1> QED BY <1>1, <1>3, <1>4 DEF Fifo!FifoInit

\* How the mapped queue follows the queue.
LEMMA BacklogPush ==
  ASSUME TypeOK, NEW m \in Message, queue' = Append(queue, m)
  PROVE  backlogBar' = Append(backlogBar, m.payload)
<1>1. Len(queue') = Len(queue) + 1 /\ Len(queue) \in Nat
  BY LenProperties DEF TypeOK
<1>2. \A i \in 1..Len(queue') :
        queue'[i] = IF i = Len(queue) + 1 THEN m ELSE queue[i]
  BY <1>1 DEF TypeOK
<1>3. backlogBar \in Seq({queue[i].payload : i \in 1..Len(queue)}) /\ Len(backlogBar) = Len(queue)
  BY <1>1 DEF backlogBar
<1>4. Append(backlogBar, m.payload) =
        [i \in 1..(Len(queue) + 1) |-> IF i = Len(queue) + 1 THEN m.payload ELSE backlogBar[i]]
  BY <1>1, <1>3
<1>5. \A i \in 1..(Len(queue) + 1) :
        queue'[i].payload = IF i = Len(queue) + 1 THEN m.payload ELSE backlogBar[i]
  BY <1>1, <1>2 DEF backlogBar
<1>6. backlogBar' = [i \in 1..(Len(queue) + 1) |-> queue'[i].payload]
  BY <1>1 DEF backlogBar
<1> HIDE DEF backlogBar
<1> QED BY <1>4, <1>5, <1>6

\* pop() takes the first payload of the mapped queue.
LEMMA BacklogPop ==
  ASSUME TypeOK, queue # <<>>, queue' = Tail(queue)
  PROVE  /\ backlogBar # <<>>
         /\ Head(backlogBar) = queue[1].payload
         /\ backlogBar' = Tail(backlogBar)
<1>1. Len(queue) \in Nat \ {0} /\ Len(queue') = Len(queue) - 1
  BY EmptySeq, HeadTailProperties, LenProperties DEF TypeOK
<1>2. \A i \in 1..Len(queue') : queue'[i] = queue[i + 1]
  BY <1>1, HeadTailProperties DEF TypeOK
<1>3. backlogBar \in Seq({queue[i].payload : i \in 1..Len(queue)}) /\ Len(backlogBar) = Len(queue)
  BY <1>1 DEF backlogBar
<1>4. backlogBar # <<>> /\ Head(backlogBar) = queue[1].payload
  BY <1>1, <1>3 DEF backlogBar
<1>5. Tail(backlogBar) = [i \in 1..(Len(queue) - 1) |-> backlogBar[i + 1]]
  <2> DEFINE b == backlogBar
             t == Tail(b)
  <2>1. b \in Seq({queue[i].payload : i \in 1..Len(queue)}) /\ b # <<>> /\ Len(b) = Len(queue)
    BY <1>3, <1>4
  <2> HIDE DEF b
  <2>2. /\ t \in Seq({queue[i].payload : i \in 1..Len(queue)})
        /\ Len(t) = Len(queue) - 1
        /\ \A i \in 1..Len(t) : t[i] = b[i + 1]
    BY <2>1, HeadTailProperties
  <2> HIDE DEF t
  <2>3. t = [i \in 1..(Len(queue) - 1) |-> t[i]]
    BY <2>2
  <2>4. t = [i \in 1..(Len(queue) - 1) |-> b[i + 1]]
    BY <2>2, <2>3
  <2> QED BY <2>4 DEF b, t
<1>6. \A i \in 1..(Len(queue) - 1) : queue'[i].payload = backlogBar[i + 1]
  BY <1>1, <1>2 DEF backlogBar
<1>7. backlogBar' = [i \in 1..(Len(queue) - 1) |-> queue'[i].payload]
  BY <1>1 DEF backlogBar
<1> HIDE DEF backlogBar
<1> QED BY <1>4, <1>5, <1>6, <1>7

\* Moving out of front() is invisible in the mapped queue.
LEMMA BacklogMove ==
  ASSUME TypeOK, queue # <<>>, queue' = [queue EXCEPT ![1].id = NoId]
  PROVE  backlogBar' = backlogBar
<1>1. /\ Len(queue') = Len(queue) /\ queue[1] \in Message
      /\ \A i \in 1..Len(queue) : queue'[i] = IF i = 1 THEN [queue[1] EXCEPT !.id = NoId] ELSE queue[i]
  BY MoveFront DEF TypeOK
<1>2. \A i \in 1..Len(queue) : queue'[i].payload = queue[i].payload
  BY <1>1 DEF Message
<1> QED BY <1>1, <1>2 DEF backlogBar

\* A step that leaves the queue's payloads alone and does not decide the
\* outcome of a call is a stuttering step of FifoQueue.
fifoBar == <<backlogBar, askedBar, replyBar, gotBar>>

\* A sender's step with the queue, the reply and the payload as they were.
LEMMA SenderQuiet ==
  ASSUME IInv, NEW s \in Senders, NEW l, NEW m \in Message,
         pc' = [pc EXCEPT ![s] = l], local' = [local EXCEPT ![s] = m], queue' = queue,
         ReplyOf(s)' = ReplyOf(s), m.payload = local[s].payload
  PROVE  UNCHANGED fifoBar
<1>1. /\ askedBar' = [askedBar EXCEPT ![s] = m.payload]
      /\ replyBar' = [replyBar EXCEPT ![s] = ReplyOf(s)']
      /\ gotBar' = gotBar
  BY SenderFrame DEF IInv
<1>2. askedBar' = askedBar
  <2>1. askedBar \in [Senders -> {local[x].payload : x \in Senders}] /\ askedBar[s] = m.payload
    BY DEF askedBar
  <2> HIDE DEF askedBar
  <2> QED BY <1>1, <2>1
<1>3. replyBar' = replyBar
  <2>1. replyBar = [t \in Threads |-> ReplyOf(t)] /\ replyBar[s] = ReplyOf(s)
    BY DEF replyBar
  <2> QED BY <1>1, <2>1
<1>4. backlogBar' = backlogBar
  BY DEF backlogBar
<1> QED BY <1>1, <1>2, <1>3, <1>4 DEF fifoBar

\* A receiver's step with the payloads and the reply as they were.
LEMMA ReceiverQuiet ==
  ASSUME IInv, NEW r \in Receivers, NEW l, NEW m \in Message,
         pc' = [pc EXCEPT ![r] = l], local' = [local EXCEPT ![r] = m], backlogBar' = backlogBar,
         ReplyOf(r)' = ReplyOf(r),
         m = local[r] \/ ReplyOf(r) # "message"
  PROVE  UNCHANGED fifoBar
<1>1. /\ askedBar' = askedBar
      /\ replyBar' = [replyBar EXCEPT ![r] = ReplyOf(r)']
      /\ gotBar' = [gotBar EXCEPT ![r] =
                      IF ReplyOf(r)' = "message" THEN m.payload ELSE NoPayload]
  BY ReceiverFrame DEF IInv
<1>2. replyBar' = replyBar
  <2>1. replyBar = [t \in Threads |-> ReplyOf(t)] /\ replyBar[r] = ReplyOf(r)
    BY DEF replyBar
  <2> QED BY <1>1, <2>1
<1>3. gotBar' = gotBar
  <2>1. /\ gotBar = [x \in Receivers |-> gotBar[x]]
        /\ gotBar[r] = IF ReplyOf(r) = "message" THEN local[r].payload ELSE NoPayload
    BY DEF gotBar
  <2>2. gotBar[r] = IF ReplyOf(r)' = "message" THEN m.payload ELSE NoPayload
    BY <2>1
  <2> HIDE DEF gotBar
  <2> QED BY <1>1, <2>1, <2>2
<1> QED BY <1>1, <1>2, <1>3 DEF fifoBar

\* Every step of the program is a step of FifoQueue or changes none of its
\* variables: send takes effect at its push, poll_receive_one at its pop or at
\* its look at an empty queue, a failing send at the statement that throws.
LEMMA FifoStep == IInv /\ [Next]_vars => [Fifo!FifoNext]_fifoBar
<1> SUFFICES ASSUME IInv, [Next]_vars PROVE [Fifo!FifoNext]_fifoBar
  OBVIOUS
<1> USE DEF Goto
<1> DEFINE SenderOp(s) == (\E p \in Payloads : Fifo!Ask(s, p)) \/ Fifo!Accept(s) \/ Fifo!Reject(s) \/ Fifo!SendDone(s)
           ReceiverOp(r) == Fifo!Deliver(r) \/ Fifo!Miss(r) \/ Fifo!PollDone(r)
<1>a. TypeOK /\ \A t \in Threads : local[t] \in Message /\ pc = [pc EXCEPT ![t] = pc[t]] /\ local = [local EXCEPT ![t] = local[t]]
  BY DEF IInv, TypeOK
<1>b. \A t \in Threads : \A l : [pc EXCEPT ![t] = l][t] = l
  BY <1>a DEF TypeOK
<1>c. \A t \in Threads : \A m : [local EXCEPT ![t] = m][t] = m
  BY <1>a DEF TypeOK
<1>1. ASSUME NEW s \in Senders, NEW p \in Payloads, SendCall(s, p) PROVE Fifo!Ask(s, p)
  <2> DEFINE m == [id |-> NoId, payload |-> p]
  <2>1. pc' = [pc EXCEPT ![s] = "lockSend"] /\ local' = [local EXCEPT ![s] = m] /\ queue' = queue /\ pc[s] = "idle"
    BY <1>1 DEF SendCall
  <2>2. ReplyOf(s) = "idle" /\ ReplyOf(s)' = "idle"
    BY <2>1, <1>b DEF ReplyOf
  <2>3. askedBar[s] = NoPayload
    BY <2>1 DEF askedBar, IInv, SenderLocals, NoMessage
  <2>4. askedBar' = [askedBar EXCEPT ![s] = p] /\ replyBar' = [replyBar EXCEPT ![s] = "idle"] /\ gotBar' = gotBar
    <3>1. m.payload = p
      OBVIOUS
    <3> HIDE DEF m
    <3>2. /\ askedBar' = [askedBar EXCEPT ![s] = m.payload]
          /\ replyBar' = [replyBar EXCEPT ![s] = ReplyOf(s)'] /\ gotBar' = gotBar
      BY <2>1, <1>a, SenderFrame
    <3> QED BY <3>1, <3>2, <2>2
  <2>5. replyBar' = replyBar
    BY <2>2, <2>4 DEF replyBar
  <2>6. backlogBar' = backlogBar
    BY <2>1 DEF backlogBar
  <2> QED BY <2>3, <2>4, <2>5, <2>6 DEF Fifo!Ask
<1>2. ASSUME NEW s \in Senders, SendLock(s) PROVE UNCHANGED fifoBar
  <2>1. pc' = [pc EXCEPT ![s] = "assign"] /\ local' = [local EXCEPT ![s] = local[s]] /\ queue' = queue /\ pc[s] = "lockSend"
    BY <1>2, <1>a DEF SendLock, Acquire
  <2>2. ReplyOf(s)' = ReplyOf(s)
    BY <2>1, <1>b DEF ReplyOf
  <2> QED BY <2>1, <2>2, <1>a, SenderQuiet
<1>3. ASSUME NEW s \in Senders, SendAssign(s) PROVE UNCHANGED fifoBar
  <2> DEFINE m == [local[s] EXCEPT !.id = Len(queue)]
  <2>1. pc' = [pc EXCEPT ![s] = "push"] /\ local' = [local EXCEPT ![s] = m] /\ queue' = queue /\ pc[s] = "assign"
    BY <1>3 DEF SendAssign
  <2>2. ReplyOf(s)' = ReplyOf(s)
    BY <2>1, <1>b DEF ReplyOf
  <2>3. m \in Message /\ m.payload = local[s].payload
    BY <1>a, LenProperties DEF Message, MessageIds, TypeOK
  <2> HIDE DEF m
  <2> QED BY <2>1, <2>2, <2>3, SenderQuiet
<1>4. ASSUME NEW s \in Senders, SendPush(s) PROVE Fifo!Accept(s)
  <2>1. pc' = [pc EXCEPT ![s] = "pushed"] /\ local' = [local EXCEPT ![s] = local[s]] /\ queue' = Append(queue, local[s]) /\ pc[s] = "push"
    BY <1>4, <1>a DEF SendPush
  <2>2. ReplyOf(s) = "idle" /\ ReplyOf(s)' = "accepted"
    BY <2>1, <1>b DEF ReplyOf
  <2>3. askedBar[s] = local[s].payload /\ local[s].payload # NoPayload /\ replyBar[s] = "idle"
    BY <2>1, <2>2 DEF askedBar, replyBar, IInv, SenderLocals
  <2>4. askedBar' = [askedBar EXCEPT ![s] = local[s].payload] /\ replyBar' = [replyBar EXCEPT ![s] = "accepted"] /\ gotBar' = gotBar
    BY Zenon, <2>1, <2>2, <1>a, SenderFrame
  <2>5. askedBar' = askedBar
    BY <2>4 DEF askedBar
  <2>6. backlogBar' = Append(backlogBar, askedBar[s])
    BY <2>1, <2>3, <1>a, BacklogPush
  <2> QED BY <2>3, <2>4, <2>5, <2>6 DEF Fifo!Accept
<1>5. ASSUME NEW s \in Senders, SendThrow(s) PROVE Fifo!Reject(s)
  <2>1. pc' = [pc EXCEPT ![s] = "throwing"] /\ local' = [local EXCEPT ![s] = local[s]] /\ queue' = queue /\ pc[s] \in {"assign", "push"}
    BY <1>5, <1>a DEF SendThrow
  <2>2. ReplyOf(s) = "idle" /\ ReplyOf(s)' = "rejected"
    BY <2>1, <1>b DEF ReplyOf
  <2>3. askedBar[s] # NoPayload /\ replyBar[s] = "idle"
    BY <2>1, <2>2 DEF askedBar, replyBar, IInv, SenderLocals
  <2>4. askedBar' = [askedBar EXCEPT ![s] = local[s].payload] /\ replyBar' = [replyBar EXCEPT ![s] = "rejected"] /\ gotBar' = gotBar
    <3>1. /\ askedBar' = [askedBar EXCEPT ![s] = local[s].payload]
          /\ replyBar' = [replyBar EXCEPT ![s] = ReplyOf(s)'] /\ gotBar' = gotBar
      BY <2>1, <1>a, SenderFrame
    <3> QED BY <3>1, <2>2
  <2>5. askedBar' = askedBar
    BY <2>4 DEF askedBar
  <2>6. backlogBar' = backlogBar
    BY <2>1 DEF backlogBar
  <2> QED BY <2>3, <2>4, <2>5, <2>6 DEF Fifo!Reject
<1>6. ASSUME NEW s \in Senders, SendUnlock(s) PROVE UNCHANGED fifoBar
  <2>1. pc' = [pc EXCEPT ![s] = "sent"] /\ local' = [local EXCEPT ![s] = local[s]] /\ queue' = queue /\ pc[s] = "pushed"
    BY <1>6, <1>a DEF SendUnlock
  <2>2. ReplyOf(s)' = ReplyOf(s)
    BY <2>1, <1>b DEF ReplyOf
  <2> QED BY <2>1, <2>2, <1>a, SenderQuiet
<1>7. ASSUME NEW s \in Senders, SendUnwind(s) PROVE UNCHANGED fifoBar
  <2> DEFINE m == [local[s] EXCEPT !.id = NoId]
  <2>1. pc' = [pc EXCEPT ![s] = "failed"] /\ local' = [local EXCEPT ![s] = m] /\ queue' = queue /\ pc[s] = "throwing"
    BY <1>7 DEF SendUnwind
  <2>2. ReplyOf(s)' = ReplyOf(s)
    BY <2>1, <1>b DEF ReplyOf
  <2>3. m \in Message /\ m.payload = local[s].payload
    BY <1>a DEF Message, MessageIds
  <2> HIDE DEF m
  <2> QED BY <2>1, <2>2, <2>3, SenderQuiet
<1>8. ASSUME NEW s \in Senders, SendReturn(s) PROVE Fifo!SendDone(s)
  <2>1. pc' = [pc EXCEPT ![s] = "idle"] /\ local' = [local EXCEPT ![s] = NoMessage] /\ queue' = queue /\ pc[s] \in {"sent", "failed"}
    BY <1>8 DEF SendReturn
  <2>2. ReplyOf(s) # "idle" /\ ReplyOf(s)' = "idle"
    BY <2>1, <1>b DEF ReplyOf
  <2>3. replyBar[s] # "idle"
    BY <2>2 DEF replyBar
  <2>4. askedBar' = [askedBar EXCEPT ![s] = NoMessage.payload] /\ replyBar' = [replyBar EXCEPT ![s] = "idle"] /\ gotBar' = gotBar
    BY Zenon, <2>1, <2>2, <1>a, SenderFrame
  <2>5. NoMessage.payload = NoPayload
    BY DEF NoMessage
  <2>6. backlogBar' = backlogBar
    BY <2>1 DEF backlogBar
  <2> QED BY <2>3, <2>4, <2>5, <2>6 DEF Fifo!SendDone
<1>9. ASSUME NEW r \in Receivers, PollCall(r) PROVE UNCHANGED fifoBar
  <2>1. pc' = [pc EXCEPT ![r] = "lockPoll"] /\ local' = [local EXCEPT ![r] = local[r]] /\ queue' = queue /\ pc[r] = "idle"
    BY <1>9, <1>a DEF PollCall
  <2>2. ReplyOf(r)' = ReplyOf(r) /\ backlogBar' = backlogBar
    BY <2>1, <1>b DEF ReplyOf, backlogBar
  <2> QED BY <2>1, <2>2, <1>a, ReceiverQuiet
<1>10. ASSUME NEW r \in Receivers, PollLock(r) PROVE UNCHANGED fifoBar
  <2>1. pc' = [pc EXCEPT ![r] = "front"] /\ local' = [local EXCEPT ![r] = local[r]] /\ queue' = queue /\ pc[r] = "lockPoll"
    BY <1>10, <1>a DEF PollLock, Acquire
  <2>2. ReplyOf(r)' = ReplyOf(r) /\ backlogBar' = backlogBar
    BY <2>1, <1>b DEF ReplyOf, backlogBar
  <2> QED BY <2>1, <2>2, <1>a, ReceiverQuiet
<1>11. ASSUME NEW r \in Receivers, PollEmpty(r) PROVE Fifo!Miss(r)
  <2>1. /\ pc' = [pc EXCEPT ![r] = "popped"] /\ local' = [local EXCEPT ![r] = local[r]]
        /\ queue' = queue /\ queue = <<>> /\ pc[r] = "front" /\ local' = local
    BY <1>11, <1>a DEF PollEmpty
  <2>2. local[r].id = NoId
    BY <2>1 DEF IInv, ReceiverLocals, NoMessage
  <2>3. ReplyOf(r) = "idle" /\ ReplyOf(r)' = "empty"
    BY <2>1, <2>2, <1>b DEF ReplyOf
  <2>4. replyBar[r] = "idle" /\ gotBar[r] = NoPayload
    BY <2>3 DEF replyBar, gotBar
  <2>5. askedBar' = askedBar /\ replyBar' = [replyBar EXCEPT ![r] = "empty"] /\ gotBar' = [gotBar EXCEPT ![r] = NoPayload]
    BY <2>1, <2>3, <1>a, ReceiverFrame
  <2>6. gotBar' = gotBar
    BY <2>4, <2>5 DEF gotBar
  <2>7. backlogBar = <<>> /\ backlogBar' = backlogBar
    BY <2>1 DEF backlogBar
  <2> QED BY <2>4, <2>5, <2>6, <2>7 DEF Fifo!Miss
<1>12. ASSUME NEW r \in Receivers, PollFront(r) PROVE UNCHANGED fifoBar
  <2>1. /\ pc' = [pc EXCEPT ![r] = "pop"] /\ local' = [local EXCEPT ![r] = queue[1]]
        /\ queue # <<>> /\ queue' = [queue EXCEPT ![1].id = NoId] /\ pc[r] = "front"
    BY <1>12 DEF PollFront
  <2>2. ReplyOf(r)' = ReplyOf(r) /\ ReplyOf(r) # "message"
    BY <2>1, <1>b DEF ReplyOf
  <2>3. backlogBar' = backlogBar
    BY <2>1, <1>a, BacklogMove
  <2>4. queue[1] \in Message
    BY <2>1, <1>a, MoveFront DEF TypeOK
  <2> QED BY <2>1, <2>2, <2>3, <2>4, ReceiverQuiet
<1>13. ASSUME NEW r \in Receivers, PollPop(r) PROVE Fifo!Deliver(r)
  <2>1. /\ pc' = [pc EXCEPT ![r] = "popped"] /\ local' = [local EXCEPT ![r] = local[r]]
        /\ queue' = Tail(queue) /\ pc[r] = "pop" /\ local' = local
    BY <1>13, <1>a DEF PollPop
  <2>2. queue # <<>> /\ local[r].id # NoId /\ queue[1] = [local[r] EXCEPT !.id = NoId]
    BY <2>1 DEF IInv, FrontStable
  <2>3. queue[1].payload = local[r].payload
    BY <2>2, <1>a DEF Message
  <2>4. ReplyOf(r) = "idle" /\ ReplyOf(r)' = "message"
    BY <2>1, <2>2, <1>b DEF ReplyOf
  <2>5. replyBar[r] = "idle"
    BY <2>4 DEF replyBar
  <2>6. askedBar' = askedBar /\ replyBar' = [replyBar EXCEPT ![r] = "message"] /\ gotBar' = [gotBar EXCEPT ![r] = local[r].payload]
    BY Zenon, <2>1, <2>4, <1>a, ReceiverFrame
  <2>7. backlogBar # <<>> /\ Head(backlogBar) = local[r].payload /\ backlogBar' = Tail(backlogBar)
    BY <2>1, <2>2, <2>3, <1>a, BacklogPop
  <2> QED BY <2>5, <2>6, <2>7 DEF Fifo!Deliver
<1>14. ASSUME NEW r \in Receivers, PollUnlock(r) PROVE UNCHANGED fifoBar
  <2>1. /\ pc' = [pc EXCEPT ![r] = "received"] /\ local' = [local EXCEPT ![r] = local[r]]
        /\ queue' = queue /\ pc[r] = "popped" /\ local' = local
    BY <1>14, <1>a DEF PollUnlock
  <2>2. ReplyOf(r)' = ReplyOf(r) /\ backlogBar' = backlogBar
    BY <2>1, <1>b DEF ReplyOf, backlogBar
  <2> QED BY <2>1, <2>2, <1>a, ReceiverQuiet
<1>15. ASSUME NEW r \in Receivers, PollReturn(r) PROVE Fifo!PollDone(r)
  <2>1. pc' = [pc EXCEPT ![r] = "idle"] /\ local' = [local EXCEPT ![r] = NoMessage] /\ queue' = queue /\ pc[r] = "received"
    BY <1>15 DEF PollReturn
  <2>2. ReplyOf(r) # "idle" /\ ReplyOf(r)' = "idle"
    BY <2>1, <1>b DEF ReplyOf
  <2>3. replyBar[r] # "idle"
    BY <2>2 DEF replyBar
  <2>4. askedBar' = askedBar /\ replyBar' = [replyBar EXCEPT ![r] = "idle"] /\ gotBar' = [gotBar EXCEPT ![r] = NoPayload]
    BY <2>1, <2>2, <1>a, ReceiverFrame
  <2>5. backlogBar' = backlogBar
    BY <2>1 DEF backlogBar
  <2> QED BY <2>3, <2>4, <2>5 DEF Fifo!PollDone
<1>16. CASE UNCHANGED vars
  BY <1>16 DEF vars, fifoBar, backlogBar, askedBar, replyBar, gotBar, ReplyOf
<1>17. ASSUME NEW s \in Senders, SenderNext(s) PROVE SenderOp(s) \/ UNCHANGED fifoBar
  BY <1>17, <1>1, <1>2, <1>3, <1>4, <1>5, <1>6, <1>7, <1>8 DEF SenderNext, SendStep
<1>18. ASSUME NEW r \in Receivers, ReceiverNext(r) PROVE ReceiverOp(r) \/ UNCHANGED fifoBar
  BY <1>18, <1>9, <1>10, <1>11, <1>12, <1>13, <1>14, <1>15 DEF ReceiverNext, PollStep
<1>19. ASSUME NEW s \in Senders, SenderOp(s) PROVE Fifo!FifoNext
  BY <1>19 DEF Fifo!FifoNext
<1>20. ASSUME NEW r \in Receivers, ReceiverOp(r) PROVE Fifo!FifoNext
  BY <1>20 DEF Fifo!FifoNext
<1> HIDE DEF SenderOp, ReceiverOp
<1> QED
  BY <1>16, <1>17, <1>18, <1>19, <1>20 DEF Next

\* message_queue implements the queue of atomic operations: for any number of
\* threads, payloads and sends, whatever throws.
THEOREM Linearizable == Spec => ImplementsFifo
<1>1. Init => Fifo!FifoInit
  BY FifoInitial
<1>2. IInv /\ [Next]_vars => [Fifo!FifoNext]_Fifo!fifoVars
  BY FifoStep DEF fifoBar, Fifo!fifoVars
<1> QED BY <1>1, <1>2, Invariance, PTL DEF Spec, ImplementsFifo, Fifo!FifoSpec

===============================================================================
