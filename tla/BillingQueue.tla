----------------------------- MODULE BillingQueue -----------------------------
(***************************************************************************)
(* class message_queue of samples/sample1/billing_queue.h, at the          *)
(* granularity of its statements: any number of threads call send and      *)
(* poll_receive_one on one queue object guarded by m_queue_mut.  Every     *)
(* allocating statement of send may throw; the lock_guard then releases    *)
(* the mutex before the catch clause runs.                                 *)
(***************************************************************************)
EXTENDS Integers, Sequences

CONSTANTS Senders, Receivers, Payloads, NoPayload,
          NoThread,   \* "m_queue_mut is free"
          MaxSends    \* bound: calls of send in a behaviour

Threads == Senders \union Receivers

ASSUME ThreadsAssumption ==
  /\ Senders \intersect Receivers = {}
  /\ NoThread \notin Threads
ASSUME PayloadAssumption == NoPayload \notin Payloads
ASSUME BoundAssumption == MaxSends \in Nat

\* message_id: std::to_string of a size, which is injective, so the size
\* stands for it; NoId is the empty string of a default queue_message.
NoId == -1
MessageIds == Nat \union {NoId}
Message == [id : MessageIds, payload : Payloads \union {NoPayload}]
NoMessage == [id |-> NoId, payload |-> NoPayload]

VARIABLES lock,   \* m_queue_mut: its holder, or NoThread
          queue,  \* m_queue
          gauge,  \* the value last given to m_size_metric
          pc,     \* pc[t]: the next statement of t's call
          local,  \* local[t]: send's argument, or poll_receive_one's result
          sends   \* number of calls of send so far

vars == <<lock, queue, gauge, pc, local, sends>>

SenderLabels == {"idle", "lockSend", "assign", "push", "pushed", "throwing", "sent", "failed"}
ReceiverLabels == {"idle", "lockPoll", "front", "pop", "popped", "received"}

Init ==
  /\ lock = NoThread
  /\ queue = <<>>
  /\ gauge = 0
  /\ pc = [t \in Threads |-> "idle"]
  /\ local = [t \in Threads |-> NoMessage]
  /\ sends = 0

Goto(t, label) == pc' = [pc EXCEPT ![t] = label]

\* Mutant: the lock_guard is gone.
AcquireUnguarded(t, from, to) ==
  pc[t] = from /\ lock' = t /\ Goto(t, to) /\ UNCHANGED <<queue, gauge, local, sends>>

Acquire(t, from, to) ==
  /\ pc[t] = from
  /\ lock = NoThread
  /\ lock' = t
  /\ Goto(t, to)
  /\ UNCHANGED <<queue, gauge, local, sends>>

-------------------------------------------------------------------------------
\* send(queue_message& message)

SendCall(s, p) ==
  /\ pc[s] = "idle"
  /\ sends < MaxSends
  /\ sends' = sends + 1
  /\ local' = [local EXCEPT ![s] = [id |-> NoId, payload |-> p]]
  /\ Goto(s, "lockSend")
  /\ UNCHANGED <<lock, queue, gauge>>

SendLock(s) == Acquire(s, "lockSend", "assign")

\* update_queue_metric: the gauge is given the size the queue has now.
UpdateQueueMetric(q) == gauge' = Len(q)

\* Mutant: no id is assigned.
SendAssignNoId(s) ==
  pc[s] = "assign" /\ UpdateQueueMetric(queue) /\ Goto(s, "push") /\ UNCHANGED <<lock, queue, local, sends>>

\* The id is the size before the push, and so is the value of the metric.
SendAssign(s) ==
  /\ pc[s] = "assign"
  /\ local' = [local EXCEPT ![s].id = Len(queue)]
  /\ UpdateQueueMetric(queue)
  /\ Goto(s, "push")
  /\ UNCHANGED <<lock, queue, sends>>

SendPush(s) ==
  /\ pc[s] = "push"
  /\ queue' = Append(queue, local[s])
  /\ Goto(s, "pushed")
  /\ UNCHANGED <<lock, gauge, local, sends>>

\* Mutant: a statement after the push may throw as well.
SendThrowLate(s) ==
  /\ pc[s] \in {"assign", "push", "pushed"} /\ Goto(s, "throwing")
  /\ UNCHANGED <<lock, queue, gauge, local, sends>>

\* std::to_string or std::queue::push throws (std::bad_alloc).
SendThrow(s) ==
  /\ pc[s] \in {"assign", "push"}
  /\ Goto(s, "throwing")
  /\ UNCHANGED <<lock, queue, gauge, local, sends>>

SendUnlock(s) ==
  /\ pc[s] = "pushed"
  /\ lock' = NoThread
  /\ Goto(s, "sent")
  /\ UNCHANGED <<queue, gauge, local, sends>>

\* Mutant: lock() and unlock() in place of the lock_guard.
SendUnwindLocked(s) ==
  /\ pc[s] = "throwing" /\ Goto(s, "failed")
  /\ local' = [local EXCEPT ![s].id = NoId]
  /\ UNCHANGED <<lock, queue, gauge, sends>>

\* ~lock_guard during unwinding, then catch (...): clear the id and rethrow.
SendUnwind(s) ==
  /\ pc[s] = "throwing"
  /\ lock' = NoThread
  /\ local' = [local EXCEPT ![s].id = NoId]
  /\ Goto(s, "failed")
  /\ UNCHANGED <<queue, gauge, sends>>

\* The caller goes on, with the message it passed or with the exception.
SendReturn(s) ==
  /\ pc[s] \in {"sent", "failed"}
  /\ local' = [local EXCEPT ![s] = NoMessage]
  /\ Goto(s, "idle")
  /\ UNCHANGED <<lock, queue, gauge, sends>>

-------------------------------------------------------------------------------
\* queue_message poll_receive_one()

PollCall(r) ==
  /\ pc[r] = "idle"
  /\ Goto(r, "lockPoll")
  /\ UNCHANGED <<lock, queue, gauge, local, sends>>

PollLock(r) == Acquire(r, "lockPoll", "front")

\* if (m_queue.empty()) return {};
PollEmpty(r) ==
  /\ pc[r] = "front"
  /\ queue = <<>>
  /\ Goto(r, "popped")
  /\ UNCHANGED <<lock, queue, gauge, local, sends>>

\* auto result = std::move(m_queue.front()): until it is popped, the front is a
\* moved-from message.  Its id is the empty string a move leaves behind, its
\* payload (two integers) was copied.
PollFront(r) ==
  /\ pc[r] = "front"
  /\ queue # <<>>
  /\ local' = [local EXCEPT ![r] = queue[1]]
  /\ queue' = [queue EXCEPT ![1].id = NoId]
  /\ Goto(r, "pop")
  /\ UNCHANGED <<lock, gauge, sends>>

\* Mutant: the metric is only set by send.
PollPopSilent(r) ==
  pc[r] = "pop" /\ queue' = Tail(queue) /\ Goto(r, "popped") /\ UNCHANGED <<lock, gauge, local, sends>>

\* m_queue.pop(); update_queue_metric();
PollPop(r) ==
  /\ pc[r] = "pop"
  /\ queue' = Tail(queue)
  /\ UpdateQueueMetric(Tail(queue))
  /\ Goto(r, "popped")
  /\ UNCHANGED <<lock, local, sends>>

PollUnlock(r) ==
  /\ pc[r] = "popped"
  /\ lock' = NoThread
  /\ Goto(r, "received")
  /\ UNCHANGED <<queue, gauge, local, sends>>

PollReturn(r) ==
  /\ pc[r] = "received"
  /\ local' = [local EXCEPT ![r] = NoMessage]
  /\ Goto(r, "idle")
  /\ UNCHANGED <<lock, queue, gauge, sends>>

-------------------------------------------------------------------------------
\* The steps a thread takes on its own once it has called an operation and
\* holds, or does not need, the mutex.
SendStep(s) ==
  \/ SendAssign(s) \/ SendPush(s) \/ SendThrow(s)
  \/ SendUnlock(s) \/ SendUnwind(s) \/ SendReturn(s)

PollStep(r) ==
  PollEmpty(r) \/ PollFront(r) \/ PollPop(r) \/ PollUnlock(r) \/ PollReturn(r)

SenderNext(s) == (\E p \in Payloads : SendCall(s, p)) \/ SendLock(s) \/ SendStep(s)
ReceiverNext(r) == PollCall(r) \/ PollLock(r) \/ PollStep(r)

Next == (\E s \in Senders : SenderNext(s)) \/ (\E r \in Receivers : ReceiverNext(r))

Spec == Init /\ [][Next]_vars

\* A runnable thread that is not waiting for the mutex keeps running.  Nothing
\* is assumed of who gets the mutex: std::mutex does not promise to be fair.
Fairness ==
  /\ \A s \in Senders : WF_vars(SendStep(s))
  /\ \A r \in Receivers : WF_vars(PollStep(r))

FairSpec == Spec /\ Fairness

-------------------------------------------------------------------------------
\* Types of all variables; each thread only stands at labels of its own call.
TypeOK ==
  /\ lock \in Threads \union {NoThread}
  /\ queue \in Seq(Message)
  /\ gauge \in Nat
  /\ pc \in [Threads -> SenderLabels \union ReceiverLabels]
  /\ \A s \in Senders : pc[s] \in SenderLabels
  /\ \A r \in Receivers : pc[r] \in ReceiverLabels
  /\ local \in [Threads -> Message]
  /\ sends \in 0..MaxSends

\* The labels between lock_guard's constructor and its destructor.
Critical == {"assign", "push", "pushed", "throwing", "front", "pop", "popped"}

\* Whoever is between the constructor and the destructor of its lock_guard is
\* the holder of m_queue_mut, so two calls never overlap there.
MutexHeld == \A t \in Threads : pc[t] \in Critical <=> lock = t

\* poll_receive_one reports "no message" by an empty id (main.cpp:246 ends the
\* loop on it), so a queued message without one would stop the billing.  The
\* only one there can be is the moved-from front of the receiver that is about
\* to pop it, also after failed sends.
QueuedHaveIds ==
  \A i \in 1..Len(queue) :
    queue[i].id = NoId => i = 1 /\ \E r \in Receivers : pc[r] = "pop"

\* The message a receiver is about to pop is the one it moved from: no push or
\* pop of another thread has put another message, or none, at the front.
FrontStable ==
  \A r \in Receivers :
    pc[r] = "pop" =>
      /\ queue # <<>>
      /\ queue[1] = [local[r] EXCEPT !.id = NoId]
      /\ local[r].id # NoId

\* The metric is never more than one message behind: send reports the size
\* before its push, poll_receive_one the size after its pop.
GaugeLag ==
  IF \E t \in Threads : pc[t] = "pushed"
  THEN gauge = Len(queue) - 1
  ELSE gauge \in {Len(queue) - 1, Len(queue)}

\* The vendor message id billing reports (main.cpp:276) counts every message
\* that was ahead when the message was sent, so it is never below the number
\* of messages still ahead, whatever was polled or failed in between.  (Ids do
\* repeat: after two sends, a poll and a send, two queued messages share one.)
IdsCoverPosition == \A i \in 2..Len(queue) : queue[i].id >= i - 1

-------------------------------------------------------------------------------
\* The refinement mapping to FifoQueue: an operation takes effect at its push
\* or pop, or at the statement that decides that it fails or finds nothing.
ReplyOf(t) ==
  CASE pc[t] \in {"pushed", "sent"}     -> "accepted"
    [] pc[t] \in {"throwing", "failed"} -> "rejected"
    [] pc[t] \in {"popped", "received"} -> IF local[t].id = NoId THEN "empty" ELSE "message"
    [] OTHER                            -> "idle"

backlogBar == [i \in 1..Len(queue) |-> queue[i].payload]
askedBar == [s \in Senders |-> local[s].payload]
replyBar == [t \in Threads |-> ReplyOf(t)]
gotBar == [r \in Receivers |-> IF ReplyOf(r) = "message" THEN local[r].payload ELSE NoPayload]

Fifo == INSTANCE FifoQueue WITH
          backlog <- backlogBar, asked <- askedBar, reply <- replyBar, got <- gotBar

\* message_queue is a linearizable FIFO queue: mutex and unwinding give every
\* caller the atomic operations of FifoQueue.
ImplementsFifo == Fifo!FifoSpec

\* The mutex never stays held: every path out of a critical section, the
\* exceptional one of send included, releases it.
MutexReleased == (lock # NoThread) ~> (lock = NoThread)
===============================================================================
