------------------------------ MODULE FifoQueue ------------------------------
(***************************************************************************)
(* What message_queue (samples/sample1/billing_queue.h) promises to its    *)
(* callers, with every operation a single step: send either appends the    *)
(* caller's payload at the end or fails and leaves the queue as it was;    *)
(* poll_receive_one takes the oldest payload, or reports that there is     *)
(* none.  Nothing is said of locks, message ids or the size metric.        *)
(***************************************************************************)
EXTENDS Sequences

CONSTANTS Senders,    \* threads that call send
          Receivers,  \* threads that call poll_receive_one
          Payloads,   \* what a message can carry
          NoPayload   \* stands for the payload of an empty queue_message

VARIABLES backlog,  \* payloads accepted and not yet handed out, oldest first
          asked,    \* asked[s]: what sender s is trying to send
          reply,    \* reply[t]: outcome of t's call, "idle" until it is decided
          got       \* got[r]: the payload handed to r, if any

fifoVars == <<backlog, asked, reply, got>>

FifoInit ==
  /\ backlog = <<>>
  /\ asked = [s \in Senders |-> NoPayload]
  /\ reply = [t \in Senders \union Receivers |-> "idle"]
  /\ got = [r \in Receivers |-> NoPayload]

\* A thread calls send(message).
Ask(s, p) ==
  /\ asked[s] = NoPayload
  /\ asked' = [asked EXCEPT ![s] = p]
  /\ UNCHANGED <<backlog, reply, got>>

\* The send takes effect.
Accept(s) ==
  /\ asked[s] # NoPayload /\ reply[s] = "idle"
  /\ backlog' = Append(backlog, asked[s])
  /\ reply' = [reply EXCEPT ![s] = "accepted"]
  /\ UNCHANGED <<asked, got>>

\* The send fails without effect.
Reject(s) ==
  /\ asked[s] # NoPayload /\ reply[s] = "idle"
  /\ reply' = [reply EXCEPT ![s] = "rejected"]
  /\ UNCHANGED <<backlog, asked, got>>

\* The caller of send sees the outcome.
SendDone(s) ==
  /\ reply[s] # "idle"
  /\ asked' = [asked EXCEPT ![s] = NoPayload]
  /\ reply' = [reply EXCEPT ![s] = "idle"]
  /\ UNCHANGED <<backlog, got>>

\* The oldest payload goes to exactly one receiver.
Deliver(r) ==
  /\ reply[r] = "idle" /\ backlog # <<>>
  /\ got' = [got EXCEPT ![r] = Head(backlog)]
  /\ reply' = [reply EXCEPT ![r] = "message"]
  /\ backlog' = Tail(backlog)
  /\ UNCHANGED asked

\* "No message" is only ever reported of an empty queue.
Miss(r) ==
  /\ reply[r] = "idle" /\ backlog = <<>>
  /\ reply' = [reply EXCEPT ![r] = "empty"]
  /\ UNCHANGED <<backlog, asked, got>>

PollDone(r) ==
  /\ reply[r] # "idle"
  /\ reply' = [reply EXCEPT ![r] = "idle"]
  /\ got' = [got EXCEPT ![r] = NoPayload]
  /\ UNCHANGED <<backlog, asked>>

FifoNext ==
  \/ \E s \in Senders : (\E p \in Payloads : Ask(s, p)) \/ Accept(s) \/ Reject(s) \/ SendDone(s)
  \/ \E r \in Receivers : Deliver(r) \/ Miss(r) \/ PollDone(r)

FifoSpec == FifoInit /\ [][FifoNext]_fifoVars
==============================================================================
