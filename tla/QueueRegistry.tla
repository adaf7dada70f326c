---------------------------- MODULE QueueRegistry ----------------------------
(***************************************************************************)
(* connect_queue of samples/sample1/billing_queue.h: the static map from   *)
(* names to queues, guarded by queues_mut, from which any number of        *)
(* threads get the queue of a name, which the first of them creates.       *)
(* Queues are numbered in the order of their creation.                     *)
(***************************************************************************)
EXTENDS Integers, Sequences

CONSTANTS Threads, Names,
          NoThread,  \* "queues_mut is free"
          MaxOrphans \* bound: the metrics failed constructors leave behind, by name

ASSUME NoThreadAssumption == NoThread \notin Threads
ASSUME MaxOrphansAssumption == MaxOrphans \in Nat

\* What a name leads to when it leads to no queue: no entry of the map, or an
\* entry with a null pointer.
Absent == -1
Null == 0

VARIABLES lock,    \* queues_mut: its holder, or NoThread
          slot,    \* the map queues
          made,    \* made[k]: the name queue k was created for
          metrics, \* metrics[n]: how many metrics were created for name n and not deleted
          orphans, \* orphans[n]: how many of them belong to no queue, which failed after it
          pc,      \* pc[t]: the next statement of t's call
          asked,   \* asked[t]: the name t's call is about
          got,     \* got[t]: the queue t's call has created or returns
          exited   \* has the program ended?

vars == <<lock, slot, made, metrics, orphans, pc, asked, got, exited>>

Labels == {"idle", "lock", "find", "create", "construct", "reset", "deref", "unlock",
           "throwing", "connected", "failed"}

Init ==
  /\ lock = NoThread
  /\ slot = [n \in Names |-> Absent]
  /\ made = <<>>
  /\ metrics = [n \in Names |-> 0] /\ orphans = [n \in Names |-> 0]
  /\ pc = [t \in Threads |-> "idle"]
  /\ asked \in [Threads -> Names]
  /\ got = [t \in Threads |-> Null]
  /\ exited = FALSE

Step(t, from, to) == pc[t] = from /\ pc' = [pc EXCEPT ![t] = to]

Connect(t, n) ==
  /\ ~ exited
  /\ Step(t, "idle", "lock")
  /\ asked' = [asked EXCEPT ![t] = n]
  /\ UNCHANGED <<lock, slot, made, metrics, orphans, got, exited>>

\* Mutant: no lock_guard.
LockUnguarded(t) ==
  /\ Step(t, "lock", "find")
  /\ lock' = t
  /\ UNCHANGED <<slot, made, metrics, orphans, asked, got, exited>>

Lock(t) ==
  /\ lock = NoThread
  /\ Step(t, "lock", "find")
  /\ lock' = t
  /\ UNCHANGED <<slot, made, metrics, orphans, asked, got, exited>>

\* Mutant: a queue is created in any case.
FindAlways(t) ==
  /\ Step(t, "find", "create")
  /\ slot' = [slot EXCEPT ![asked[t]] = IF @ = Absent THEN Null ELSE @]
  /\ UNCHANGED <<lock, made, metrics, orphans, asked, got, exited>>

\* operator[] makes an entry with a null pointer if there is none; a null
\* pointer may also be left from a call that failed to create the queue.
Find(t) ==
  /\ Step(t, "find", IF slot[asked[t]] \in {Absent, Null} THEN "create" ELSE "deref")
  /\ slot' = [slot EXCEPT ![asked[t]] = IF @ = Absent THEN Null ELSE @]
  /\ UNCHANGED <<lock, made, metrics, orphans, asked, got, exited>>

\* There is no memory for a new entry.
FindThrows(t) ==
  /\ slot[asked[t]] = Absent
  /\ Step(t, "find", "throwing")
  /\ UNCHANGED <<lock, slot, made, metrics, orphans, asked, got, exited>>

\* new message_queue: its constructor copies the name and creates the metric,
\* which cannot throw.
CreateMetric(t) ==
  /\ Step(t, "create", "construct")
  /\ metrics' = [metrics EXCEPT ![asked[t]] = @ + 1]
  /\ UNCHANGED <<lock, slot, made, orphans, asked, got, exited>>

\* Mutant: the exception is swallowed.
CreateThrowsCaught(t) ==
  /\ Step(t, "create", "deref")
  /\ UNCHANGED <<lock, slot, made, metrics, orphans, asked, got, exited>>

\* There is no memory for the object or for its name: the null pointer stays.
CreateThrows(t) ==
  /\ Step(t, "create", "throwing")
  /\ UNCHANGED <<lock, slot, made, metrics, orphans, asked, got, exited>>

\* The constructor goes on with the mutex and the empty m_queue, and ends.
Create(t) ==
  /\ Step(t, "construct", "reset")
  /\ made' = Append(made, asked[t])
  /\ got' = [got EXCEPT ![t] = Len(made')]
  /\ UNCHANGED <<lock, slot, metrics, orphans, asked, exited>>

\* There is no memory for m_queue, for which the common libraries allocate when
\* it is still empty.  The object goes; the handle of its metric goes with it,
\* and the metric stays, as nothing deletes it.
ConstructThrows(t) ==
  /\ orphans[asked[t]] < MaxOrphans
  /\ Step(t, "construct", "throwing")
  /\ orphans' = [orphans EXCEPT ![asked[t]] = @ + 1]
  /\ UNCHANGED <<lock, slot, made, metrics, asked, got, exited>>

\* result.reset(...): the pointer in the map owns the queue.
Reset(t) ==
  /\ Step(t, "reset", "deref")
  /\ slot' = [slot EXCEPT ![asked[t]] = got[t]]
  /\ UNCHANGED <<lock, made, metrics, orphans, asked, got, exited>>

\* return *result;
Deref(t) ==
  /\ Step(t, "deref", "unlock")
  /\ got' = [got EXCEPT ![t] = slot[asked[t]]]
  /\ UNCHANGED <<lock, slot, made, metrics, orphans, asked, exited>>

\* ~lock_guard, on return and during unwinding.
Unlock(t) ==
  /\ Step(t, "unlock", "connected") \/ Step(t, "throwing", "failed")
  /\ lock' = NoThread
  /\ UNCHANGED <<slot, made, metrics, orphans, asked, got, exited>>

\* The caller goes on, with the reference or with the exception.
Return(t) ==
  /\ Step(t, "connected", "idle") \/ Step(t, "failed", "idle")
  /\ got' = [got EXCEPT ![t] = Null]
  /\ UNCHANGED <<lock, slot, made, metrics, orphans, asked, exited>>

\* The program ends: the map and the queues in it are destroyed.  message_queue
\* has no destructor of its own, so nothing is done about the metrics.
Exit ==
  /\ ~ exited /\ \A t \in Threads : pc[t] = "idle"
  /\ exited' = TRUE
  /\ slot' = [n \in Names |-> Absent]
  /\ UNCHANGED <<lock, made, metrics, orphans, pc, asked, got>>

Exited == exited /\ UNCHANGED vars

ConnectStep(t) ==
  \/ Lock(t) \/ Find(t) \/ FindThrows(t) \/ CreateMetric(t) \/ CreateThrows(t)
  \/ Create(t) \/ ConstructThrows(t) \/ Reset(t) \/ Deref(t) \/ Unlock(t) \/ Return(t)

Next ==
  \/ \E t \in Threads : (\E n \in Names : Connect(t, n)) \/ ConnectStep(t)
  \/ Exit \/ Exited

Spec == Init /\ [][Next]_vars

-------------------------------------------------------------------------------
\* Types of all variables.
TypeOK ==
  /\ lock \in Threads \union {NoThread}
  /\ made \in Seq(Names)
  /\ slot \in [Names -> Absent..Len(made)]
  /\ metrics \in [Names -> Nat] /\ orphans \in [Names -> Nat]
  /\ pc \in [Threads -> Labels]
  /\ asked \in [Threads -> Names]
  /\ got \in [Threads -> Null..Len(made)]
  /\ exited \in BOOLEAN

\* However many threads ask for a name at the same time, and however often the
\* creation of its queue has failed before, at most one queue is ever created
\* for the name, and at most one metric beside those of constructors that failed
\* after they had created theirs: such a metric stays, and a retry creates
\* another one.
OneQueuePerName ==
  /\ \A j, k \in 1..Len(made) : made[j] = made[k] => j = k
  /\ \A n \in Names : metrics[n] <= orphans[n] + 1

\* A caller that is given a queue is given a real one, that of the name it asked
\* for, which is also what everyone else gets; it is never the null pointer of
\* an entry whose queue could not be created.
ConnectedToItsQueue ==
  \A t \in Threads :
    pc[t] = "connected" =>
      /\ got[t] \in 1..Len(made) /\ made[got[t]] = asked[t]
      /\ slot[asked[t]] = got[t]

\* Callers keep the reference (transformer_service::m_msg_queue, the queue of
\* run_main_loop): until the program ends no queue is replaced or removed, and
\* no further metric is created for a name that has its queue.
QueuesStay ==
  [][\A n \in Names :
       slot[n] > Null /\ ~ exited' => slot'[n] = slot[n] /\ metrics'[n] = metrics[n]]_vars
===============================================================================
