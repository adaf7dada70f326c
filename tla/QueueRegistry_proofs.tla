------------------------ MODULE QueueRegistry_proofs ------------------------
(***************************************************************************)
(* Proofs about QueueRegistry for any sets of threads and names, and any    *)
(* number of constructors that fail late.                                  *)
(***************************************************************************)
EXTENDS QueueRegistry, SequenceTheorems, TLAPS

\* The statements between the constructor of the lock_guard and its destructor.
Critical == {"find", "create", "construct", "reset", "deref", "unlock", "throwing"}
MutexHeld == \A t \in Threads : pc[t] \in Critical <=> lock = t

\* What a thread knows of the map's entry of its name at each of its statements.
Progress ==
  \A t \in Threads :
    /\ pc[t] \in {"create", "construct", "reset"} => slot[asked[t]] = Null
    /\ pc[t] = "reset" => got[t] \in 1..Len(made) /\ made[got[t]] = asked[t]
    /\ pc[t] = "deref" => slot[asked[t]] > Null
    /\ pc[t] \in {"unlock", "connected"} => slot[asked[t]] > Null /\ got[t] = slot[asked[t]]
    /\ pc[t] # "idle" => ~ exited

\* An entry of the map leads to a queue of its own name.
OwnName == \A n \in Names : slot[n] > Null => made[slot[n]] = n

\* A queue is in the map unless the thread that created it is about to put it
\* there: with the mutex held, nobody else can then create one of its name.
Owned ==
  ~ exited =>
    \A k \in 1..Len(made) :
      slot[made[k]] = k \/ \E t \in Threads : pc[t] = "reset" /\ got[t] = k

\* There is at most one queue for a name.
OneQueueEach == \A j, k \in 1..Len(made) : made[j] = made[k] => j = k

\* Each metric is that of a queue, or of one whose constructor is at work, or
\* was left behind by a constructor that failed.
HasQueue(n) == \E k \in 1..Len(made) : made[k] = n
InConstructor(n) == \E t \in Threads : pc[t] = "construct" /\ asked[t] = n
MetricsAccounted ==
  \A n \in Names :
    metrics[n] = orphans[n] + (IF HasQueue(n) \/ InConstructor(n) THEN 1 ELSE 0)

IInv ==
  TypeOK /\ MutexHeld /\ Progress /\ OwnName /\ Owned /\ OneQueueEach /\ MetricsAccounted

USE NoThreadAssumption, MaxOrphansAssumption

-------------------------------------------------------------------------------
\* The invariant holds at the start, where there is no queue and no call.
LEMMA InvInit == Init => IInv
<1> SUFFICES ASSUME Init PROVE IInv
  OBVIOUS
<1> USE DEF Init, Absent, Null
<1>1. made \in Seq(Names) /\ Len(made) = 0
  BY EmptySeq
<1>2. TypeOK
  <2>1. slot \in [Names -> -1..0] /\ got \in [Threads -> 0..0]
    OBVIOUS
  <2>2. pc \in [Threads -> Labels]
    BY DEF Labels
  <2> QED
    BY <1>1, <2>1, <2>2 DEF TypeOK
<1>3. MutexHeld /\ Progress
  BY DEF MutexHeld, Critical, Progress
<1>4. OwnName
  BY DEF OwnName
<1>5. Owned /\ OneQueueEach
  BY <1>1 DEF Owned, OneQueueEach
<1>6. MetricsAccounted
  BY <1>1 DEF MetricsAccounted, HasQueue, InConstructor
<1> QED
  BY <1>2, <1>3, <1>4, <1>5, <1>6 DEF IInv

\* Every step keeps the types.
LEMMA TypeStep == TypeOK /\ Progress /\ [Next]_vars => TypeOK'
<1> SUFFICES ASSUME TypeOK, Progress, [Next]_vars PROVE TypeOK'
  OBVIOUS
<1> USE DEF TypeOK, Step, Labels, Absent, Null, Progress
<1>1. ASSUME NEW t \in Threads, NEW n \in Names, Connect(t, n) PROVE TypeOK'
  BY <1>1 DEF Connect
<1>2. ASSUME NEW t \in Threads, Lock(t) PROVE TypeOK'
  BY <1>2 DEF Lock
<1>3. ASSUME NEW t \in Threads, Find(t) PROVE TypeOK'
  BY <1>3 DEF Find
<1>4. ASSUME NEW t \in Threads, FindThrows(t) PROVE TypeOK'
  BY <1>4 DEF FindThrows
<1>5. ASSUME NEW t \in Threads, Create(t) PROVE TypeOK'
  <2> USE <1>5 DEF Create
  <2>1. made' \in Seq(Names) /\ Len(made') = Len(made) + 1 /\ Len(made) \in Nat
    BY AppendProperties, LenProperties
  <2>2. slot' \in [Names -> Absent..Len(made')]
    <3>1. slot' = slot /\ slot \in [Names -> Absent..Len(made)]
      OBVIOUS
    <3>2. Absent..Len(made) \subseteq Absent..Len(made')
      BY <2>1
    <3> QED
      BY <3>1, <3>2, Zenon
  <2>3. got' \in [Threads -> Null..Len(made')]
    BY <2>1
  <2> QED
    BY <2>1, <2>2, <2>3
<1>6. ASSUME NEW t \in Threads, CreateThrows(t) PROVE TypeOK'
  BY <1>6 DEF CreateThrows
<1>7. ASSUME NEW t \in Threads, Reset(t) PROVE TypeOK'
  <2> USE <1>7 DEF Reset
  <2>1. slot' \in [Names -> Absent..Len(made')]
    BY LenProperties
  <2>2. pc' \in [Threads -> Labels]
    OBVIOUS
  <2> QED
    BY <2>1, <2>2
<1>8. ASSUME NEW t \in Threads, Deref(t) PROVE TypeOK'
  <2> USE <1>8 DEF Deref
  <2>1. got' \in [Threads -> Null..Len(made')]
    BY LenProperties
  <2>2. pc' \in [Threads -> Labels]
    OBVIOUS
  <2> QED
    BY <2>1, <2>2
<1>9. ASSUME NEW t \in Threads, Unlock(t) PROVE TypeOK'
  BY <1>9 DEF Unlock
<1>10. ASSUME NEW t \in Threads, Return(t) PROVE TypeOK'
  <2> USE <1>10 DEF Return
  <2>1. got' \in [Threads -> Null..Len(made')]
    BY LenProperties
  <2>2. pc' \in [Threads -> Labels]
    OBVIOUS
  <2> QED
    BY <2>1, <2>2
<1>13. ASSUME NEW t \in Threads, CreateMetric(t) PROVE TypeOK'
  BY <1>13 DEF CreateMetric
<1>14. ASSUME NEW t \in Threads, ConstructThrows(t) PROVE TypeOK'
  BY <1>14 DEF ConstructThrows
<1>11. CASE Exit
  BY <1>11 DEF Exit
<1>12. CASE UNCHANGED vars
  BY <1>12 DEF vars
<1> QED
  BY <1>1, <1>2, <1>3, <1>4, <1>5, <1>6, <1>7,
     <1>8, <1>9, <1>10, <1>11, <1>12, <1>13, <1>14 DEF Next, ConnectStep, Exited

\* A thread enters the critical section with the free mutex only, and leaves it
\* only by releasing the mutex.
LEMMA MutexStep == TypeOK /\ MutexHeld /\ [Next]_vars => MutexHeld'
<1> SUFFICES ASSUME TypeOK, MutexHeld, [Next]_vars PROVE MutexHeld'
  OBVIOUS
<1> USE DEF TypeOK, MutexHeld, Critical, Step
<1>1. ASSUME NEW t \in Threads, NEW n \in Names, Connect(t, n) PROVE MutexHeld'
  BY <1>1 DEF Connect
<1>2. ASSUME NEW t \in Threads, Lock(t) PROVE MutexHeld'
  BY <1>2 DEF Lock
<1>3. ASSUME NEW t \in Threads, Find(t) PROVE MutexHeld'
  BY <1>3 DEF Find
<1>4. ASSUME NEW t \in Threads, FindThrows(t) PROVE MutexHeld'
  BY <1>4 DEF FindThrows
<1>5. ASSUME NEW t \in Threads, Create(t) PROVE MutexHeld'
  BY <1>5 DEF Create
<1>6. ASSUME NEW t \in Threads, CreateThrows(t) PROVE MutexHeld'
  BY <1>6 DEF CreateThrows
<1>7. ASSUME NEW t \in Threads, Reset(t) PROVE MutexHeld'
  BY <1>7 DEF Reset
<1>8. ASSUME NEW t \in Threads, Deref(t) PROVE MutexHeld'
  BY <1>8 DEF Deref
<1>9. ASSUME NEW t \in Threads, Unlock(t) PROVE MutexHeld'
  BY <1>9 DEF Unlock
<1>10. ASSUME NEW t \in Threads, Return(t) PROVE MutexHeld'
  BY <1>10 DEF Return
<1>13. ASSUME NEW t \in Threads, CreateMetric(t) PROVE MutexHeld'
  BY <1>13 DEF CreateMetric
<1>14. ASSUME NEW t \in Threads, ConstructThrows(t) PROVE MutexHeld'
  BY <1>14 DEF ConstructThrows
<1>11. CASE Exit
  BY <1>11 DEF Exit
<1>12. CASE UNCHANGED vars
  BY <1>12 DEF vars
<1> QED
  BY <1>1, <1>2, <1>3, <1>4, <1>5, <1>6, <1>7,
     <1>8, <1>9, <1>10, <1>11, <1>12, <1>13, <1>14 DEF Next, ConnectStep, Exited

\* What a thread knows of its entry stays true while others work: nobody else
\* changes a null entry under the mutex, and nobody at all one that has a queue.
LEMMA ProgressStep == TypeOK /\ MutexHeld /\ Progress /\ [Next]_vars => Progress'
<1> SUFFICES ASSUME TypeOK, MutexHeld, Progress, [Next]_vars PROVE Progress'
  OBVIOUS
<1> USE DEF TypeOK, MutexHeld, Critical, Progress, Step, Absent, Null
<1>1. ASSUME NEW t \in Threads, NEW n \in Names, Connect(t, n) PROVE Progress'
  BY <1>1 DEF Connect
<1>2. ASSUME NEW t \in Threads, Lock(t) PROVE Progress'
  BY <1>2 DEF Lock
<1>3. ASSUME NEW t \in Threads, Find(t) PROVE Progress'
  BY <1>3 DEF Find
<1>4. ASSUME NEW t \in Threads, FindThrows(t) PROVE Progress'
  BY <1>4 DEF FindThrows
<1>5. ASSUME NEW t \in Threads, Create(t) PROVE Progress'
  BY <1>5, AppendProperties DEF Create
<1>6. ASSUME NEW t \in Threads, CreateThrows(t) PROVE Progress'
  BY <1>6 DEF CreateThrows
<1>7. ASSUME NEW t \in Threads, Reset(t) PROVE Progress'
  BY <1>7 DEF Reset
<1>8. ASSUME NEW t \in Threads, Deref(t) PROVE Progress'
  BY <1>8 DEF Deref
<1>9. ASSUME NEW t \in Threads, Unlock(t) PROVE Progress'
  BY <1>9 DEF Unlock
<1>10. ASSUME NEW t \in Threads, Return(t) PROVE Progress'
  BY <1>10 DEF Return
<1>13. ASSUME NEW t \in Threads, CreateMetric(t) PROVE Progress'
  BY <1>13 DEF CreateMetric
<1>14. ASSUME NEW t \in Threads, ConstructThrows(t) PROVE Progress'
  BY <1>14 DEF ConstructThrows
<1>11. CASE Exit
  BY <1>11 DEF Exit
<1>12. CASE UNCHANGED vars
  BY <1>12 DEF vars
<1> QED
  BY <1>1, <1>2, <1>3, <1>4, <1>5, <1>6, <1>7,
     <1>8, <1>9, <1>10, <1>11, <1>12, <1>13, <1>14 DEF Next, ConnectStep, Exited

\* Queues are created and entered under the name that was asked for.
LEMMA OwnNameStep == TypeOK /\ Progress /\ OwnName /\ [Next]_vars => OwnName'
<1> SUFFICES ASSUME TypeOK, Progress, OwnName, [Next]_vars PROVE OwnName'
  OBVIOUS
<1>0. /\ made \in Seq(Names) /\ slot \in [Names -> Absent..Len(made)]
      /\ pc \in [Threads -> Labels] /\ asked \in [Threads -> Names]
      /\ got \in [Threads -> Null..Len(made)]
  BY DEF TypeOK
<1> USE <1>0 DEF Progress, OwnName, Step, Absent, Null
<1>1. ASSUME NEW t \in Threads, NEW n \in Names, Connect(t, n) PROVE OwnName'
  BY <1>1 DEF Connect
<1>2. ASSUME NEW t \in Threads, Lock(t) PROVE OwnName'
  BY <1>2 DEF Lock
<1>3. ASSUME NEW t \in Threads, Find(t) PROVE OwnName'
  BY <1>3 DEF Find
<1>4. ASSUME NEW t \in Threads, FindThrows(t) PROVE OwnName'
  BY <1>4 DEF FindThrows
<1>5. ASSUME NEW t \in Threads, Create(t) PROVE OwnName'
  BY <1>5, AppendProperties DEF Create
<1>6. ASSUME NEW t \in Threads, CreateThrows(t) PROVE OwnName'
  BY <1>6 DEF CreateThrows
<1>7. ASSUME NEW t \in Threads, Reset(t) PROVE OwnName'
  BY <1>7 DEF Reset
<1>8. ASSUME NEW t \in Threads, Deref(t) PROVE OwnName'
  BY <1>8 DEF Deref
<1>9. ASSUME NEW t \in Threads, Unlock(t) PROVE OwnName'
  BY <1>9 DEF Unlock
<1>10. ASSUME NEW t \in Threads, Return(t) PROVE OwnName'
  BY <1>10 DEF Return
<1>13. ASSUME NEW t \in Threads, CreateMetric(t) PROVE OwnName'
  BY <1>13 DEF CreateMetric
<1>14. ASSUME NEW t \in Threads, ConstructThrows(t) PROVE OwnName'
  BY <1>14 DEF ConstructThrows
<1>11. CASE Exit
  BY <1>11 DEF Exit
<1>12. CASE UNCHANGED vars
  BY <1>12 DEF vars
<1> QED
  BY <1>1, <1>2, <1>3, <1>4, <1>5, <1>6, <1>7,
     <1>8, <1>9, <1>10, <1>11, <1>12, <1>13, <1>14 DEF Next, ConnectStep, Exited

\* A queue that was created is entered before the mutex is released.
LEMMA OwnedStep == TypeOK /\ MutexHeld /\ Progress /\ Owned /\ [Next]_vars => Owned'
<1> SUFFICES ASSUME TypeOK, MutexHeld, Progress, Owned, [Next]_vars PROVE Owned'
  OBVIOUS
<1>0. /\ made \in Seq(Names) /\ slot \in [Names -> Absent..Len(made)]
      /\ pc \in [Threads -> Labels] /\ asked \in [Threads -> Names]
      /\ got \in [Threads -> Null..Len(made)]
  BY DEF TypeOK
<1> USE <1>0 DEF MutexHeld, Critical, Progress, Owned, Step, Absent, Null
<1>1. ASSUME NEW t \in Threads, NEW n \in Names, Connect(t, n) PROVE Owned'
  BY <1>1 DEF Connect
<1>2. ASSUME NEW t \in Threads, Lock(t) PROVE Owned'
  BY <1>2 DEF Lock
<1>3. ASSUME NEW t \in Threads, Find(t) PROVE Owned'
  BY <1>3 DEF Find
<1>4. ASSUME NEW t \in Threads, FindThrows(t) PROVE Owned'
  BY <1>4 DEF FindThrows
<1>5. ASSUME NEW t \in Threads, Create(t) PROVE Owned'
  BY <1>5, AppendProperties DEF Create
<1>6. ASSUME NEW t \in Threads, CreateThrows(t) PROVE Owned'
  BY <1>6 DEF CreateThrows
<1>7. ASSUME NEW t \in Threads, Reset(t) PROVE Owned'
  BY <1>7 DEF Reset
<1>8. ASSUME NEW t \in Threads, Deref(t) PROVE Owned'
  BY <1>8 DEF Deref
<1>9. ASSUME NEW t \in Threads, Unlock(t) PROVE Owned'
  BY <1>9 DEF Unlock
<1>10. ASSUME NEW t \in Threads, Return(t) PROVE Owned'
  BY <1>10 DEF Return
<1>13. ASSUME NEW t \in Threads, CreateMetric(t) PROVE Owned'
  BY <1>13 DEF CreateMetric
<1>14. ASSUME NEW t \in Threads, ConstructThrows(t) PROVE Owned'
  BY <1>14 DEF ConstructThrows
<1>11. CASE Exit
  BY <1>11 DEF Exit
<1>12. CASE UNCHANGED vars
  BY <1>12 DEF vars
<1> QED
  BY <1>1, <1>2, <1>3, <1>4, <1>5, <1>6, <1>7,
     <1>8, <1>9, <1>10, <1>11, <1>12, <1>13, <1>14 DEF Next, ConnectStep, Exited

\* While a thread is about to create the queue of a name, there is none: nobody
\* else is in the critical section, and the map has no queue of the name.
LEMMA NoQueueYet ==
  ASSUME TypeOK, MutexHeld, Progress, Owned, NEW t \in Threads, pc[t] \in {"create", "construct"}
  PROVE  ~ HasQueue(asked[t])
<1>1. ~ exited /\ slot[asked[t]] = 0 /\ lock = t
  BY DEF Progress, MutexHeld, Critical, Null
<1>2. ASSUME NEW k \in 1..Len(made), made[k] = asked[t] PROVE FALSE
  <2>1. Len(made) \in Nat
    BY LenProperties DEF TypeOK
  <2>2. PICK u \in Threads : pc[u] = "reset"
    BY <1>1, <1>2, <2>1 DEF Owned
  <2>3. u = t
    BY <1>1, <2>2 DEF MutexHeld, Critical
  <2> QED
    BY <2>2, <2>3
<1> QED
  BY <1>2 DEF HasQueue

\* A queue is only created while its name leads to none.
LEMMA OneStep == TypeOK /\ MutexHeld /\ Progress /\ Owned /\ OneQueueEach /\ [Next]_vars => OneQueueEach'
<1> SUFFICES ASSUME TypeOK, MutexHeld, Progress, Owned, OneQueueEach, [Next]_vars PROVE OneQueueEach'
  OBVIOUS
<1> USE DEF TypeOK, OneQueueEach, Step
<1>1. ASSUME NEW t \in Threads, NEW n \in Names, Connect(t, n) PROVE OneQueueEach'
  BY <1>1 DEF Connect
<1>2. ASSUME NEW t \in Threads, Lock(t) PROVE OneQueueEach'
  BY <1>2 DEF Lock
<1>3. ASSUME NEW t \in Threads, Find(t) PROVE OneQueueEach'
  BY <1>3 DEF Find
<1>4. ASSUME NEW t \in Threads, FindThrows(t) PROVE OneQueueEach'
  BY <1>4 DEF FindThrows
<1>5. ASSUME NEW t \in Threads, Create(t) PROVE OneQueueEach'
  <2> USE <1>5 DEF Create
  <2>1. /\ Len(made) \in Nat /\ Len(made') = Len(made) + 1
        /\ \A k \in 1..Len(made) : made'[k] = made[k]
        /\ made'[Len(made) + 1] = asked[t]
    BY AppendProperties, LenProperties
  <2>3. ASSUME NEW k \in 1..Len(made), made[k] = asked[t] PROVE FALSE
    BY <2>3, NoQueueYet DEF HasQueue
  <2>4. SUFFICES ASSUME NEW j \in 1..Len(made'), NEW k \in 1..Len(made'), made'[j] = made'[k]
                 PROVE  j = k
    OBVIOUS
  <2>5. CASE j \in 1..Len(made) /\ k \in 1..Len(made)
    BY <2>1, <2>4, <2>5
  <2>6. CASE j = Len(made) + 1 /\ k \in 1..Len(made)
    BY <2>1, <2>3, <2>4, <2>6
  <2>7. CASE j \in 1..Len(made) /\ k = Len(made) + 1
    BY <2>1, <2>3, <2>4, <2>7
  <2> QED
    BY <2>1, <2>4, <2>5, <2>6, <2>7
<1>6. ASSUME NEW t \in Threads, CreateThrows(t) PROVE OneQueueEach'
  BY <1>6 DEF CreateThrows
<1>7. ASSUME NEW t \in Threads, Reset(t) PROVE OneQueueEach'
  BY <1>7 DEF Reset
<1>8. ASSUME NEW t \in Threads, Deref(t) PROVE OneQueueEach'
  BY <1>8 DEF Deref
<1>9. ASSUME NEW t \in Threads, Unlock(t) PROVE OneQueueEach'
  BY <1>9 DEF Unlock
<1>10. ASSUME NEW t \in Threads, Return(t) PROVE OneQueueEach'
  BY <1>10 DEF Return
<1>13. ASSUME NEW t \in Threads, CreateMetric(t) PROVE OneQueueEach'
  BY <1>13 DEF CreateMetric
<1>14. ASSUME NEW t \in Threads, ConstructThrows(t) PROVE OneQueueEach'
  BY <1>14 DEF ConstructThrows
<1>11. CASE Exit
  BY <1>11 DEF Exit
<1>12. CASE UNCHANGED vars
  BY <1>12 DEF vars
<1> QED
  BY <1>1, <1>2, <1>3, <1>4, <1>5, <1>6, <1>7,
     <1>8, <1>9, <1>10, <1>11, <1>12, <1>13, <1>14 DEF Next, ConnectStep, Exited

\* The names that have a queue after one more was made.
LEMMA QueueAppended ==
  ASSUME made \in Seq(Names), NEW a \in Names, made' = Append(made, a), NEW n \in Names
  PROVE  HasQueue(n)' <=> HasQueue(n) \/ n = a
<1> DEFINE len == Len(made)
           w == made'
<1>1. /\ len \in Nat /\ Len(w) = len + 1
      /\ \A k \in 1..len : w[k] = made[k]
      /\ w[len + 1] = a
  BY AppendProperties, LenProperties
<1> HIDE DEF len, w
<1>2. \A k \in 1..Len(w) : k \in 1..len \/ k = len + 1
  BY <1>1
<1>3. 1..len \subseteq 1..Len(w) /\ len + 1 \in 1..Len(w)
  BY <1>1
<1>4. ASSUME NEW k \in 1..Len(w), w[k] = n PROVE (\E j \in 1..len : made[j] = n) \/ n = a
  BY <1>1, <1>2, <1>4
<1>5. ASSUME NEW k \in 1..len, made[k] = n PROVE \E j \in 1..Len(w) : w[j] = n
  BY <1>1, <1>3, <1>5
<1>6. ASSUME n = a PROVE \E j \in 1..Len(w) : w[j] = n
  BY <1>1, <1>3, <1>6
<1>7. (\E k \in 1..Len(w) : w[k] = n) <=> (\E k \in 1..len : made[k] = n) \/ n = a
  BY <1>4, <1>5, <1>6
<1> QED
  BY <1>7 DEF len, w, HasQueue

\* A metric is created for a name that has neither a queue nor a constructor at
\* work; a constructor that ends hands its metric to the queue, and one that
\* fails leaves it behind.
LEMMA AccountStep ==
  TypeOK /\ MutexHeld /\ Progress /\ Owned /\ MetricsAccounted /\ [Next]_vars => MetricsAccounted'
<1> SUFFICES ASSUME TypeOK, MutexHeld, Progress, Owned, MetricsAccounted, [Next]_vars
             PROVE  MetricsAccounted'
  OBVIOUS
<1> USE DEF TypeOK, Step
\* Steps that change neither a count, nor the queues, nor who is in a constructor.
<1>a. ASSUME UNCHANGED <<made, metrics, orphans>>,
             \A u \in Threads : pc'[u] = "construct" <=> pc[u] = "construct",
             \A u \in Threads : pc[u] = "construct" => asked'[u] = asked[u]
      PROVE  MetricsAccounted'
  BY <1>a DEF MetricsAccounted, HasQueue, InConstructor
<1>1. ASSUME NEW t \in Threads, NEW n \in Names, Connect(t, n) PROVE MetricsAccounted'
  BY <1>1, <1>a DEF Connect
<1>2. ASSUME NEW t \in Threads, Lock(t) PROVE MetricsAccounted'
  BY <1>2, <1>a DEF Lock
<1>3. ASSUME NEW t \in Threads, Find(t) PROVE MetricsAccounted'
  BY <1>3, <1>a DEF Find
<1>4. ASSUME NEW t \in Threads, FindThrows(t) PROVE MetricsAccounted'
  BY <1>4, <1>a DEF FindThrows
<1>6. ASSUME NEW t \in Threads, CreateThrows(t) PROVE MetricsAccounted'
  BY <1>6, <1>a DEF CreateThrows
<1>7. ASSUME NEW t \in Threads, Reset(t) PROVE MetricsAccounted'
  BY <1>7, <1>a DEF Reset
<1>8. ASSUME NEW t \in Threads, Deref(t) PROVE MetricsAccounted'
  BY <1>8, <1>a DEF Deref
<1>9. ASSUME NEW t \in Threads, Unlock(t) PROVE MetricsAccounted'
  BY <1>9, <1>a DEF Unlock
<1>10. ASSUME NEW t \in Threads, Return(t) PROVE MetricsAccounted'
  BY <1>10, <1>a DEF Return
<1>5. ASSUME NEW t \in Threads, Create(t) PROVE MetricsAccounted'
  <2> USE <1>5 DEF Create
  <2>1. \A n \in Names : HasQueue(n)' <=> HasQueue(n) \/ n = asked[t]
    BY QueueAppended
  <2>2. InConstructor(asked[t])
    BY DEF InConstructor
  <2>3. \A n \in Names \ {asked[t]} : InConstructor(n)' <=> InConstructor(n)
    BY DEF InConstructor
  <2> QED
    BY <2>1, <2>2, <2>3 DEF MetricsAccounted
<1>13. ASSUME NEW t \in Threads, CreateMetric(t) PROVE MetricsAccounted'
  <2> USE <1>13 DEF CreateMetric
  <2>1. ~ HasQueue(asked[t])
    BY NoQueueYet
  <2>2. ~ InConstructor(asked[t])
    BY DEF InConstructor, MutexHeld, Critical
  <2>3. InConstructor(asked[t])'
    BY DEF InConstructor
  <2>4. \A n \in Names : n # asked[t] => (InConstructor(n)' <=> InConstructor(n))
    BY DEF InConstructor
  <2>5. \A n \in Names : HasQueue(n)' <=> HasQueue(n)
    BY DEF HasQueue
  <2> QED
    BY <2>1, <2>2, <2>3, <2>4, <2>5 DEF MetricsAccounted
<1>14. ASSUME NEW t \in Threads, ConstructThrows(t) PROVE MetricsAccounted'
  <2> USE <1>14 DEF ConstructThrows
  <2>1. ~ HasQueue(asked[t])
    BY NoQueueYet
  <2>2. InConstructor(asked[t])
    BY DEF InConstructor
  <2>3. ~ InConstructor(asked[t])'
    BY DEF InConstructor, MutexHeld, Critical
  <2>4. \A n \in Names : n # asked[t] => (InConstructor(n)' <=> InConstructor(n))
    BY DEF InConstructor
  <2>5. \A n \in Names : HasQueue(n)' <=> HasQueue(n)
    BY DEF HasQueue
  <2> QED
    BY <2>1, <2>2, <2>3, <2>4, <2>5 DEF MetricsAccounted
<1>11. CASE Exit
  BY <1>11, <1>a DEF Exit
<1>12. CASE UNCHANGED vars
  BY <1>12, <1>a DEF vars
<1> QED
  BY <1>1, <1>2, <1>3, <1>4, <1>5, <1>6, <1>7,
     <1>8, <1>9, <1>10, <1>11, <1>12, <1>13, <1>14 DEF Next, ConnectStep, Exited

-------------------------------------------------------------------------------
\* The inductive invariant holds in every reachable state.
THEOREM Invariance == Spec => []IInv
<1>1. IInv /\ [Next]_vars => IInv'
  BY TypeStep, MutexStep, ProgressStep, OwnNameStep, OwnedStep, OneStep, AccountStep
     DEF IInv
<1> QED
  BY InvInit, <1>1, PTL DEF Spec

\* Types, for any threads and names.
THEOREM TypeCorrect == Spec => []TypeOK
<1>1. IInv => TypeOK
  BY DEF IInv
<1> QED
  BY Invariance, <1>1, PTL

\* The books on the metrics of a name are exact: one for its queue, or for the
\* constructor at work on it, and one for every constructor that failed late.
THEOREM MetricsExact == Spec => []MetricsAccounted
<1>1. IInv => MetricsAccounted
  BY DEF IInv
<1> QED
  BY Invariance, <1>1, PTL

\* No interleaving of calls of connect_queue, with failures anywhere, creates a
\* second queue for a name, or a second metric but for failed constructors.
THEOREM OneQueue == Spec => []OneQueuePerName
<1>1. ASSUME IInv PROVE OneQueuePerName
  <2>1. \A n \in Names : metrics[n] <= orphans[n] + 1
    <3>1. \A n \in Names : orphans[n] \in Nat
      BY <1>1 DEF IInv, TypeOK
    <3> QED
      BY <1>1, <3>1 DEF IInv, MetricsAccounted
  <2> QED
    BY <1>1, <2>1 DEF IInv, OneQueueEach, OneQueuePerName
<1> QED
  BY Invariance, <1>1, PTL

\* Every caller that gets a queue gets the one of its name, never a null pointer.
THEOREM Connected == Spec => []ConnectedToItsQueue
<1>1. IInv => ConnectedToItsQueue
  BY DEF IInv, TypeOK, Progress, OwnName, ConnectedToItsQueue, Absent, Null
<1> QED
  BY Invariance, <1>1, PTL

\* No step but the end of the program replaces or removes a queue, and none
\* creates another metric for a name that has its queue.
THEOREM References == Spec => QueuesStay
<1> DEFINE Stay ==
      \A n \in Names :
        slot[n] > Null /\ ~ exited' => slot'[n] = slot[n] /\ metrics'[n] = metrics[n]
<1>1. IInv /\ [Next]_vars => [Stay]_vars
  <2> SUFFICES ASSUME IInv, Next PROVE Stay
    OBVIOUS
  <2> USE DEF IInv, TypeOK, Progress, Step, Absent, Null
  <2>1. ASSUME NEW t \in Threads, Find(t) PROVE Stay
    BY <2>1 DEF Find
  <2>2. ASSUME NEW t \in Threads, Reset(t) PROVE Stay
    BY <2>2 DEF Reset
  <2>3. CASE Exit
    BY <2>3 DEF Exit
  <2>4. ASSUME UNCHANGED <<slot, metrics>> PROVE Stay
    BY <2>4
  <2>5. ASSUME NEW t \in Threads, CreateMetric(t) PROVE Stay
    BY <2>5 DEF CreateMetric
  <2> QED
    BY <2>1, <2>2, <2>3, <2>4, <2>5
       DEF Next, ConnectStep, Connect, Lock, FindThrows, Create, CreateThrows,
           ConstructThrows, Deref, Unlock,
           Return, Exited, vars
<1> QED
  BY Invariance, <1>1, PTL DEF Spec, QueuesStay, Stay
===============================================================================
