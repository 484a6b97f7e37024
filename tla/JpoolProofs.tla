---------------------------- MODULE JpoolProofs ----------------------------
(***************************************************************************)
(* Proofs about Jpool for any number of threads and works: the inductive   *)
(* invariant IInv, the safety properties it contains, and the refinement   *)
(* of WorkQueue.                                                           *)
(***************************************************************************)
EXTENDS Jpool, FiniteSetTheorems, TLAPS

-----------------------------------------------------------------------------
(* Facts about the threads of the pool and their number.                   *)

LEMMA ThreadsPositive == NThreads \in Nat /\ NThreads >= 1
  BY NumAssumption DEF NThreads

(* The workers are as many as jpool_init writes in thread_cnt.             *)
LEMMA WorkersFinite ==
  /\ IsFiniteSet(Workers)
  /\ Cardinality(Workers) = NThreads
  BY ThreadsPositive, FS_Interval DEF Workers

(* Adding or removing one worker changes the size of a set of workers by 1.*)
LEMMA OneMore ==
  ASSUME NEW S \in SUBSET Workers, NEW T \in SUBSET Workers,
         NEW w \in Workers, w \notin S, T = S \cup {w}
  PROVE  /\ Cardinality(S) \in Nat
         /\ Cardinality(T) = Cardinality(S) + 1
<1>1. IsFiniteSet(S)
  BY WorkersFinite, FS_Subset
<1> QED
  BY <1>1, FS_AddElement, FS_CardinalityType

(* A worker counter that reads 0 means nobody is counted.                  *)
LEMMA NobodyLeft ==
  ASSUME NEW S \in SUBSET Workers, Cardinality(S) = 0
  PROVE  S = {}
  BY WorkersFinite, FS_Subset, FS_EmptySet

LEMMA CountInNat ==
  ASSUME NEW S \in SUBSET Workers
  PROVE  Cardinality(S) \in Nat
  BY WorkersFinite, FS_Subset, FS_CardinalityType

-----------------------------------------------------------------------------
(* The initial states.                                                     *)

LEMMA InitIInv == Init => IInv
<1> SUFFICES ASSUME Init PROVE IInv
  OBVIOUS
<1> USE DEF Init
<1>1. TypeOK
  <2>1. next \in [WorkIds -> {NULL} \cup WorkIds]
    OBVIOUS
  <2>2. status \in [WorkIds -> WorkStatus]
    BY DEF WorkStatus
  <2>3. wpc \in [Workers -> WorkerStates]
    BY DEF WorkerStates
  <2>4. work \in [Workers -> {NULL} \cup WorkIds]
    OBVIOUS
  <2>5. thread_cnt \in Nat /\ spawned \in 0..NThreads /\ nadded \in 0..MaxWorks
    BY ThreadsPositive, MaxWorksAssumption
  <2> QED
    BY <2>1, <2>2, <2>3, <2>4, <2>5 DEF TypeOK, OwnerStates
<1>2. LifecycleOK
  BY ThreadsPositive DEF LifecycleOK, Workers, WorkIds
<1>3. CountersExact
  <2>1. {w \in Workers : wpc[w] = "run"} = {}
    OBVIOUS
  <2>2. {w \in Workers : wpc[w] # "done"} = Workers
    OBVIOUS
  <2> QED
    BY <2>1, <2>2, WorkersFinite, FS_EmptySet DEF CountersExact
<1>4. QueueLinked
  BY DEF QueueLinked, NULL, WorkIds
<1>5. WorksOwned
  BY DEF WorksOwned
<1>6. PoolOutlivesWorkers
  BY DEF PoolOutlivesWorkers
<1> QED
  BY <1>1, <1>2, <1>3, <1>4, <1>5, <1>6 DEF IInv

-----------------------------------------------------------------------------
(* Each conjunct of IInv is preserved by every step, given all of IInv.    *)

(* The primed variables keep their types.                                  *)
LEMMA TypeStep == IInv /\ [Next]_vars => TypeOK'
<1> SUFFICES ASSUME IInv, [Next]_vars PROVE TypeOK'
  OBVIOUS
<1> USE ThreadsPositive, MaxWorksAssumption
    DEF IInv, TypeOK, WorkStatus, WorkerStates, OwnerStates, poolvars
<1>1. CASE CreateThread
  <2>1. spawned' \in 0..NThreads
    BY <1>1 DEF CreateThread, LifecycleOK
  <2>2. wpc' \in [Workers -> WorkerStates] /\ mpc' \in OwnerStates
    BY <1>1 DEF CreateThread
  <2> QED
    BY <1>1, <2>1, <2>2 DEF CreateThread
<1>2. CASE CreateThreadFails
  BY <1>2 DEF CreateThreadFails
<1>3. CASE AddWork
  BY <1>3 DEF AddWork, BroadcastWork, WorkIds, NULL
<1>4. CASE CallWait
  BY <1>4 DEF CallWait
<1>5. CASE WaitTest
  BY <1>5 DEF WaitTest
<1>6. CASE OwnerSpurious
  BY <1>6 DEF OwnerSpurious
<1>7. CASE Destroy
  BY <1>7 DEF Destroy, AfterDrop, BroadcastWork
<1>8. CASE FreePool
  BY <1>8 DEF FreePool
<1>9. ASSUME NEW w \in Workers, Sleep(w) PROVE TypeOK'
  BY <1>9 DEF Sleep
<1>10. ASSUME NEW w \in Workers, Take(w) PROVE TypeOK'
  BY <1>10 DEF Take, CountedUp, FirstAfterGet, LastAfterGet
<1>11. ASSUME NEW w \in Workers, ExitThread(w) PROVE TypeOK'
  <2>1. thread_cnt >= 1
    <3>1. w \in {v \in Workers : wpc[v] # "done"}
      BY <1>11 DEF ExitThread, ThreadsLeft
    <3> QED
      BY <3>1, NobodyLeft DEF CountersExact
  <2> QED
    BY <1>11, <2>1 DEF ExitThread, ThreadsLeft, SignalWorking
<1>12. ASSUME NEW w \in Workers, FinishWork(w) PROVE TypeOK'
  <2>1. working_cnt >= 1
    <3>1. w \in {v \in Workers : wpc[v] = "run"}
      BY <1>12 DEF FinishWork
    <3> QED
      BY <3>1, NobodyLeft DEF CountersExact
  <2>2. working_cnt' \in Nat
    BY <1>12, <2>1 DEF FinishWork
  <2>3. status' \in [WorkIds -> WorkStatus] /\ work' \in [Workers -> {NULL} \cup WorkIds]
    BY <1>12 DEF FinishWork
  <2>4. wpc' \in [Workers -> WorkerStates] /\ mpc' \in OwnerStates
    BY <1>12 DEF FinishWork, SignalWorking
  <2> QED
    BY <1>12, <2>2, <2>3, <2>4 DEF FinishWork
<1>13. ASSUME NEW w \in Workers, Spurious(w) PROVE TypeOK'
  BY <1>13 DEF Spurious
<1>14. CASE UNCHANGED vars
  BY <1>14 DEF vars
<1> QED
  BY <1>1, <1>2, <1>3, <1>4, <1>5, <1>6, <1>7, <1>8, <1>9, <1>10, <1>11,
     <1>12, <1>13, <1>14 DEF Next, WorkerStep, Gone

(* Works and threads come into being in order, threads end after stop. *)
LEMMA LifecycleStep == IInv /\ [Next]_vars => LifecycleOK'
<1> SUFFICES ASSUME IInv, [Next]_vars PROVE LifecycleOK'
  OBVIOUS
<1> USE ThreadsPositive DEF IInv, TypeOK, LifecycleOK, poolvars, Workers, WorkIds
<1>1. CASE CreateThread
  BY <1>1 DEF CreateThread
<1>2. CASE CreateThreadFails
  BY <1>2 DEF CreateThreadFails
<1>3. CASE AddWork
  BY <1>3 DEF AddWork, BroadcastWork
<1>4. CASE CallWait
  BY <1>4 DEF CallWait
<1>5. CASE WaitTest
  BY <1>5 DEF WaitTest
<1>6. CASE OwnerSpurious
  BY <1>6 DEF OwnerSpurious
<1>7. CASE Destroy
  BY <1>7 DEF Destroy, AfterDrop, BroadcastWork
<1>8. CASE FreePool
  BY <1>8 DEF FreePool
<1>9. ASSUME NEW w \in Workers, Sleep(w) PROVE LifecycleOK'
  BY <1>9 DEF Sleep
<1>10. ASSUME NEW w \in Workers, Take(w) PROVE LifecycleOK'
  <2>1. work_first \in WorkIds /\ status[work_first] = "queued"
    BY <1>10 DEF Take, CountedUp, QueueLinked, NULL
  <2> QED
    BY <1>10, <2>1 DEF Take, CountedUp
<1>11. ASSUME NEW w \in Workers, ExitThread(w) PROVE LifecycleOK'
  BY <1>11 DEF ExitThread, ThreadsLeft, SignalWorking
<1>12. ASSUME NEW w \in Workers, FinishWork(w) PROVE LifecycleOK'
  <2>1. work[w] \in WorkIds /\ status[work[w]] = "running"
    BY <1>12 DEF FinishWork, WorksOwned, NULL
  <2> QED
    BY <1>12, <2>1 DEF FinishWork, SignalWorking
<1>13. ASSUME NEW w \in Workers, Spurious(w) PROVE LifecycleOK'
  BY <1>13 DEF Spurious
<1>14. CASE UNCHANGED vars
  BY <1>14 DEF vars
<1> QED
  BY <1>1, <1>2, <1>3, <1>4, <1>5, <1>6, <1>7, <1>8, <1>9, <1>10, <1>11,
     <1>12, <1>13, <1>14 DEF Next, WorkerStep, Gone

(* working_cnt and thread_cnt follow the workers they count. *)
LEMMA CountersStep == IInv /\ [Next]_vars => CountersExact'
<1> SUFFICES ASSUME IInv, [Next]_vars PROVE CountersExact'
  OBVIOUS
<1> DEFINE Running == {w \in Workers : wpc[w] = "run"}
           Live == {w \in Workers : wpc[w] # "done"}
<1> USE DEF IInv, TypeOK, CountersExact
<1>1. CASE CreateThread
  <2>1. wpc[spawned + 1] = "none"
    BY <1>1, ThreadsPositive DEF CreateThread, LifecycleOK, Workers
  <2>2. Running' = Running /\ Live' = Live
    BY <1>1, <2>1 DEF CreateThread
  <2> QED
    BY <1>1, <2>2 DEF CreateThread, poolvars
<1>2. CASE CreateThreadFails
  <2>1. wpc' = wpc /\ working_cnt' = working_cnt /\ thread_cnt' = thread_cnt
    BY <1>2 DEF CreateThreadFails, poolvars, vars
  <2> QED
    BY <2>1
<1>3. CASE AddWork
  <2>1. Running' = Running /\ Live' = Live
    BY <1>3 DEF AddWork, BroadcastWork
  <2> QED
    BY <1>3, <2>1 DEF AddWork, poolvars
<1>4. CASE CallWait
  <2>1. wpc' = wpc /\ working_cnt' = working_cnt /\ thread_cnt' = thread_cnt
    BY <1>4 DEF CallWait, poolvars, vars
  <2> QED
    BY <2>1
<1>5. CASE WaitTest
  <2>1. wpc' = wpc /\ working_cnt' = working_cnt /\ thread_cnt' = thread_cnt
    BY <1>5 DEF WaitTest, poolvars, vars
  <2> QED
    BY <2>1
<1>6. CASE OwnerSpurious
  <2>1. wpc' = wpc /\ working_cnt' = working_cnt /\ thread_cnt' = thread_cnt
    BY <1>6 DEF OwnerSpurious, poolvars, vars
  <2> QED
    BY <2>1
<1>7. CASE Destroy
  <2>1. Running' = Running /\ Live' = Live
    BY <1>7 DEF Destroy, AfterDrop, BroadcastWork
  <2> QED
    BY <1>7, <2>1 DEF Destroy, AfterDrop, poolvars
<1>8. CASE FreePool
  <2>1. wpc' = wpc /\ working_cnt' = working_cnt /\ thread_cnt' = thread_cnt
    BY <1>8 DEF FreePool, poolvars, vars
  <2> QED
    BY <2>1
<1>9. ASSUME NEW w \in Workers, Sleep(w) PROVE CountersExact'
  <2>1. Running' = Running /\ Live' = Live
    BY <1>9 DEF Sleep
  <2> QED
    BY <1>9, <2>1 DEF Sleep, poolvars
<1>10. ASSUME NEW w \in Workers, Take(w) PROVE CountersExact'
  <2>1. w \notin Running /\ Running' = Running \cup {w} /\ Live' = Live
    BY <1>10 DEF Take, CountedUp
  <2> QED
    BY <1>10, <2>1, OneMore DEF Take, CountedUp
<1>11. ASSUME NEW w \in Workers, ExitThread(w) PROVE CountersExact'
  <2>1. w \notin Live' /\ Live = Live' \cup {w} /\ Running' = Running
    BY <1>11 DEF ExitThread, ThreadsLeft
  <2>2. Live' \in SUBSET Workers
    OBVIOUS
  <2>3. Cardinality(Live') \in Nat /\ Cardinality(Live) = Cardinality(Live') + 1
    BY <2>1, <2>2, OneMore
  <2>4. working_cnt = Cardinality(Running) /\ thread_cnt = Cardinality(Live)
    OBVIOUS
  <2>5. working_cnt' = Cardinality(Running') /\ thread_cnt' = Cardinality(Live')
    <3> HIDE DEF Live, Running, CountersExact
    <3> QED
      BY <1>11, <2>1, <2>3, <2>4 DEF ExitThread, ThreadsLeft
  <2> QED
    BY <2>5
<1>12. ASSUME NEW w \in Workers, FinishWork(w) PROVE CountersExact'
  <2>1. w \notin Running' /\ Running = Running' \cup {w} /\ Live' = Live
    BY <1>12 DEF FinishWork
  <2>2. Running' \in SUBSET Workers
    OBVIOUS
  <2>3. Cardinality(Running') \in Nat /\ Cardinality(Running) = Cardinality(Running') + 1
    BY <2>1, <2>2, OneMore
  <2>4. working_cnt = Cardinality(Running) /\ thread_cnt = Cardinality(Live)
    OBVIOUS
  <2>5. working_cnt' = Cardinality(Running') /\ thread_cnt' = Cardinality(Live')
    <3> HIDE DEF Live, Running, CountersExact
    <3> QED
      BY <1>12, <2>1, <2>3, <2>4 DEF FinishWork
  <2> QED
    BY <2>5
<1>13. ASSUME NEW w \in Workers, Spurious(w) PROVE CountersExact'
  <2>1. Running' = Running /\ Live' = Live
    BY <1>13 DEF Spurious
  <2> QED
    BY <1>13, <2>1 DEF Spurious, poolvars
<1>14. CASE UNCHANGED vars
  <2>1. wpc' = wpc /\ working_cnt' = working_cnt /\ thread_cnt' = thread_cnt
    BY <1>14 DEF poolvars, vars
  <2> QED
    BY <2>1
<1> QED
  BY <1>1, <1>2, <1>3, <1>4, <1>5, <1>6, <1>7, <1>8, <1>9, <1>10, <1>11,
     <1>12, <1>13, <1>14 DEF Next, WorkerStep, Gone

(* The queue stays one list of the queued works, in order. *)
LEMMA QueueStep == IInv /\ [Next]_vars => QueueLinked'
<1> SUFFICES ASSUME IInv, [Next]_vars PROVE QueueLinked'
  OBVIOUS
<1> USE MaxWorksAssumption DEF IInv, TypeOK, QueueLinked, poolvars, WorkIds, NULL
<1>1. CASE CreateThread
  BY <1>1 DEF CreateThread
<1>2. CASE CreateThreadFails
  BY <1>2 DEF CreateThreadFails
<1>3. CASE AddWork
  <2>1. work_first # NULL => work_last \in WorkIds /\ work_last = nadded
    BY <1>3 DEF AddWork, LifecycleOK
  <2> QED
    BY <1>3, <2>1 DEF AddWork, LifecycleOK
<1>4. CASE CallWait
  BY <1>4 DEF CallWait
<1>5. CASE WaitTest
  BY <1>5 DEF WaitTest
<1>6. CASE OwnerSpurious
  BY <1>6 DEF OwnerSpurious
<1>7. CASE Destroy
  BY <1>7 DEF Destroy, AfterDrop
<1>8. CASE FreePool
  BY <1>8 DEF FreePool
<1>9. ASSUME NEW w \in Workers, Sleep(w) PROVE QueueLinked'
  BY <1>9 DEF Sleep
<1>10. ASSUME NEW w \in Workers, Take(w) PROVE QueueLinked'
  <2>1. /\ work_first \in WorkIds /\ work_last \in WorkIds
        /\ work_last = nadded /\ work_first <= work_last
        /\ next[work_first] = IF work_first = work_last THEN NULL ELSE work_first + 1
    BY <1>10 DEF Take, CountedUp
  <2>2. CASE work_first = work_last
    BY <1>10, <2>1, <2>2 DEF Take, CountedUp, FirstAfterGet, LastAfterGet
  <2>3. CASE work_first # work_last
    BY <1>10, <2>1, <2>3 DEF Take, CountedUp, FirstAfterGet, LastAfterGet
  <2> QED
    BY <2>2, <2>3
<1>11. ASSUME NEW w \in Workers, ExitThread(w) PROVE QueueLinked'
  BY <1>11 DEF ExitThread, ThreadsLeft
<1>12. ASSUME NEW w \in Workers, FinishWork(w) PROVE QueueLinked'
  <2>1. work[w] \in WorkIds /\ status[work[w]] = "running"
    BY <1>12 DEF FinishWork, WorksOwned
  <2> QED
    BY <1>12, <2>1 DEF FinishWork
<1>13. ASSUME NEW w \in Workers, Spurious(w) PROVE QueueLinked'
  BY <1>13 DEF Spurious
<1>14. CASE UNCHANGED vars
  BY <1>14 DEF vars
<1> QED
  BY <1>1, <1>2, <1>3, <1>4, <1>5, <1>6, <1>7, <1>8, <1>9, <1>10, <1>11,
     <1>12, <1>13, <1>14 DEF Next, WorkerStep, Gone

(* No two workers run the same work. *)
LEMMA OwnedStep == IInv /\ [Next]_vars => WorksOwned'
<1> SUFFICES ASSUME IInv, [Next]_vars PROVE WorksOwned'
  OBVIOUS
<1> USE DEF IInv, TypeOK, WorksOwned, poolvars
<1>1. CASE CreateThread
  <2>1. spawned + 1 \in Workers /\ wpc[spawned + 1] = "none"
    BY <1>1, ThreadsPositive DEF CreateThread, LifecycleOK, Workers
  <2> QED
    BY <1>1, <2>1 DEF CreateThread
<1>2. CASE CreateThreadFails
  BY <1>2 DEF CreateThreadFails
<1>3. CASE AddWork
  BY <1>3 DEF AddWork, BroadcastWork, LifecycleOK, WorkIds, NULL
<1>4. CASE CallWait
  BY <1>4 DEF CallWait
<1>5. CASE WaitTest
  BY <1>5 DEF WaitTest
<1>6. CASE OwnerSpurious
  BY <1>6 DEF OwnerSpurious
<1>7. CASE Destroy
  BY <1>7 DEF Destroy, AfterDrop, BroadcastWork, NULL
<1>8. CASE FreePool
  BY <1>8 DEF FreePool
<1>9. ASSUME NEW w \in Workers, Sleep(w) PROVE WorksOwned'
  BY <1>9 DEF Sleep
<1>10. ASSUME NEW w \in Workers, Take(w) PROVE WorksOwned'
  <2>1. work_first \in WorkIds /\ status[work_first] = "queued" /\ work_first # NULL
    BY <1>10 DEF Take, CountedUp, QueueLinked, NULL, WorkIds
  <2> QED
    BY <1>10, <2>1 DEF Take, CountedUp, NULL
<1>11. ASSUME NEW w \in Workers, ExitThread(w) PROVE WorksOwned'
  BY <1>11 DEF ExitThread, ThreadsLeft
<1>12. ASSUME NEW w \in Workers, FinishWork(w) PROVE WorksOwned'
  BY <1>12 DEF FinishWork, NULL
<1>13. ASSUME NEW w \in Workers, Spurious(w) PROVE WorksOwned'
  BY <1>13 DEF Spurious
<1>14. CASE UNCHANGED vars
  BY <1>14 DEF vars
<1> QED
  BY <1>1, <1>2, <1>3, <1>4, <1>5, <1>6, <1>7, <1>8, <1>9, <1>10, <1>11,
     <1>12, <1>13, <1>14 DEF Next, WorkerStep, Gone

(* The owner leaves jpool_wait of a stopped pool after the last thread. *)
LEMMA OutlivesStep == IInv /\ [Next]_vars => PoolOutlivesWorkers'
<1> SUFFICES ASSUME IInv, [Next]_vars PROVE PoolOutlivesWorkers'
  OBVIOUS
<1> USE DEF IInv, TypeOK, PoolOutlivesWorkers, poolvars
<1>1. CASE CreateThread
  BY <1>1 DEF CreateThread
<1>2. CASE CreateThreadFails
  BY <1>2 DEF CreateThreadFails
<1>3. CASE AddWork
  BY <1>3 DEF AddWork
<1>4. CASE CallWait
  BY <1>4 DEF CallWait
<1>5. CASE WaitTest
  <2>1. ASSUME mpc' = "free" PROVE \A w \in Workers : wpc[w] = "done"
    <3>1. thread_cnt = 0
      BY <1>5, <2>1 DEF WaitTest, MustWait
    <3>2. {w \in Workers : wpc[w] # "done"} = {}
      BY <3>1, NobodyLeft DEF CountersExact
    <3> QED
      BY <3>2
  <2> QED
    BY <1>5, <2>1 DEF WaitTest
<1>6. CASE OwnerSpurious
  BY <1>6 DEF OwnerSpurious
<1>7. CASE Destroy
  BY <1>7 DEF Destroy, AfterDrop
<1>8. CASE FreePool
  BY <1>8 DEF FreePool
<1>9. ASSUME NEW w \in Workers, Sleep(w) PROVE PoolOutlivesWorkers'
  BY <1>9 DEF Sleep
<1>10. ASSUME NEW w \in Workers, Take(w) PROVE PoolOutlivesWorkers'
  BY <1>10 DEF Take, CountedUp
<1>11. ASSUME NEW w \in Workers, ExitThread(w) PROVE PoolOutlivesWorkers'
  BY <1>11 DEF ExitThread, ThreadsLeft, SignalWorking
<1>12. ASSUME NEW w \in Workers, FinishWork(w) PROVE PoolOutlivesWorkers'
  BY <1>12 DEF FinishWork, SignalWorking
<1>13. ASSUME NEW w \in Workers, Spurious(w) PROVE PoolOutlivesWorkers'
  BY <1>13 DEF Spurious
<1>14. CASE UNCHANGED vars
  BY <1>14 DEF vars
<1> QED
  BY <1>1, <1>2, <1>3, <1>4, <1>5, <1>6, <1>7, <1>8, <1>9, <1>10, <1>11,
     <1>12, <1>13, <1>14 DEF Next, WorkerStep, Gone

-----------------------------------------------------------------------------
(* The inductive invariant holds in every reachable state.                 *)
THEOREM InductiveInvariant == Spec => []IInv
<1>1. Init => IInv
  BY InitIInv
<1>2. IInv /\ [Next]_vars => IInv'
  BY TypeStep, LifecycleStep, CountersStep, QueueStep, OwnedStep, OutlivesStep
  DEF IInv
<1> QED
  BY <1>1, <1>2, PTL DEF Spec

(* Every variable of the pool keeps its type, for any number of threads    *)
(* and works: in particular no counter of jpool.c wraps below zero.        *)
THEOREM TypeCorrect == Spec => []TypeOK
  BY InductiveInvariant, PTL DEF IInv

(* working_cnt and thread_cnt of jpool.c count the running works and the   *)
(* live threads exactly.                                                   *)
THEOREM CountersCorrect == Spec => []CountersExact
  BY InductiveInvariant, PTL DEF IInv

(* The queue of jpool_add_work and jpool_work_get is one well formed list. *)
THEOREM QueueCorrect == Spec => []QueueLinked
  BY InductiveInvariant, PTL DEF IInv

(* No work is run by two threads of jpool_worker, or freed while it runs.  *)
THEOREM OwnershipCorrect == Spec => []WorksOwned
  BY InductiveInvariant, PTL DEF IInv

(* jpool_destroy never frees the pool under a thread of jpool_worker.      *)
THEOREM DestructionCorrect == Spec => []PoolOutlivesWorkers
  BY InductiveInvariant, PTL DEF IInv

-----------------------------------------------------------------------------
(* The pool implements WorkQueue: every step of jpool.c is a step of the   *)
(* abstract queue or leaves its state alone.                               *)

Queued == {i \in WorkIds : status[i] = "queued"}
Finished == {i \in WorkIds : status[i] = "finished"}

LEMMA InitRefines == Init => WQ!Init
  BY DEF Init, WQ!Init, Phase, WQ!NoWork, NULL

(* A step that changes no abstract variable is a stutter.                  *)
LEMMA StutterRefines ==
  ASSUME UNCHANGED <<nadded, status, work, Phase>>
  PROVE  [WQ!Next]_(WQ!vars)
  BY DEF WQ!vars

(* jpool_add_work is Submit.                                               *)
LEMMA AddWorkRefines ==
  ASSUME IInv, AddWork
  PROVE  WQ!Submit
<1> USE DEF IInv, TypeOK, LifecycleOK, AddWork
<1>1. Phase = "open" /\ Phase' = "open"
  BY DEF Phase
<1>2. Queued' = Queued \cup {nadded + 1}
  BY MaxWorksAssumption DEF Queued, WorkIds
<1>3. Finished' = Finished
  BY DEF Finished, WorkIds
<1> QED
  BY <1>1, <1>2, <1>3 DEF WQ!Submit, Queued, Finished

(* Taking the first work of the list is Start: the list is in the order    *)
(* of submission, so its head is the oldest pending work.                  *)
LEMMA TakeRefines ==
  ASSUME IInv, NEW w \in Workers, Take(w)
  PROVE  WQ!Start(w)
<1> USE DEF IInv, TypeOK, Take, CountedUp
<1>1. Phase = "open" /\ Phase' = "open"
  BY DEF Phase, LifecycleOK, Alive
<1>2. work_first \in Queued /\ \A j \in Queued : work_first <= j
  BY DEF QueueLinked, Queued, NULL, WorkIds
<1>3. Queued' = Queued \ {work_first}
  BY <1>2 DEF Queued
<1>4. Finished' = Finished
  BY <1>2 DEF Queued, Finished
<1>5. work[w] = WQ!NoWork
  BY DEF WorksOwned, WQ!NoWork, NULL
<1> QED
  BY <1>1, <1>2, <1>3, <1>4, <1>5 DEF WQ!Start, Queued, Finished

(* The return of a work is Complete.                                       *)
LEMMA FinishRefines ==
  ASSUME IInv, NEW w \in Workers, FinishWork(w)
  PROVE  WQ!Complete(w)
<1> USE DEF IInv, TypeOK, FinishWork
<1>1. work[w] \in WorkIds /\ status[work[w]] = "running" /\ work[w] # NULL
  BY DEF WorksOwned
<1>2. Phase' = Phase /\ Phase # "released"
  BY DEF Phase, Alive, SignalWorking, PoolOutlivesWorkers
<1>3. Queued' = Queued
  BY <1>1 DEF Queued
<1>4. Finished' = Finished \cup {work[w]}
  BY <1>1 DEF Finished
<1> QED
  BY <1>1, <1>2, <1>3, <1>4
  DEF WQ!Complete, WQ!NoWork, Queued, Finished, NULL

(* The first critical section of jpool_destroy is Close.                   *)
LEMMA DestroyRefines ==
  ASSUME IInv, Destroy
  PROVE  WQ!Close
<1> USE DEF IInv, TypeOK, Destroy, AfterDrop
<1>1. Phase = "open" /\ Phase' = "closing"
  BY DEF Phase, LifecycleOK
<1>2. Queued' = {} /\ Finished' = Finished
  BY DEF Queued, Finished
<1> QED
  BY <1>1, <1>2 DEF WQ!Close, Queued, Finished

(* Freeing the pool is Release.                                            *)
LEMMA FreeRefines ==
  ASSUME IInv, FreePool
  PROVE  WQ!Release
<1> USE DEF IInv, TypeOK, FreePool
<1>1. Phase = "closing" /\ Phase' = "released"
  BY DEF Phase, LifecycleOK
<1>2. \A w \in Workers : work[w] = NULL
  BY DEF PoolOutlivesWorkers, WorksOwned
<1> QED
  BY <1>1, <1>2 DEF WQ!Release, WQ!NoWork, NULL, poolvars

(* A failed jpool_init is Abandon.                                         *)
LEMMA FailRefines ==
  ASSUME IInv, CreateThreadFails
  PROVE  WQ!Abandon
  BY DEF IInv, TypeOK, LifecycleOK, CreateThreadFails, WQ!Abandon, Phase, poolvars

LEMMA StepRefines == IInv /\ [Next]_vars => [WQ!Next]_(WQ!vars)
<1> SUFFICES ASSUME IInv, [Next]_vars PROVE [WQ!Next]_(WQ!vars)
  OBVIOUS
<1>1. CASE CreateThread
  BY <1>1, StutterRefines DEF CreateThread, poolvars, Phase
<1>2. CASE CreateThreadFails
  BY <1>2, FailRefines DEF WQ!Next
<1>3. CASE AddWork
  BY <1>3, AddWorkRefines DEF WQ!Next
<1>4. CASE CallWait
  BY <1>4, StutterRefines DEF CallWait, poolvars, Phase
<1>5. CASE WaitTest
  BY <1>5, StutterRefines DEF WaitTest, poolvars, Phase
<1>6. CASE OwnerSpurious
  BY <1>6, StutterRefines DEF OwnerSpurious, poolvars, Phase
<1>7. CASE Destroy
  BY <1>7, DestroyRefines DEF WQ!Next
<1>8. CASE FreePool
  BY <1>8, FreeRefines DEF WQ!Next
<1>9. ASSUME NEW w \in Workers, Sleep(w) PROVE [WQ!Next]_(WQ!vars)
  BY <1>9, StutterRefines DEF Sleep, poolvars, Phase
<1>10. ASSUME NEW w \in Workers, Take(w) PROVE [WQ!Next]_(WQ!vars)
  BY <1>10, TakeRefines DEF WQ!Next
<1>11. ASSUME NEW w \in Workers, ExitThread(w) PROVE [WQ!Next]_(WQ!vars)
  BY <1>11, StutterRefines DEF ExitThread, ThreadsLeft, SignalWorking, Phase
<1>12. ASSUME NEW w \in Workers, FinishWork(w) PROVE [WQ!Next]_(WQ!vars)
  BY <1>12, FinishRefines DEF WQ!Next
<1>13. ASSUME NEW w \in Workers, Spurious(w) PROVE [WQ!Next]_(WQ!vars)
  BY <1>13, StutterRefines DEF Spurious, poolvars, Phase
<1>14. CASE UNCHANGED vars
  BY <1>14, StutterRefines DEF vars, poolvars, Phase
<1> QED
  BY <1>1, <1>2, <1>3, <1>4, <1>5, <1>6, <1>7, <1>8, <1>9, <1>10, <1>11,
     <1>12, <1>13, <1>14 DEF Next, WorkerStep, Gone

(* Works are started in the order of jpool_add_work, each by one thread    *)
(* and at most once, none after jpool_destroy.                             *)
THEOREM Refinement == Spec => ImplementsWorkQueue
<1>1. Init => WQ!Init
  BY InitRefines
<1>2. IInv /\ [Next]_vars => [WQ!Next]_(WQ!vars)
  BY StepRefines
<1> QED
  BY <1>1, <1>2, InductiveInvariant, PTL DEF Spec, ImplementsWorkQueue, WQ!Spec
=============================================================================
