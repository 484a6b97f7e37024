------------------------------- MODULE Jpool -------------------------------
(***************************************************************************)
(* The thread pool of src/src/proxy/jpool.c: a linked queue of works, one  *)
(* mutex (work_mutex), a condition variable on which workers sleep         *)
(* (work_cond) and one on which jpool_wait sleeps (working_cond).          *)
(*                                                                         *)
(* Every access to the shared fields is made under work_mutex, so a        *)
(* critical section (from a lock, or the return of a pthread_cond_wait, to *)
(* the next unlock or pthread_cond_wait) is one action.  The k-th work     *)
(* given to jpool_add_work is the number k; its `next' pointer and the     *)
(* life of its memory are modelled, the function it runs is not.           *)
(***************************************************************************)
EXTENDS Naturals, FiniteSets

CONSTANTS num,       \* the argument of jpool_init
          MaxWorks   \* bound on the calls of jpool_add_work

ASSUME NumAssumption      == num \in Nat
ASSUME MaxWorksAssumption == MaxWorks \in Nat

VARIABLES
  work_first,   \* head of the queue, NULL or a work
  work_last,    \* tail of the queue
  next,         \* next[i]: the field `next' of work i
  status,       \* status[i]: what became of the memory of work i
  working_cnt,  \* works being run, as the pool counts them
  thread_cnt,   \* live threads, as the pool counts them
  stop,         \* the pool is being destroyed
  wpc,          \* wpc[w]: where worker w is
  work,         \* work[w]: the local variable `work' of jpool_worker
  mpc,          \* where the thread that owns the pool is
  spawned,      \* threads created by jpool_init so far
  nadded        \* works added so far

poolvars == <<work_first, work_last, next, status, working_cnt, thread_cnt, stop>>
vars == <<poolvars, wpc, work, mpc, spawned, nadded>>

NULL == 0
NThreads == IF num = 0 THEN 2 ELSE num
Workers == 1..NThreads
WorkIds == 1..MaxWorks

(* "ready": about to evaluate the loop of line 78 with the mutex held.     *)
WorkerStates == {"none", "ready", "sleep", "run", "done"}
(* "wait": about to evaluate the loop of jpool_wait; "free": jpool_wait    *)
(* has returned to jpool_destroy.                                          *)
OwnerStates == {"init", "idle", "wait", "sleep", "free", "released", "failed"}
WorkStatus == {"none", "queued", "running", "finished", "dropped"}

(* The type of every variable.  A worker or an owner outside its states,   *)
(* or a counter below zero, is a step of jpool.c no line provides.         *)
TypeOK ==
  /\ work_first \in {NULL} \cup WorkIds
  /\ work_last \in {NULL} \cup WorkIds
  /\ next \in [WorkIds -> {NULL} \cup WorkIds]
  /\ status \in [WorkIds -> WorkStatus]
  /\ working_cnt \in Nat
  /\ thread_cnt \in Nat
  /\ stop \in BOOLEAN
  /\ wpc \in [Workers -> WorkerStates]
  /\ work \in [Workers -> {NULL} \cup WorkIds]
  /\ mpc \in OwnerStates
  /\ spawned \in 0..NThreads
  /\ nadded \in 0..MaxWorks

-----------------------------------------------------------------------------
(* Operators named X_y are X with a slip y; no specification uses them:    *)
(* put in the place of X, each breaks one of the properties below.         *)

BroadcastWork_lost == wpc
SignalWorking_lost == mpc
(* pthread_cond_broadcast(work_cond) and pthread_cond_signal(working_cond).*)
(* Only the owner ever sleeps on working_cond.                             *)
BroadcastWork == [w \in Workers |-> IF wpc[w] = "sleep" THEN "ready" ELSE wpc[w]]
SignalWorking == IF mpc = "sleep" THEN "wait" ELSE mpc

(* jpool_init failed part way, or the pool is freed: nothing runs on it.   *)
Alive == mpc # "failed"

Init ==
  /\ work_first = NULL
  /\ work_last = NULL
  /\ next = [i \in WorkIds |-> NULL]
  /\ status = [i \in WorkIds |-> "none"]
  /\ working_cnt = 0
  /\ thread_cnt = NThreads
  /\ stop = FALSE
  /\ wpc = [w \in Workers |-> "none"]
  /\ work = [w \in Workers |-> NULL]
  /\ mpc = "init"
  /\ spawned = 0
  /\ nadded = 0

(* jpool_init: one successful pthread_create of the loop of line 158.      *)
CreateThread ==
  /\ mpc = "init"
  /\ wpc' = [wpc EXCEPT ![spawned + 1] = "ready"]
  /\ spawned' = spawned + 1
  /\ mpc' = IF spawned + 1 = NThreads THEN "idle" ELSE "init"
  /\ UNCHANGED <<poolvars, work, nadded>>

(* jpool_init: pthread_create fails; the mutex is destroyed and the pool   *)
(* freed whatever the threads created before are doing.                    *)
CreateThreadFails ==
  /\ mpc = "init"
  /\ mpc' = "failed"
  /\ UNCHANGED <<poolvars, wpc, work, spawned, nadded>>

(* A work is put in front of the others.                                   *)
AddWork_inFront ==
  /\ mpc = "idle"
  /\ nadded < MaxWorks
  /\ nadded' = nadded + 1
  /\ status' = [status EXCEPT ![nadded + 1] = "queued"]
  /\ next' = [next EXCEPT ![nadded + 1] = work_first]
  /\ work_first' = nadded + 1
  /\ work_last' = IF work_first = NULL THEN nadded + 1 ELSE work_last
  /\ wpc' = BroadcastWork
  /\ UNCHANGED <<working_cnt, thread_cnt, stop, work, mpc, spawned>>

(* jpool_add_work: link the work behind work_last, wake every sleeper.     *)
AddWork ==
  LET new == nadded + 1 IN
  /\ mpc = "idle"
  /\ nadded < MaxWorks
  /\ nadded' = new
  /\ status' = [status EXCEPT ![new] = "queued"]
  /\ \/ /\ work_first = NULL
        /\ work_first' = new
        /\ next' = [next EXCEPT ![new] = NULL]
     \/ /\ work_first # NULL
        /\ next' = [next EXCEPT ![new] = NULL, ![work_last] = new]
        /\ UNCHANGED work_first
  /\ work_last' = new
  /\ wpc' = BroadcastWork
  /\ UNCHANGED <<working_cnt, thread_cnt, stop, work, mpc, spawned>>

(* jpool_work_get unlinks the head: the new head and tail.                 *)
FirstAfterGet_kept == IF next[work_first] = NULL THEN work_first ELSE next[work_first]
LastAfterGet_kept == work_last
FirstAfterGet == IF next[work_first] = NULL THEN NULL ELSE next[work_first]
LastAfterGet == IF next[work_first] = NULL THEN NULL ELSE work_last

(* jpool_worker, lines 78-80: nothing to do.                               *)
Sleep(w) ==
  /\ Alive
  /\ wpc[w] = "ready"
  /\ work_first = NULL /\ ~stop
  /\ wpc' = [wpc EXCEPT ![w] = "sleep"]
  /\ UNCHANGED <<poolvars, work, mpc, spawned, nadded>>

(* pthread_cond_wait may return without a signal.                          *)
Spurious(w) ==
  /\ Alive
  /\ wpc[w] = "sleep"
  /\ wpc' = [wpc EXCEPT ![w] = "ready"]
  /\ UNCHANGED <<poolvars, work, mpc, spawned, nadded>>

CountedUp_missing == working_cnt
CountedUp == working_cnt + 1

(* jpool_worker, lines 86-88: take the first work.                         *)
Take(w) ==
  /\ Alive
  /\ wpc[w] = "ready"
  /\ work_first # NULL /\ ~stop
  /\ work' = [work EXCEPT ![w] = work_first]
  /\ status' = [status EXCEPT ![work_first] = "running"]
  /\ work_first' = FirstAfterGet
  /\ work_last' = LastAfterGet
  /\ working_cnt' = CountedUp
  /\ wpc' = [wpc EXCEPT ![w] = "run"]
  /\ UNCHANGED <<next, thread_cnt, stop, mpc, spawned, nadded>>

(* jpool_worker, lines 90-102: func returned, the work is freed.           *)
FinishWork(w) ==
  /\ Alive
  /\ wpc[w] = "run"
  /\ status' = [status EXCEPT ![work[w]] = "finished"]
  /\ work' = [work EXCEPT ![w] = NULL]
  /\ working_cnt' = working_cnt - 1
  /\ wpc' = [wpc EXCEPT ![w] = "ready"]
  /\ mpc' = IF ~stop /\ working_cnt' = 0 /\ work_first = NULL
            THEN SignalWorking ELSE mpc
  /\ UNCHANGED <<work_first, work_last, next, thread_cnt, stop, spawned, nadded>>

ThreadsLeft_missing == thread_cnt
ThreadsLeft == thread_cnt - 1

(* jpool_worker, lines 82-84 and 105-107: the thread ends.                 *)
ExitThread(w) ==
  /\ Alive
  /\ wpc[w] = "ready"
  /\ stop
  /\ wpc' = [wpc EXCEPT ![w] = "done"]
  /\ thread_cnt' = ThreadsLeft
  /\ mpc' = SignalWorking
  /\ UNCHANGED <<work_first, work_last, next, status, working_cnt, stop, work,
                 spawned, nadded>>

(* jpool_wait called by the owner of a running pool.                       *)
CallWait ==
  /\ mpc = "idle"
  /\ mpc' = "wait"
  /\ UNCHANGED <<poolvars, wpc, work, spawned, nadded>>

MustWait_works == working_cnt # 0
(* The condition of jpool_wait's loop, line 257.                           *)
MustWait == \/ ~stop /\ working_cnt # 0
            \/ stop /\ thread_cnt # 0

(* One turn of the loop of jpool_wait.                                     *)
WaitTest ==
  /\ mpc = "wait"
  /\ mpc' = CASE MustWait -> "sleep"
              [] ~MustWait /\ stop -> "free"
              [] OTHER -> "idle"
  /\ UNCHANGED <<poolvars, wpc, work, spawned, nadded>>

OwnerSpurious ==
  /\ mpc = "sleep"
  /\ mpc' = "wait"
  /\ UNCHANGED <<poolvars, wpc, work, spawned, nadded>>

AfterDrop == [i \in WorkIds |-> IF status[i] = "queued" THEN "dropped" ELSE status[i]]

(* jpool_destroy up to its call of jpool_wait: the queued works are freed, *)
(* work_first and work_last keep pointing at them.                         *)
Destroy ==
  /\ mpc = "idle"
  /\ status' = AfterDrop
  /\ stop' = TRUE
  /\ wpc' = BroadcastWork
  /\ mpc' = "wait"
  /\ UNCHANGED <<work_first, work_last, next, working_cnt, thread_cnt, work,
                 spawned, nadded>>

(* jpool_destroy after jpool_wait: mutex and conditions destroyed, freed.  *)
FreePool ==
  /\ mpc = "free"
  /\ mpc' = "released"
  /\ UNCHANGED <<poolvars, wpc, work, spawned, nadded>>

(* The pool is gone: the only states in which nothing more happens.        *)
Gone ==
  /\ mpc \in {"released", "failed"}
  /\ UNCHANGED vars

WorkerStep(w) == Sleep(w) \/ Take(w) \/ ExitThread(w)

Next ==
  \/ CreateThread \/ CreateThreadFails
  \/ AddWork \/ CallWait \/ WaitTest \/ OwnerSpurious \/ Destroy \/ FreePool
  \/ \E w \in Workers : WorkerStep(w) \/ FinishWork(w) \/ Spurious(w)
  \/ Gone

Spec == Init /\ [][Next]_vars

(* A thread that can take the mutex eventually does.  A work is only       *)
(* assumed to return once the pool stops: proxy_final closes dst_fd before *)
(* it calls jpool_destroy, and proxy_conn leaves its loop when its next    *)
(* turn (at most TIMEOUT later) finds dst_fd closed.                       *)
Fairness ==
  /\ \A w \in Workers : WF_vars(WorkerStep(w))
  /\ \A w \in Workers : WF_vars(stop /\ FinishWork(w))
  /\ WF_vars(WaitTest)
  /\ WF_vars(FreePool)

FairSpec == Spec /\ Fairness

-----------------------------------------------------------------------------
(* The counters, which jpool_wait and proxy_wait rely on, are exact in     *)
(* every state between critical sections: working_cnt is the number of     *)
(* workers inside a work, thread_cnt the number of threads that have not   *)
(* left jpool_worker (those jpool_init has still to create included).      *)
CountersExact ==
  /\ working_cnt = Cardinality({w \in Workers : wpc[w] = "run"})
  /\ thread_cnt = Cardinality({w \in Workers : wpc[w] # "done"})

(* While the pool runs, the pointers form one list, in the order of the    *)
(* calls of jpool_add_work, of exactly the works that are queued and not   *)
(* freed; an empty list has both ends NULL.                                *)
QueueLinked ==
  ~stop =>
    /\ work_first = NULL => work_last = NULL
    /\ work_first # NULL => work_last = nadded /\ work_first <= work_last
    /\ \A i \in WorkIds :
         /\ status[i] = "queued" <=>
              (work_first # NULL /\ work_first <= i /\ i <= work_last)
         /\ status[i] = "queued" => next[i] = IF i = work_last THEN NULL ELSE i + 1

(* A worker inside a work owns it: it is not freed, and no other worker    *)
(* runs it.                                                                *)
WorksOwned ==
  \A w \in Workers :
    /\ wpc[w] = "run" <=> work[w] # NULL
    /\ work[w] # NULL => status[work[w]] = "running"
    /\ \A v \in Workers : work[w] = work[v] /\ work[w] # NULL => v = w

(* jpool_destroy frees the pool only after every thread has left           *)
(* jpool_worker, so none touches the mutex or the counters afterwards.     *)
PoolOutlivesWorkers ==
  mpc \in {"free", "released"} => \A w \in Workers : wpc[w] = "done"

(* What jpool_init, jpool_destroy and the workers owe each other: works    *)
(* and threads that were not created yet have no state, threads end only   *)
(* after stop, and stop is set exactly by jpool_destroy.                   *)
LifecycleOK ==
  /\ \A i \in WorkIds : status[i] = "none" <=> i > nadded
  /\ \A w \in Workers : wpc[w] = "none" <=> w > spawned
  /\ \A w \in Workers : wpc[w] = "done" => stop
  /\ mpc = "init" => spawned < NThreads /\ nadded = 0
  /\ mpc \in {"init", "idle", "failed"} => ~stop
  /\ mpc \in {"free", "released"} => stop
  /\ stop => \A i \in WorkIds : status[i] # "queued"

(* The inductive invariant of the proofs in JpoolProofs.                   *)
IInv ==
  /\ TypeOK
  /\ LifecycleOK
  /\ CountersExact
  /\ QueueLinked
  /\ WorksOwned
  /\ PoolOutlivesWorkers

(* A work in the queue does not wait for a worker that sleeps: it is       *)
(* taken, or the pool is stopped, or every worker is busy.                 *)
NoLostWakeup ==
  \A i \in WorkIds :
    (work_first = i /\ ~stop /\ mpc # "init")
      ~> (work_first # i \/ stop \/ mpc = "failed" \/ \A w \in Workers : wpc[w] = "run")

(* A call of jpool_wait returns once the pool is idle and has no work.     *)
IdleWaiterReturns ==
  (mpc \in {"wait", "sleep"} /\ ~stop /\ working_cnt = 0 /\ work_first = NULL)
    ~> mpc \notin {"wait", "sleep"}

(* jpool_destroy returns, if the works running when it is called return.   *)
DestroyReturns == stop ~> mpc = "released"

(* The pool implements the abstract work queue.                            *)
Phase == IF mpc \in {"released", "failed"} THEN "released"
         ELSE IF stop THEN "closing" ELSE "open"

WQ == INSTANCE WorkQueue
        WITH submitted <- nadded,
             pending   <- {i \in WorkIds : status[i] = "queued"},
             serving   <- work,
             finished  <- {i \in WorkIds : status[i] = "finished"},
             phase     <- Phase

(* Works are started first come first served, each by one worker, none     *)
(* after jpool_destroy, and the pool is released with no work running.     *)
ImplementsWorkQueue == WQ!Spec
=============================================================================
