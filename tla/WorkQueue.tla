----------------------------- MODULE WorkQueue -----------------------------
(***************************************************************************)
(* What the thread pool of src/src/proxy/jpool.c promises to proxy.c:      *)
(* works are numbered in the order they are submitted, each is started by  *)
(* one worker, oldest first, while the pool is open; closing the pool      *)
(* drops the works nobody has started; the pool is released only when no   *)
(* worker serves a work any more.                                          *)
(***************************************************************************)
EXTENDS Naturals

CONSTANTS Workers,   \* the threads of the pool
          MaxWorks   \* bound on the works submitted

VARIABLES submitted, \* how many works were submitted
          pending,   \* works no worker has started
          serving,   \* serving[w]: the work of worker w, 0 when it has none
          finished,  \* works whose function returned
          phase      \* "open", "closing" or "released"

vars == <<submitted, pending, serving, finished, phase>>

NoWork == 0
WorkIds == 1..MaxWorks

Init ==
  /\ submitted = 0
  /\ pending = {}
  /\ serving = [w \in Workers |-> NoWork]
  /\ finished = {}
  /\ phase = "open"

Submit ==
  /\ phase = "open"
  /\ submitted < MaxWorks
  /\ submitted' = submitted + 1
  /\ pending' = pending \cup {submitted + 1}
  /\ UNCHANGED <<serving, finished, phase>>

(* A worker without a work starts the oldest pending one.                  *)
Start(w) ==
  /\ phase = "open"
  /\ serving[w] = NoWork
  /\ \E i \in pending :
       /\ \A j \in pending : i <= j
       /\ pending' = pending \ {i}
       /\ serving' = [serving EXCEPT ![w] = i]
  /\ UNCHANGED <<submitted, finished, phase>>

Complete(w) ==
  /\ serving[w] # NoWork
  /\ phase # "released"
  /\ finished' = finished \cup {serving[w]}
  /\ serving' = [serving EXCEPT ![w] = NoWork]
  /\ UNCHANGED <<submitted, pending, phase>>

Close ==
  /\ phase = "open"
  /\ phase' = "closing"
  /\ pending' = {}
  /\ UNCHANGED <<submitted, serving, finished>>

Release ==
  /\ phase = "closing"
  /\ \A w \in Workers : serving[w] = NoWork
  /\ phase' = "released"
  /\ UNCHANGED <<submitted, pending, serving, finished>>

(* The pool could not be built: it never accepted a work.                  *)
Abandon ==
  /\ phase = "open"
  /\ submitted = 0
  /\ phase' = "released"
  /\ UNCHANGED <<submitted, pending, serving, finished>>

Next ==
  \/ Submit
  \/ Close
  \/ Release
  \/ Abandon
  \/ \E w \in Workers : Start(w) \/ Complete(w)

Spec == Init /\ [][Next]_vars
=============================================================================
