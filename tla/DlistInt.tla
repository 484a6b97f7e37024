------------------------------ MODULE DlistInt ------------------------------
(***************************************************************************)
(* The doubly linked list of src/src/proxy/dlist_int.c, as the threads of  *)
(* the proxy use it for fd_list: the main thread appends each accepted fd  *)
(* (proxy_wait, line 396 of proxy.c) and reads the last one back           *)
(* (proxy_add_work_data, line 635); a worker whose connection has ended    *)
(* deletes its fd (proxy_delete_src_info, line 520).                       *)
(*                                                                         *)
(* No lock protects the list, so every assignment to a shared field is a   *)
(* step of its own, taken together with the reads that feed it.            *)
(* With Serial an operation starts only when no other one is under way:    *)
(* what each operation does on its own.  A read or write through NULL or   *)
(* through a freed node is undefined: `undefined' is set and all stops.    *)
(***************************************************************************)
EXTENDS Naturals, Integers, Sequences, FiniteSets, SequencesExt

CONSTANTS
  Workers,   \* the threads of the pool
  MaxFds,    \* bound on the connections accepted: fds 1..MaxFds
  MaxNodes,  \* bound on the list nodes alive at a time
  Serial     \* TRUE: operations do not overlap

ASSUME BoundsAssumption ==
  /\ MaxFds \in Nat /\ MaxNodes \in Nat \ {0}
  /\ Serial \in BOOLEAN
  /\ "main" \notin Workers

VARIABLES
  nxt, prv, dat,  \* the fields of every node, the two dummies included
  alive,          \* nodes malloc has given out
  length,         \* the field `length' of the list
  pc,             \* pc[t]: where thread t is
  loc,            \* loc[t]: its local variables
  accepted,       \* fds accepted so far
  handed,         \* fds given to the pool and not taken by a worker yet
  undefined       \* an access through NULL or a freed node has happened

list == <<nxt, prv, dat, alive, length>>
vars == <<list, pc, loc, accepted, handed, undefined>>

NULL == 0
Nodes == 1..MaxNodes
HEAD == MaxNodes + 1
TAIL == MaxNodes + 2
Cells == Nodes \cup {HEAD, TAIL}
Threads == {"main"} \cup Workers
Fds == 1..MaxFds

(* index_node (or new_node), old_node, the fd asked for, a loaded length.  *)
NoLocals == [node |-> NULL, old |-> NULL, fd |-> 0, len |-> 0]

(* dlist_int_init                                                          *)
Init ==
  /\ nxt = [c \in Cells |-> IF c = HEAD THEN TAIL ELSE NULL]
  /\ prv = [c \in Cells |-> IF c = TAIL THEN HEAD ELSE NULL]
  /\ dat = [c \in Cells |-> 0]
  /\ alive = {}
  /\ length = 0
  /\ pc = [t \in Threads |-> "idle"]
  /\ loc = [t \in Threads |-> NoLocals]
  /\ accepted = 0
  /\ handed = {}
  /\ undefined = FALSE

-----------------------------------------------------------------------------
Between == {"idle", "find"}
MayStart == Serial => \A t \in Threads : pc[t] \in Between

Valid(c) == c \in alive \cup {HEAD, TAIL}

At(t, label) == ~undefined /\ pc[t] = label
Goto(t, label) == pc' = [pc EXCEPT ![t] = label]

(* The access at hand goes through NULL or a freed node.                   *)
Undefine == undefined' = TRUE /\ UNCHANGED <<list, pc, loc, accepted, handed>>

SetNext(c, v) == nxt' = [nxt EXCEPT ![c] = v] /\ UNCHANGED <<prv, dat, alive, length>>
SetPrev(c, v) == prv' = [prv EXCEPT ![c] = v] /\ UNCHANGED <<nxt, dat, alive, length>>

(* Operators named X_y are X with a slip y; no specification uses them:    *)
(* put in the place of X, each breaks one of the properties below.         *)

(* One assignment to a pointer of cell c, then on to the next label.       *)
Assign(t, from, to, Set(_, _), c, v) ==
  /\ At(t, from)
  /\ \/ ~Valid(c) /\ Undefine
     \/ /\ Valid(c)
        /\ Set(c, v)
        /\ Goto(t, to)
        /\ UNCHANGED <<loc, accepted, handed, undefined>>

-----------------------------------------------------------------------------
(* dlist_int_add_node, by the main thread.  Each fd accepted has a number  *)
(* of its own here; the numbers the kernel gives out again, with which     *)
(* fd_list can hold one number twice, are in Proxy, whose RemoveFirst is   *)
(* what the scan of a deletion does then.                                  *)
AddStart ==
  /\ At("main", "idle")
  /\ MayStart
  /\ accepted < MaxFds
  /\ \E n \in Nodes \ alive :
       /\ alive' = alive \cup {n}
       /\ dat' = [dat EXCEPT ![n] = accepted + 1]
       /\ nxt' = [nxt EXCEPT ![n] = NULL]
       /\ prv' = [prv EXCEPT ![n] = NULL]
       /\ loc' = [loc EXCEPT !["main"] = [NoLocals EXCEPT !.node = n, !.fd = accepted + 1]]
  /\ accepted' = accepted + 1
  /\ Goto("main", "add")
  /\ UNCHANGED <<length, handed, undefined>>

(* Lines 59 and 65: the empty and the non-empty case.                      *)
AddTest ==
  /\ At("main", "add")
  /\ Goto("main", IF nxt[HEAD] = TAIL THEN "empty1"
                  ELSE IF prv[TAIL] # NULL THEN "append1" ELSE "find")
  /\ loc' = [loc EXCEPT !["main"].old = prv[TAIL]]
  /\ UNCHANGED <<list, accepted, handed, undefined>>

(* In front of the first node.                                             *)
AddLinks_inFront ==
  LET new == loc["main"].node
      fst == nxt[HEAD]
  IN \/ Assign("main", "empty1", "empty2", SetNext, HEAD, new)
     \/ Assign("main", "empty2", "empty3", SetNext, new, TAIL)
     \/ Assign("main", "empty3", "empty4", SetPrev, new, HEAD)
     \/ Assign("main", "empty4", "count", SetPrev, TAIL, new)
     \/ Assign("main", "append1", "append2", SetNext, new, fst)
     \/ Assign("main", "append2", "append3", SetPrev, new, HEAD)
     \/ Assign("main", "append3", "append4", SetPrev, fst, new)
     \/ Assign("main", "append4", "count", SetNext, HEAD, new)

AddLinks ==
  LET new == loc["main"].node
      old == loc["main"].old
  IN \/ Assign("main", "empty1", "empty2", SetNext, HEAD, new)
     \/ Assign("main", "empty2", "empty3", SetNext, new, TAIL)
     \/ Assign("main", "empty3", "empty4", SetPrev, new, HEAD)
     \/ Assign("main", "empty4", "count", SetPrev, TAIL, new)
     \/ Assign("main", "append1", "append2", SetNext, old, new)
     \/ Assign("main", "append2", "append3", SetPrev, new, old)
     \/ Assign("main", "append3", "append4", SetPrev, TAIL, new)
     \/ Assign("main", "append4", "count", SetNext, new, TAIL)

Change_onlyDown(t) == IF t = "main" THEN 0 ELSE -1
Change_onlyUp(t) == IF t = "main" THEN 1 ELSE 0
Change(t) == IF t = "main" THEN 1 ELSE -1

(* length++ and length-- read the field, then write it.                    *)
Load(t) ==
  /\ At(t, "count")
  /\ loc' = [loc EXCEPT ![t].len = length]
  /\ Goto(t, "store")
  /\ UNCHANGED <<list, accepted, handed, undefined>>

Store(t) ==
  /\ At(t, "store")
  /\ length' = loc[t].len + Change(t)
  /\ Goto(t, IF t = "main" THEN "find" ELSE "idle")
  /\ UNCHANGED <<nxt, prv, dat, alive, loc, accepted, handed, undefined>>

(* dlist_int_find_last_node_data: the fd proxy_add_work_data gives to the  *)
(* pool.                                                                   *)
LastData_first == dat[nxt[HEAD]]
LastData == IF prv[TAIL] # NULL THEN dat[prv[TAIL]] ELSE dat[TAIL]

FindLast ==
  /\ At("main", "find")
  /\ MayStart
  /\ \/ prv[TAIL] # NULL /\ ~Valid(prv[TAIL]) /\ Undefine
     \/ /\ prv[TAIL] # NULL => Valid(prv[TAIL])
        /\ handed' = handed \cup {[got |-> LastData, for |-> loc["main"].fd]}
        /\ Goto("main", "idle")
        /\ UNCHANGED <<list, loc, accepted, undefined>>

-----------------------------------------------------------------------------
(* dlist_int_del_node_by_data, by a worker, for the fd of a connection it  *)
(* was given: lines 116-122.                                               *)
DeleteStart(w) ==
  /\ At(w, "idle")
  /\ MayStart
  /\ \E h \in handed :
       /\ handed' = handed \ {h}
       /\ \/ /\ nxt[HEAD] = NULL
             /\ length' = 0
             /\ UNCHANGED <<pc, loc>>
          \/ /\ nxt[HEAD] # NULL
             /\ loc' = [loc EXCEPT ![w] = [NoLocals EXCEPT !.node = nxt[HEAD], !.fd = h.got]]
             /\ Goto(w, "scan")
             /\ UNCHANGED length
  /\ UNCHANGED <<nxt, prv, dat, alive, accepted, undefined>>

(* Lines 124-125 and 145: compare the data, or go to the next node.        *)
Scan(w) ==
  LET n == loc[w].node IN
  /\ At(w, "scan")
  /\ \/ /\ n = NULL
        /\ Goto(w, "count")
        /\ UNCHANGED <<list, loc, accepted, handed, undefined>>
     \/ n # NULL /\ ~Valid(n) /\ Undefine
     \/ /\ Valid(n) /\ dat[n] = loc[w].fd
        /\ Goto(w, "unlink1")
        /\ UNCHANGED <<list, loc, accepted, handed, undefined>>
     \/ /\ Valid(n) /\ dat[n] # loc[w].fd
        /\ loc' = [loc EXCEPT ![w].node = nxt[n]]
        /\ UNCHANGED <<list, pc, accepted, handed, undefined>>

(* One of the two assignments forgotten.                                   *)
Unlink_nextOnly(w) ==
  LET n == loc[w].node IN Valid(n) /\ Assign(w, "unlink1", "free", SetNext, prv[n], nxt[n])
Unlink_prevOnly(w) ==
  LET n == loc[w].node IN Valid(n) /\ Assign(w, "unlink1", "free", SetPrev, nxt[n], prv[n])

(* Lines 126 and 127; another thread may have freed the node meanwhile.    *)
Unlink(w) ==
  LET n == loc[w].node IN
  /\ pc[w] \in {"unlink1", "unlink2"}
  /\ \/ At(w, pc[w]) /\ ~Valid(n) /\ Undefine
     \/ Valid(n) /\ Assign(w, "unlink1", "unlink2", SetNext, prv[n], nxt[n])
     \/ Valid(n) /\ Assign(w, "unlink2", "free", SetPrev, nxt[n], prv[n])

(* node_int_destroy                                                        *)
Free(w) ==
  LET n == loc[w].node IN
  /\ At(w, "free")
  /\ \/ ~Valid(n) /\ Undefine
     \/ /\ Valid(n)
        /\ alive' = alive \ {n}
        /\ nxt' = [nxt EXCEPT ![n] = NULL]
        /\ prv' = [prv EXCEPT ![n] = NULL]
        /\ Goto(w, "count")
        /\ UNCHANGED <<dat, length, loc, accepted, handed, undefined>>

Quiet == \A t \in Threads : pc[t] = "idle"

(* Every connection accepted and ended, or an undefined access: no more.   *)
Over ==
  /\ undefined \/ (Quiet /\ accepted = MaxFds /\ handed = {})
  /\ UNCHANGED vars

Next ==
  \/ AddStart \/ AddTest \/ AddLinks \/ FindLast
  \/ \E t \in Threads : Load(t) \/ Store(t)
  \/ \E w \in Workers : DeleteStart(w) \/ Scan(w) \/ Unlink(w) \/ Free(w)
  \/ Over

Spec == Init /\ [][Next]_vars

-----------------------------------------------------------------------------
(* The type of every variable.                                             *)
TypeOK ==
  /\ nxt \in [Cells -> Cells \cup {NULL}]
  /\ prv \in [Cells -> Cells \cup {NULL}]
  /\ dat \in [Cells -> {0} \cup Fds]
  /\ alive \subseteq Nodes
  /\ Serial => length \in Nat
  /\ DOMAIN pc = Threads /\ DOMAIN loc = Threads
  /\ accepted \in 0..MaxFds
  /\ handed \subseteq [got : {0} \cup Fds, for : Fds]
  /\ undefined \in BOOLEAN

(* The nodes from head to tail, following next.                            *)
Walk[k \in Nat] == IF k = 0 THEN nxt[HEAD]
                   ELSE LET c == Walk[k - 1] IN IF c \in Nodes THEN nxt[c] ELSE c
Size == CHOOSE k \in 0..MaxNodes + 1 :
          /\ Walk[k] \notin Nodes \/ k = MaxNodes + 1
          /\ \A j \in 0..k - 1 : Walk[j] \in Nodes
Chain == [k \in 1..Size |-> Walk[k - 1]]
ChainData == [k \in 1..Size |-> dat[Chain[k]]]

(* Between operations the links go both ways, from head to tail, and reach *)
(* exactly the nodes that are not freed: no leak and no dangling pointer.  *)
LinksMutual ==
  (Quiet /\ ~undefined) =>
    /\ \A c \in alive \cup {HEAD} : nxt[c] \in alive \cup {TAIL} /\ prv[nxt[c]] = c
    /\ alive = {Chain[k] : k \in 1..Size}

(* Between operations length is the number of nodes of the list, as the    *)
(* comment of the field in dlist_int_l.h:26 says.                          *)
LengthIsNodeCount == (Quiet /\ ~undefined) => length = Size

(* The fd that proxy_add_work_data finds last is the one just accepted.    *)
LastIsAccepted == \A h \in handed : h.got = h.for

(* No operation follows a NULL or freed pointer.                           *)
NeverUndefined == ~undefined

Ending == {loc[w].fd : w \in {v \in Workers : pc[v] \in {"scan", "unlink1"}}}

Registry == INSTANCE FdList WITH fds <- ChainData, ending <- Ending

(* The list implements the registry of fds.                                *)
ImplementsFdList == Registry!Spec
=============================================================================
