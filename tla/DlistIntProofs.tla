--------------------------- MODULE DlistIntProofs ---------------------------
(***************************************************************************)
(* Proofs about DlistInt for any number of workers, descriptors and nodes, *)
(* when the operations do not overlap (Serial = TRUE): that none follows a *)
(* NULL or freed pointer, and that main reads back the descriptor it has   *)
(* appended; then, from the chain of nodes from head to tail, the types,   *)
(* that the chain is the nodes not freed and length their number, and that *)
(* every assignment of an operation is a step of the registry of FdList or *)
(* none.  With overlap all of it is lost.                                  *)
(***************************************************************************)
EXTENDS DlistInt, ListLemmas

(* The links of a set of nodes go both ways, from HEAD to TAIL.            *)
Linked(nx, pv, nodes) ==
  /\ \A c \in nodes \cup {HEAD} : nx[c] \in nodes \cup {TAIL} /\ pv[nx[c]] = c
  /\ \A c \in nodes \cup {TAIL} : pv[c] \in nodes \cup {HEAD} /\ nx[pv[c]] = c

MainLabels ==
  {"idle", "add", "empty1", "empty2", "empty3", "empty4",
   "append1", "append2", "append3", "append4", "count", "store", "find"}
WorkerLabels == {"idle", "scan", "unlink1", "unlink2", "free", "count", "store"}
Linking ==
  {"empty1", "empty2", "empty3", "empty4", "append1", "append2", "append3", "append4"}
Unlinking == {"unlink1", "unlink2", "free"}

Locals == [node : Cells \cup {NULL}, old : Cells \cup {NULL}, fd : {0} \cup Fds, len : Int]

FieldsTyped ==
  /\ nxt \in [Cells -> Cells \cup {NULL}] /\ prv \in [Cells -> Cells \cup {NULL}]
  /\ dat \in [Cells -> {0} \cup Fds] /\ dat[TAIL] = 0 /\ nxt[TAIL] = NULL
  /\ alive \subseteq Nodes
  /\ length \in Int /\ accepted \in 0..MaxFds

ThreadsTyped ==
  /\ pc \in [Threads -> MainLabels \cup WorkerLabels]
  /\ pc["main"] \in MainLabels /\ \A w \in Workers : pc[w] \in WorkerLabels
  /\ loc \in [Threads -> Locals]

(* One operation at a time.                                                *)
Alone == \A t, u \in Threads : pc[t] \notin Between /\ pc[u] \notin Between => t = u

new == loc["main"].node
old == loc["main"].old

(* An append: the list without the new node before the first assignment;   *)
(* from then on the list that the assignments still to come will make,     *)
(* where those already done change nothing.                                *)
Appending ==
  /\ pc["main"] \in {"add"} \cup Linking => new \in alive /\ dat[new] = accepted
  /\ pc["main"] = "add" => Linked(nxt, prv, alive \ {new})
  /\ pc["main"] \in Linking =>
       /\ old \in (alive \ {new}) \cup {HEAD}
       /\ Linked([nxt EXCEPT ![old] = new, ![new] = TAIL],
                 [prv EXCEPT ![new] = old, ![TAIL] = new], alive)
  /\ pc["main"] \in {"empty1", "empty2", "empty3", "empty4"} => old = HEAD
  /\ pc["main"] \in {"empty2", "empty3", "empty4", "append2", "append3", "append4"}
       => nxt[old] = new
  /\ pc["main"] \in {"empty3", "empty4"} => nxt[new] = TAIL
  /\ pc["main"] \in {"empty4", "append3", "append4"} => prv[new] = old
  /\ pc["main"] = "append4" => prv[TAIL] = new
  /\ pc["main"] \in {"count", "store", "find"} =>
       prv[TAIL] \in alive /\ dat[prv[TAIL]] = accepted
  /\ pc["main"] # "idle" => loc["main"].fd = accepted /\ accepted # 0

(* A deletion, in the same way.                                            *)
Deleting(w) ==
  LET n == loc[w].node IN
  /\ pc[w] = "scan" => n \in alive \cup {TAIL, NULL}
  /\ pc[w] \in Unlinking =>
       /\ n \in alive /\ dat[n] = loc[w].fd
       /\ nxt[n] \in alive \cup {TAIL} /\ prv[n] \in alive \cup {HEAD}
       /\ Linked([nxt EXCEPT ![prv[n]] = nxt[n]], [prv EXCEPT ![nxt[n]] = prv[n]],
                 alive \ {n})
  /\ pc[w] \in {"unlink1", "unlink2"} /\ nxt[n] = TAIL => prv[TAIL] = n
  /\ pc[w] \in {"unlink2", "free"} => nxt[prv[n]] = nxt[n]
  /\ pc[w] = "free" => prv[nxt[n]] = prv[n]

Untouched ==
  pc["main"] \notin {"add"} \cup Linking /\ (\A w \in Workers : pc[w] \notin Unlinking)
    => Linked(nxt, prv, alive)

(* A descriptor is given to one worker, and main's not before main is done.*)
OwnFds ==
  /\ \A h \in handed : /\ h.got = h.for /\ h.for \in 1..accepted
                       /\ pc["main"] # "idle" => h.for # accepted
  /\ \A w \in Workers : pc[w] \in {"scan"} \cup Unlinking =>
       loc[w].fd \in 1..accepted /\ (pc["main"] # "idle" => loc[w].fd # accepted)

LInv ==
  /\ FieldsTyped /\ ThreadsTyped /\ Alone /\ Untouched
  /\ Appending /\ (\A w \in Workers : Deleting(w))
  /\ OwnFds /\ ~undefined

-----------------------------------------------------------------------------
(* Facts about links.                                                      *)

LEMMA CellFacts ==
  /\ HEAD \in Cells /\ TAIL \in Cells /\ HEAD # TAIL /\ NULL \notin Cells
  /\ HEAD \notin Nodes /\ TAIL \notin Nodes /\ Nodes \subseteq Cells
BY BoundsAssumption DEF HEAD, TAIL, NULL, Cells, Nodes

(* Only what stands at the nodes and the two dummies matters.              *)
LEMMA LinkedSame ==
  ASSUME NEW nx, NEW pv, NEW nx1, NEW pv1, NEW A, Linked(nx, pv, A),
         \A c \in A \cup {HEAD} : nx1[c] = nx[c],
         \A c \in A \cup {TAIL} : pv1[c] = pv[c]
  PROVE  Linked(nx1, pv1, A)
BY DEF Linked

LEMMA InsertLinked ==
  ASSUME NEW nx \in [Cells -> Cells \cup {NULL}], NEW pv \in [Cells -> Cells \cup {NULL}],
         NEW A, A \subseteq Nodes, NEW n \in Nodes \ A, Linked(nx, pv, A), NEW o, o = pv[TAIL]
  PROVE  /\ o \in A \cup {HEAD}
         /\ Linked([nx EXCEPT ![o] = n, ![n] = TAIL], [pv EXCEPT ![n] = o, ![TAIL] = n],
                   A \cup {n})
<1> DEFINE nx1 == [nx EXCEPT ![o] = n, ![n] = TAIL]
           pv1 == [pv EXCEPT ![n] = o, ![TAIL] = n]
<1>1. o \in A \cup {HEAD} /\ nx[o] = TAIL /\ o # n /\ n # TAIL /\ n # HEAD /\ o # TAIL
  BY CellFacts DEF Linked
<1>2. o \in Cells /\ n \in Cells /\ TAIL \in Cells
  BY <1>1, CellFacts
<1>3. /\ nx1[o] = n /\ nx1[n] = TAIL /\ pv1[n] = o /\ pv1[TAIL] = n
      /\ \A c \in Cells : c # o /\ c # n => nx1[c] = nx[c]
      /\ \A c \in Cells : c # n /\ c # TAIL => pv1[c] = pv[c]
  BY <1>1, <1>2
<1> HIDE DEF nx1, pv1
<1>4. ASSUME NEW c \in A \cup {n, HEAD}
      PROVE  nx1[c] \in A \cup {n, TAIL} /\ pv1[nx1[c]] = c
  <2>1. CASE c = o \/ c = n
    BY <1>1, <1>3, <2>1
  <2>2. CASE c # o /\ c # n
    <3>1. c \in A \cup {HEAD} /\ nx[c] \in A \cup {TAIL} /\ pv[nx[c]] = c /\ c \in Cells
      BY <2>2, CellFacts DEF Linked
    <3>2. nx[c] # TAIL /\ nx[c] # n /\ nx[c] \in Cells
      BY <2>2, <3>1, CellFacts
    <3> QED  BY <1>3, <2>2, <3>1, <3>2
  <2> QED  BY <2>1, <2>2
<1>5. ASSUME NEW c \in A \cup {n, TAIL}
      PROVE  pv1[c] \in A \cup {n, HEAD} /\ nx1[pv1[c]] = c
  <2>1. CASE c = TAIL \/ c = n
    BY <1>1, <1>3, <2>1
  <2>2. CASE c # TAIL /\ c # n
    <3>1. c \in A /\ pv[c] \in A \cup {HEAD} /\ nx[pv[c]] = c /\ c \in Cells
      BY <2>2, CellFacts DEF Linked
    <3>2. pv[c] # o /\ pv[c] # n /\ pv[c] \in Cells
      BY <1>1, <2>2, <3>1, CellFacts
    <3> QED  BY <1>3, <2>2, <3>1, <3>2
  <2> QED  BY <2>1, <2>2
<1> QED  BY <1>1, <1>4, <1>5 DEF Linked, nx1, pv1

LEMMA RemoveLinked ==
  ASSUME NEW nx \in [Cells -> Cells \cup {NULL}], NEW pv \in [Cells -> Cells \cup {NULL}],
         NEW A, A \subseteq Nodes, NEW n \in A, Linked(nx, pv, A)
  PROVE  Linked([nx EXCEPT ![pv[n]] = nx[n]], [pv EXCEPT ![nx[n]] = pv[n]], A \ {n})
<1> DEFINE a == pv[n]
           b == nx[n]
           nx1 == [nx EXCEPT ![a] = b]
           pv1 == [pv EXCEPT ![b] = a]
<1>1. /\ a \in A \cup {HEAD} /\ b \in A \cup {TAIL} /\ nx[a] = n /\ pv[b] = n
      /\ a \in Cells /\ b \in Cells /\ n # HEAD /\ n # TAIL
  BY CellFacts DEF Linked
<1>2. /\ nx1[a] = b /\ \A c \in Cells : c # a => nx1[c] = nx[c]
      /\ pv1[b] = a /\ \A c \in Cells : c # b => pv1[c] = pv[c]
  BY <1>1
<1>3. a = n <=> b = n
  BY <1>1
<1> HIDE DEF nx1, pv1, a, b
<1>4. ASSUME NEW c \in (A \ {n}) \cup {HEAD}
      PROVE  nx1[c] \in (A \ {n}) \cup {TAIL} /\ pv1[nx1[c]] = c
  <2>1. c \in Cells /\ nx[c] \in A \cup {TAIL} /\ pv[nx[c]] = c /\ c # n
    BY <1>1, CellFacts DEF Linked
  <2>2. CASE c = a
    BY <1>1, <1>2, <1>3, <2>1, <2>2
  <2>3. CASE c # a
    <3>1. nx[c] # n /\ nx[c] # b /\ nx[c] \in Cells
      BY <1>1, <2>1, <2>3, CellFacts DEF a
    <3> QED  BY <1>2, <2>1, <2>3, <3>1
  <2> QED  BY <2>2, <2>3
<1>5. ASSUME NEW c \in (A \ {n}) \cup {TAIL}
      PROVE  pv1[c] \in (A \ {n}) \cup {HEAD} /\ nx1[pv1[c]] = c
  <2>1. c \in Cells /\ pv[c] \in A \cup {HEAD} /\ nx[pv[c]] = c /\ c # n
    BY <1>1, CellFacts DEF Linked
  <2>2. CASE c = b
    BY <1>1, <1>2, <1>3, <2>1, <2>2
  <2>3. CASE c # b
    <3>1. pv[c] # n /\ pv[c] # a /\ pv[c] \in Cells
      BY <1>1, <2>1, <2>3, CellFacts DEF b
    <3> QED  BY <1>2, <2>1, <2>3, <3>1
  <2> QED  BY <2>2, <2>3
<1> QED  BY <1>4, <1>5 DEF Linked, nx1, pv1, a, b

-----------------------------------------------------------------------------
(* One operation at a time.                                                *)

LEMMA ThreadFacts ==
  "main" \in Threads /\ Workers \subseteq Threads /\ \A w \in Workers : w # "main"
BY BoundsAssumption DEF Threads

LEMMA MainAlone ==
  ASSUME LInv, Serial, pc["main"] \notin Between \/ MayStart
  PROVE  \A w \in Workers : pc[w] = "idle"
BY ThreadFacts DEF LInv, Alone, MayStart, Between, ThreadsTyped, WorkerLabels

LEMMA WorkerAlone ==
  ASSUME LInv, Serial, NEW w \in Workers, pc[w] \notin Between \/ MayStart
  PROVE  /\ \A v \in Workers \ {w} : pc[v] = "idle"
         /\ pc["main"] \in {"idle", "find"}
BY ThreadFacts DEF LInv, Alone, MayStart, Between, ThreadsTyped, WorkerLabels

LEMMA AloneKept ==
  ASSUME ThreadsTyped, NEW t \in Threads, \A u \in Threads \ {t} : pc[u] \in Between,
         NEW label, pc' = [pc EXCEPT ![t] = label]
  PROVE  Alone'
BY DEF Alone, ThreadsTyped

LEMMA InitList == Init => LInv
<1> SUFFICES ASSUME Init PROVE LInv
  OBVIOUS
<1>1. FieldsTyped
  BY CellFacts, BoundsAssumption DEF Init, FieldsTyped
<1>2. ThreadsTyped
  BY ThreadFacts DEF Init, ThreadsTyped, MainLabels, WorkerLabels, Locals, NoLocals
<1>3. Linked(nxt, prv, {})
  BY CellFacts DEF Init, Linked
<1>4. Untouched
  BY <1>3 DEF Init, Untouched
<1>5. Appending /\ (\A w \in Workers : Deleting(w)) /\ OwnFds /\ Alone
  BY ThreadFacts DEF Init, Appending, Deleting, OwnFds, Alone, Between, Linking, Unlinking
<1> QED  BY <1>1, <1>2, <1>4, <1>5 DEF LInv, Init

(* What a step of main has to show while the workers are idle.             *)
LEMMA MainStep ==
  ASSUME LInv, \A w \in Workers : pc[w] = "idle",
         NEW label \in MainLabels, pc' = [pc EXCEPT !["main"] = label],
         loc' \in [Threads -> Locals], FieldsTyped', ~undefined', Appending',
         label \notin {"add"} \cup Linking => Linked(nxt', prv', alive'),
         \A h \in handed' : /\ h.got = h.for /\ h.for \in 1..accepted'
                            /\ label # "idle" => h.for # accepted'
  PROVE  LInv'
<1>1. pc'["main"] = label /\ \A w \in Workers : pc'[w] = "idle"
  BY ThreadFacts DEF LInv, ThreadsTyped
<1>2. ThreadsTyped'
  BY <1>1, ThreadFacts DEF LInv, ThreadsTyped, WorkerLabels
<1>3. Alone'
  <2>1. \A u \in Threads \ {"main"} : pc[u] \in Between
    BY DEF Threads, Between
  <2> QED  BY <2>1, ThreadFacts, AloneKept DEF LInv
<1>4. Untouched'
  BY <1>1 DEF Untouched
<1>5. (\A w \in Workers : Deleting(w))' /\ OwnFds'
  BY <1>1 DEF Deleting, OwnFds, Unlinking
<1> QED  BY <1>2, <1>3, <1>4, <1>5 DEF LInv

(* What a step of a worker has to show while the others are idle and main  *)
(* is at most about to read its descriptor back.                           *)
LEMMA WorkerStep ==
  ASSUME LInv, NEW w \in Workers, \A v \in Workers \ {w} : pc[v] = "idle",
         pc["main"] \in {"idle", "find"},
         NEW label \in WorkerLabels, pc' = [pc EXCEPT ![w] = label],
         NEW l \in Locals, loc' = [loc EXCEPT ![w] = l],
         FieldsTyped', ~undefined', accepted' = accepted, handed' \subseteq handed,
         Deleting(w)', label \notin Unlinking => Linked(nxt', prv', alive'),
         pc["main"] = "find" => prv'[TAIL] \in alive' /\ dat'[prv'[TAIL]] = accepted,
         label \in {"scan"} \cup Unlinking =>
           l.fd \in 1..accepted /\ (pc["main"] # "idle" => l.fd # accepted)
  PROVE  LInv'
<1>1. /\ pc'[w] = label /\ pc'["main"] = pc["main"] /\ loc'["main"] = loc["main"]
      /\ loc'[w] = l /\ \A v \in Workers \ {w} : pc'[v] = "idle"
  BY ThreadFacts DEF LInv, ThreadsTyped
<1>2. ThreadsTyped'
  BY <1>1, ThreadFacts DEF LInv, ThreadsTyped, WorkerLabels
<1>3. Alone'
  <2>1. \A u \in Threads \ {w} : pc[u] \in Between
    BY DEF Threads, Between
  <2> QED  BY <2>1, ThreadFacts, AloneKept DEF LInv
<1>4. Untouched'
  BY <1>1 DEF Untouched
<1>5. ASSUME NEW v \in Workers PROVE Deleting(v)'
  <2>1. CASE v = w
    BY <2>1
  <2>2. CASE v # w
    <3>1. pc'[v] = "idle"
      BY <1>1, <2>2
    <3> QED  BY <3>1 DEF Deleting, Unlinking
  <2> QED  BY <2>1, <2>2
<1>6. OwnFds'
  BY <1>1 DEF LInv, OwnFds, Unlinking
<1>7. Appending'
  BY <1>1 DEF LInv, Appending, new, old, Linking
<1> QED  BY <1>2, <1>3, <1>4, <1>5, <1>6, <1>7 DEF LInv

-----------------------------------------------------------------------------
(* Main appends.                                                           *)

LEMMA AddStartStep == ASSUME LInv, Serial, AddStart PROVE LInv'
<1>1. PICK n \in Nodes \ alive :
        /\ alive' = alive \cup {n}
        /\ dat' = [dat EXCEPT ![n] = accepted + 1]
        /\ nxt' = [nxt EXCEPT ![n] = NULL]
        /\ prv' = [prv EXCEPT ![n] = NULL]
        /\ loc' = [loc EXCEPT !["main"] = [NoLocals EXCEPT !.node = n, !.fd = accepted + 1]]
  BY DEF AddStart
<1>2. /\ pc["main"] = "idle" /\ MayStart /\ accepted < MaxFds /\ accepted' = accepted + 1
      /\ pc' = [pc EXCEPT !["main"] = "add"] /\ UNCHANGED <<length, handed, undefined>>
  BY DEF AddStart, At, Goto
<1>3. \A w \in Workers : pc[w] = "idle"
  BY <1>2, MainAlone
<1>4. accepted' \in 0..MaxFds /\ accepted' \in Fds
  BY <1>2, BoundsAssumption DEF LInv, FieldsTyped, Fds
<1>5. n \in Cells /\ n # TAIL /\ n # HEAD
  BY CellFacts
<1>6. FieldsTyped'
  BY <1>1, <1>2, <1>4, <1>5, CellFacts DEF LInv, FieldsTyped
<1>7. /\ loc' \in [Threads -> Locals]
      /\ loc'["main"].node = n /\ loc'["main"].fd = accepted'
  <2> DEFINE l == [NoLocals EXCEPT !.node = n, !.fd = accepted + 1]
  <2>1. NoLocals \in Locals
    BY DEF NoLocals, Locals
  <2>2. l \in Locals /\ l.node = n /\ l.fd = accepted'
    BY <1>2, <1>4, <1>5, <2>1 DEF Locals
  <2>3. loc' = [loc EXCEPT !["main"] = l]
    BY <1>1
  <2> HIDE DEF l
  <2> QED  BY <2>2, <2>3, ThreadFacts DEF LInv, ThreadsTyped
<1>8. Linked(nxt', prv', alive)
  <2>1. Linked(nxt, prv, alive)
    BY <1>2, <1>3 DEF LInv, Untouched, Linking, Unlinking
  <2>2. \A c \in alive \cup {HEAD, TAIL} : nxt'[c] = nxt[c] /\ prv'[c] = prv[c]
    BY <1>1, <1>5, CellFacts DEF LInv, FieldsTyped
  <2> QED  BY <2>1, <2>2, LinkedSame
<1>9. alive' \ {n} = alive
  BY <1>1
<1>10. Appending'
  <2>1. pc'["main"] = "add"
    BY <1>2, ThreadFacts DEF LInv, ThreadsTyped
  <2>2. n \in alive' /\ dat'[n] = accepted' /\ accepted' # 0
    BY <1>1, <1>2, <1>5 DEF LInv, FieldsTyped
  <2> QED  BY <1>7, <1>8, <1>9, <2>1, <2>2 DEF Appending, Linking, new, old
<1>11. \A h \in handed' : /\ h.got = h.for /\ h.for \in 1..accepted' /\ h.for # accepted'
  BY <1>2 DEF LInv, OwnFds, FieldsTyped
<1> QED  BY <1>2, <1>3, <1>6, <1>7, <1>10, <1>11, MainStep DEF LInv, MainLabels, Linking

LEMMA AddTestStep == ASSUME LInv, Serial, AddTest PROVE LInv'
<1> DEFINE n == new
           o == prv[TAIL]
           A == alive \ {n}
           label == IF nxt[HEAD] = TAIL THEN "empty1"
                    ELSE IF prv[TAIL] # NULL THEN "append1" ELSE "find"
<1>1. /\ pc["main"] = "add" /\ pc' = [pc EXCEPT !["main"] = label]
      /\ loc' = [loc EXCEPT !["main"].old = o]
      /\ UNCHANGED <<list, accepted, handed, undefined>>
  BY DEF AddTest, At, Goto
<1>2. \A w \in Workers : pc[w] = "idle"
  BY <1>1, MainAlone DEF Between
<1>3. n \in alive /\ dat[n] = accepted /\ Linked(nxt, prv, A) /\ loc["main"].fd = accepted
      /\ accepted # 0
  BY <1>1 DEF LInv, Appending
<1>4. n \in Nodes \ A /\ A \subseteq Nodes /\ A \cup {n} = alive
  BY <1>3 DEF LInv, FieldsTyped
<1>5. /\ o \in A \cup {HEAD}
      /\ Linked([nxt EXCEPT ![o] = n, ![n] = TAIL], [prv EXCEPT ![n] = o, ![TAIL] = n], alive)
  <2>1. nxt \in [Cells -> Cells \cup {NULL}] /\ prv \in [Cells -> Cells \cup {NULL}]
    BY DEF LInv, FieldsTyped
  <2> HIDE DEF n, A
  <2> QED  BY <1>3, <1>4, <2>1, InsertLinked
<1>6. label \in {"empty1", "append1"} /\ (label = "empty1" => o = HEAD)
  <2>1. o # NULL
    BY <1>4, <1>5, CellFacts
  <2>2. nxt[HEAD] = TAIL => o = HEAD
    BY <1>3 DEF Linked
  <2> QED  BY <2>1, <2>2
<1>7. o \in Cells
  BY <1>4, <1>5, CellFacts
<1>8. /\ loc' \in [Threads -> Locals] /\ loc'["main"].node = n
      /\ loc'["main"].old = o /\ loc'["main"].fd = accepted
  BY <1>1, <1>3, <1>7, ThreadFacts DEF LInv, ThreadsTyped, Locals, new
<1>9. FieldsTyped'
  BY <1>1 DEF LInv, FieldsTyped, list
<1>10. Appending'
  <2>1. pc'["main"] \in {"empty1", "append1"} /\ (pc'["main"] = "empty1" => o = HEAD)
    BY <1>1, <1>6, ThreadFacts DEF LInv, ThreadsTyped
  <2>2. new' = n /\ old' = o
    BY <1>8 DEF new, old
  <2>3. UNCHANGED <<nxt, prv, dat, alive, accepted>>
    BY <1>1 DEF list
  <2> HIDE DEF n, o
  <2> QED  BY <1>3, <1>5, <1>8, <2>1, <2>2, <2>3 DEF Appending, Linking
<1>11. \A h \in handed' : h.got = h.for /\ h.for \in 1..accepted' /\ h.for # accepted'
  BY <1>1 DEF LInv, OwnFds
<1>12. ~undefined'
  BY <1>1 DEF LInv
<1>13. label \in MainLabels /\ label \in Linking
  BY <1>6 DEF MainLabels, Linking
<1> HIDE DEF label
<1> QED  BY <1>1, <1>2, <1>8, <1>9, <1>10, <1>11, <1>12, <1>13, MainStep

(* One of the eight assignments of an append: each does a part of the      *)
(* insertion and leaves the rest as it was.                                *)
LEMMA AddLinksStep == ASSUME LInv, Serial, AddLinks PROVE LInv'
<1> DEFINE n == new
           o == old
           inserted == Linked([nxt EXCEPT ![o] = n, ![n] = TAIL],
                              [prv EXCEPT ![n] = o, ![TAIL] = n], alive)
<1>1. pc["main"] \in Linking /\ ~undefined
  BY DEF AddLinks, Assign, At, Linking
<1>2. \A w \in Workers : pc[w] = "idle"
  BY <1>1, MainAlone DEF Between, Linking
<1>3. /\ n \in alive /\ dat[n] = accepted /\ inserted /\ loc["main"].fd = accepted
      /\ accepted # 0
      /\ o \in (alive \ {n}) \cup {HEAD}
  BY <1>1 DEF LInv, Appending, Linking
<1>4. /\ n \in Cells /\ o \in Cells /\ n # o /\ n # HEAD /\ n # TAIL /\ o # TAIL
      /\ Valid(n) /\ Valid(o) /\ Valid(HEAD) /\ Valid(TAIL)
  BY <1>3, CellFacts DEF LInv, FieldsTyped, Valid
<1>5. UNCHANGED <<dat, alive, length, loc, accepted, handed, undefined>>
  BY <1>4 DEF AddLinks, Assign, SetNext, SetPrev, new, old
<1>6. \E label \in Linking \cup {"count"} : pc' = [pc EXCEPT !["main"] = label]
  BY <1>4 DEF AddLinks, Assign, Goto, Linking, new, old
<1>7. PICK label \in Linking \cup {"count"} : pc' = [pc EXCEPT !["main"] = label]
  BY <1>6
<1>8. pc'["main"] = label
  BY <1>7, ThreadFacts DEF LInv, ThreadsTyped
<1>9. \/ /\ pc["main"] = "empty1" /\ label = "empty2"
         /\ nxt' = [nxt EXCEPT ![HEAD] = n] /\ prv' = prv
      \/ /\ pc["main"] = "empty2" /\ label = "empty3"
         /\ nxt' = [nxt EXCEPT ![n] = TAIL] /\ prv' = prv
      \/ /\ pc["main"] = "empty3" /\ label = "empty4"
         /\ prv' = [prv EXCEPT ![n] = HEAD] /\ nxt' = nxt
      \/ /\ pc["main"] = "empty4" /\ label = "count"
         /\ prv' = [prv EXCEPT ![TAIL] = n] /\ nxt' = nxt
      \/ /\ pc["main"] = "append1" /\ label = "append2"
         /\ nxt' = [nxt EXCEPT ![o] = n] /\ prv' = prv
      \/ /\ pc["main"] = "append2" /\ label = "append3"
         /\ prv' = [prv EXCEPT ![n] = o] /\ nxt' = nxt
      \/ /\ pc["main"] = "append3" /\ label = "append4"
         /\ prv' = [prv EXCEPT ![TAIL] = n] /\ nxt' = nxt
      \/ /\ pc["main"] = "append4" /\ label = "count"
         /\ nxt' = [nxt EXCEPT ![n] = TAIL] /\ prv' = prv
  BY <1>1, <1>4, <1>8, ThreadFacts
     DEF AddLinks, Assign, At, Goto, SetNext, SetPrev, new, old, LInv, ThreadsTyped
<1>10. /\ nxt \in [Cells -> Cells \cup {NULL}] /\ prv \in [Cells -> Cells \cup {NULL}]
       /\ HEAD \in Cells /\ TAIL \in Cells
  BY CellFacts DEF LInv, FieldsTyped
<1>11. /\ pc["main"] \in {"empty1", "empty2", "empty3", "empty4"} => o = HEAD
       /\ pc["main"] \in {"empty2", "empty3", "empty4", "append2", "append3", "append4"}
            => nxt[o] = n
       /\ pc["main"] \in {"empty3", "empty4"} => nxt[n] = TAIL
       /\ pc["main"] \in {"empty4", "append3", "append4"} => prv[n] = o
       /\ pc["main"] = "append4" => prv[TAIL] = n
  BY DEF LInv, Appending
<1>12. new' = n /\ old' = o
  BY <1>5 DEF new, old
<1> HIDE DEF n, o
<1>13. /\ nxt' \in [Cells -> Cells \cup {NULL}] /\ prv' \in [Cells -> Cells \cup {NULL}]
       /\ nxt'[TAIL] = NULL
  BY <1>4, <1>9, <1>10, CellFacts DEF LInv, FieldsTyped
<1>14. FieldsTyped'
  BY <1>5, <1>13 DEF LInv, FieldsTyped
<1>15. /\ [nxt' EXCEPT ![o] = n, ![n] = TAIL] = [nxt EXCEPT ![o] = n, ![n] = TAIL]
       /\ [prv' EXCEPT ![n] = o, ![TAIL] = n] = [prv EXCEPT ![n] = o, ![TAIL] = n]
  BY <1>4, <1>9, <1>10, <1>11
<1>16. /\ label \in {"empty1", "empty2", "empty3", "empty4"} => o = HEAD
       /\ label \in {"empty2", "empty3", "empty4", "append2", "append3", "append4", "count"}
            => nxt'[o] = n
       /\ label \in {"empty3", "empty4", "count"} => nxt'[n] = TAIL
       /\ label \in {"empty4", "append3", "append4", "count"} => prv'[n] = o
       /\ label \in {"append4", "count"} => prv'[TAIL] = n
  BY <1>4, <1>9, <1>10, <1>11
<1>17. label = "count" => Linked(nxt', prv', alive)
  <2> SUFFICES ASSUME label = "count" PROVE Linked(nxt', prv', alive)
    OBVIOUS
  <2>1. nxt' = [nxt' EXCEPT ![o] = n, ![n] = TAIL]
    BY <1>4, <1>13, <1>16
  <2>2. prv' = [prv' EXCEPT ![n] = o, ![TAIL] = n]
    BY <1>4, <1>13, <1>16
  <2> QED  BY <1>3, <1>15, <2>1, <2>2
<1>18. Appending'
  <2>1. label \in Linking => Linked([nxt' EXCEPT ![o] = n, ![n] = TAIL],
                                    [prv' EXCEPT ![n] = o, ![TAIL] = n], alive)
    BY <1>3, <1>15
  <2>2. label # "add" /\ label # "store" /\ label # "find" /\ label # "idle"
    BY <1>7 DEF Linking
  <2> QED  BY <1>3, <1>5, <1>8, <1>12, <1>16, <2>1, <2>2 DEF Appending
<1>19. \A h \in handed' : h.got = h.for /\ h.for \in 1..accepted' /\ h.for # accepted'
  BY <1>1, <1>5 DEF LInv, OwnFds, Linking
<1>20. label \in MainLabels /\ label # "idle"
  BY <1>7 DEF MainLabels, Linking
<1>21. loc' \in [Threads -> Locals] /\ ~undefined'
  BY <1>5 DEF LInv, ThreadsTyped
<1>22. label \notin {"add"} \cup Linking => Linked(nxt', prv', alive')
  BY <1>5, <1>7, <1>17
<1> QED  BY <1>2, <1>7, <1>14, <1>18, <1>19, <1>20, <1>21, <1>22, MainStep

(* Main reads the last descriptor back: it is its own.                     *)
LEMMA FindLastStep == ASSUME LInv, Serial, FindLast PROVE LInv'
<1>1. pc["main"] = "find" /\ MayStart
  BY DEF FindLast, At
<1>2. \A w \in Workers : pc[w] = "idle"
  BY <1>1, MainAlone
<1>3. prv[TAIL] \in alive /\ dat[prv[TAIL]] = accepted /\ loc["main"].fd = accepted
  BY <1>1 DEF LInv, Appending
<1>4. Valid(prv[TAIL]) /\ prv[TAIL] # NULL /\ LastData = accepted
  BY <1>3, CellFacts DEF LInv, FieldsTyped, Valid, LastData
<1>5. /\ handed' = handed \cup {[got |-> accepted, for |-> accepted]}
      /\ pc' = [pc EXCEPT !["main"] = "idle"] /\ UNCHANGED <<list, loc, accepted, undefined>>
  BY <1>3, <1>4 DEF FindLast, Goto
<1>6. accepted \in 1..accepted
  <2>1. accepted # 0
    BY <1>1 DEF LInv, Appending
  <2> QED  BY <2>1, BoundsAssumption DEF LInv, FieldsTyped
<1>7. Linked(nxt', prv', alive')
  BY <1>1, <1>2, <1>5 DEF LInv, Untouched, Linking, Unlinking, list
<1>8. FieldsTyped' /\ loc' \in [Threads -> Locals] /\ ~undefined'
  BY <1>5 DEF LInv, FieldsTyped, ThreadsTyped, list
<1>9. pc'["main"] = "idle"
  BY <1>5, ThreadFacts DEF LInv, ThreadsTyped
<1>10. Appending'
  BY <1>9 DEF Appending, Linking
<1>11. \A h \in handed' : h.got = h.for /\ h.for \in 1..accepted'
  BY <1>5, <1>6 DEF LInv, OwnFds
<1> QED  BY <1>2, <1>5, <1>7, <1>8, <1>10, <1>11, MainStep DEF MainLabels

-----------------------------------------------------------------------------
(* length++ and length--.                                                  *)

LEMMA LoadStep == ASSUME LInv, Serial, NEW t \in Threads, Load(t) PROVE LInv'
<1> DEFINE l == [loc[t] EXCEPT !.len = length]
<1>1. /\ pc[t] = "count" /\ pc' = [pc EXCEPT ![t] = "store"]
      /\ loc' = [loc EXCEPT ![t] = l]
      /\ UNCHANGED <<list, accepted, handed, undefined>>
  BY DEF Load, At, Goto, LInv, ThreadsTyped
<1>2. l \in Locals /\ l.fd = loc[t].fd /\ l.node = loc[t].node
  BY DEF LInv, ThreadsTyped, FieldsTyped, Locals
<1>3. loc' \in [Threads -> Locals]
  BY <1>1, <1>2 DEF LInv, ThreadsTyped
<1>4. FieldsTyped' /\ ~undefined'
  BY <1>1 DEF LInv, FieldsTyped, list
<1> HIDE DEF l
<1>5. CASE t = "main"
  <2>1. \A w \in Workers : pc[w] = "idle"
    BY <1>1, <1>5, MainAlone DEF Between
  <2>2. Linked(nxt', prv', alive')
    BY <1>1, <1>5, <2>1 DEF LInv, Untouched, Linking, Unlinking, list
  <2>3. loc'["main"].fd = loc["main"].fd /\ pc'["main"] = "store"
    BY <1>1, <1>2, <1>5 DEF LInv, ThreadsTyped
  <2>4. UNCHANGED <<nxt, prv, dat, alive, accepted>>
    BY <1>1 DEF list
  <2>5. Appending'
    BY <1>1, <1>5, <2>3, <2>4 DEF LInv, Appending, Linking
  <2>6. \A h \in handed' : h.got = h.for /\ h.for \in 1..accepted' /\ h.for # accepted'
    BY <1>1, <1>5 DEF LInv, OwnFds
  <2>7. "store" \in MainLabels
    BY DEF MainLabels
  <2> QED  BY <1>1, <1>3, <1>4, <1>5, <2>1, <2>2, <2>5, <2>6, <2>7, MainStep
<1>6. CASE t \in Workers
  <2>1. (\A v \in Workers \ {t} : pc[v] = "idle") /\ pc["main"] \in {"idle", "find"}
    BY <1>1, <1>6, WorkerAlone DEF Between
  <2>2. Linked(nxt, prv, alive)
    BY <1>1, <2>1 DEF LInv, Untouched, Linking, Unlinking
  <2>3. UNCHANGED <<nxt, prv, dat, alive, accepted, handed>>
    BY <1>1 DEF list
  <2>4. pc'[t] = "store" /\ "store" \in WorkerLabels /\ "store" \notin {"scan"} \cup Unlinking
    BY <1>1 DEF LInv, ThreadsTyped, WorkerLabels, Unlinking
  <2>5. Deleting(t)'
    BY <2>4 DEF Deleting
  <2>6. pc["main"] = "find" => prv'[TAIL] \in alive' /\ dat'[prv'[TAIL]] = accepted
    BY <2>3 DEF LInv, Appending
  <2> QED  BY <1>1, <1>2, <1>4, <1>6, <2>1, <2>2, <2>3, <2>4, <2>5, <2>6, WorkerStep
<1> QED  BY <1>5, <1>6 DEF Threads

LEMMA StoreStep == ASSUME LInv, Serial, NEW t \in Threads, Store(t) PROVE LInv'
<1>1. /\ pc[t] = "store" /\ pc' = [pc EXCEPT ![t] = IF t = "main" THEN "find" ELSE "idle"]
      /\ length' = loc[t].len + Change(t)
      /\ UNCHANGED <<nxt, prv, dat, alive, loc, accepted, handed, undefined>>
  BY DEF Store, At, Goto
<1>2. length' \in Int
  BY <1>1 DEF LInv, ThreadsTyped, Locals, Change
<1>3. FieldsTyped' /\ ~undefined' /\ loc' \in [Threads -> Locals]
  BY <1>1, <1>2 DEF LInv, FieldsTyped, ThreadsTyped
<1>4. CASE t = "main"
  <2>1. \A w \in Workers : pc[w] = "idle"
    BY <1>1, <1>4, MainAlone DEF Between
  <2>2. Linked(nxt', prv', alive')
    BY <1>1, <1>4, <2>1 DEF LInv, Untouched, Linking, Unlinking
  <2>3. pc'["main"] = "find"
    BY <1>1, <1>4 DEF LInv, ThreadsTyped
  <2>4. Appending'
    BY <1>1, <1>4, <2>3 DEF LInv, Appending, Linking
  <2>5. \A h \in handed' : h.got = h.for /\ h.for \in 1..accepted' /\ h.for # accepted'
    BY <1>1, <1>4 DEF LInv, OwnFds
  <2>6. "find" \in MainLabels
    BY DEF MainLabels
  <2> QED  BY <1>1, <1>3, <1>4, <2>1, <2>2, <2>4, <2>5, <2>6, MainStep
<1>5. CASE t \in Workers
  <2>1. (\A v \in Workers \ {t} : pc[v] = "idle") /\ pc["main"] \in {"idle", "find"}
    BY <1>1, <1>5, WorkerAlone DEF Between
  <2>2. Linked(nxt', prv', alive')
    BY <1>1, <2>1 DEF LInv, Untouched, Linking, Unlinking
  <2>3. pc' = [pc EXCEPT ![t] = "idle"] /\ pc'[t] = "idle"
    BY <1>1, <1>5, ThreadFacts DEF LInv, ThreadsTyped
  <2>4. "idle" \in WorkerLabels /\ "idle" \notin {"scan"} \cup Unlinking
    BY DEF WorkerLabels, Unlinking
  <2>5. Deleting(t)'
    BY <2>3 DEF Deleting, Unlinking
  <2>6. pc["main"] = "find" => prv'[TAIL] \in alive' /\ dat'[prv'[TAIL]] = accepted
    BY <1>1 DEF LInv, Appending
  <2>7. loc[t] \in Locals /\ loc' = [loc EXCEPT ![t] = loc[t]]
    BY <1>1 DEF LInv, ThreadsTyped
  <2>8. accepted' = accepted /\ handed' \subseteq handed
    BY <1>1
  <2> QED  BY <1>3, <1>5, <2>1, <2>2, <2>3, <2>4, <2>5, <2>6, <2>7, <2>8, WorkerStep
<1> QED  BY <1>4, <1>5 DEF Threads

-----------------------------------------------------------------------------
(* A worker deletes.                                                       *)

LEMMA DeleteStartStep ==
  ASSUME LInv, Serial, NEW w \in Workers, DeleteStart(w)
  PROVE  LInv'
<1>1. pc[w] = "idle" /\ MayStart
  BY DEF DeleteStart, At
<1>2. (\A v \in Workers \ {w} : pc[v] = "idle") /\ pc["main"] \in {"idle", "find"}
  BY <1>1, WorkerAlone
<1>3. Linked(nxt, prv, alive)
  BY <1>1, <1>2 DEF LInv, Untouched, Linking, Unlinking
<1>4. nxt[HEAD] \in alive \cup {TAIL} /\ nxt[HEAD] # NULL /\ nxt[HEAD] \in Cells
  BY <1>3, CellFacts DEF Linked, LInv, FieldsTyped
<1>5. PICK h \in handed :
        /\ handed' = handed \ {h} /\ pc' = [pc EXCEPT ![w] = "scan"]
        /\ loc' = [loc EXCEPT ![w] = [NoLocals EXCEPT !.node = nxt[HEAD], !.fd = h.got]]
        /\ UNCHANGED length
  BY <1>4 DEF DeleteStart, Goto
<1>6. UNCHANGED <<nxt, prv, dat, alive, length, accepted, undefined>>
  BY <1>5 DEF DeleteStart
<1>7. h.got \in 1..accepted /\ (pc["main"] # "idle" => h.got # accepted)
  BY DEF LInv, OwnFds
<1> DEFINE l == [NoLocals EXCEPT !.node = nxt[HEAD], !.fd = h.got]
<1>8. l \in Locals /\ l.node = nxt[HEAD] /\ l.fd = h.got
  <2>1. NoLocals \in Locals
    BY DEF NoLocals, Locals
  <2>2. h.got \in Fds
    BY <1>7, BoundsAssumption DEF LInv, FieldsTyped, Fds
  <2> QED  BY <1>4, <2>1, <2>2 DEF Locals
<1>9. loc' = [loc EXCEPT ![w] = l]
  BY <1>5
<1> HIDE DEF l
<1>10. pc'[w] = "scan" /\ loc'[w] = l
  BY <1>5, <1>9, ThreadFacts DEF LInv, ThreadsTyped
<1>11. Deleting(w)'
  BY <1>4, <1>6, <1>8, <1>10 DEF Deleting, Unlinking
<1>12. FieldsTyped' /\ ~undefined'
  BY <1>6 DEF LInv, FieldsTyped
<1>13. pc["main"] = "find" => prv'[TAIL] \in alive' /\ dat'[prv'[TAIL]] = accepted
  BY <1>6 DEF LInv, Appending
<1>14. "scan" \in WorkerLabels /\ Linked(nxt', prv', alive')
  BY <1>3, <1>6 DEF WorkerLabels
<1>15. accepted' = accepted /\ handed' \subseteq handed
  BY <1>5, <1>6
<1> QED  BY <1>2, <1>5, <1>7, <1>8, <1>9, <1>11, <1>12, <1>13, <1>14, <1>15, WorkerStep

LEMMA ScanStep == ASSUME LInv, Serial, NEW w \in Workers, Scan(w) PROVE LInv'
<1> DEFINE n == loc[w].node
<1>1. pc[w] = "scan"
  BY DEF Scan, At
<1>2. (\A v \in Workers \ {w} : pc[v] = "idle") /\ pc["main"] \in {"idle", "find"}
  BY <1>1, WorkerAlone DEF Between
<1>3. Linked(nxt, prv, alive)
  BY <1>1, <1>2 DEF LInv, Untouched, Linking, Unlinking
<1>4. /\ n \in alive \cup {TAIL, NULL} /\ loc[w].fd \in 1..accepted
      /\ pc["main"] # "idle" => loc[w].fd # accepted
  BY <1>1 DEF LInv, Deleting, OwnFds
<1>5. /\ nxt \in [Cells -> Cells \cup {NULL}] /\ prv \in [Cells -> Cells \cup {NULL}]
      /\ alive \subseteq Nodes /\ dat[TAIL] = 0 /\ nxt[TAIL] = NULL
      /\ loc \in [Threads -> Locals] /\ loc[w] \in Locals
  BY ThreadFacts DEF LInv, FieldsTyped, ThreadsTyped
<1>6. UNCHANGED <<nxt, prv, dat, alive, length, accepted, handed, undefined>>
  BY <1>4 DEF Scan, Undefine, Valid, list
<1>7. FieldsTyped' /\ ~undefined' /\ accepted' = accepted /\ handed' \subseteq handed
  BY <1>6 DEF LInv, FieldsTyped
<1>8. pc["main"] = "find" => prv'[TAIL] \in alive' /\ dat'[prv'[TAIL]] = accepted
  BY <1>6 DEF LInv, Appending
<1>9. Linked(nxt', prv', alive')
  BY <1>3, <1>6
<1>10. loc[w].fd \in Nat
  BY <1>4
<1>11. CASE n = NULL
  <2>1. pc' = [pc EXCEPT ![w] = "count"] /\ loc' = [loc EXCEPT ![w] = loc[w]]
    BY <1>5, <1>11, CellFacts DEF Scan, Goto, Valid
  <2>2. pc'[w] = "count"
    BY <2>1, ThreadFacts DEF LInv, ThreadsTyped
  <2>3. "count" \in WorkerLabels /\ "count" \notin {"scan"} \cup Unlinking
    BY DEF WorkerLabels, Unlinking
  <2>4. Deleting(w)'
    BY <2>2 DEF Deleting, Unlinking
  <2> QED  BY <1>2, <1>5, <1>7, <1>8, <1>9, <2>1, <2>3, <2>4, WorkerStep
<1>12. CASE n # NULL /\ dat[n] = loc[w].fd
  <2>1. pc' = [pc EXCEPT ![w] = "unlink1"] /\ loc' = [loc EXCEPT ![w] = loc[w]]
    BY <1>4, <1>5, <1>12 DEF Scan, Goto, Valid
  <2>2. n \in alive
    BY <1>4, <1>5, <1>12, <1>10
  <2>3. pc'[w] = "unlink1" /\ loc'[w].node = n /\ loc'[w].fd = loc[w].fd
    BY <2>1, <1>5, ThreadFacts DEF LInv, ThreadsTyped
  <2>4. nxt[n] \in alive \cup {TAIL} /\ prv[n] \in alive \cup {HEAD} /\ prv[nxt[n]] = n
    BY <1>3, <2>2 DEF Linked
  <2>5. Linked([nxt EXCEPT ![prv[n]] = nxt[n]], [prv EXCEPT ![nxt[n]] = prv[n]], alive \ {n})
    <3> HIDE DEF n
    <3> QED  BY <1>3, <1>5, <2>2, RemoveLinked
  <2>6. Deleting(w)'
    <3> HIDE DEF n
    <3> QED  BY <1>6, <1>12, <2>2, <2>3, <2>4, <2>5 DEF Deleting, Unlinking
  <2>7. "unlink1" \in WorkerLabels
    BY DEF WorkerLabels
  <2> QED  BY <1>2, <1>4, <1>5, <1>7, <1>8, <1>9, <2>1, <2>6, <2>7, WorkerStep
<1>13. CASE n # NULL /\ dat[n] # loc[w].fd
  <2> DEFINE l == [loc[w] EXCEPT !.node = nxt[n]]
  <2>1. pc' = pc /\ loc' = [loc EXCEPT ![w] = l]
    BY <1>4, <1>5, <1>13 DEF Scan, Undefine, Valid
  <2>2. nxt[n] \in alive \cup {TAIL, NULL}
    BY <1>3, <1>4, <1>5, <1>13 DEF Linked
  <2>3. l \in Locals /\ l.node = nxt[n] /\ l.fd = loc[w].fd
    BY <1>5, <2>2, CellFacts DEF Locals
  <2> HIDE DEF l
  <2>4. pc' = [pc EXCEPT ![w] = "scan"] /\ pc'[w] = "scan" /\ loc'[w] = l
    BY <1>1, <1>5, <2>1, ThreadFacts DEF LInv, ThreadsTyped
  <2>5. Deleting(w)'
    BY <1>6, <2>2, <2>3, <2>4 DEF Deleting, Unlinking
  <2>6. "scan" \in WorkerLabels
    BY DEF WorkerLabels
  <2> QED  BY <1>2, <1>4, <1>7, <1>8, <1>9, <2>1, <2>3, <2>4, <2>5, <2>6, WorkerStep
<1> QED  BY <1>11, <1>12, <1>13

(* One of the two assignments of a removal: it does its part and leaves    *)
(* the rest as it was.                                                     *)
LEMMA UnlinkStep == ASSUME LInv, Serial, NEW w \in Workers, Unlink(w) PROVE LInv'
<1> DEFINE n == loc[w].node
           a == prv[n]
           b == nxt[n]
<1>1. pc[w] \in {"unlink1", "unlink2"} /\ ~undefined
  BY DEF Unlink, Assign, At
<1>2. (\A v \in Workers \ {w} : pc[v] = "idle") /\ pc["main"] \in {"idle", "find"}
  BY <1>1, WorkerAlone DEF Between
<1>3. /\ n \in alive /\ dat[n] = loc[w].fd
      /\ b \in alive \cup {TAIL} /\ a \in alive \cup {HEAD}
      /\ Linked([nxt EXCEPT ![a] = b], [prv EXCEPT ![b] = a], alive \ {n})
      /\ b = TAIL => prv[TAIL] = n
      /\ pc[w] = "unlink2" => nxt[a] = b
  BY <1>1 DEF LInv, Deleting, Unlinking
<1>4. /\ n \in Cells /\ a \in Cells /\ b \in Cells /\ a # TAIL /\ b # HEAD
      /\ Valid(n) /\ Valid(a) /\ Valid(b)
  BY <1>3, CellFacts DEF LInv, FieldsTyped, Valid
<1>5. /\ nxt \in [Cells -> Cells \cup {NULL}] /\ prv \in [Cells -> Cells \cup {NULL}]
      /\ HEAD \in Cells /\ TAIL \in Cells
      /\ loc \in [Threads -> Locals] /\ loc[w] \in Locals
  BY CellFacts, ThreadFacts DEF LInv, FieldsTyped, ThreadsTyped
<1>6. \/ /\ pc[w] = "unlink1" /\ pc' = [pc EXCEPT ![w] = "unlink2"]
         /\ nxt' = [nxt EXCEPT ![a] = b] /\ prv' = prv
      \/ /\ pc[w] = "unlink2" /\ pc' = [pc EXCEPT ![w] = "free"]
         /\ prv' = [prv EXCEPT ![b] = a] /\ nxt' = nxt
  BY <1>4 DEF Unlink, Assign, At, Goto, SetNext, SetPrev
<1>7. UNCHANGED <<dat, alive, length, loc, accepted, handed, undefined>>
  BY <1>4 DEF Unlink, Assign, SetNext, SetPrev
<1>8. loc'[w] = loc[w] /\ loc' = [loc EXCEPT ![w] = loc[w]]
  BY <1>5, <1>7
<1>9. /\ loc[w].fd \in 1..accepted
      /\ pc["main"] # "idle" => loc[w].fd # accepted
  BY <1>1 DEF LInv, OwnFds, Unlinking
<1>10. pc["main"] = "find" => prv[TAIL] \in alive /\ dat[prv[TAIL]] = accepted
  BY DEF LInv, Appending
<1>11. pc["main"] = "find" => prv[TAIL] # n /\ b # TAIL
  BY <1>3, <1>9, <1>10
<1>12. /\ pc["main"] = "find" => prv'[TAIL] \in alive' /\ dat'[prv'[TAIL]] = accepted
  BY <1>4, <1>5, <1>6, <1>7, <1>10, <1>11
<1>13. /\ nxt' \in [Cells -> Cells \cup {NULL}] /\ prv' \in [Cells -> Cells \cup {NULL}]
       /\ nxt'[TAIL] = nxt[TAIL]
  BY <1>4, <1>5, <1>6
<1>14. FieldsTyped' /\ ~undefined' /\ accepted' = accepted /\ handed' \subseteq handed
  BY <1>1, <1>7, <1>13 DEF LInv, FieldsTyped
<1>15. loc'[w].node = n /\ loc'[w].fd = loc[w].fd
  BY <1>8
<1> HIDE DEF n
<1>16. nxt'[n] = b /\ prv'[n] = a
  BY <1>4, <1>5, <1>6
<1>17. /\ [nxt' EXCEPT ![a] = b] = [nxt EXCEPT ![a] = b]
       /\ [prv' EXCEPT ![b] = a] = [prv EXCEPT ![b] = a]
  BY <1>4, <1>5, <1>6
<1>18. /\ pc[w] = "unlink1" => pc'[w] = "unlink2"
       /\ pc[w] = "unlink2" => pc'[w] = "free"
  BY <1>6, ThreadFacts DEF LInv, ThreadsTyped
<1>19. /\ nxt'[a] = b
       /\ pc[w] = "unlink2" => prv'[b] = a
       /\ pc[w] = "unlink1" /\ b = TAIL => prv'[TAIL] = n
  BY <1>3, <1>4, <1>5, <1>6
<1> HIDE DEF a, b
<1>20. Linked([nxt' EXCEPT ![a] = b], [prv' EXCEPT ![b] = a], alive' \ {n})
  BY <1>3, <1>7, <1>17
<1>21. Deleting(w)'
  BY <1>1, <1>3, <1>7, <1>15, <1>16, <1>18, <1>19, <1>20 DEF Deleting, Unlinking
<1>22. \E label \in Unlinking : pc' = [pc EXCEPT ![w] = label]
  BY <1>6 DEF Unlinking
<1>23. PICK label \in Unlinking : pc' = [pc EXCEPT ![w] = label]
  BY <1>22
<1>24. label \in WorkerLabels
  BY DEF Unlinking, WorkerLabels
<1> QED  BY <1>2, <1>5, <1>8, <1>9, <1>12, <1>14, <1>21, <1>23, <1>24, WorkerStep

LEMMA FreeStep == ASSUME LInv, Serial, NEW w \in Workers, Free(w) PROVE LInv'
<1> DEFINE n == loc[w].node
<1>1. pc[w] = "free"
  BY DEF Free, At
<1>2. (\A v \in Workers \ {w} : pc[v] = "idle") /\ pc["main"] \in {"idle", "find"}
  BY <1>1, WorkerAlone DEF Between
<1>3. /\ n \in alive /\ dat[n] = loc[w].fd
      /\ nxt[n] \in alive \cup {TAIL} /\ prv[n] \in alive \cup {HEAD}
      /\ Linked([nxt EXCEPT ![prv[n]] = nxt[n]], [prv EXCEPT ![nxt[n]] = prv[n]],
                alive \ {n})
      /\ nxt[prv[n]] = nxt[n] /\ prv[nxt[n]] = prv[n]
  BY <1>1 DEF LInv, Deleting, Unlinking
<1>4. /\ nxt \in [Cells -> Cells \cup {NULL}] /\ prv \in [Cells -> Cells \cup {NULL}]
      /\ HEAD \in Cells /\ TAIL \in Cells /\ alive \subseteq Nodes
      /\ loc \in [Threads -> Locals] /\ loc[w] \in Locals
  BY CellFacts, ThreadFacts DEF LInv, FieldsTyped, ThreadsTyped
<1>5. n \in Cells /\ n # HEAD /\ n # TAIL /\ Valid(n)
  BY <1>3, <1>4, CellFacts DEF Valid
<1>6. /\ alive' = alive \ {n} /\ nxt' = [nxt EXCEPT ![n] = NULL]
      /\ prv' = [prv EXCEPT ![n] = NULL] /\ pc' = [pc EXCEPT ![w] = "count"]
      /\ UNCHANGED <<dat, length, loc, accepted, handed, undefined>>
  BY <1>5 DEF Free, Goto
<1>7. /\ loc[w].fd \in 1..accepted
      /\ pc["main"] # "idle" => loc[w].fd # accepted
  BY <1>1 DEF LInv, OwnFds, Unlinking
<1>8. pc["main"] = "find" => prv[TAIL] \in alive /\ dat[prv[TAIL]] = accepted
  BY DEF LInv, Appending
<1> HIDE DEF n
<1>9. FieldsTyped' /\ ~undefined' /\ accepted' = accepted /\ handed' \subseteq handed
  BY <1>5, <1>6 DEF LInv, FieldsTyped
<1>10. pc["main"] = "find" => prv'[TAIL] \in alive' /\ dat'[prv'[TAIL]] = accepted
  BY <1>3, <1>4, <1>5, <1>6, <1>7, <1>8
<1>11. Linked(nxt', prv', alive')
  <2>1. Linked(nxt, prv, alive \ {n})
    <3>1. [nxt EXCEPT ![prv[n]] = nxt[n]] = nxt /\ [prv EXCEPT ![nxt[n]] = prv[n]] = prv
      BY <1>3, <1>4
    <3> QED  BY <1>3, <3>1
  <2>2. /\ \A c \in (alive \ {n}) \cup {HEAD} : nxt'[c] = nxt[c]
        /\ \A c \in (alive \ {n}) \cup {TAIL} : prv'[c] = prv[c]
    BY <1>4, <1>5, <1>6, CellFacts
  <2> QED  BY <1>6, <2>1, <2>2, LinkedSame
<1>12. loc' = [loc EXCEPT ![w] = loc[w]]
  BY <1>4, <1>6
<1>13. pc'[w] = "count" /\ "count" \in WorkerLabels /\ "count" \notin {"scan"} \cup Unlinking
  BY <1>6, ThreadFacts DEF LInv, ThreadsTyped, WorkerLabels, Unlinking
<1>14. Deleting(w)'
  BY <1>13 DEF Deleting
<1> QED  BY <1>2, <1>4, <1>6, <1>9, <1>10, <1>11, <1>12, <1>13, <1>14, WorkerStep

-----------------------------------------------------------------------------
LEMMA NextList == ASSUME LInv, Serial, [Next]_vars PROVE LInv'
<1>1. CASE AddStart
  BY <1>1, AddStartStep
<1>2. CASE AddTest
  BY <1>2, AddTestStep
<1>3. CASE AddLinks
  BY <1>3, AddLinksStep
<1>4. CASE FindLast
  BY <1>4, FindLastStep
<1>5. CASE \E t \in Threads : Load(t) \/ Store(t)
  BY <1>5, LoadStep, StoreStep
<1>6. CASE \E w \in Workers : DeleteStart(w) \/ Scan(w) \/ Unlink(w) \/ Free(w)
  BY <1>6, DeleteStartStep, ScanStep, UnlinkStep, FreeStep
<1>7. CASE UNCHANGED vars
  <2> USE <1>7 DEF vars, list
  <2>1. FieldsTyped' /\ ThreadsTyped' /\ Alone' /\ ~undefined'
    BY DEF LInv, FieldsTyped, ThreadsTyped, Alone
  <2>2. Untouched'
    BY DEF LInv, Untouched, Linked
  <2>3. Appending'
    BY DEF LInv, Appending, new, old
  <2>4. \A w \in Workers : Deleting(w)'
    BY DEF LInv, Deleting
  <2>5. OwnFds'
    BY DEF LInv, OwnFds
  <2> QED  BY <2>1, <2>2, <2>3, <2>4, <2>5 DEF LInv
<1> QED  BY <1>1, <1>2, <1>3, <1>4, <1>5, <1>6, <1>7 DEF Next, Over

(* When no two operations on the list overlap, none of them ever reads or  *)
(* writes through NULL or through a node already freed.                    *)
THEOREM NeverUndefinedHolds == ASSUME Serial = TRUE PROVE Spec => []NeverUndefined
<1>1. LInv => NeverUndefined
  BY DEF LInv, NeverUndefined
<1>2. LInv /\ [Next]_vars => LInv'
  BY NextList
<1> QED  BY <1>1, <1>2, InitList, PTL DEF Spec

(* When no two operations on the list overlap, the fd main hands to the    *)
(* pool is the one it has just accepted, although workers delete others    *)
(* between main's append and its reading back.                             *)
THEOREM LastAcceptedHolds == ASSUME Serial = TRUE PROVE Spec => []LastIsAccepted
<1>1. LInv => LastIsAccepted
  BY DEF LInv, OwnFds, LastIsAccepted
<1>2. LInv /\ [Next]_vars => LInv'
  BY NextList
<1> QED  BY <1>1, <1>2, InitList, PTL DEF Spec

-----------------------------------------------------------------------------
(* The chain of nodes from head to tail.                                   *)

(* The k-th node of the chain s, then e; the node before the k-th, or HEAD.*)
Nth(s, k, e) == IF k \in 1..Len(s) THEN s[k] ELSE e
Before(s, k) == IF k = 1 THEN HEAD ELSE s[k - 1]

Follows(s, nx, e) ==
  /\ nx[HEAD] = Nth(s, 1, e)
  /\ \A k \in 1..Len(s) : nx[s[k]] = Nth(s, k + 1, e)
Distinct(s) == \A i, j \in 1..Len(s) : s[i] = s[j] => i = j
Holds(s, c) == \E k \in 1..Len(s) : s[k] = c

(* s is the chain of the links nx that ends with e, of the nodes of A.     *)
IsChain(s, nx, e, A) ==
  /\ s \in Seq(Nodes) /\ Distinct(s) /\ Follows(s, nx, e)
  /\ \A c : c \in A <=> Holds(s, c)

Detached == {"add", "empty1", "append1"}            \* main's node is not linked
OpenEnd == {"empty2", "append2", "append3", "append4"}  \* its next is not set
Uncounted == OpenEnd \cup {"empty3", "empty4", "count", "store"}
Overcounted == {"unlink2", "free", "count", "store"}

End == IF pc["main"] \in OpenEnd THEN NULL ELSE TAIL
Listed ==
  {c \in alive : /\ pc["main"] \in Detached => c # new
                 /\ \A w \in Workers : pc[w] \in {"unlink2", "free"} => c # loc[w].node}

(* Every node has a descriptor of its own.                                 *)
OwnData ==
  /\ \A c \in alive : dat[c] \in 1..accepted
  /\ \A c, d \in alive : dat[c] = dat[d] => c = d

(* What is handed to the pool or is being deleted is on the list.          *)
Wanted(s) ==
  /\ handed \subseteq [got : {0} \cup Fds, for : Fds]
  /\ \A h \in handed : \E k \in 1..Len(s) : dat[s[k]] = h.got
  /\ \A w \in Workers : pc[w] \in {"scan", "unlink1"} =>
       \A h \in handed : h.got # loc[w].fd

(* Where the threads stand on the list.                                    *)
MainStands(s) ==
  /\ pc["main"] \in Detached => nxt[new] = NULL
  /\ pc["main"] \in {"empty1", "append1"} => old = Before(s, Len(s) + 1)
  /\ pc["main"] \in OpenEnd => new = Before(s, Len(s) + 1) /\ new # HEAD
WorkerStands(s, w) ==
  /\ pc[w] = "scan" => \E i, j \in 1..Len(s) :
       i <= j /\ s[i] = loc[w].node /\ dat[s[j]] = loc[w].fd
  /\ pc[w] = "unlink1" => nxt[prv[loc[w].node]] = loc[w].node

(* length, for the number of nodes n of the chain.                         *)
Counted(n) ==
  /\ length \in Nat
  /\ pc["main"] \in Uncounted => length + 1 = n
  /\ \A w \in Workers : pc[w] \in Overcounted => length = n + 1
  /\ pc["main"] \notin Uncounted /\ (\A w \in Workers : pc[w] \notin Overcounted) => length = n
  /\ \A t \in Threads : pc[t] = "store" => loc[t].len = length

Chained(s) ==
  /\ IsChain(s, nxt, End, Listed)
  /\ OwnData /\ Wanted(s) /\ Counted(Len(s))
  /\ MainStands(s) /\ (\A w \in Workers : WorkerStands(s, w))

-----------------------------------------------------------------------------
(* Chains.                                                                 *)

LEMMA ChainFacts ==
  ASSUME NEW s, NEW nx, NEW e, NEW A, IsChain(s, nx, e, A)
  PROVE  /\ Len(s) \in Nat /\ \A k \in 1..Len(s) : s[k] \in Nodes /\ s[k] \in A
         /\ \A i, j \in 1..Len(s) : s[i] = s[j] => i = j
         /\ \A c \in A : \E k \in 1..Len(s) : s[k] = c
         /\ nx[HEAD] = Nth(s, 1, e)
         /\ \A k \in 1..Len(s) : nx[s[k]] = Nth(s, k + 1, e)
<1>1. s \in Seq(Nodes) /\ Len(s) \in Nat /\ \A k \in 1..Len(s) : s[k] \in Nodes
  BY LenProperties, ElementOfSeq DEF IsChain
<1> QED  BY <1>1 DEF IsChain, Distinct, Follows, Holds

(* Following next from HEAD goes through the chain and stays at its end.   *)
LEMMA WalkChain ==
  ASSUME NEW s, NEW e, NEW A, e \notin Nodes, IsChain(s, nxt, e, A)
  PROVE  \A k \in Nat : Walk[k] = Nth(s, k + 1, e)
<1> DEFINE W == [k \in Nat |-> Nth(s, k + 1, e)]
<1>1. /\ Len(s) \in Nat /\ \A k \in 1..Len(s) : s[k] \in Nodes
      /\ nxt[HEAD] = Nth(s, 1, e)
      /\ \A k \in 1..Len(s) : nxt[s[k]] = Nth(s, k + 1, e)
  BY ChainFacts
<1>2. ASSUME NEW k \in Nat \ {0}
      PROVE  Nth(s, k + 1, e) = IF Nth(s, k, e) \in Nodes THEN nxt[Nth(s, k, e)]
                                                           ELSE Nth(s, k, e)
  <2>1. CASE k \in 1..Len(s)
    BY <1>1, <2>1 DEF Nth
  <2>2. CASE k \notin 1..Len(s)
    <3>1. k + 1 \notin 1..Len(s)
      BY <1>1, <2>2
    <3> QED  BY <2>2, <3>1 DEF Nth
  <2> QED  BY <2>1, <2>2
<1>3. W = [k \in Nat |-> IF k = 0 THEN nxt[HEAD]
                         ELSE LET c == W[k - 1] IN IF c \in Nodes THEN nxt[c] ELSE c]
  <2>1. ASSUME NEW k \in Nat
        PROVE  W[k] = IF k = 0 THEN nxt[HEAD]
                      ELSE LET c == W[k - 1] IN IF c \in Nodes THEN nxt[c] ELSE c
    <3>1. CASE k = 0
      BY <1>1, <3>1
    <3>2. CASE k # 0
      <4>1. k - 1 \in Nat /\ (k - 1) + 1 = k
        BY <3>2
      <4>2. W[k - 1] = Nth(s, k, e) /\ W[k] = Nth(s, k + 1, e)
        BY <4>1
      <4> QED  BY <1>2, <3>2, <4>2
    <3> QED  BY <3>1, <3>2
  <2> QED  BY <2>1
<1> HIDE DEF W
<1>4. Walk = [k \in Nat |-> IF k = 0 THEN nxt[HEAD]
                            ELSE LET c == Walk[k - 1] IN IF c \in Nodes THEN nxt[c] ELSE c]
  BY <1>3, Zenon DEF Walk
<1> DEFINE T == {k \in Nat : Walk[k] # Nth(s, k + 1, e)}
<1>5. ASSUME T # {} PROVE FALSE
  <2>1. PICK x \in T : \A y \in T : x <= y
    BY <1>5, NatLeast
  <2>2. CASE x = 0
    BY <1>1, <1>4, <2>1, <2>2
  <2>3. CASE x # 0
    <3>1. x \in Nat \ {0} /\ x - 1 \in Nat /\ (x - 1) + 1 = x
      BY <2>3
    <3>2. x - 1 \notin T
      BY <2>1, <3>1
    <3>3. Walk[x - 1] = Nth(s, x, e)
      BY <3>1, <3>2
    <3>4. Walk[x] = IF Walk[x - 1] \in Nodes THEN nxt[Walk[x - 1]] ELSE Walk[x - 1]
      BY <1>4, <3>1, Zenon
    <3>5. Walk[x] = Nth(s, x + 1, e)
      BY <1>2, <3>1, <3>3, <3>4
    <3> QED  BY <3>5
  <2> QED  BY <2>2, <2>3
<1> QED  BY <1>5

(* A chain has no more nodes than there are.                               *)
LEMMA ChainShort ==
  ASSUME NEW s, NEW nx, NEW e, NEW A, IsChain(s, nx, e, A)
  PROVE  Len(s) <= MaxNodes
<1> DEFINE R == {s[k] : k \in 1..Len(s)}
           f == [k \in 1..Len(s) |-> s[k]]
<1>1. /\ Len(s) \in Nat /\ \A k \in 1..Len(s) : s[k] \in Nodes
      /\ \A i, j \in 1..Len(s) : s[i] = s[j] => i = j
  BY ChainFacts
<1>2. f \in Bijection(1..Len(s), R)
  BY <1>1 DEF Bijection, Injection, Surjection, IsInjective
<1>3. ExistsBijection(1..Len(s), R)
  BY <1>2 DEF ExistsBijection
<1>4. Cardinality(R) = Len(s)
  BY <1>1, <1>3, FS_CountingElements
<1>5. IsFiniteSet(Nodes) /\ Cardinality(Nodes) = MaxNodes
  BY BoundsAssumption, FS_Interval DEF Nodes
<1>6. R \subseteq Nodes
  BY <1>1
<1>7. Cardinality(R) <= Cardinality(Nodes)
  BY <1>5, <1>6, FS_Subset
<1> QED  BY <1>4, <1>5, <1>7

(* So Chain is s.                                                          *)
LEMMA ChainIs ==
  ASSUME NEW s, NEW e, NEW A, e \notin Nodes, IsChain(s, nxt, e, A)
  PROVE  /\ Size = Len(s) /\ Chain = s
         /\ ChainData = [k \in 1..Len(s) |-> dat[s[k]]]
<1>1. /\ Len(s) \in Nat /\ \A k \in 1..Len(s) : s[k] \in Nodes
      /\ s \in Seq(Nodes) /\ MaxNodes \in Nat /\ Len(s) <= MaxNodes
  BY ChainFacts, ChainShort, BoundsAssumption DEF IsChain
<1>2. \A k \in Nat : Walk[k] = Nth(s, k + 1, e)
  BY WalkChain
<1>3. \A k \in Nat : Walk[k] \in Nodes <=> k < Len(s)
  <2> TAKE k \in Nat
  <2>1. k + 1 \in 1..Len(s) <=> k < Len(s)
    BY <1>1
  <2> QED  BY <1>1, <1>2, <2>1 DEF Nth
<1> DEFINE P(k) == /\ Walk[k] \notin Nodes \/ k = MaxNodes + 1
                   /\ \A j \in 0..k - 1 : Walk[j] \in Nodes
<1>4. ASSUME NEW k \in 0..MaxNodes + 1 PROVE P(k) <=> k = Len(s)
  <2>1. k \in Nat /\ \A j \in 0..k - 1 : j \in Nat /\ j < k
    BY <1>1
  <2>2. CASE k = Len(s)
    <3>1. ~(k < Len(s)) /\ \A j \in 0..k - 1 : j < Len(s)
      BY <1>1, <2>1, <2>2
    <3>2. Walk[k] \notin Nodes /\ \A j \in 0..k - 1 : Walk[j] \in Nodes
      BY <1>3, <2>1, <3>1, Zenon
    <3> QED  BY <2>2, <3>2
  <2>3. CASE k > Len(s)
    <3>1. Len(s) \in 0..k - 1
      BY <1>1, <2>1, <2>3
    <3> QED  BY <1>1, <1>3, <2>3, <3>1
  <2>4. CASE k < Len(s)
    BY <1>1, <1>3, <2>1, <2>4
  <2> QED  BY <1>1, <2>1, <2>2, <2>3, <2>4
<1>5. Len(s) \in 0..MaxNodes + 1
  BY <1>1
<1>6. Size = CHOOSE k \in 0..MaxNodes + 1 : P(k)
  BY DEF Size
<1> HIDE DEF P
<1>7. Size = Len(s)
  BY <1>4, <1>5, <1>6
<1>8. Chain = [k \in 1..Len(s) |-> s[k]]
  <2>1. \A k \in 1..Len(s) : Walk[k - 1] = s[k]
    <3> TAKE k \in 1..Len(s)
    <3>1. k - 1 \in Nat /\ (k - 1) + 1 = k
      BY <1>1
    <3> QED  BY <1>2, <3>1 DEF Nth
  <2> QED  BY <1>7, <2>1 DEF Chain
<1>9. Chain = s
  BY <1>1, <1>8, LenProperties
<1> QED  BY <1>7, <1>9 DEF ChainData

LEMMA BeforeFacts ==
  ASSUME NEW s, NEW nx, NEW e, NEW A, IsChain(s, nx, e, A), NEW k \in 1..Len(s) + 1
  PROVE  /\ Before(s, k) \in Nodes \cup {HEAD}
         /\ nx[Before(s, k)] = Nth(s, k, e)
         /\ Before(s, k) # HEAD => k - 1 \in 1..Len(s) /\ Before(s, k) = s[k - 1]
<1>1. /\ Len(s) \in Nat /\ \A i \in 1..Len(s) : s[i] \in Nodes
      /\ nx[HEAD] = Nth(s, 1, e)
      /\ \A i \in 1..Len(s) : nx[s[i]] = Nth(s, i + 1, e)
  BY ChainFacts
<1>2. CASE k = 1
  BY <1>1, <1>2, CellFacts DEF Before
<1>3. CASE k # 1
  <2>1. k - 1 \in 1..Len(s) /\ (k - 1) + 1 = k
    BY <1>1, <1>3
  <2> QED  BY <1>1, <1>3, <2>1 DEF Before
<1> QED  BY <1>2, <1>3

(* Links that agree on the nodes of a chain make the same chain.           *)
LEMMA ChainSame ==
  ASSUME NEW s, NEW nx, NEW nx1, NEW e, NEW A, IsChain(s, nx, e, A),
         nx1[HEAD] = nx[HEAD], \A c \in A : nx1[c] = nx[c]
  PROVE  IsChain(s, nx1, e, A)
<1>1. \A k \in 1..Len(s) : s[k] \in A
  BY ChainFacts
<1> QED  BY <1>1 DEF IsChain, Follows

(* next of the last one is set to a node whose own next is not set.        *)
LEMMA ChainAppend ==
  ASSUME NEW s, NEW nx \in [Cells -> Cells \cup {NULL}], NEW A, IsChain(s, nx, TAIL, A),
         NEW n \in Nodes, n \notin A, nx[n] = NULL, NEW o, o = Before(s, Len(s) + 1)
  PROVE  /\ IsChain(Append(s, n), [nx EXCEPT ![o] = n], NULL, A \cup {n})
         /\ Before(Append(s, n), Len(Append(s, n)) + 1) = n
<1> DEFINE t == Append(s, n)
           nx1 == [nx EXCEPT ![o] = n]
<1>0. s \in Seq(Nodes)
  BY DEF IsChain
<1>1. /\ Len(s) \in Nat /\ \A k \in 1..Len(s) : s[k] \in Nodes /\ s[k] \in A
      /\ \A i, j \in 1..Len(s) : s[i] = s[j] => i = j
      /\ \A c \in A : \E k \in 1..Len(s) : s[k] = c
      /\ nx[HEAD] = Nth(s, 1, TAIL)
      /\ \A k \in 1..Len(s) : nx[s[k]] = Nth(s, k + 1, TAIL)
  BY ChainFacts
<1>2. /\ t \in Seq(Nodes) /\ Len(t) = Len(s) + 1 /\ t[Len(s) + 1] = n
      /\ \A k \in 1..Len(s) : t[k] = s[k]
  BY <1>0, AppendProperties
<1>3. Len(s) + 1 \in 1..Len(s) + 1
  BY <1>1
<1>4. o \in Nodes \cup {HEAD} /\ (o # HEAD => Len(s) \in 1..Len(s) /\ o = s[Len(s)])
  BY <1>1, <1>3, BeforeFacts
<1>5. o \in Cells /\ n \in Cells /\ o # n /\ HEAD # n /\ HEAD \in Cells
  BY <1>1, <1>4, CellFacts
<1>6. nx1[o] = n /\ \A c \in Cells : c # o => nx1[c] = nx[c]
  BY <1>5
<1> HIDE DEF t, nx1
<1>7. Distinct(t)
  <2> SUFFICES ASSUME NEW i \in 1..Len(t), NEW j \in 1..Len(t), t[i] = t[j] PROVE i = j
    BY DEF Distinct
  <2>1. i \in 1..Len(s) \/ i = Len(s) + 1
    BY <1>1, <1>2
  <2>2. j \in 1..Len(s) \/ j = Len(s) + 1
    BY <1>1, <1>2
  <2> QED  BY <1>1, <1>2, <2>1, <2>2
<1>8. nx1[HEAD] = Nth(t, 1, NULL)
  <2>1. CASE Len(s) = 0
    <3>1. o = HEAD /\ 1 \in 1..Len(t) /\ t[1] = n
      BY <1>2, <1>4, <2>1
    <3> QED  BY <1>6, <3>1 DEF Nth
  <2>2. CASE Len(s) # 0
    <3>1. 1 \in 1..Len(s) /\ 1 \in 1..Len(t) /\ Len(s) + 1 # 1
      BY <1>1, <1>2, <2>2
    <3>2. o = s[Len(s) + 1 - 1] /\ Len(s) + 1 - 1 = Len(s) /\ Len(s) \in 1..Len(s)
      BY <1>1, <2>2, <3>1 DEF Before
    <3>3. o # HEAD
      BY <1>1, <3>2, CellFacts
    <3> QED  BY <1>1, <1>2, <1>5, <1>6, <3>1, <3>3 DEF Nth
  <2> QED  BY <2>1, <2>2
<1>9. ASSUME NEW k \in 1..Len(t) PROVE nx1[t[k]] = Nth(t, k + 1, NULL)
  <2>1. CASE k = Len(s) + 1
    <3>1. k + 1 \notin 1..Len(t)
      BY <1>1, <1>2, <2>1
    <3> QED  BY <1>2, <1>5, <1>6, <2>1, <3>1 DEF Nth
  <2>2. CASE k = Len(s)
    <3>1. k \in 1..Len(s) /\ k + 1 \in 1..Len(t) /\ Len(s) + 1 # 1 /\ Len(s) + 1 - 1 = k
      BY <1>1, <1>2, <2>2
    <3>2. o = s[k]
      BY <2>2, <3>1 DEF Before
    <3> QED  BY <1>2, <1>6, <2>2, <3>1, <3>2 DEF Nth
  <2>3. CASE k < Len(s)
    <3>1. /\ k \in 1..Len(s) /\ k + 1 \in 1..Len(s) /\ k + 1 \in 1..Len(t)
          /\ k # Len(s) /\ (Len(s) \in 1..Len(s))
      BY <1>1, <1>2, <2>3
    <3>2. o # s[k] /\ s[k] \in Cells
      BY <1>1, <1>4, <3>1, CellFacts
    <3>3. nx1[s[k]] = s[k + 1]
      BY <1>1, <1>6, <3>1, <3>2 DEF Nth
    <3> QED  BY <1>2, <3>1, <3>3 DEF Nth
  <2> QED  BY <1>1, <1>2, <2>1, <2>2, <2>3
<1>10. ASSUME NEW c PROVE c \in A \cup {n} <=> Holds(t, c)
  <2>1. \A k : k \in 1..Len(t) <=> k \in 1..Len(s) \/ k = Len(s) + 1
    BY <1>1, <1>2
  <2>2. ASSUME c \in A \cup {n} PROVE Holds(t, c)
    <3>1. CASE c = n
      BY <1>2, <2>1, <3>1 DEF Holds
    <3>2. CASE c \in A
      <4>1. PICK k \in 1..Len(s) : s[k] = c
        BY <1>1, <3>2
      <4> QED  BY <1>2, <2>1, <4>1 DEF Holds
    <3> QED  BY <2>2, <3>1, <3>2
  <2>3. ASSUME Holds(t, c) PROVE c \in A \cup {n}
    <3>1. PICK k \in 1..Len(t) : t[k] = c
      BY <2>3 DEF Holds
    <3> QED  BY <1>1, <1>2, <2>1, <3>1
  <2> QED  BY <2>2, <2>3
<1>11. Before(t, Len(t) + 1) = n
  <2>1. Len(t) + 1 # 1 /\ Len(t) + 1 - 1 = Len(s) + 1
    BY <1>1, <1>2
  <2> QED  BY <1>2, <2>1 DEF Before
<1> QED  BY <1>2, <1>7, <1>8, <1>9, <1>10, <1>11 DEF IsChain, Follows, t, nx1

(* next of the last node is set to TAIL.                                   *)
LEMMA ChainClose ==
  ASSUME NEW s, NEW nx \in [Cells -> Cells \cup {NULL}], NEW A, IsChain(s, nx, NULL, A),
         NEW n, n = Before(s, Len(s) + 1), n # HEAD
  PROVE  IsChain(s, [nx EXCEPT ![n] = TAIL], TAIL, A)
<1> DEFINE nx1 == [nx EXCEPT ![n] = TAIL]
<1>1. /\ Len(s) \in Nat /\ \A k \in 1..Len(s) : s[k] \in Nodes
      /\ \A i, j \in 1..Len(s) : s[i] = s[j] => i = j
      /\ nx[HEAD] = Nth(s, 1, NULL)
      /\ \A k \in 1..Len(s) : nx[s[k]] = Nth(s, k + 1, NULL)
  BY ChainFacts
<1>2. Len(s) + 1 \in 1..Len(s) + 1
  BY <1>1
<1>3. n \in Nodes /\ Len(s) + 1 - 1 \in 1..Len(s) /\ n = s[Len(s) + 1 - 1]
  BY <1>1, <1>2, BeforeFacts
<1>4. Len(s) \in 1..Len(s) /\ n = s[Len(s)]
  BY <1>1, <1>3
<1>5. /\ n \in Cells /\ HEAD \in Cells /\ nx1[n] = TAIL
      /\ \A c \in Cells : c # n => nx1[c] = nx[c]
  BY <1>3, CellFacts
<1> HIDE DEF nx1
<1>6. nx1[HEAD] = Nth(s, 1, TAIL)
  <2>1. 1 \in 1..Len(s)
    BY <1>1, <1>4
  <2> QED  BY <1>1, <1>5, <2>1 DEF Nth
<1>7. ASSUME NEW k \in 1..Len(s) PROVE nx1[s[k]] = Nth(s, k + 1, TAIL)
  <2>1. CASE k = Len(s)
    <3>1. k + 1 \notin 1..Len(s)
      BY <1>1, <2>1
    <3> QED  BY <1>4, <1>5, <2>1, <3>1 DEF Nth
  <2>2. CASE k # Len(s)
    <3>1. k + 1 \in 1..Len(s)
      BY <1>1, <2>2
    <3>2. s[k] # n /\ s[k] \in Cells
      BY <1>1, <1>4, <2>2, CellFacts
    <3> QED  BY <1>1, <1>5, <3>1, <3>2 DEF Nth
  <2> QED  BY <2>1, <2>2
<1> QED  BY <1>6, <1>7 DEF IsChain, Follows, nx1

(* next of the node before the i-th one is set to the next of the i-th.    *)
LEMMA ChainRemove ==
  ASSUME NEW s, NEW nx \in [Cells -> Cells \cup {NULL}], NEW A, IsChain(s, nx, TAIL, A),
         NEW i \in 1..Len(s), NEW o, o = Before(s, i)
  PROVE  IsChain(RemoveAt(s, i), [nx EXCEPT ![o] = nx[s[i]]], TAIL, A \ {s[i]})
<1> DEFINE t == RemoveAt(s, i)
           nx1 == [nx EXCEPT ![o] = nx[s[i]]]
<1>0. s \in Seq(Nodes)
  BY DEF IsChain
<1>1. /\ Len(s) \in Nat /\ i \in Nat /\ \A k \in 1..Len(s) : s[k] \in Nodes /\ s[k] \in A
      /\ \A k, j \in 1..Len(s) : s[k] = s[j] => k = j
      /\ \A c \in A : \E k \in 1..Len(s) : s[k] = c
      /\ nx[HEAD] = Nth(s, 1, TAIL)
      /\ \A k \in 1..Len(s) : nx[s[k]] = Nth(s, k + 1, TAIL)
  BY ChainFacts
<1>2. /\ t \in Seq(Nodes) /\ Len(t) = Len(s) - 1
      /\ \A k \in 1..(Len(s) - 1) : t[k] = IF k < i THEN s[k] ELSE s[k + 1]
  BY <1>0, RemoveAtProperties
<1>3. i \in 1..Len(s) + 1
  BY <1>1
<1>4. /\ o \in Nodes \cup {HEAD}
      /\ o # HEAD => i - 1 \in 1..Len(s) /\ o = s[i - 1]
      /\ o = HEAD => i = 1
      /\ i = 1 => o = HEAD
  <2>1. i # 1 => i - 1 \in 1..Len(s)
    BY <1>1
  <2> QED  BY <1>1, <1>3, <2>1, BeforeFacts, CellFacts DEF Before
<1>5. /\ o \in Cells /\ HEAD \in Cells /\ nx1[o] = Nth(s, i + 1, TAIL)
      /\ \A c \in Cells : c # o => nx1[c] = nx[c]
  BY <1>1, <1>4, CellFacts
<1> HIDE DEF t, nx1
<1>6. \A k \in Nat : k < i /\ k > 0 => Nth(t, k, TAIL) = Nth(s, k, TAIL)
  <2> SUFFICES ASSUME NEW k \in Nat, k < i, k > 0 PROVE Nth(t, k, TAIL) = Nth(s, k, TAIL)
    OBVIOUS
  <2>1. k \in 1..(Len(s) - 1) /\ k \in 1..Len(s) /\ k \in 1..Len(t)
    BY <1>1, <1>2
  <2> QED  BY <1>2, <2>1 DEF Nth
<1>7. \A k \in Nat : k >= i => Nth(t, k, TAIL) = Nth(s, k + 1, TAIL)
  <2> SUFFICES ASSUME NEW k \in Nat, k >= i PROVE Nth(t, k, TAIL) = Nth(s, k + 1, TAIL)
    OBVIOUS
  <2>1. CASE k <= Len(s) - 1
    <3>1. k \in 1..(Len(s) - 1) /\ k \in 1..Len(t) /\ k + 1 \in 1..Len(s) /\ ~(k < i)
      BY <1>1, <1>2, <2>1
    <3> QED  BY <1>2, <3>1 DEF Nth
  <2>2. CASE ~(k <= Len(s) - 1)
    <3>1. k \notin 1..Len(t) /\ k + 1 \notin 1..Len(s)
      BY <1>1, <1>2, <2>2
    <3> QED  BY <3>1 DEF Nth
  <2> QED  BY <2>1, <2>2
<1>8. Distinct(t)
  <2> SUFFICES ASSUME NEW k \in 1..Len(t), NEW j \in 1..Len(t), t[k] = t[j] PROVE k = j
    BY DEF Distinct
  <2> DEFINE up(m) == IF m < i THEN m ELSE m + 1
  <2>1. ASSUME NEW m \in 1..Len(t)
        PROVE  up(m) \in 1..Len(s) /\ t[m] = s[up(m)]
    <3>1. m \in 1..(Len(s) - 1) /\ m \in 1..Len(s) /\ m + 1 \in 1..Len(s)
      BY <1>1, <1>2
    <3>2. t[m] = IF m < i THEN s[m] ELSE s[m + 1]
      BY <1>2, <3>1
    <3> QED  BY <3>1, <3>2
  <2>2. up(k) = up(j)
    <3> HIDE DEF up
    <3>1. /\ up(k) \in 1..Len(s) /\ t[k] = s[up(k)]
          /\ up(j) \in 1..Len(s) /\ t[j] = s[up(j)]
      BY <2>1
    <3>2. s[up(k)] = s[up(j)]
      BY <3>1
    <3> QED  BY <1>1, <3>1, <3>2
  <2> QED  BY <1>1, <1>2, <2>2
<1>9. nx1[HEAD] = Nth(t, 1, TAIL)
  <2>1. CASE i = 1
    BY <1>1, <1>4, <1>5, <1>7, <2>1
  <2>2. CASE i # 1
    <3>1. 1 < i /\ 1 > 0 /\ o # HEAD
      BY <1>1, <1>4, <2>2
    <3> QED  BY <1>1, <1>5, <1>6, <3>1
  <2> QED  BY <2>1, <2>2
<1>10. ASSUME NEW k \in 1..Len(t) PROVE nx1[t[k]] = Nth(t, k + 1, TAIL)
  <2>1. CASE k >= i
    <3>1. /\ k + 1 \in 1..Len(s) /\ t[k] = s[k + 1] /\ k + 1 \in Nat /\ k + 1 >= i
          /\ i - 1 # k + 1
      BY <1>1, <1>2, <2>1
    <3>2. s[k + 1] # o /\ s[k + 1] \in Cells
      BY <1>1, <1>4, <3>1, CellFacts
    <3>3. nx1[t[k]] = Nth(s, (k + 1) + 1, TAIL)
      BY <1>1, <1>5, <3>1, <3>2
    <3> QED  BY <1>7, <3>1, <3>3
  <2>2. CASE k < i /\ k = i - 1
    <3>1. t[k] = s[k] /\ k + 1 = i /\ k \in 1..Len(s) /\ i # 1 /\ i \in Nat /\ i >= i
      BY <1>1, <1>2, <2>2
    <3>2. o = s[k]
      BY <2>2, <3>1 DEF Before
    <3>3. nx1[t[k]] = Nth(s, i + 1, TAIL)
      BY <1>5, <3>1, <3>2
    <3> QED  BY <1>7, <3>1, <3>3
  <2>3. CASE k < i /\ k # i - 1
    <3>1. /\ t[k] = s[k] /\ k \in 1..Len(s) /\ k + 1 \in Nat /\ k + 1 < i /\ k + 1 > 0
      BY <1>1, <1>2, <2>3
    <3>2. s[k] # o /\ s[k] \in Cells
      BY <1>1, <1>4, <2>3, <3>1, CellFacts
    <3>3. nx1[t[k]] = Nth(s, k + 1, TAIL)
      BY <1>1, <1>5, <3>1, <3>2
    <3> QED  BY <1>6, <3>1, <3>3
  <2> QED  BY <1>1, <1>2, <2>1, <2>2, <2>3
<1>11. ASSUME NEW c PROVE c \in A \ {s[i]} <=> Holds(t, c)
  <2>1. ASSUME c \in A \ {s[i]} PROVE Holds(t, c)
    <3>1. PICK k \in 1..Len(s) : s[k] = c
      BY <1>1, <2>1
    <3>2. k # i
      BY <2>1, <3>1
    <3>3. CASE k < i
      <4>1. k \in 1..Len(t) /\ t[k] = c
        BY <1>1, <1>2, <3>1, <3>3
      <4> QED  BY <4>1 DEF Holds
    <3>4. CASE k > i
      <4>1. k - 1 \in 1..Len(t) /\ ~(k - 1 < i) /\ (k - 1) + 1 = k
        BY <1>1, <1>2, <3>1, <3>4
      <4>2. t[k - 1] = c
        BY <1>2, <3>1, <4>1
      <4> QED  BY <4>1, <4>2 DEF Holds
    <3> QED  BY <1>1, <3>2, <3>3, <3>4
  <2>2. ASSUME Holds(t, c) PROVE c \in A \ {s[i]}
    <3>1. PICK k \in 1..Len(t) : t[k] = c
      BY <2>2 DEF Holds
    <3>2. CASE k < i
      <4>1. k \in 1..Len(s) /\ k # i /\ c = s[k]
        BY <1>1, <1>2, <3>1, <3>2
      <4> QED  BY <1>1, <4>1
    <3>3. CASE ~(k < i)
      <4>1. k + 1 \in 1..Len(s) /\ k + 1 # i /\ c = s[k + 1]
        BY <1>1, <1>2, <3>1, <3>3
      <4> QED  BY <1>1, <4>1
    <3> QED  BY <3>2, <3>3
  <2> QED  BY <2>1, <2>2
<1> QED  BY <1>2, <1>8, <1>9, <1>10, <1>11 DEF IsChain, Follows, t, nx1

(* What stands before a place of the chain is known by its next.           *)
LEMMA BeforeIs ==
  ASSUME NEW s, NEW nx, NEW A, IsChain(s, nx, TAIL, A),
         NEW i \in 1..Len(s) + 1, NEW o \in A \cup {HEAD}, nx[o] = Nth(s, i, TAIL)
  PROVE  o = Before(s, i)
<1>1. /\ Len(s) \in Nat /\ \A k \in 1..Len(s) : s[k] \in Nodes
      /\ \A k, j \in 1..Len(s) : s[k] = s[j] => k = j
      /\ \A c \in A : \E k \in 1..Len(s) : s[k] = c
      /\ nx[HEAD] = Nth(s, 1, TAIL)
      /\ \A k \in 1..Len(s) : nx[s[k]] = Nth(s, k + 1, TAIL)
  BY ChainFacts
<1>2. ASSUME NEW a \in 1..Len(s) + 1, NEW b \in 1..Len(s) + 1,
             Nth(s, a, TAIL) = Nth(s, b, TAIL)
      PROVE  a = b
  <2>1. \A c \in 1..Len(s) + 1 : Nth(s, c, TAIL) = TAIL <=> c = Len(s) + 1
    BY <1>1, CellFacts DEF Nth
  <2>2. CASE a = Len(s) + 1 \/ b = Len(s) + 1
    BY <1>2, <2>1, <2>2
  <2>3. CASE a # Len(s) + 1 /\ b # Len(s) + 1
    <3>1. a \in 1..Len(s) /\ b \in 1..Len(s)
      BY <1>1, <2>3
    <3> QED  BY <1>1, <1>2, <3>1 DEF Nth
  <2> QED  BY <2>2, <2>3
<1>3. CASE o = HEAD
  <2>1. 1 \in 1..Len(s) + 1
    BY <1>1
  <2>2. i = 1
    BY <1>1, <1>2, <1>3, <2>1
  <2> QED  BY <1>3, <2>2 DEF Before
<1>4. CASE o # HEAD
  <2>1. PICK k \in 1..Len(s) : s[k] = o
    BY <1>1, <1>4
  <2>2. k + 1 \in 1..Len(s) + 1 /\ nx[o] = Nth(s, k + 1, TAIL)
    BY <1>1, <2>1
  <2>3. i = k + 1
    BY <1>2, <2>2
  <2>4. i # 1 /\ i - 1 = k
    BY <1>1, <2>3
  <2> QED  BY <2>1, <2>4 DEF Before
<1> QED  BY <1>3, <1>4

-----------------------------------------------------------------------------
(* The registry: the data of the nodes of the chain, in its order.         *)

Data(d, s) == [k \in 1..Len(s) |-> d[s[k]]]

EndOf(p, l) == {l[w].fd : w \in {v \in Workers : p[v] \in {"scan", "unlink1"}}}

(* A step of FdList, or none.                                              *)
FdStep(fds, ending, fds1, ending1) ==
  \/ fds1 = fds /\ ending1 = ending
  \/ \E fd \in Fds : fds1 = Append(fds, fd) /\ ending1 = ending
  \/ \E fd \in Fds : fd \notin ending /\ fds1 = fds /\ ending1 = ending \cup {fd}
  \/ \E fd \in Fds : /\ fd \in ending /\ Contains(fds, fd)
                     /\ fds1 = RemoveFirst(fds, fd) /\ ending1 = ending \ {fd}

LEMMA DataType ==
  ASSUME NEW s \in Seq(Nodes), NEW d \in [Cells -> {0} \cup Fds]
  PROVE  /\ Data(d, s) \in Seq({0} \cup Fds) /\ Len(Data(d, s)) = Len(s)
         /\ \A k \in 1..Len(s) : Data(d, s)[k] = d[s[k]]
<1>1. Len(s) \in Nat /\ \A k \in 1..Len(s) : s[k] \in Cells
  BY LenProperties, ElementOfSeq, CellFacts
<1>2. \A k \in 1..Len(s) : d[s[k]] \in {0} \cup Fds
  BY <1>1
<1> QED  BY <1>1, <1>2 DEF Data

LEMMA DataSame ==
  ASSUME NEW s, NEW d, NEW d1, \A k \in 1..Len(s) : d1[s[k]] = d[s[k]]
  PROVE  Data(d1, s) = Data(d, s)
BY DEF Data

LEMMA DataAppend ==
  ASSUME NEW s \in Seq(Nodes), NEW d \in [Cells -> {0} \cup Fds], NEW n \in Nodes
  PROVE  Data(d, Append(s, n)) = Append(Data(d, s), d[n])
<1> DEFINE t == Append(s, n)
           a == Data(d, t)
           b == Append(Data(d, s), d[n])
<1>1. Len(s) \in Nat /\ d[n] \in {0} \cup Fds
  BY LenProperties, CellFacts
<1>2. /\ t \in Seq(Nodes) /\ Len(t) = Len(s) + 1 /\ t[Len(s) + 1] = n
      /\ \A k \in 1..Len(s) : t[k] = s[k]
  BY AppendProperties
<1> HIDE DEF t
<1>3. a \in Seq({0} \cup Fds) /\ Len(a) = Len(s) + 1 /\ \A k \in 1..Len(s) + 1 : a[k] = d[t[k]]
  BY <1>2, DataType
<1>4. /\ b \in Seq({0} \cup Fds) /\ Len(b) = Len(s) + 1 /\ b[Len(s) + 1] = d[n]
      /\ \A k \in 1..Len(s) : b[k] = d[s[k]]
  <2>1. /\ Data(d, s) \in Seq({0} \cup Fds) /\ Len(Data(d, s)) = Len(s)
        /\ \A k \in 1..Len(s) : Data(d, s)[k] = d[s[k]]
    BY DataType
  <2> QED  BY <1>1, <2>1, AppendProperties
<1> HIDE DEF a, b
<1>5. ASSUME NEW k \in 1..Len(a) PROVE a[k] = b[k]
  <2>1. k \in 1..Len(s) \/ k = Len(s) + 1
    BY <1>1, <1>3
  <2> QED  BY <1>1, <1>2, <1>3, <1>4, <2>1
<1>6. a = b
  BY <1>3, <1>4, <1>5, SeqEqual
<1> QED  BY <1>6 DEF a, b, t

LEMMA DataRemove ==
  ASSUME NEW s \in Seq(Nodes), NEW d \in [Cells -> {0} \cup Fds], NEW i \in 1..Len(s),
         \A j \in 1..Len(s) : d[s[j]] = d[s[i]] => j = i
  PROVE  Data(d, RemoveAt(s, i)) = RemoveFirst(Data(d, s), d[s[i]])
<1> DEFINE t == RemoveAt(s, i)
           e == Data(d, s)
           a == Data(d, t)
           b == RemoveAt(e, i)
<1>1. Len(s) \in Nat
  BY LenProperties
<1>2. /\ t \in Seq(Nodes) /\ Len(t) = Len(s) - 1
      /\ \A k \in 1..(Len(s) - 1) : t[k] = IF k < i THEN s[k] ELSE s[k + 1]
  BY RemoveAtProperties
<1>3. e \in Seq({0} \cup Fds) /\ Len(e) = Len(s) /\ \A k \in 1..Len(s) : e[k] = d[s[k]]
  BY DataType
<1> HIDE DEF t, e
<1>4. a \in Seq({0} \cup Fds) /\ Len(a) = Len(s) - 1 /\ \A k \in 1..(Len(s) - 1) : a[k] = d[t[k]]
  <2>1. t \in Seq(Nodes)
    BY <1>2
  <2>2. a \in Seq({0} \cup Fds) /\ Len(a) = Len(t) /\ \A k \in 1..Len(t) : a[k] = d[t[k]]
    BY <2>1, DataType
  <2> HIDE DEF a
  <2> QED  BY <1>2, <2>2
<1>5. /\ b \in Seq({0} \cup Fds) /\ Len(b) = Len(s) - 1
      /\ \A k \in 1..(Len(s) - 1) : b[k] = IF k < i THEN e[k] ELSE e[k + 1]
  BY <1>3, RemoveAtProperties
<1> HIDE DEF a, b
<1>6. ASSUME NEW k \in 1..Len(a) PROVE a[k] = b[k]
  <2>1. k \in 1..(Len(s) - 1) /\ k \in 1..Len(s) /\ k + 1 \in 1..Len(s)
    BY <1>1, <1>4
  <2>2. CASE k < i
    <3>1. t[k] = s[k] /\ b[k] = e[k] /\ a[k] = d[t[k]] /\ e[k] = d[s[k]]
      BY <1>2, <1>3, <1>4, <1>5, <2>1, <2>2, Zenon
    <3> QED  BY <3>1, Zenon
  <2>3. CASE ~(k < i)
    <3>1. t[k] = s[k + 1] /\ b[k] = e[k + 1] /\ a[k] = d[t[k]] /\ e[k + 1] = d[s[k + 1]]
      BY <1>2, <1>3, <1>4, <1>5, <2>1, <2>3, Zenon
    <3> QED  BY <3>1, Zenon
  <2> QED  BY <2>2, <2>3
<1>7. a = b
  BY <1>4, <1>5, <1>6, SeqEqual
<1>8. /\ e[i] = d[s[i]] /\ i \in 1..Len(e)
      /\ \A j \in 1..(i - 1) : e[j] # d[s[i]]
  <2>1. \A j \in 1..(i - 1) : j \in 1..Len(s) /\ j # i
    BY <1>1
  <2> QED  BY <1>3, <2>1
<1>9. RemoveFirst(e, d[s[i]]) = RemoveAt(e, i)
  BY <1>3, <1>8, RemoveFirstPlace
<1> QED  BY <1>7, <1>9 DEF a, b, t, e

-----------------------------------------------------------------------------
(* The steps: which threads run alone, and what the rest then says.        *)

MainQuiet(s) ==
  /\ IsChain(s, nxt, End, {c \in alive : pc["main"] \in Detached => c # new})
  /\ OwnData
  /\ handed \subseteq [got : {0} \cup Fds, for : Fds]
  /\ \A h \in handed : \E k \in 1..Len(s) : dat[s[k]] = h.got
  /\ MainStands(s)
  /\ length \in Nat
  /\ pc["main"] \in Uncounted => length + 1 = Len(s)
  /\ pc["main"] \notin Uncounted => length = Len(s)
  /\ pc["main"] = "store" => loc["main"].len = length

WorkersIdle == \A w \in Workers : pc[w] = "idle"
OthersIdle(w) == (\A v \in Workers \ {w} : pc[v] = "idle") /\ pc["main"] \in {"idle", "find"}

LEMMA MainQuietIs == WorkersIdle => \A s : Chained(s) <=> MainQuiet(s)
<1> SUFFICES ASSUME NEW s, \A w \in Workers : pc[w] = "idle"
             PROVE  Chained(s) <=> MainQuiet(s)
  BY DEF WorkersIdle
<1>1. Listed = {c \in alive : pc["main"] \in Detached => c # new}
  BY DEF Listed
<1>2. \A w \in Workers : pc[w] \notin Overcounted \cup {"scan", "unlink1", "store"}
  BY DEF Overcounted
<1>3. \A t \in Threads : t = "main" \/ t \in Workers
  BY DEF Threads
<1>4. "main" \in Threads
  BY ThreadFacts
<1>5. Wanted(s) <=> /\ handed \subseteq [got : {0} \cup Fds, for : Fds]
                    /\ \A h \in handed : \E k \in 1..Len(s) : dat[s[k]] = h.got
  BY <1>2 DEF Wanted
<1>6. Counted(Len(s)) <=>
        /\ length \in Nat
        /\ pc["main"] \in Uncounted => length + 1 = Len(s)
        /\ pc["main"] \notin Uncounted => length = Len(s)
        /\ pc["main"] = "store" => loc["main"].len = length
  BY <1>2, <1>3, <1>4, Zenon DEF Counted
<1>7. \A w \in Workers : WorkerStands(s, w)
  BY <1>2 DEF WorkerStands
<1> QED  BY <1>1, <1>5, <1>6, <1>7, Zenon DEF Chained, MainQuiet

WorkerQuiet(s, w) ==
  /\ IsChain(s, nxt, TAIL, {c \in alive : pc[w] \in {"unlink2", "free"} => c # loc[w].node})
  /\ OwnData
  /\ handed \subseteq [got : {0} \cup Fds, for : Fds]
  /\ \A h \in handed : \E k \in 1..Len(s) : dat[s[k]] = h.got
  /\ pc[w] \in {"scan", "unlink1"} => \A h \in handed : h.got # loc[w].fd
  /\ WorkerStands(s, w)
  /\ length \in Nat
  /\ pc[w] \in Overcounted => length = Len(s) + 1
  /\ pc[w] \notin Overcounted => length = Len(s)
  /\ pc[w] = "store" => loc[w].len = length

LEMMA WorkerQuietIs ==
  \A w \in Workers : OthersIdle(w) => \A s : Chained(s) <=> WorkerQuiet(s, w)
<1> SUFFICES ASSUME NEW s, NEW w \in Workers, \A v \in Workers \ {w} : pc[v] = "idle",
                    pc["main"] \in {"idle", "find"}
             PROVE  Chained(s) <=> WorkerQuiet(s, w)
  BY DEF OthersIdle
<1>1. pc["main"] \notin Detached \cup OpenEnd \cup Uncounted \cup {"store"}
  BY DEF Detached, OpenEnd, Uncounted
<1>2. \A v \in Workers : v # w => pc[v] \notin Overcounted \cup {"scan", "unlink1", "store"}
  BY DEF Overcounted
<1>3. End = TAIL
  BY <1>1 DEF End
<1>4. Listed = {c \in alive : pc[w] \in {"unlink2", "free"} => c # loc[w].node}
  BY <1>1, <1>2 DEF Listed, Overcounted
<1>5. \A t \in Threads : t = "main" \/ t \in Workers
  BY DEF Threads
<1>6. w \in Threads
  BY ThreadFacts
<1>7. Wanted(s) <=>
        /\ handed \subseteq [got : {0} \cup Fds, for : Fds]
        /\ \A h \in handed : \E k \in 1..Len(s) : dat[s[k]] = h.got
        /\ pc[w] \in {"scan", "unlink1"} => \A h \in handed : h.got # loc[w].fd
  BY <1>2 DEF Wanted
<1>8. Counted(Len(s)) <=>
        /\ length \in Nat
        /\ pc[w] \in Overcounted => length = Len(s) + 1
        /\ pc[w] \notin Overcounted => length = Len(s)
        /\ pc[w] = "store" => loc[w].len = length
  <2>1. \A v \in Workers : pc[v] \in Overcounted => v = w
    BY <1>2
  <2>2. \A t \in Threads : pc[t] = "store" => t = w
    BY <1>1, <1>2, <1>5
  <2>3. pc["main"] \notin Uncounted
    BY <1>1
  <2> QED  BY <1>6, <2>1, <2>2, <2>3, Zenon DEF Counted
<1>9. (\A v \in Workers : WorkerStands(s, v)) <=> WorkerStands(s, w)
  BY <1>2 DEF WorkerStands
<1>10. MainStands(s)
  BY <1>1 DEF MainStands
<1> QED  BY <1>3, <1>4, <1>7, <1>8, <1>9, <1>10, Zenon DEF Chained, WorkerQuiet

LEMMA QuietNext ==
  /\ WorkersIdle' => \A s : Chained(s)' <=> MainQuiet(s)'
  /\ \A w \in Workers : OthersIdle(w)' => \A s : Chained(s)' <=> WorkerQuiet(s, w)'
<1>1. (WorkersIdle => \A s : Chained(s) <=> MainQuiet(s))'
  BY MainQuietIs, PTL
<1>2. (\A w \in Workers : OthersIdle(w) => \A s : Chained(s) <=> WorkerQuiet(s, w))'
  BY WorkerQuietIs, PTL
<1> QED  BY <1>1, <1>2, Zenon

(* What a step makes of the chain s.                                       *)
Makes(s, s1) ==
  /\ Chained(s1)'
  /\ FdStep(Data(dat, s), EndOf(pc, loc), Data(dat', s1), EndOf(pc', loc'))

LEMMA NoneEnding ==
  ASSUME WorkersIdle, WorkersIdle'
  PROVE  EndOf(pc, loc) = {} /\ EndOf(pc', loc') = {}
BY DEF WorkersIdle, EndOf

(* main's steps.                                                           *)
LEMMA AddStartChain ==
  ASSUME LInv, LInv', Serial, NEW s \in Seq(Nodes), Chained(s), AddStart
  PROVE  Makes(s, s)
<1>1. PICK n \in Nodes \ alive :
        /\ alive' = alive \cup {n}
        /\ dat' = [dat EXCEPT ![n] = accepted + 1]
        /\ nxt' = [nxt EXCEPT ![n] = NULL]
        /\ loc' = [loc EXCEPT !["main"] = [NoLocals EXCEPT !.node = n, !.fd = accepted + 1]]
  BY DEF AddStart
<1>2. /\ pc["main"] = "idle" /\ MayStart /\ pc' = [pc EXCEPT !["main"] = "add"]
      /\ accepted' = accepted + 1 /\ length' = length /\ handed' = handed
  BY DEF AddStart, At, Goto
<1>3. WorkersIdle /\ WorkersIdle' /\ pc'["main"] = "add"
  BY <1>2, MainAlone, ThreadFacts DEF WorkersIdle, LInv, ThreadsTyped
<1>4. new' = n
  BY <1>1, ThreadFacts DEF LInv, ThreadsTyped, new, NoLocals
<1>5. MainQuiet(s)
  BY <1>3, MainQuietIs
<1>6. /\ IsChain(s, nxt, TAIL, alive) /\ length = Len(s) /\ length \in Nat
      /\ OwnData /\ handed \subseteq [got : {0} \cup Fds, for : Fds]
      /\ \A h \in handed : \E k \in 1..Len(s) : dat[s[k]] = h.got
  <2>1. {c \in alive : pc["main"] \in Detached => c # new} = alive
    BY <1>2 DEF Detached
  <2>2. pc["main"] \notin OpenEnd \cup Uncounted
    BY <1>2 DEF OpenEnd, Uncounted
  <2> QED  BY <1>5, <2>1, <2>2 DEF MainQuiet, End
<1>7. /\ n \in Cells /\ n # HEAD /\ HEAD \in Cells /\ alive \subseteq Cells
      /\ accepted \in Nat /\ nxt \in [Cells -> Cells \cup {NULL}]
      /\ dat \in [Cells -> {0} \cup Fds]
  BY CellFacts, BoundsAssumption DEF LInv, FieldsTyped
<1>8. /\ nxt'[n] = NULL /\ \A c \in Cells : c # n => nxt'[c] = nxt[c]
      /\ dat'[n] = accepted + 1 /\ \A c \in Cells : c # n => dat'[c] = dat[c]
  BY <1>1, <1>7
<1>9. \A k \in 1..Len(s) : s[k] \in Cells /\ s[k] # n
  BY <1>1, <1>6, <1>7, ChainFacts
<1>10. IsChain(s, nxt', TAIL, alive)
  BY <1>1, <1>6, <1>7, <1>8, ChainSame
<1>11. {c \in alive' : pc'["main"] \in Detached => c # new'} = alive
  BY <1>1, <1>3, <1>4 DEF Detached
<1>12. OwnData'
  <2>1. \A c \in alive : dat'[c] = dat[c] /\ dat[c] \in 1..accepted
    BY <1>1, <1>6, <1>7, <1>8 DEF OwnData
  <2>2. \A c \in alive' : c = n \/ c \in alive
    BY <1>1
  <2>3. \A c \in alive' : dat'[c] \in 1..accepted'
    BY <1>2, <1>7, <1>8, <2>1, <2>2
  <2>4. ASSUME NEW c \in alive', NEW d \in alive', dat'[c] = dat'[d] PROVE c = d
    <3>1. \A b \in alive : dat[b] # accepted + 1
      BY <1>7, <2>1
    <3> QED  BY <1>6, <1>8, <2>1, <2>2, <2>4, <3>1 DEF OwnData
  <2> QED  BY <2>3, <2>4 DEF OwnData
<1>13. pc'["main"] \notin OpenEnd \cup Uncounted \cup {"store", "empty1", "append1"}
  BY <1>3 DEF OpenEnd, Uncounted
<1>14. MainQuiet(s)'
  <2>1. \A h \in handed' : \E k \in 1..Len(s) : dat'[s[k]] = h.got
    BY <1>2, <1>6, <1>8, <1>9
  <2>2. End' = TAIL /\ MainStands(s)'
    BY <1>3, <1>4, <1>8, <1>13 DEF End, MainStands
  <2> QED  BY <1>2, <1>6, <1>10, <1>11, <1>12, <1>13, <2>1, <2>2, Zenon DEF MainQuiet
<1>15. Data(dat', s) = Data(dat, s)
  BY <1>8, <1>9, DataSame
<1> QED  BY <1>3, <1>14, <1>15, NoneEnding, QuietNext DEF Makes, FdStep

LEMMA AddTestChain ==
  ASSUME LInv, LInv', Serial, NEW s \in Seq(Nodes), Chained(s), AddTest
  PROVE  Makes(s, s)
<1> DEFINE o == prv[TAIL]
           A == alive \ {new}
<1>1. pc["main"] = "add" /\ loc' = [loc EXCEPT !["main"].old = o]
  BY DEF AddTest, At
<1>2. UNCHANGED <<nxt, prv, dat, alive, length, accepted, handed, undefined>>
  BY DEF AddTest, list
<1>3. Linked(nxt, prv, A)
  BY <1>1 DEF LInv, Appending
<1>4. o \in A \cup {HEAD} /\ nxt[o] = TAIL /\ o # NULL
  BY <1>3, CellFacts DEF Linked, LInv, FieldsTyped
<1>5. pc' = [pc EXCEPT !["main"] = IF nxt[HEAD] = TAIL THEN "empty1" ELSE "append1"]
  BY <1>4 DEF AddTest, Goto
<1>6. WorkersIdle /\ WorkersIdle' /\ pc'["main"] \in {"empty1", "append1"}
  BY <1>1, <1>5, MainAlone, ThreadFacts DEF WorkersIdle, LInv, ThreadsTyped, Between
<1>7. new' = new /\ old' = o
  <2>1. loc \in [Threads -> Locals] /\ loc["main"] \in Locals
    BY ThreadFacts DEF LInv, ThreadsTyped
  <2>2. loc'["main"] = [loc["main"] EXCEPT !.old = o]
    BY <1>1, <2>1, ThreadFacts
  <2> QED  BY <2>1, <2>2 DEF new, old, Locals
<1>8. MainQuiet(s)
  BY <1>6, MainQuietIs
<1>9. /\ IsChain(s, nxt, TAIL, A) /\ nxt[new] = NULL /\ length = Len(s)
  <2>1. {c \in alive : pc["main"] \in Detached => c # new} = A /\ pc["main"] \in Detached
    BY <1>1 DEF Detached
  <2>2. pc["main"] \notin OpenEnd \cup Uncounted
    BY <1>1 DEF OpenEnd, Uncounted
  <2> QED  BY <1>8, <2>1, <2>2 DEF MainQuiet, End, MainStands
<1>10. o = Before(s, Len(s) + 1)
  <2>1. Len(s) \in Nat
    BY LenProperties
  <2>2. Len(s) + 1 \in 1..Len(s) + 1 /\ Len(s) + 1 \notin 1..Len(s)
    BY <2>1
  <2>3. nxt[o] = Nth(s, Len(s) + 1, TAIL)
    BY <1>4, <2>2 DEF Nth
  <2> HIDE DEF o, A
  <2> QED  BY <1>4, <1>9, <2>2, <2>3, BeforeIs
<1>11. {c \in alive' : pc'["main"] \in Detached => c # new'} = A
  BY <1>2, <1>6, <1>7 DEF Detached
<1>12. pc'["main"] \notin OpenEnd \cup Uncounted \cup {"store"}
  BY <1>6 DEF OpenEnd, Uncounted
<1>13. OwnData'
  BY <1>2, <1>8 DEF MainQuiet, OwnData
<1>14. MainQuiet(s)'
  BY <1>2, <1>7, <1>8, <1>9, <1>10, <1>11, <1>12, <1>13 DEF MainQuiet, End, MainStands
<1> QED  BY <1>2, <1>6, <1>14, NoneEnding, QuietNext DEF Makes, FdStep

LEMMA FindLastChain ==
  ASSUME LInv, LInv', Serial, NEW s \in Seq(Nodes), Chained(s), FindLast
  PROVE  Makes(s, s)
<1>1. pc["main"] = "find" /\ MayStart
  BY DEF FindLast, At
<1>2. WorkersIdle
  BY <1>1, MainAlone DEF WorkersIdle
<1>3. prv[TAIL] \in alive /\ dat[prv[TAIL]] = accepted /\ loc["main"].fd = accepted
  BY <1>1 DEF LInv, Appending
<1>4. prv[TAIL] # NULL
  BY <1>3, CellFacts DEF LInv, FieldsTyped
<1>5. ~undefined'
  BY DEF LInv
<1>6. /\ handed' = handed \cup {[got |-> accepted, for |-> accepted]}
      /\ pc' = [pc EXCEPT !["main"] = "idle"]
      /\ UNCHANGED <<nxt, prv, dat, alive, length, loc, accepted, undefined>>
  BY <1>3, <1>4, <1>5 DEF FindLast, Undefine, LastData, Goto, list
<1>7. WorkersIdle' /\ pc'["main"] = "idle"
  BY <1>2, <1>6, ThreadFacts DEF WorkersIdle, LInv, ThreadsTyped
<1>8. MainQuiet(s)
  BY <1>2, MainQuietIs
<1>9. pc["main"] \notin Detached \cup OpenEnd \cup Uncounted \cup {"store", "empty1", "append1"}
  BY <1>1 DEF Detached, OpenEnd, Uncounted
<1>10. pc'["main"] \notin Detached \cup OpenEnd \cup Uncounted \cup {"store", "empty1", "append1"}
  BY <1>7 DEF Detached, OpenEnd, Uncounted
<1>11. IsChain(s, nxt, TAIL, alive) /\ length = Len(s) /\ length \in Nat
  <2>1. {c \in alive : pc["main"] \in Detached => c # new} = alive
    BY <1>9
  <2> QED  BY <1>8, <1>9, <2>1 DEF MainQuiet, End
<1>12. \E k \in 1..Len(s) : dat[s[k]] = accepted
  BY <1>3, <1>11, ChainFacts
<1>13. [got |-> accepted, for |-> accepted] \in [got : {0} \cup Fds, for : Fds]
  <2>1. accepted \in Fds
    BY <1>1, BoundsAssumption DEF LInv, Appending, FieldsTyped, Fds
  <2> QED  BY <2>1
<1>14. \A h \in handed' : \E k \in 1..Len(s) : dat[s[k]] = h.got
  BY <1>6, <1>8, <1>12 DEF MainQuiet
<1>15. handed' \subseteq [got : {0} \cup Fds, for : Fds]
  BY <1>6, <1>8, <1>13 DEF MainQuiet
<1>16. {c \in alive' : pc'["main"] \in Detached => c # new'} = alive
  BY <1>6, <1>10
<1>17. OwnData'
  BY <1>6, <1>8 DEF MainQuiet, OwnData
<1>18. MainQuiet(s)'
  BY <1>6, <1>10, <1>11, <1>14, <1>15, <1>16, <1>17 DEF MainQuiet, End, MainStands
<1> QED  BY <1>2, <1>6, <1>7, <1>18, NoneEnding, QuietNext DEF Makes, FdStep

LEMMA AddLinksCases ==
  ASSUME AddLinks, ~undefined', pc["main"] = "empty1" => old = HEAD
  PROVE  /\ UNCHANGED <<dat, alive, length, loc, accepted, handed, undefined>>
         /\ \/ /\ pc["main"] \in {"empty1", "append1"}
               /\ nxt' = [nxt EXCEPT ![old] = new]
               /\ \E label \in {"empty2", "append2"} : pc' = [pc EXCEPT !["main"] = label]
            \/ /\ pc["main"] \in {"empty2", "append4"}
               /\ nxt' = [nxt EXCEPT ![new] = TAIL]
               /\ \E label \in {"empty3", "count"} : pc' = [pc EXCEPT !["main"] = label]
            \/ /\ pc["main"] = "empty3" /\ nxt' = nxt /\ pc' = [pc EXCEPT !["main"] = "empty4"]
            \/ /\ pc["main"] = "empty4" /\ nxt' = nxt /\ pc' = [pc EXCEPT !["main"] = "count"]
            \/ /\ pc["main"] = "append2" /\ nxt' = nxt /\ pc' = [pc EXCEPT !["main"] = "append3"]
            \/ /\ pc["main"] = "append3" /\ nxt' = nxt /\ pc' = [pc EXCEPT !["main"] = "append4"]
<1>1. ASSUME NEW from, NEW to, NEW c, NEW v, Assign("main", from, to, SetNext, c, v)
      PROVE  /\ UNCHANGED <<dat, alive, length, loc, accepted, handed, undefined>>
             /\ pc["main"] = from /\ pc' = [pc EXCEPT !["main"] = to]
             /\ nxt' = [nxt EXCEPT ![c] = v]
  BY <1>1 DEF Assign, At, Undefine, SetNext, Goto
<1>2. ASSUME NEW from, NEW to, NEW c, NEW v, Assign("main", from, to, SetPrev, c, v)
      PROVE  /\ UNCHANGED <<dat, alive, length, loc, accepted, handed, undefined>>
             /\ pc["main"] = from /\ pc' = [pc EXCEPT !["main"] = to]
             /\ nxt' = nxt
  BY <1>2 DEF Assign, At, Undefine, SetPrev, Goto
<1>3. CASE Assign("main", "empty1", "empty2", SetNext, HEAD, new)
  BY <1>1, <1>3
<1>4. CASE Assign("main", "empty2", "empty3", SetNext, new, TAIL)
  BY <1>1, <1>4
<1>5. CASE Assign("main", "empty3", "empty4", SetPrev, new, HEAD)
  BY <1>2, <1>5
<1>6. CASE Assign("main", "empty4", "count", SetPrev, TAIL, new)
  BY <1>2, <1>6
<1>7. CASE Assign("main", "append1", "append2", SetNext, old, new)
  BY <1>1, <1>7
<1>8. CASE Assign("main", "append2", "append3", SetPrev, new, old)
  BY <1>2, <1>8
<1>9. CASE Assign("main", "append3", "append4", SetPrev, TAIL, new)
  BY <1>2, <1>9
<1>10. CASE Assign("main", "append4", "count", SetNext, new, TAIL)
  BY <1>1, <1>10
<1> QED
  BY <1>3, <1>4, <1>5, <1>6, <1>7, <1>8, <1>9, <1>10, Zenon DEF AddLinks, new, old

LEMMA AddLinksChain ==
  ASSUME LInv, LInv', Serial, NEW s \in Seq(Nodes), Chained(s), AddLinks
  PROVE  \E s1 \in Seq(Nodes) : Makes(s, s1)
<1>0. PICK n, o : n = new /\ o = old
  OBVIOUS
<1> DEFINE L == {c \in alive : pc["main"] \in Detached => c # n}
<1>1. pc["main"] \in Linking /\ ~undefined'
  BY DEF AddLinks, Assign, At, Linking, LInv
<1>2. WorkersIdle
  BY <1>1, MainAlone DEF WorkersIdle, Linking, Between
<1>3. UNCHANGED <<dat, alive, length, loc, accepted, handed, undefined>>
  BY <1>1, AddLinksCases DEF LInv, Appending
<1>4. /\ n \in alive /\ dat[n] = accepted /\ accepted # 0
      /\ pc["main"] = "empty1" => o = HEAD
  BY <1>0, <1>1 DEF LInv, Appending, Linking
<1>5. /\ nxt \in [Cells -> Cells \cup {NULL}] /\ dat \in [Cells -> {0} \cup Fds]
      /\ n \in Nodes /\ accepted \in Fds
  BY <1>4, BoundsAssumption DEF LInv, FieldsTyped, Fds
<1>6. new' = n /\ old' = o
  BY <1>0, <1>3 DEF new, old
<1>7. /\ MainQuiet(s) /\ IsChain(s, nxt, End, L)
      /\ OwnData /\ OwnData' /\ length \in Nat
  <2>1. MainQuiet(s)
    BY <1>2, MainQuietIs
  <2>2. IsChain(s, nxt, End, L) /\ OwnData /\ length \in Nat
    BY <1>0, <2>1, Zenon DEF MainQuiet
  <2> QED  BY <1>3, <2>1, <2>2 DEF OwnData
<1>8. ASSUME NEW label \in Linking \cup {"count"}, pc' = [pc EXCEPT !["main"] = label]
      PROVE  WorkersIdle' /\ pc'["main"] = label /\ EndOf(pc', loc') = EndOf(pc, loc)
  <2>1. WorkersIdle' /\ pc'["main"] = label
    BY <1>2, <1>8, ThreadFacts DEF WorkersIdle, LInv, ThreadsTyped
  <2> QED  BY <1>2, <2>1, NoneEnding
<1>9. CASE pc["main"] \in {"empty1", "append1"}
  <2> DEFINE t == Append(s, n)
  <2>1. /\ nxt' = [nxt EXCEPT ![o] = n]
        /\ \E label \in {"empty2", "append2"} : pc' = [pc EXCEPT !["main"] = label]
    BY <1>0, <1>1, <1>4, <1>9, AddLinksCases
  <2>2. PICK label \in {"empty2", "append2"} : pc' = [pc EXCEPT !["main"] = label]
    BY <2>1
  <2>3. /\ WorkersIdle' /\ EndOf(pc', loc') = EndOf(pc, loc)
        /\ pc'["main"] \in {"empty2", "append2"}
    BY <1>8, <2>2 DEF Linking
  <2>4. pc["main"] \in Detached /\ pc["main"] \notin OpenEnd \cup Uncounted
    BY <1>9 DEF Detached, OpenEnd, Uncounted
  <2>5. /\ pc'["main"] \notin Detached /\ pc'["main"] \in OpenEnd /\ pc'["main"] \in Uncounted
        /\ pc'["main"] # "store" /\ pc'["main"] \notin {"empty1", "append1"}
    BY <2>3 DEF Detached, OpenEnd, Uncounted
  <2>6. /\ IsChain(s, nxt, TAIL, alive \ {n}) /\ nxt[n] = NULL /\ o = Before(s, Len(s) + 1)
        /\ length = Len(s)
    <3>1. L = alive \ {n}
      BY <2>4
    <3> QED  BY <1>0, <1>7, <1>9, <2>4, <3>1 DEF MainQuiet, End, MainStands
  <2>7. IsChain(t, nxt', NULL, (alive \ {n}) \cup {n}) /\ Before(t, Len(t) + 1) = n
    <3>1. n \notin alive \ {n}
      OBVIOUS
    <3> QED  BY <1>5, <2>1, <2>6, <3>1, ChainAppend
  <2>8. (alive \ {n}) \cup {n} = alive /\ {c \in alive' : pc'["main"] \in Detached => c # new'} = alive
    BY <1>3, <1>4, <2>5
  <2>9. /\ t \in Seq(Nodes) /\ Len(t) = Len(s) + 1 /\ Len(s) \in Nat
        /\ \A k \in 1..Len(s) : t[k] = s[k] /\ k \in 1..Len(t)
    <3>1. t \in Seq(Nodes) /\ Len(t) = Len(s) + 1 /\ \A k \in 1..Len(s) : t[k] = s[k]
      BY <1>5, AppendProperties
    <3>2. Len(s) \in Nat
      BY LenProperties
    <3> QED  BY <3>1, <3>2
  <2>10. n # HEAD
    BY <1>5, CellFacts
  <2> HIDE DEF t
  <2>11. \A h \in handed' : \E k \in 1..Len(t) : dat'[t[k]] = h.got
    BY <1>3, <1>7, <2>9 DEF MainQuiet
  <2>12. End' = NULL /\ MainStands(t)'
    <3>1. End' = NULL
      BY <2>5, Zenon DEF End
    <3>2. MainStands(t)'
      BY <1>6, <2>5, <2>7, <2>10, Zenon DEF MainStands
    <3> QED  BY <3>1, <3>2
  <2>13. length' + 1 = Len(t)
    BY <1>3, <2>6, <2>9
  <2>14. MainQuiet(t)'
    <3>1. IsChain(t, nxt', End', {c \in alive' : pc'["main"] \in Detached => c # new'})
      BY <2>7, <2>8, <2>12
    <3>2. length' \in Nat /\ handed' \subseteq [got : {0} \cup Fds, for : Fds]
      BY <1>3, <1>7 DEF MainQuiet
    <3> QED  BY <1>7, <2>5, <2>11, <2>12, <2>13, <3>1, <3>2, Zenon DEF MainQuiet
  <2>15. Data(dat', t) = Append(Data(dat, s), accepted)
    BY <1>3, <1>4, <1>5, DataAppend DEF t
  <2>16. Makes(s, t)
    BY <1>5, <2>3, <2>14, <2>15, QuietNext DEF Makes, FdStep
  <2> QED  BY <2>9, <2>16
<1>10. CASE pc["main"] \in Linking \ {"empty1", "append1"}
  <2>1. pc["main"] \in Linking \cap Uncounted /\ pc["main"] \notin Detached \cup {"store"}
    BY <1>10 DEF Linking, Uncounted, OpenEnd, Detached
  <2>2. L = alive
    BY <2>1
  <2>3. CASE pc["main"] \in {"empty2", "append4"}
    <3>1. /\ nxt' = [nxt EXCEPT ![n] = TAIL]
          /\ \E label \in {"empty3", "count"} : pc' = [pc EXCEPT !["main"] = label]
      BY <1>0, <1>1, <1>4, <2>3, AddLinksCases
    <3>2. PICK label \in {"empty3", "count"} : pc' = [pc EXCEPT !["main"] = label]
      BY <3>1
    <3>3. /\ WorkersIdle' /\ EndOf(pc', loc') = EndOf(pc, loc)
          /\ pc'["main"] \in {"empty3", "count"}
      BY <1>8, <3>2 DEF Linking
    <3>4. pc["main"] \in OpenEnd
      BY <2>3 DEF OpenEnd
    <3>5. /\ pc'["main"] \notin Detached \cup OpenEnd /\ pc'["main"] \in Uncounted
          /\ pc'["main"] # "store" /\ pc'["main"] \notin {"empty1", "append1"}
      BY <3>3 DEF Detached, OpenEnd, Uncounted
    <3>6. IsChain(s, nxt, NULL, alive) /\ n = Before(s, Len(s) + 1) /\ n # HEAD
      BY <1>0, <1>7, <2>2, <3>4 DEF MainQuiet, End, MainStands
    <3>7. IsChain(s, nxt', TAIL, alive)
      <4> QED  BY <1>5, <3>1, <3>6, ChainClose
    <3>8. {c \in alive' : pc'["main"] \in Detached => c # new'} = alive
      BY <1>3, <3>5
    <3>9. End' = TAIL /\ MainStands(s)'
      BY <3>5 DEF End, MainStands
    <3>10. MainQuiet(s)'
      BY <1>3, <1>7, <2>1, <3>5, <3>7, <3>8, <3>9 DEF MainQuiet
    <3> QED  BY <1>3, <3>3, <3>10, QuietNext DEF Makes, FdStep
  <2>4. CASE pc["main"] \in {"empty3", "empty4", "append2", "append3"}
    <3>1. /\ nxt' = nxt
          /\ \E label \in {"empty4", "count", "append3", "append4"} :
               /\ pc' = [pc EXCEPT !["main"] = label]
               /\ pc["main"] \in OpenEnd <=> label \in OpenEnd
      <4>1. \/ pc["main"] = "empty3" /\ nxt' = nxt /\ pc' = [pc EXCEPT !["main"] = "empty4"]
            \/ pc["main"] = "empty4" /\ nxt' = nxt /\ pc' = [pc EXCEPT !["main"] = "count"]
            \/ pc["main"] = "append2" /\ nxt' = nxt /\ pc' = [pc EXCEPT !["main"] = "append3"]
            \/ pc["main"] = "append3" /\ nxt' = nxt /\ pc' = [pc EXCEPT !["main"] = "append4"]
        BY <1>0, <1>1, <1>4, <2>4, AddLinksCases
      <4> QED  BY <4>1 DEF OpenEnd
    <3>2. PICK label \in {"empty4", "count", "append3", "append4"} :
            /\ pc' = [pc EXCEPT !["main"] = label]
            /\ pc["main"] \in OpenEnd <=> label \in OpenEnd
      BY <3>1
    <3>3. WorkersIdle' /\ EndOf(pc', loc') = EndOf(pc, loc) /\ pc'["main"] = label
      BY <1>8, <3>2 DEF Linking
    <3>5. /\ pc'["main"] \notin Detached /\ pc'["main"] \in Uncounted
          /\ pc'["main"] # "store" /\ pc'["main"] \notin {"empty1", "append1"}
      BY <3>3 DEF Detached, OpenEnd, Uncounted
    <3>6. End' = End /\ MainStands(s)'
      BY <1>0, <1>6, <1>7, <3>2, <3>3, <3>5 DEF End, MainStands, MainQuiet
    <3>7. IsChain(s, nxt', End', alive)
      BY <1>7, <2>2, <3>1, <3>6
    <3>8. {c \in alive' : pc'["main"] \in Detached => c # new'} = alive
      BY <1>3, <3>5
    <3>9. MainQuiet(s)'
      BY <1>3, <1>7, <2>1, <3>5, <3>6, <3>7, <3>8 DEF MainQuiet
    <3> QED  BY <1>3, <3>3, <3>9, QuietNext DEF Makes, FdStep
  <2> QED  BY <1>10, <2>3, <2>4 DEF Linking
<1> QED  BY <1>1, <1>9, <1>10

(* length++ and length--.                                                  *)
LEMMA CountMainChain ==
  ASSUME LInv, LInv', Serial, NEW s \in Seq(Nodes), Chained(s), Load("main") \/ Store("main")
  PROVE  Makes(s, s)
<1>1. pc["main"] \in {"count", "store"}
  BY DEF Load, Store, At
<1>2. WorkersIdle
  BY <1>1, MainAlone DEF WorkersIdle, Between
<1>3. MainQuiet(s)
  BY <1>2, MainQuietIs
<1>4. UNCHANGED <<nxt, prv, dat, alive, accepted, handed, undefined>>
  BY DEF Load, Store, list
<1>5. pc["main"] \in Uncounted /\ pc["main"] \notin Detached \cup OpenEnd
  BY <1>1 DEF Uncounted, Detached, OpenEnd
<1>6. /\ IsChain(s, nxt, TAIL, alive) /\ OwnData /\ length \in Nat /\ length + 1 = Len(s)
      /\ pc["main"] = "store" => loc["main"].len = length
      /\ handed \subseteq [got : {0} \cup Fds, for : Fds]
      /\ \A h \in handed : \E k \in 1..Len(s) : dat[s[k]] = h.got
  <2>1. {c \in alive : pc["main"] \in Detached => c # new} = alive
    BY <1>5
  <2> QED  BY <1>3, <1>5, <2>1 DEF MainQuiet, End
<1>7. OwnData'
  BY <1>4, <1>6 DEF OwnData
<1>8. \/ /\ pc' = [pc EXCEPT !["main"] = "store"] /\ length' = length
         /\ loc'["main"].len = length
      \/ /\ pc["main"] = "store"
         /\ pc' = [pc EXCEPT !["main"] = "find"] /\ length' = loc["main"].len + 1
  <2>1. loc \in [Threads -> Locals] /\ loc["main"] \in Locals
    BY ThreadFacts DEF LInv, ThreadsTyped
  <2>2. CASE Load("main")
    <3>1. loc'["main"] = [loc["main"] EXCEPT !.len = length]
      BY <2>1, <2>2, ThreadFacts DEF Load
    <3>2. loc'["main"].len = length
      BY <2>1, <3>1 DEF Locals
    <3> QED  BY <2>2, <3>2 DEF Load, Goto, list
  <2>3. CASE Store("main")
    BY <2>3 DEF Store, At, Goto, Change
  <2> QED  BY <2>2, <2>3
<1>9. WorkersIdle' /\ pc'["main"] \in {"store", "find"}
  BY <1>2, <1>8, ThreadFacts DEF WorkersIdle, LInv, ThreadsTyped
<1>10. /\ pc'["main"] \notin Detached \cup OpenEnd
       /\ pc'["main"] \in Uncounted <=> pc'["main"] = "store"
       /\ pc'["main"] \notin {"empty1", "append1"}
  BY <1>9 DEF Detached, OpenEnd, Uncounted
<1>11. /\ length' \in Nat
       /\ pc'["main"] \in Uncounted => length' + 1 = Len(s)
       /\ pc'["main"] \notin Uncounted => length' = Len(s)
       /\ pc'["main"] = "store" => loc'["main"].len = length'
  <2>1. pc \in [Threads -> MainLabels \cup WorkerLabels]
    BY DEF LInv, ThreadsTyped
  <2>2. CASE pc' = [pc EXCEPT !["main"] = "store"] /\ length' = length
             /\ loc'["main"].len = length
    <3>1. pc'["main"] = "store"
      BY <2>1, <2>2, ThreadFacts
    <3> QED  BY <1>6, <1>10, <2>2, <3>1
  <2>3. CASE /\ pc["main"] = "store"
             /\ pc' = [pc EXCEPT !["main"] = "find"] /\ length' = loc["main"].len + 1
    <3>1. pc'["main"] = "find"
      BY <2>1, <2>3, ThreadFacts
    <3>2. length' = length + 1
      BY <1>6, <2>3
    <3> QED  BY <1>6, <1>10, <3>1, <3>2
  <2> QED  BY <1>8, <2>2, <2>3
<1>12. {c \in alive' : pc'["main"] \in Detached => c # new'} = alive
  BY <1>4, <1>10
<1>13. End' = TAIL /\ MainStands(s)'
  BY <1>10 DEF End, MainStands
<1>14. MainQuiet(s)'
  <2>1. IsChain(s, nxt', End', {c \in alive' : pc'["main"] \in Detached => c # new'})
    BY <1>4, <1>6, <1>12, <1>13
  <2>2. /\ handed' \subseteq [got : {0} \cup Fds, for : Fds]
        /\ \A h \in handed' : \E k \in 1..Len(s) : dat'[s[k]] = h.got
    BY <1>4, <1>6
  <2> QED  BY <1>7, <1>11, <1>13, <2>1, <2>2, Zenon DEF MainQuiet
<1> QED  BY <1>2, <1>4, <1>9, <1>14, NoneEnding, QuietNext DEF Makes, FdStep

(* A worker's steps.                                                       *)

LEMMA OneEnding ==
  ASSUME NEW w \in Workers, OthersIdle(w), OthersIdle(w)'
  PROVE  /\ EndOf(pc, loc) = IF pc[w] \in {"scan", "unlink1"} THEN {loc[w].fd} ELSE {}
         /\ EndOf(pc', loc') = IF pc'[w] \in {"scan", "unlink1"} THEN {loc'[w].fd} ELSE {}
BY DEF OthersIdle, EndOf

LEMMA WorkerRuns ==
  ASSUME LInv, Serial, NEW w \in Workers, pc[w] # "idle" \/ MayStart
  PROVE  /\ OthersIdle(w)
         /\ \A label : pc' = [pc EXCEPT ![w] = label] => OthersIdle(w)' /\ pc'[w] = label
<1>1. pc[w] \notin Between \/ MayStart
  BY DEF LInv, ThreadsTyped, WorkerLabels, Between
<1>2. OthersIdle(w)
  BY <1>1, WorkerAlone DEF OthersIdle
<1> QED  BY <1>2, ThreadFacts DEF OthersIdle, LInv, ThreadsTyped

LEMMA CountWorkerChain ==
  ASSUME LInv, LInv', Serial, NEW s \in Seq(Nodes), Chained(s),
         NEW w \in Workers, Load(w) \/ Store(w)
  PROVE  Makes(s, s)
<1>1. pc[w] \in {"count", "store"} /\ w # "main"
  BY ThreadFacts DEF Load, Store, At
<1>2. OthersIdle(w)
  BY <1>1, WorkerRuns
<1>3. WorkerQuiet(s, w)
  BY <1>2, WorkerQuietIs
<1>4. UNCHANGED <<nxt, prv, dat, alive, accepted, handed, undefined>>
  BY DEF Load, Store, list
<1>5. pc[w] \in Overcounted /\ pc[w] \notin {"unlink2", "free"} \cup {"scan", "unlink1"}
  BY <1>1 DEF Overcounted
<1>6. /\ IsChain(s, nxt, TAIL, alive) /\ OwnData /\ length \in Nat /\ length = Len(s) + 1
      /\ pc[w] = "store" => loc[w].len = length
      /\ handed \subseteq [got : {0} \cup Fds, for : Fds]
      /\ \A h \in handed : \E k \in 1..Len(s) : dat[s[k]] = h.got
  <2>1. {c \in alive : pc[w] \in {"unlink2", "free"} => c # loc[w].node} = alive
    BY <1>5
  <2> QED  BY <1>3, <1>5, <2>1 DEF WorkerQuiet
<1>7. OwnData'
  BY <1>4, <1>6 DEF OwnData
<1>8. \/ /\ pc' = [pc EXCEPT ![w] = "store"] /\ length' = length
         /\ loc'[w].len = length
      \/ /\ pc[w] = "store"
         /\ pc' = [pc EXCEPT ![w] = "idle"] /\ length' = loc[w].len + -1
  <2>1. loc \in [Threads -> Locals] /\ loc[w] \in Locals
    BY ThreadFacts DEF LInv, ThreadsTyped
  <2>2. CASE Load(w)
    <3>1. loc'[w] = [loc[w] EXCEPT !.len = length]
      BY <2>1, <2>2, ThreadFacts DEF Load
    <3>2. loc'[w].len = length
      BY <2>1, <3>1 DEF Locals
    <3> QED  BY <2>2, <3>2 DEF Load, Goto, list
  <2>3. CASE Store(w)
    BY <1>1, <2>3 DEF Store, At, Goto, Change
  <2> QED  BY <2>2, <2>3
<1>9. OthersIdle(w)' /\ pc'[w] \in {"store", "idle"}
  BY <1>1, <1>8, WorkerRuns
<1>10. /\ pc'[w] \notin {"unlink2", "free"} \cup {"scan", "unlink1"}
       /\ pc'[w] \in Overcounted <=> pc'[w] = "store"
  BY <1>9 DEF Overcounted
<1>11. /\ length' \in Nat
       /\ pc'[w] \in Overcounted => length' = Len(s) + 1
       /\ pc'[w] \notin Overcounted => length' = Len(s)
       /\ pc'[w] = "store" => loc'[w].len = length'
  <2>1. Len(s) \in Nat
    BY LenProperties
  <2>2. CASE pc' = [pc EXCEPT ![w] = "store"] /\ length' = length
             /\ loc'[w].len = length
    <3>1. pc'[w] = "store"
      BY <1>1, <2>2, WorkerRuns
    <3> QED  BY <1>6, <1>10, <2>2, <3>1
  <2>3. CASE /\ pc[w] = "store"
             /\ pc' = [pc EXCEPT ![w] = "idle"] /\ length' = loc[w].len + -1
    <3>1. pc'[w] = "idle"
      BY <1>1, <2>3, WorkerRuns
    <3>2. length' = Len(s)
      BY <1>6, <2>1, <2>3
    <3> QED  BY <1>10, <2>1, <3>1, <3>2
  <2> QED  BY <1>8, <2>2, <2>3
<1>12. {c \in alive' : pc'[w] \in {"unlink2", "free"} => c # loc'[w].node} = alive
  BY <1>4, <1>10
<1>13. WorkerStands(s, w)'
  BY <1>10 DEF WorkerStands
<1>14. WorkerQuiet(s, w)'
  <2>1. IsChain(s, nxt', TAIL, {c \in alive' : pc'[w] \in {"unlink2", "free"} => c # loc'[w].node})
    BY <1>4, <1>6, <1>12
  <2>2. /\ handed' \subseteq [got : {0} \cup Fds, for : Fds]
        /\ \A h \in handed' : \E k \in 1..Len(s) : dat'[s[k]] = h.got
    BY <1>4, <1>6
  <2> QED  BY <1>7, <1>10, <1>11, <1>13, <2>1, <2>2, Zenon DEF WorkerQuiet
<1>15. EndOf(pc', loc') = EndOf(pc, loc)
  BY <1>2, <1>5, <1>9, <1>10, OneEnding
<1> QED  BY <1>4, <1>9, <1>14, <1>15, QuietNext DEF Makes, FdStep

LEMMA DeleteStartChain ==
  ASSUME LInv, LInv', Serial, NEW s \in Seq(Nodes), Chained(s),
         NEW w \in Workers, DeleteStart(w)
  PROVE  Makes(s, s)
<1>1. pc[w] = "idle" /\ MayStart
  BY DEF DeleteStart, At
<1>2. OthersIdle(w)
  BY <1>1, WorkerRuns
<1>3. WorkerQuiet(s, w)
  BY <1>2, WorkerQuietIs
<1>4. /\ IsChain(s, nxt, TAIL, alive) /\ OwnData /\ length \in Nat /\ length = Len(s)
      /\ handed \subseteq [got : {0} \cup Fds, for : Fds]
      /\ \A h \in handed : \E k \in 1..Len(s) : dat[s[k]] = h.got
  <2>1. {c \in alive : pc[w] \in {"unlink2", "free"} => c # loc[w].node} = alive
    BY <1>1
  <2>2. pc[w] \notin Overcounted
    BY <1>1 DEF Overcounted
  <2> QED  BY <1>3, <2>1, <2>2 DEF WorkerQuiet
<1>5. nxt[HEAD] = Nth(s, 1, TAIL) /\ Len(s) \in Nat
  BY <1>4, ChainFacts
<1>6. nxt[HEAD] # NULL
  <2>1. \A k \in 1..Len(s) : s[k] \in Cells
    BY <1>4, ChainFacts, CellFacts
  <2> QED  BY <1>5, <2>1, CellFacts DEF Nth
<1>7. PICK h \in handed :
        /\ handed' = handed \ {h} /\ pc' = [pc EXCEPT ![w] = "scan"]
        /\ loc' = [loc EXCEPT ![w] = [NoLocals EXCEPT !.node = nxt[HEAD], !.fd = h.got]]
        /\ UNCHANGED length
  BY <1>6 DEF DeleteStart, Goto
<1>8. UNCHANGED <<nxt, prv, dat, alive, length, accepted, undefined>>
  BY <1>7 DEF DeleteStart
<1>9. loc'[w].node = nxt[HEAD] /\ loc'[w].fd = h.got
  BY <1>7, ThreadFacts DEF LInv, ThreadsTyped, NoLocals
<1>10. OthersIdle(w)' /\ pc'[w] = "scan"
  BY <1>1, <1>7, WorkerRuns
<1>11. OwnData'
  BY <1>4, <1>8 DEF OwnData
<1>12. \A g \in handed' : g.got # h.got
  <2> SUFFICES ASSUME NEW g \in handed, g.got = h.got PROVE g = h
    BY <1>7
  <2>1. g.got = g.for /\ h.got = h.for
    BY DEF LInv, OwnFds
  <2>2. g \in [got : {0} \cup Fds, for : Fds] /\ h \in [got : {0} \cup Fds, for : Fds]
    BY <1>4
  <2>3. g = [got |-> g.got, for |-> g.for] /\ h = [got |-> h.got, for |-> h.for]
    BY <2>2
  <2>4. g.for = h.for
    BY <2>1
  <2> QED  BY <2>3, <2>4, Zenon
<1>13. WorkerStands(s, w)'
  <2>1. PICK j \in 1..Len(s) : dat[s[j]] = h.got
    BY <1>4
  <2>2. 1 \in 1..Len(s) /\ 1 <= j /\ s[1] = nxt[HEAD]
    BY <1>5, <2>1 DEF Nth
  <2> QED  BY <1>8, <1>9, <1>10, <2>1, <2>2 DEF WorkerStands
<1>14. WorkerQuiet(s, w)'
  <2>1. {c \in alive' : pc'[w] \in {"unlink2", "free"} => c # loc'[w].node} = alive
    BY <1>8, <1>10
  <2>2. IsChain(s, nxt', TAIL, {c \in alive' : pc'[w] \in {"unlink2", "free"} => c # loc'[w].node})
    BY <1>4, <1>8, <2>1
  <2>3. /\ handed' \subseteq [got : {0} \cup Fds, for : Fds]
        /\ \A g \in handed' : \E k \in 1..Len(s) : dat'[s[k]] = g.got
        /\ \A g \in handed' : g.got # loc'[w].fd
    BY <1>4, <1>7, <1>8, <1>9, <1>12
  <2>4. pc'[w] \notin Overcounted /\ pc'[w] # "store" /\ length' \in Nat /\ length' = Len(s)
    BY <1>4, <1>8, <1>10 DEF Overcounted
  <2> QED  BY <1>11, <1>13, <2>2, <2>3, <2>4, Zenon DEF WorkerQuiet
<1>15. EndOf(pc, loc) = {} /\ EndOf(pc', loc') = {h.got}
  BY <1>1, <1>2, <1>9, <1>10, OneEnding
<1>16. h.got \in Fds
  <2>1. h.got \in 1..accepted /\ accepted \in 0..MaxFds
    BY DEF LInv, OwnFds, FieldsTyped
  <2> QED  BY <2>1, BoundsAssumption DEF Fds
<1> QED  BY <1>8, <1>10, <1>14, <1>15, <1>16, QuietNext DEF Makes, FdStep

LEMMA ScanChain ==
  ASSUME LInv, LInv', Serial, NEW s \in Seq(Nodes), Chained(s),
         NEW w \in Workers, Scan(w)
  PROVE  Makes(s, s)
<1>0. PICK n : n = loc[w].node
  OBVIOUS
<1>1. pc[w] = "scan"
  BY DEF Scan, At
<1>2. OthersIdle(w)
  BY <1>1, WorkerRuns
<1>3. WorkerQuiet(s, w)
  BY <1>2, WorkerQuietIs
<1>4. /\ IsChain(s, nxt, TAIL, alive) /\ OwnData /\ length \in Nat /\ length = Len(s)
      /\ handed \subseteq [got : {0} \cup Fds, for : Fds]
      /\ \A h \in handed : \E k \in 1..Len(s) : dat[s[k]] = h.got
      /\ \A h \in handed : h.got # loc[w].fd
      /\ WorkerStands(s, w)
  <2>1. {c \in alive : pc[w] \in {"unlink2", "free"} => c # loc[w].node} = alive
    BY <1>1
  <2>2. pc[w] \notin Overcounted
    BY <1>1 DEF Overcounted
  <2> QED  BY <1>1, <1>3, <2>1, <2>2 DEF WorkerQuiet
<1>5. PICK i \in 1..Len(s), j \in 1..Len(s) : i <= j /\ s[i] = n /\ dat[s[j]] = loc[w].fd
  BY <1>0, <1>1, <1>4 DEF WorkerStands
<1>6. /\ n \in alive /\ n # NULL /\ Valid(n) /\ nxt[n] = Nth(s, i + 1, TAIL) /\ Len(s) \in Nat
  BY <1>4, <1>5, ChainFacts, CellFacts DEF Valid
<1>7. \/ /\ dat[n] = loc[w].fd /\ pc' = [pc EXCEPT ![w] = "unlink1"] /\ loc' = loc
      \/ /\ dat[n] # loc[w].fd /\ pc' = pc
         /\ loc' = [loc EXCEPT ![w].node = nxt[n]]
  BY <1>0, <1>6 DEF Scan, Goto
<1>8. UNCHANGED <<nxt, prv, dat, alive, length, accepted, handed, undefined>>
  BY <1>0, <1>6 DEF Scan, list
<1>9. OwnData'
  BY <1>4, <1>8 DEF OwnData
<1>10. /\ OthersIdle(w)' /\ pc'[w] \in {"scan", "unlink1"} /\ loc'[w].fd = loc[w].fd
       /\ WorkerStands(s, w)'
  <2>1. loc \in [Threads -> Locals] /\ loc[w] \in Locals
    BY ThreadFacts DEF LInv, ThreadsTyped
  <2>2. CASE dat[n] = loc[w].fd /\ pc' = [pc EXCEPT ![w] = "unlink1"] /\ loc' = loc
    <3>1. OthersIdle(w)' /\ pc'[w] = "unlink1"
      BY <1>1, <2>2, WorkerRuns
    <3>2. nxt[prv[n]] = n
      <4>1. Linked(nxt, prv, alive)
        BY <1>1, <1>2 DEF LInv, Untouched, Linking, Unlinking, OthersIdle
      <4> QED  BY <1>6, <4>1 DEF Linked
    <3> QED  BY <1>0, <1>8, <2>2, <3>1, <3>2 DEF WorkerStands
  <2>3. CASE dat[n] # loc[w].fd /\ pc' = pc /\ loc' = [loc EXCEPT ![w].node = nxt[n]]
    <3>1. pc' = [pc EXCEPT ![w] = "scan"]
      BY <1>1, <2>3, ThreadFacts DEF LInv, ThreadsTyped
    <3>2. OthersIdle(w)' /\ pc'[w] = "scan"
      BY <1>1, <3>1, WorkerRuns
    <3>3. loc'[w] = [loc[w] EXCEPT !.node = nxt[n]]
      BY <2>1, <2>3, ThreadFacts
    <3>4. loc'[w].node = nxt[n] /\ loc'[w].fd = loc[w].fd
      BY <2>1, <3>3 DEF Locals
    <3>5. i # j
      BY <1>5, <2>3
    <3>6. i + 1 \in 1..Len(s) /\ i + 1 <= j
      BY <1>5, <1>6, <3>5
    <3>7. s[i + 1] = loc'[w].node
      BY <1>6, <3>4, <3>6 DEF Nth
    <3> QED  BY <1>5, <1>8, <3>2, <3>4, <3>6, <3>7 DEF WorkerStands
  <2> QED  BY <1>7, <2>2, <2>3
<1>11. WorkerQuiet(s, w)'
  <2>1. {c \in alive' : pc'[w] \in {"unlink2", "free"} => c # loc'[w].node} = alive
    BY <1>8, <1>10
  <2>2. IsChain(s, nxt', TAIL, {c \in alive' : pc'[w] \in {"unlink2", "free"} => c # loc'[w].node})
    BY <1>4, <1>8, <2>1
  <2>3. /\ handed' \subseteq [got : {0} \cup Fds, for : Fds]
        /\ \A g \in handed' : \E k \in 1..Len(s) : dat'[s[k]] = g.got
        /\ \A g \in handed' : g.got # loc'[w].fd
    BY <1>4, <1>8, <1>10
  <2>4. pc'[w] \notin Overcounted /\ pc'[w] # "store" /\ length' \in Nat /\ length' = Len(s)
    BY <1>4, <1>8, <1>10 DEF Overcounted
  <2> QED  BY <1>9, <1>10, <2>2, <2>3, <2>4, Zenon DEF WorkerQuiet
<1>12. EndOf(pc', loc') = EndOf(pc, loc)
  BY <1>1, <1>2, <1>10, OneEnding
<1> QED  BY <1>8, <1>10, <1>11, <1>12, QuietNext DEF Makes, FdStep

LEMMA UnlinkChain ==
  ASSUME LInv, LInv', Serial, NEW s \in Seq(Nodes), Chained(s),
         NEW w \in Workers, Unlink(w)
  PROVE  \E s1 \in Seq(Nodes) : Makes(s, s1)
<1>0. PICK n, a, b, f : n = loc[w].node /\ a = prv[n] /\ b = nxt[n] /\ f = loc[w].fd
  OBVIOUS
<1>1. pc[w] \in {"unlink1", "unlink2"}
  BY DEF Unlink
<1>2. OthersIdle(w)
  BY <1>1, WorkerRuns
<1>3. /\ n \in alive /\ dat[n] = f
      /\ b \in alive \cup {TAIL} /\ a \in alive \cup {HEAD}
  BY <1>0, <1>1 DEF LInv, Deleting, Unlinking
<1>4. /\ Valid(n) /\ Valid(a) /\ Valid(b)
      /\ nxt \in [Cells -> Cells \cup {NULL}] /\ dat \in [Cells -> {0} \cup Fds]
      /\ n # HEAD /\ alive \subseteq Nodes /\ a \in Cells
  BY <1>3, CellFacts DEF LInv, FieldsTyped, Valid
<1>5. \/ /\ pc[w] = "unlink1" /\ pc' = [pc EXCEPT ![w] = "unlink2"]
         /\ nxt' = [nxt EXCEPT ![a] = b]
      \/ /\ pc[w] = "unlink2" /\ pc' = [pc EXCEPT ![w] = "free"]
         /\ nxt' = nxt
  BY <1>0, <1>4 DEF Unlink, Assign, At, Goto, SetNext, SetPrev
<1>6. UNCHANGED <<dat, alive, length, loc, accepted, handed, undefined>>
  BY <1>0, <1>4 DEF Unlink, Assign, SetNext, SetPrev
<1>7. WorkerQuiet(s, w)
  BY <1>2, WorkerQuietIs
<1>8. /\ OwnData /\ OwnData' /\ length \in Nat /\ Len(s) \in Nat
      /\ handed' \subseteq [got : {0} \cup Fds, for : Fds]
      /\ \A h \in handed : \E k \in 1..Len(s) : dat[s[k]] = h.got
  BY <1>6, <1>7, LenProperties DEF WorkerQuiet, OwnData
<1>9. loc'[w].node = n
  BY <1>0, <1>6
<1>10. CASE pc[w] = "unlink1" /\ pc' = [pc EXCEPT ![w] = "unlink2"]
            /\ nxt' = [nxt EXCEPT ![a] = b]
  <2>1. /\ IsChain(s, nxt, TAIL, alive) /\ length = Len(s)
        /\ \A h \in handed : h.got # f
        /\ nxt[a] = n
    <3>1. {c \in alive : pc[w] \in {"unlink2", "free"} => c # loc[w].node} = alive
      BY <1>10
    <3>2. pc[w] \notin Overcounted
      BY <1>10 DEF Overcounted
    <3> QED  BY <1>0, <1>7, <1>10, <3>1, <3>2 DEF WorkerQuiet, WorkerStands
  <2>2. PICK i \in 1..Len(s) : s[i] = n
    BY <1>3, <2>1, ChainFacts
  <2>3. a = Before(s, i)
    <3>1. i \in 1..Len(s) + 1 /\ nxt[a] = Nth(s, i, TAIL)
      BY <1>8, <2>1, <2>2 DEF Nth
    <3> QED  BY <1>3, <2>1, <3>1, BeforeIs
  <2> DEFINE t == RemoveAt(s, i)
  <2>4. IsChain(t, nxt', TAIL, alive \ {n})
    <3>1. IsChain(t, [nxt EXCEPT ![a] = nxt[s[i]]], TAIL, alive \ {s[i]})
      BY <1>4, <2>1, <2>3, ChainRemove
    <3>2. nxt' = [nxt EXCEPT ![a] = nxt[s[i]]]
      BY <1>0, <1>10, <2>2
    <3> QED  BY <2>2, <3>1, <3>2
  <2>5. t \in Seq(Nodes) /\ Len(t) = Len(s) - 1
    BY RemoveAtProperties
  <2>6. \A k \in 1..Len(s) : dat[s[k]] = dat[s[i]] => k = i
    <3>1. /\ \A k \in 1..Len(s) : s[k] \in alive
          /\ \A k, m \in 1..Len(s) : s[k] = s[m] => k = m
      BY <2>1, ChainFacts
    <3> QED  BY <1>8, <3>1 DEF OwnData
  <2>7. Data(dat', t) = RemoveFirst(Data(dat, s), f)
    BY <1>3, <1>4, <1>6, <2>2, <2>6, DataRemove
  <2>8. Contains(Data(dat, s), f) /\ f \in Fds
    <3>1. Len(Data(dat, s)) = Len(s) /\ Data(dat, s)[i] = f
      BY <1>3, <1>4, <2>2, DataType
    <3>2. f \in 1..accepted /\ accepted \in 0..MaxFds
      BY <1>0, <1>10 DEF LInv, OwnFds, FieldsTyped, Unlinking
    <3> QED  BY <3>1, <3>2, BoundsAssumption DEF Contains, Fds
  <2>9. \A h \in handed' : \E k \in 1..Len(t) : dat'[t[k]] = h.got
    <3> SUFFICES ASSUME NEW h \in handed PROVE \E k \in 1..Len(t) : dat[t[k]] = h.got
      BY <1>6
    <3>1. PICK k \in 1..Len(s) : dat[s[k]] = h.got
      BY <1>8
    <3>2. s[k] \in alive \ {n}
      BY <1>3, <2>1, <3>1, ChainFacts
    <3>3. Holds(t, s[k])
      BY <2>4, <3>2 DEF IsChain
    <3> QED  BY <3>1, <3>3 DEF Holds
  <2>10. OthersIdle(w)' /\ pc'[w] = "unlink2"
    BY <1>1, <1>10, WorkerRuns
  <2> HIDE DEF t
  <2>11. WorkerQuiet(t, w)'
    <3>1. {c \in alive' : pc'[w] \in {"unlink2", "free"} => c # loc'[w].node} = alive \ {n}
      BY <1>6, <1>9, <2>10
    <3>2. IsChain(t, nxt', TAIL, {c \in alive' : pc'[w] \in {"unlink2", "free"} => c # loc'[w].node})
      BY <2>4, <3>1
    <3>3. /\ pc'[w] \in Overcounted /\ pc'[w] \notin {"scan", "unlink1", "store"}
          /\ length' \in Nat /\ length' = Len(t) + 1
      BY <1>6, <1>8, <2>1, <2>5, <2>10 DEF Overcounted
    <3>4. WorkerStands(t, w)'
      BY <2>10 DEF WorkerStands
    <3> QED  BY <1>8, <2>9, <3>2, <3>3, <3>4, Zenon DEF WorkerQuiet
  <2>12. EndOf(pc, loc) = {f} /\ EndOf(pc', loc') = {}
    BY <1>0, <1>2, <1>10, <2>10, OneEnding
  <2>13. Makes(s, t)
    BY <2>7, <2>8, <2>10, <2>11, <2>12, QuietNext DEF Makes, FdStep
  <2> QED  BY <2>5, <2>13
<1>11. CASE pc[w] = "unlink2" /\ pc' = [pc EXCEPT ![w] = "free"] /\ nxt' = nxt
  <2>1. IsChain(s, nxt, TAIL, alive \ {n}) /\ length = Len(s) + 1
    <3>1. {c \in alive : pc[w] \in {"unlink2", "free"} => c # loc[w].node} = alive \ {n}
      BY <1>0, <1>11
    <3>2. pc[w] \in Overcounted
      BY <1>11 DEF Overcounted
    <3> QED  BY <1>7, <3>1, <3>2 DEF WorkerQuiet
  <2>2. OthersIdle(w)' /\ pc'[w] = "free"
    BY <1>1, <1>11, WorkerRuns
  <2>3. WorkerQuiet(s, w)'
    <3>1. {c \in alive' : pc'[w] \in {"unlink2", "free"} => c # loc'[w].node} = alive \ {n}
      BY <1>6, <1>9, <2>2
    <3>2. IsChain(s, nxt', TAIL, {c \in alive' : pc'[w] \in {"unlink2", "free"} => c # loc'[w].node})
      BY <1>11, <2>1, <3>1
    <3>3. /\ pc'[w] \in Overcounted /\ pc'[w] \notin {"scan", "unlink1", "store"}
          /\ length' \in Nat /\ length' = Len(s) + 1
      BY <1>6, <1>8, <2>1, <2>2 DEF Overcounted
    <3>4. WorkerStands(s, w)'
      BY <2>2 DEF WorkerStands
    <3>5. \A h \in handed' : \E k \in 1..Len(s) : dat'[s[k]] = h.got
      BY <1>6, <1>8
    <3> QED  BY <1>8, <3>2, <3>3, <3>4, <3>5, Zenon DEF WorkerQuiet
  <2>4. EndOf(pc, loc) = {} /\ EndOf(pc', loc') = {}
    BY <1>2, <1>11, <2>2, OneEnding
  <2>5. Makes(s, s)
    BY <1>6, <2>2, <2>3, <2>4, QuietNext DEF Makes, FdStep
  <2> QED  BY <2>5
<1> QED  BY <1>5, <1>10, <1>11

LEMMA FreeChain ==
  ASSUME LInv, LInv', Serial, NEW s \in Seq(Nodes), Chained(s),
         NEW w \in Workers, Free(w)
  PROVE  Makes(s, s)
<1>0. PICK n : n = loc[w].node
  OBVIOUS
<1>1. pc[w] = "free"
  BY DEF Free, At
<1>2. OthersIdle(w)
  BY <1>1, WorkerRuns
<1>3. WorkerQuiet(s, w)
  BY <1>2, WorkerQuietIs
<1>4. /\ n \in alive /\ Valid(n) /\ n # HEAD /\ n \in Cells /\ HEAD \in Cells
      /\ alive \subseteq Cells /\ nxt \in [Cells -> Cells \cup {NULL}]
  BY <1>0, <1>1, CellFacts DEF LInv, Deleting, Unlinking, FieldsTyped, Valid
<1>5. /\ alive' = alive \ {n} /\ nxt' = [nxt EXCEPT ![n] = NULL]
      /\ pc' = [pc EXCEPT ![w] = "count"]
      /\ UNCHANGED <<dat, length, loc, accepted, handed, undefined>>
  BY <1>0, <1>4 DEF Free, Goto
<1>6. /\ IsChain(s, nxt, TAIL, alive \ {n}) /\ length = Len(s) + 1 /\ length \in Nat
      /\ OwnData /\ handed \subseteq [got : {0} \cup Fds, for : Fds]
      /\ \A h \in handed : \E k \in 1..Len(s) : dat[s[k]] = h.got
  <2>1. {c \in alive : pc[w] \in {"unlink2", "free"} => c # loc[w].node} = alive \ {n}
    BY <1>0, <1>1
  <2>2. pc[w] \in Overcounted
    BY <1>1 DEF Overcounted
  <2> QED  BY <1>3, <2>1, <2>2 DEF WorkerQuiet
<1>7. OthersIdle(w)' /\ pc'[w] = "count"
  BY <1>1, <1>5, WorkerRuns
<1>8. IsChain(s, nxt', TAIL, alive \ {n})
  <2>1. nxt'[HEAD] = nxt[HEAD] /\ \A c \in alive \ {n} : nxt'[c] = nxt[c]
    BY <1>4, <1>5
  <2> QED  BY <1>6, <2>1, ChainSame
<1>9. OwnData'
  BY <1>5, <1>6 DEF OwnData
<1>10. WorkerQuiet(s, w)'
  <2>1. {c \in alive' : pc'[w] \in {"unlink2", "free"} => c # loc'[w].node} = alive \ {n}
    BY <1>5, <1>7
  <2>2. IsChain(s, nxt', TAIL, {c \in alive' : pc'[w] \in {"unlink2", "free"} => c # loc'[w].node})
    BY <1>8, <2>1
  <2>3. /\ pc'[w] \in Overcounted /\ pc'[w] \notin {"scan", "unlink1", "store"}
        /\ length' \in Nat /\ length' = Len(s) + 1
    BY <1>5, <1>6, <1>7 DEF Overcounted
  <2>4. WorkerStands(s, w)'
    BY <1>7 DEF WorkerStands
  <2>5. /\ handed' \subseteq [got : {0} \cup Fds, for : Fds]
        /\ \A h \in handed' : \E k \in 1..Len(s) : dat'[s[k]] = h.got
    BY <1>5, <1>6
  <2> QED  BY <1>9, <2>2, <2>3, <2>4, <2>5, Zenon DEF WorkerQuiet
<1>11. EndOf(pc, loc) = {} /\ EndOf(pc', loc') = {}
  BY <1>1, <1>2, <1>7, OneEnding
<1> QED  BY <1>5, <1>7, <1>10, <1>11, QuietNext DEF Makes, FdStep

-----------------------------------------------------------------------------
LEMMA NextChain ==
  ASSUME LInv, LInv', Serial, NEW s \in Seq(Nodes), Chained(s), [Next]_vars
  PROVE  \E s1 \in Seq(Nodes) : Makes(s, s1)
<1>1. CASE AddStart \/ AddTest \/ FindLast
  BY <1>1, AddStartChain, AddTestChain, FindLastChain
<1>2. CASE AddLinks
  BY <1>2, AddLinksChain
<1>3. CASE \E t \in Threads : Load(t) \/ Store(t)
  BY <1>3, CountMainChain, CountWorkerChain DEF Threads
<1>4. CASE \E w \in Workers : DeleteStart(w) \/ Scan(w) \/ Unlink(w) \/ Free(w)
  BY <1>4, DeleteStartChain, ScanChain, UnlinkChain, FreeChain
<1>5. CASE UNCHANGED vars
  <2>1. Chained(s)'
    BY <1>5 DEF Chained, End, Listed, OwnData, Wanted, Counted, MainStands, WorkerStands,
                new, old, vars, list
  <2>2. EndOf(pc', loc') = EndOf(pc, loc) /\ dat' = dat
    BY <1>5 DEF vars, list
  <2> QED  BY <2>1, <2>2 DEF Makes, FdStep
<1> QED  BY <1>1, <1>2, <1>3, <1>4, <1>5 DEF Next, Over

LEMMA InitChain == Init => Chained(<<>>)
<1> SUFFICES ASSUME Init PROVE Chained(<<>>)
  OBVIOUS
<1>1. WorkersIdle /\ pc["main"] = "idle"
  BY ThreadFacts DEF Init, WorkersIdle
<1>2. pc["main"] \notin Detached \cup OpenEnd \cup Uncounted \cup {"store", "empty1", "append1"}
  BY <1>1 DEF Detached, OpenEnd, Uncounted
<1>3. <<>> \in Seq(Nodes) /\ Len(<<>>) = 0
  BY EmptySeq
<1>4. \A k : k \notin 1..Len(<<>>)
  BY <1>3
<1>5. nxt[HEAD] = TAIL /\ alive = {} /\ handed = {} /\ length = 0
  BY CellFacts DEF Init
<1>6. IsChain(<<>>, nxt, End, {c \in alive : pc["main"] \in Detached => c # new})
  BY <1>2, <1>3, <1>4, <1>5 DEF IsChain, Distinct, Follows, Holds, Nth, End
<1>7. OwnData /\ MainStands(<<>>)
  BY <1>2, <1>5 DEF OwnData, MainStands
<1>8. MainQuiet(<<>>)
  BY <1>2, <1>3, <1>5, <1>6, <1>7 DEF MainQuiet
<1> QED  BY <1>1, <1>8, MainQuietIs

CInv == LInv /\ \E s \in Seq(Nodes) : Chained(s)

LEMMA ChainKept == ASSUME Serial = TRUE PROVE Spec => []CInv
<1>1. Init => CInv
  BY InitList, InitChain, EmptySeq DEF CInv
<1>2. CInv /\ [Next]_vars => CInv'
  BY NextList, NextChain DEF CInv, Makes
<1> QED  BY <1>1, <1>2, PTL DEF Spec

LEMMA UndefinedTyped == Spec => [](undefined \in BOOLEAN)
<1>1. Init => undefined \in BOOLEAN
  BY Zenon DEF Init
<1>2. undefined \in BOOLEAN /\ [Next]_vars => (undefined \in BOOLEAN)'
  <2> SUFFICES ASSUME undefined \in BOOLEAN, [Next]_vars PROVE undefined' \in BOOLEAN
    OBVIOUS
  <2>1. CASE AddStart \/ AddTest \/ FindLast
    BY <2>1, Zenon DEF AddStart, AddTest, FindLast, Undefine
  <2>2. CASE AddLinks
    BY <2>2, Zenon DEF AddLinks, Assign, Undefine
  <2>3. CASE \E t \in Threads : Load(t) \/ Store(t)
    BY <2>3, Zenon DEF Load, Store
  <2>4. CASE \E w \in Workers : DeleteStart(w) \/ Scan(w) \/ Free(w)
    BY <2>4, Zenon DEF DeleteStart, Scan, Free, Undefine
  <2>5. CASE \E w \in Workers : Unlink(w)
    BY <2>5, Zenon DEF Unlink, Assign, Undefine
  <2>6. CASE UNCHANGED vars
    BY <2>6, Zenon DEF vars
  <2> QED  BY <2>1, <2>2, <2>3, <2>4, <2>5, <2>6 DEF Next, Over
<1> QED  BY <1>1, <1>2, PTL DEF Spec

(* When no two operations on the list overlap, every variable keeps its    *)
(* type; in particular length, which an int of the code holds, is never    *)
(* negative: nothing is taken off the list that is not on it.              *)
THEOREM ListTyped == ASSUME Serial = TRUE PROVE Spec => []TypeOK
<1>1. CInv /\ undefined \in BOOLEAN => TypeOK
  <2> SUFFICES ASSUME CInv, undefined \in BOOLEAN PROVE TypeOK
    OBVIOUS
  <2>1. PICK s \in Seq(Nodes) : Chained(s)
    BY DEF CInv
  <2>2. FieldsTyped /\ ThreadsTyped
    BY DEF CInv, LInv
  <2>3. length \in Nat
    BY <2>1 DEF Chained, Counted
  <2>4. handed \subseteq [got : {0} \cup Fds, for : Fds]
    BY <2>1 DEF Chained, Wanted
  <2>5. DOMAIN pc = Threads /\ DOMAIN loc = Threads
    BY <2>2 DEF ThreadsTyped
  <2>6. /\ nxt \in [Cells -> Cells \cup {NULL}] /\ prv \in [Cells -> Cells \cup {NULL}]
        /\ dat \in [Cells -> {0} \cup Fds] /\ alive \subseteq Nodes /\ accepted \in 0..MaxFds
    BY <2>2 DEF FieldsTyped
  <2> QED  BY <2>3, <2>4, <2>5, <2>6 DEF TypeOK
<1> QED  BY <1>1, UndefinedTyped, ChainKept, PTL

LEMMA ChainAtRest ==
  ASSUME NEW s, Chained(s), Quiet
  PROVE  /\ IsChain(s, nxt, TAIL, alive) /\ length = Len(s)
<1>1. WorkersIdle /\ pc["main"] = "idle"
  BY ThreadFacts DEF Quiet, WorkersIdle
<1>2. MainQuiet(s)
  BY <1>1, MainQuietIs
<1>3. pc["main"] \notin Detached \cup OpenEnd \cup Uncounted
  BY <1>1 DEF Detached, OpenEnd, Uncounted
<1>4. {c \in alive : pc["main"] \in Detached => c # new} = alive
  BY <1>3
<1> QED  BY <1>2, <1>3, <1>4 DEF MainQuiet, End

(* Between operations that do not overlap the links of the list go both    *)
(* ways, and from head to tail they reach every node not freed and none    *)
(* that is (dlist_int_add_node, dlist_int_del_node_by_data).               *)
THEOREM LinksHold == ASSUME Serial = TRUE PROVE Spec => []LinksMutual
<1>1. CInv => LinksMutual
  <2> SUFFICES ASSUME CInv, Quiet, ~undefined
               PROVE  /\ \A c \in alive \cup {HEAD} :
                           nxt[c] \in alive \cup {TAIL} /\ prv[nxt[c]] = c
                      /\ alive = {Chain[k] : k \in 1..Size}
    BY DEF LinksMutual
  <2>1. PICK s \in Seq(Nodes) : Chained(s)
    BY DEF CInv
  <2>2. IsChain(s, nxt, TAIL, alive)
    BY <2>1, ChainAtRest
  <2>3. Size = Len(s) /\ Chain = s
    BY <2>2, CellFacts, ChainIs
  <2>4. alive = {Chain[k] : k \in 1..Size}
    BY <2>2, <2>3 DEF IsChain, Holds
  <2>5. Linked(nxt, prv, alive)
    BY ThreadFacts DEF CInv, LInv, Untouched, Quiet, Linking, Unlinking
  <2> QED  BY <2>4, <2>5 DEF Linked
<1> QED  BY <1>1, ChainKept, PTL

(* Between operations that do not overlap length is the number of nodes of *)
(* the list: the decrement of dlist_int_del_node_by_data, which the code   *)
(* makes whether or not it found the descriptor, always goes with a node.  *)
THEOREM LengthHolds == ASSUME Serial = TRUE PROVE Spec => []LengthIsNodeCount
<1>1. CInv => LengthIsNodeCount
  <2> SUFFICES ASSUME CInv, Quiet PROVE length = Size
    BY DEF LengthIsNodeCount
  <2>1. PICK s \in Seq(Nodes) : Chained(s)
    BY DEF CInv
  <2>2. IsChain(s, nxt, TAIL, alive) /\ length = Len(s)
    BY <2>1, ChainAtRest
  <2>3. Size = Len(s)
    BY <2>2, CellFacts, ChainIs
  <2> QED  BY <2>2, <2>3
<1> QED  BY <1>1, ChainKept, PTL

-----------------------------------------------------------------------------
(* The registry FdList.                                                    *)

LEMMA RegistryIs ==
  (\A s : Chained(s) => ChainData = Data(dat, s)) /\ Ending = EndOf(pc, loc)
<1>1. ASSUME NEW s, Chained(s) PROVE ChainData = Data(dat, s)
  <2>1. End \notin Nodes
    BY BoundsAssumption, CellFacts DEF End, NULL, Nodes
  <2>2. IsChain(s, nxt, End, Listed)
    BY <1>1 DEF Chained
  <2>3. ChainData = [k \in 1..Len(s) |-> dat[s[k]]]
    BY <2>1, <2>2, ChainIs
  <2> QED  BY <2>3 DEF Data
<1> QED  BY <1>1 DEF Ending, EndOf

LEMMA RegistryIsNext ==
  (\A s : Chained(s)' => ChainData' = Data(dat', s)) /\ Ending' = EndOf(pc', loc')
<1>1. ((\A s : Chained(s) => ChainData = Data(dat, s)) /\ Ending = EndOf(pc, loc))'
  BY RegistryIs, PTL
<1> QED  BY <1>1, Zenon DEF Data, EndOf

LEMMA InitRegistry == Init => Registry!Init
<1> SUFFICES ASSUME Init PROVE ChainData = <<>> /\ Ending = {}
  BY DEF Registry!Init
<1>1. Chained(<<>>)
  BY InitChain
<1>2. ChainData = Data(dat, <<>>)
  BY <1>1, RegistryIs
<1>3. Data(dat, <<>>) = <<>>
  BY EmptySeq DEF Data
<1>4. Ending = {}
  BY BoundsAssumption DEF Init, Ending, Threads
<1> QED  BY <1>2, <1>3, <1>4

LEMMA StepRegistry ==
  CInv /\ [Next]_vars /\ CInv' /\ Serial => [Registry!Next]_<<ChainData, Ending>>
<1> SUFFICES ASSUME CInv, [Next]_vars, CInv', Serial
             PROVE  [Registry!Next]_<<ChainData, Ending>>
  OBVIOUS
<1>1. PICK s \in Seq(Nodes) : Chained(s)
  BY DEF CInv
<1>2. PICK s1 \in Seq(Nodes) : Makes(s, s1)
  BY <1>1, NextChain DEF CInv
<1>3. FdStep(ChainData, Ending, ChainData', Ending')
  BY <1>1, <1>2, RegistryIs, RegistryIsNext DEF Makes
<1>4. CASE ChainData' = ChainData /\ Ending' = Ending
  BY <1>4
<1>5. CASE \E fd \in Fds : ChainData' = Append(ChainData, fd) /\ Ending' = Ending
  <2>1. \E fd \in Fds : Registry!Register(fd)
    BY <1>5, Zenon DEF Registry!Register
  <2> QED  BY <2>1, Zenon DEF Registry!Next
<1>6. CASE \E fd \in Fds : fd \notin Ending /\ ChainData' = ChainData /\ Ending' = Ending \cup {fd}
  <2>1. \E fd \in Fds : Registry!AskRemoval(fd)
    BY <1>6, Zenon DEF Registry!AskRemoval
  <2> QED  BY <2>1, Zenon DEF Registry!Next
<1>7. CASE \E fd \in Fds : /\ fd \in Ending /\ Contains(ChainData, fd)
                         /\ ChainData' = RemoveFirst(ChainData, fd) /\ Ending' = Ending \ {fd}
  <2>1. \A fd : Registry!Contains(ChainData, fd) <=> Contains(ChainData, fd)
    BY Zenon DEF Registry!Contains, Contains
  <2>2. \A fd : Registry!RemoveFirst(ChainData, fd) = RemoveFirst(ChainData, fd)
    BY Zenon DEF Registry!RemoveFirst, RemoveFirst, Registry!RemoveAt, RemoveAt,
                 Registry!SelectInSeq, SelectInSeq, Registry!Min, Min
  <2>3. \E fd \in Fds : Registry!Unregister(fd)
    BY <1>7, <2>1, <2>2, Zenon DEF Registry!Unregister
  <2> QED  BY <2>3, Zenon DEF Registry!Next
<1> QED
  BY <1>3, <1>4, <1>5, <1>6, <1>7, Zenon DEF FdStep

(* When no two operations on the list overlap, the list implements the     *)
(* registry of descriptors: each of the assignments of an append or of a   *)
(* deletion, one by one, is a step of FdList or changes nothing of it.     *)
THEOREM ListImplements == ASSUME Serial = TRUE PROVE Spec => ImplementsFdList
<1>1. CInv /\ [Next]_vars /\ CInv' => [Registry!Next]_<<ChainData, Ending>>
  BY StepRegistry
<1> QED  BY <1>1, InitRegistry, ChainKept, PTL DEF Spec, ImplementsFdList, Registry!Spec
=============================================================================
