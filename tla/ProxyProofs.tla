---------------------------- MODULE ProxyProofs ----------------------------
(***************************************************************************)
(* Proofs about Proxy for any number of workers, connections, descriptors  *)
(* and requests: that the two lists agree with the pool at every moment,   *)
(* whatever descriptor numbers come back while a worker still serves them. *)
(***************************************************************************)
EXTENDS Proxy, ListLemmas

-----------------------------------------------------------------------------
(* What Count does over the operations on sequences.                       *)

Places(s, f) == {k \in 1..Len(s) : s[k] = f}

LEMMA CountType ==
  ASSUME NEW S, NEW s \in Seq(S), NEW f
  PROVE  /\ Count(s, f) = Cardinality(Places(s, f))
         /\ IsFiniteSet(Places(s, f))
         /\ Count(s, f) \in Nat
         /\ Count(s, f) > 0 <=> Places(s, f) # {}
<1>1. DOMAIN s = 1..Len(s) /\ Len(s) \in Nat
  BY LenProperties
<1>2. Count(s, f) = Cardinality(Places(s, f))
  BY <1>1 DEF Count, Places
<1>3. IsFiniteSet(1..Len(s))
  BY <1>1, FS_Interval
<1>4. Places(s, f) \in SUBSET (1..Len(s))
  BY DEF Places
<1>5. IsFiniteSet(Places(s, f))
  BY <1>3, <1>4, FS_Subset
<1>6. Cardinality(Places(s, f)) \in Nat
  BY <1>5, FS_CardinalityType
<1>7. Cardinality(Places(s, f)) = 0 <=> Places(s, f) = {}
  BY <1>5, FS_EmptySet
<1> QED  BY <1>2, <1>5, <1>6, <1>7

LEMMA CountEmpty == ASSUME NEW f PROVE Count(<<>>, f) = 0
<1>1. {k \in DOMAIN <<>> : <<>>[k] = f} = {}
  OBVIOUS
<1> QED  BY <1>1, FS_EmptySet DEF Count

LEMMA CountAppend ==
  ASSUME NEW S, NEW s \in Seq(S), NEW x \in S, NEW f
  PROVE  Count(Append(s, x), f) = Count(s, f) + IF x = f THEN 1 ELSE 0
<1> DEFINE t == Append(s, x)
<1>1. /\ Len(s) \in Nat /\ t \in Seq(S) /\ Len(t) = Len(s) + 1
      /\ t[Len(s) + 1] = x /\ \A k \in 1..Len(s) : t[k] = s[k]
  BY LenProperties, AppendProperties
<1> HIDE DEF t
<1>2. /\ IsFiniteSet(Places(s, f)) /\ Count(s, f) = Cardinality(Places(s, f))
      /\ Count(t, f) = Cardinality(Places(t, f)) /\ Count(s, f) \in Nat
  BY <1>1, CountType
<1>3. Len(s) + 1 \notin Places(s, f)
  BY <1>1 DEF Places
<1>4. CASE x = f
  <2>1. Places(t, f) = Places(s, f) \cup {Len(s) + 1}
    BY <1>1, <1>4 DEF Places
  <2>2. Cardinality(Places(t, f)) = Cardinality(Places(s, f)) + 1
    BY <1>2, <1>3, <2>1, FS_AddElement
  <2> QED  BY <1>2, <1>4, <2>2 DEF t
<1>5. CASE x # f
  <2>1. Places(t, f) = Places(s, f)
    BY <1>1, <1>5 DEF Places
  <2> QED  BY <1>2, <1>5, <2>1 DEF t
<1> QED  BY <1>4, <1>5

(* Removing a place lowers the count of what stood there by one.           *)
LEMMA CountRemoveAt ==
  ASSUME NEW S, NEW s \in Seq(S), NEW i \in 1..Len(s), NEW f
  PROVE  Count(s, f) = Count(RemoveAt(s, i), f) + IF s[i] = f THEN 1 ELSE 0
<1> DEFINE r == RemoveAt(s, i)
           old == Places(s, f) \ {i}
           new == Places(r, f)
           shift == [k \in new |-> IF k < i THEN k ELSE k + 1]
<1>1. /\ Len(s) \in Nat
      /\ r \in Seq(S) /\ Len(r) = Len(s) - 1
      /\ \A k \in 1..(Len(s) - 1) : r[k] = IF k < i THEN s[k] ELSE s[k + 1]
  BY LenProperties, RemoveAtProperties
<1> HIDE DEF r
<1>2. /\ IsFiniteSet(Places(s, f)) /\ Count(s, f) = Cardinality(Places(s, f))
      /\ IsFiniteSet(new) /\ Count(r, f) = Cardinality(new)
      /\ Count(s, f) \in Nat /\ Count(r, f) \in Nat
  BY <1>1, CountType
<1>3. \A k \in new : k \in Nat /\ k \in 1..(Len(s) - 1) /\ r[k] = f
  BY <1>1 DEF Places
<1>4. \A m \in old : m \in Nat /\ m \in 1..Len(s) /\ m # i /\ s[m] = f
  BY <1>1 DEF Places
<1>5. ExistsBijection(new, old)
  <2>1. ASSUME NEW k \in new PROVE shift[k] \in old
    <3>1. CASE k < i
      BY <1>1, <1>3, <3>1 DEF Places
    <3>2. CASE ~(k < i)
      BY <1>1, <1>3, <3>2 DEF Places
    <3> QED  BY <3>1, <3>2
  <2>2. ASSUME NEW j \in new, NEW k \in new, shift[j] = shift[k] PROVE j = k
    <3>1. j \in Nat /\ k \in Nat /\ i \in Nat
      BY <1>1, <1>3
    <3> QED  BY <2>2, <3>1
  <2>3. ASSUME NEW m \in old PROVE \E k \in new : shift[k] = m
    <3>1. CASE m < i
      <4>1. m \in new
        BY <1>1, <1>4, <3>1 DEF Places
      <4> QED  BY <3>1, <4>1
    <3>2. CASE m > i
      <4>1. m - 1 \in 1..(Len(s) - 1) /\ ~(m - 1 < i) /\ (m - 1) + 1 = m
        BY <1>1, <1>4, <3>2
      <4>2. m - 1 \in new
        BY <1>1, <1>4, <4>1 DEF Places
      <4> QED  BY <4>1, <4>2
    <3>3. m < i \/ m > i
      BY <1>1, <1>4
    <3> QED  BY <3>1, <3>2, <3>3
  <2>4. shift \in Bijection(new, old)
    <3> HIDE DEF old, new
    <3> QED  BY <2>1, <2>2, <2>3 DEF Bijection, Injection, Surjection, IsInjective
  <2> QED  BY <2>4 DEF ExistsBijection
<1>6. Cardinality(new) = Cardinality(old)
  BY <1>2, <1>5, FS_Bijection
<1>7. Cardinality(old) = IF i \in Places(s, f) THEN Cardinality(Places(s, f)) - 1
                                              ELSE Cardinality(Places(s, f))
  BY <1>2, FS_RemoveElement
<1>8. i \in Places(s, f) <=> s[i] = f
  BY DEF Places
<1>9. CASE s[i] = f
  BY <1>2, <1>6, <1>7, <1>8, <1>9 DEF r
<1>10. CASE s[i] # f
  BY <1>2, <1>6, <1>7, <1>8, <1>10 DEF r
<1> QED  BY <1>9, <1>10

LEMMA CountTail ==
  ASSUME NEW S, NEW s \in Seq(S), s # <<>>, NEW f
  PROVE  /\ Tail(s) \in Seq(S) /\ Head(s) \in S
         /\ Count(s, f) = Count(Tail(s), f) + IF Head(s) = f THEN 1 ELSE 0
<1>1. Len(s) \in Nat /\ Len(s) # 0 /\ 1 \in 1..Len(s)
  BY EmptySeq, LenProperties
<1>2. /\ Head(s) = s[1] /\ Head(s) \in S /\ Tail(s) \in Seq(S)
      /\ Len(Tail(s)) = Len(s) - 1
      /\ \A k \in 1..(Len(s) - 1) : Tail(s)[k] = s[k + 1]
  BY <1>1, HeadTailProperties
<1>3. Tail(s) = RemoveAt(s, 1)
  <2>1. /\ RemoveAt(s, 1) \in Seq(S) /\ Len(RemoveAt(s, 1)) = Len(s) - 1
        /\ \A k \in 1..(Len(s) - 1) :
             RemoveAt(s, 1)[k] = IF k < 1 THEN s[k] ELSE s[k + 1]
    BY <1>1, RemoveAtProperties
  <2>2. \A k \in 1..(Len(s) - 1) : RemoveAt(s, 1)[k] = Tail(s)[k]
    BY <1>1, <1>2, <2>1
  <2> QED  BY <1>1, <1>2, <2>1, <2>2, SeqEqual
<1>4. Count(s, f) = Count(RemoveAt(s, 1), f) + IF s[1] = f THEN 1 ELSE 0
  BY <1>1, CountRemoveAt
<1> QED  BY <1>2, <1>3, <1>4

LEMMA FirstPlace ==
  ASSUME NEW S, NEW s \in Seq(S), NEW f, Count(s, f) > 0
  PROVE  \E i \in 1..Len(s) : s[i] = f /\ \A j \in 1..(i - 1) : s[j] # f
<1>1. Len(s) \in Nat
  BY LenProperties
<1>2. Places(s, f) # {}
  BY CountType
<1>3. Places(s, f) \in SUBSET Nat
  BY <1>1 DEF Places
<1>4. PICK i \in Places(s, f) : \A j \in Places(s, f) : i <= j
  BY <1>2, <1>3, NatLeast
<1>5. i \in 1..Len(s) /\ s[i] = f
  BY DEF Places
<1>6. ASSUME NEW j \in 1..(i - 1), s[j] = f PROVE FALSE
  <2>1. j \in Places(s, f) /\ j < i
    BY <1>1, <1>5, <1>6 DEF Places
  <2> QED  BY <1>1, <1>4, <1>5, <2>1
<1> QED  BY <1>5, <1>6

LEMMA RemoveFirstProperties ==
  ASSUME NEW S, NEW s \in Seq(S), NEW f, Count(s, f) > 0
  PROVE  /\ RemoveFirst(s, f) \in Seq(S)
         /\ \A g : Count(s, g) = Count(RemoveFirst(s, f), g) + IF f = g THEN 1 ELSE 0
<1>1. PICK i \in 1..Len(s) : s[i] = f /\ \A j \in 1..(i - 1) : s[j] # f
  BY FirstPlace
<1>2. RemoveFirst(s, f) = RemoveAt(s, i)
  BY <1>1, RemoveFirstPlace
<1>3. RemoveAt(s, i) \in Seq(S)
  BY RemoveAtProperties
<1>4. \A g : Count(s, g) = Count(RemoveAt(s, i), g) + IF s[i] = g THEN 1 ELSE 0
  BY CountRemoveAt
<1> QED  BY <1>1, <1>2, <1>3, <1>4

(* What is removed first is the same with or without one more at the end.  *)
LEMMA RemoveFirstAppend ==
  ASSUME NEW S, NEW s \in Seq(S), NEW x \in S, NEW f, Count(s, f) > 0
  PROVE  RemoveFirst(Append(s, x), f) = Append(RemoveFirst(s, f), x)
<1> DEFINE t == Append(s, x)
<1>1. PICK i \in 1..Len(s) : s[i] = f /\ \A j \in 1..(i - 1) : s[j] # f
  BY FirstPlace
<1>2. /\ Len(s) \in Nat /\ t \in Seq(S) /\ Len(t) = Len(s) + 1
      /\ t[Len(s) + 1] = x /\ \A k \in 1..Len(s) : t[k] = s[k]
  BY LenProperties, AppendProperties
<1> HIDE DEF t
<1>3. RemoveFirst(s, f) = RemoveAt(s, i)
  BY <1>1, RemoveFirstPlace
<1>4. RemoveFirst(t, f) = RemoveAt(t, i)
  <2>1. i \in 1..Len(t) /\ t[i] = f
    BY <1>1, <1>2
  <2>2. \A j \in 1..(i - 1) : t[j] # f
    BY <1>1, <1>2
  <2> QED  BY <1>2, <2>1, <2>2, RemoveFirstPlace
<1> DEFINE a == RemoveAt(t, i)
           r == RemoveAt(s, i)
           b == Append(r, x)
<1>5. /\ r \in Seq(S) /\ Len(r) = Len(s) - 1
      /\ \A k \in 1..(Len(s) - 1) : r[k] = IF k < i THEN s[k] ELSE s[k + 1]
  BY RemoveAtProperties
<1>6. /\ a \in Seq(S) /\ Len(a) = Len(s)
      /\ \A k \in 1..Len(s) : a[k] = IF k < i THEN t[k] ELSE t[k + 1]
  <2>1. i \in 1..Len(t) /\ Len(t) - 1 = Len(s)
    BY <1>2
  <2>2. /\ a \in Seq(S) /\ Len(a) = Len(t) - 1
        /\ \A k \in 1..(Len(t) - 1) : a[k] = IF k < i THEN t[k] ELSE t[k + 1]
    BY <1>2, <2>1, RemoveAtProperties
  <2> HIDE DEF a
  <2> QED  BY <2>1, <2>2
<1> HIDE DEF r
<1>7. /\ b \in Seq(S) /\ Len(b) = Len(s)
      /\ \A k \in 1..(Len(s) - 1) : b[k] = r[k]
      /\ b[Len(s)] = x
  BY <1>2, <1>5, AppendProperties
<1> HIDE DEF a, b
<1>8. ASSUME NEW k \in 1..Len(s) PROVE a[k] = b[k]
  <2>1. CASE k = Len(s)
    BY <1>2, <1>6, <1>7, <2>1
  <2>2. CASE k # Len(s)
    <3>1. k \in 1..(Len(s) - 1) /\ k + 1 \in 1..Len(s)
      BY <1>2, <2>2
    <3> QED  BY <1>2, <1>5, <1>6, <1>7, <3>1
  <2> QED  BY <2>1, <2>2
<1>9. a = b
  BY <1>6, <1>7, <1>8, SeqEqual
<1> QED  BY <1>3, <1>4, <1>9 DEF a, b, r, t

-----------------------------------------------------------------------------
(* The registry.                                                           *)

(* What the registry needs to know of the variables it speaks of: a worker *)
(* that has a work has its descriptor, and so has main from accept on.     *)
RegistryTyped ==
  /\ fd_list \in Seq(Fds) /\ work_list \in Seq(Fds)
  /\ queue \in Seq(Fds) /\ leaked \in Seq(Fds)
  /\ mpc \in {"admit", "register", "addwork"} => mfd \in Fds
  /\ wpc \in [Workers -> WorkerPlaces]
  /\ wsrc \in [Workers -> Fds \cup {NONE}]
  /\ \A w \in Workers : wpc[w] # "idle" => wsrc[w] \in Fds

(* Main appends to one list and then to the other, and reads back what it  *)
(* appended: only there do they differ, and then by this one descriptor.   *)
ListsAgree ==
  fd_list = IF mpc = "addwork" THEN Append(work_list, mfd) ELSE work_list

RInv == RegistryTyped /\ ListsAgree /\ RegistryExact

LoopPlaces == {"loop", "wait", "events", "close_src", "close_dst"}
Active(w) == InLoop(w) \/ wpc[w] \in {"open", "delete"}
Servers(f) == {w \in Workers : wsrc[w] = f /\ Active(w)}

LEMMA ServingType ==
  ASSUME NEW f
  PROVE  /\ IsFiniteSet(Servers(f))
         /\ Serving(f) = Cardinality(Servers(f)) /\ Serving(f) \in Nat
         /\ Serving(f) > 0 <=> Servers(f) # {}
<1>1. Servers(f) \in SUBSET Workers
  BY DEF Servers
<1>2. IsFiniteSet(Servers(f))
  BY <1>1, ConstantsAssumption, FS_Subset
<1>3. Serving(f) = Cardinality(Servers(f))
  BY DEF Serving, Servers, Active, InLoop
<1>4. Cardinality(Servers(f)) \in Nat
  BY <1>2, FS_CardinalityType
<1>5. Cardinality(Servers(f)) = 0 <=> Servers(f) = {}
  BY <1>2, FS_EmptySet
<1> QED  BY <1>2, <1>3, <1>4, <1>5

(* A worker that starts or stops to serve a descriptor counts once.        *)
LEMMA ServingJoin ==
  ASSUME NEW f, NEW w, w \notin Servers(f), Servers(f)' = Servers(f) \cup {w}
  PROVE  Serving(f)' = Serving(f) + 1
<1>1. Cardinality(Servers(f) \cup {w}) = Cardinality(Servers(f)) + 1
  BY ServingType, FS_AddElement
<1>2. Serving(f)' = Cardinality(Servers(f)')
  BY DEF Serving, Servers, Active, InLoop
<1> QED  BY <1>1, <1>2, ServingType

LEMMA ServingLeave ==
  ASSUME NEW f, NEW w, w \in Servers(f), Servers(f)' = Servers(f) \ {w}
  PROVE  Serving(f)' = Serving(f) - 1
<1>1. Cardinality(Servers(f) \ {w}) = Cardinality(Servers(f)) - 1
  BY ServingType, FS_RemoveElement
<1>2. Serving(f)' = Cardinality(Servers(f)')
  BY DEF Serving, Servers, Active, InLoop
<1> QED  BY <1>1, <1>2, ServingType

LEMMA ServingSame ==
  ASSUME NEW f, Servers(f)' = Servers(f)
  PROVE  Serving(f)' = Serving(f)
BY DEF Serving, Servers, Active, InLoop

LEMMA InitRegistry == Init => RInv
<1> SUFFICES ASSUME Init PROVE RInv
  OBVIOUS
<1>1. RegistryTyped
  BY DEF Init, RegistryTyped, WorkerPlaces
<1>2. \A f : Servers(f) = {}
  BY DEF Init, Servers, Active, InLoop
<1>3. \A f : Serving(f) = 0
  BY <1>2, FS_EmptySet DEF Serving, Servers, Active, InLoop
<1>4. \A f : Count(work_list, f) = 0 /\ Count(queue, f) = 0 /\ Count(leaked, f) = 0
  BY CountEmpty DEF Init
<1>5. fd_list = work_list /\ mpc # "addwork"
  BY DEF Init
<1> QED  BY <1>1, <1>3, <1>4, <1>5 DEF RInv, ListsAgree, RegistryExact

(* A step that leaves the lists, the queue and the works alone.            *)
LEMMA RegistryUntouched ==
  ASSUME RInv, UNCHANGED <<lists, queue, leaked>>, RegistryTyped',
         mpc = "addwork" <=> mpc' = "addwork", mpc = "addwork" => mfd' = mfd,
         \A f : Servers(f)' = Servers(f)
  PROVE  RInv'
<1>1. \A f : Serving(f)' = Serving(f)
  BY ServingSame
<1>2. \A f \in Fds : (Count(work_list, f) = Count(queue, f) + Serving(f) + Count(leaked, f))'
  BY <1>1 DEF RInv, RegistryExact, Count, lists
<1>3. ListsAgree'
  BY DEF RInv, ListsAgree, lists
<1> QED  BY <1>2, <1>3 DEF RInv, ListsAgree, RegistryExact, lists

(* Steps of the sources, the destination and of main up to line 394.       *)
LEMMA QuietMain ==
  ASSUME RInv, UNCHANGED <<lists, queue, leaked, wpc, wsrc>>,
         \/ UNCHANGED main
         \/ mpc \in {"check", "accept", "admit"} /\ mpc' # "addwork"
            /\ (mpc' \in {"admit", "register"} => mfd' \in Fds)
  PROVE  RInv'
<1>1. RegistryTyped'
  BY DEF RInv, RegistryTyped, WorkerPlaces, lists, main
<1>2. mpc = "addwork" <=> mpc' = "addwork"
  BY DEF main
<1>3. mpc = "addwork" => mfd' = mfd
  BY DEF main
<1>4. \A f : Servers(f)' = Servers(f)
  BY DEF Servers, Active, InLoop
<1> QED  BY <1>1, <1>2, <1>3, <1>4, RegistryUntouched

(* A step of a worker that stays in the loop, or drops a finished work.    *)
LEMMA QuietWorker ==
  ASSUME RInv, NEW w \in Workers, UNCHANGED <<lists, queue, leaked, main>>,
         NEW label, wpc' = [wpc EXCEPT ![w] = label],
         \/ UNCHANGED wsrc /\ Active(w) /\ label \in LoopPlaces \cup {"delete"}
         \/ wpc[w] = "end" /\ label = "idle" /\ wsrc' = [wsrc EXCEPT ![w] = NONE]
  PROVE  RInv'
<1>1. RegistryTyped'
  BY DEF RInv, RegistryTyped, WorkerPlaces, Active, InLoop, lists, main, LoopPlaces
<1>2. mpc' = mpc /\ mfd' = mfd
  BY DEF main
<1>3. \A f : Servers(f)' = Servers(f)
  BY DEF RInv, RegistryTyped, WorkerPlaces, Servers, Active, InLoop, LoopPlaces
<1> QED  BY <1>1, <1>2, <1>3, RegistryUntouched

(* A worker that handles an event stays in the loop.                       *)
LEMMA LoopLabels ==
  ASSUME NEW w \in Workers, HandleEvent(w) \/ CloseFd(w)
  PROVE  \E label \in LoopPlaces : wpc' = [wpc EXCEPT ![w] = label]
BY DEF HandleEvent, CloseFd, NextTurn, Goto, LoopPlaces

(* Main appends its descriptor to fd_list (proxy_wait, line 396).          *)
LEMMA RegisterStep == ASSUME RInv, Register PROVE RInv'
<1>1. /\ mpc = "register" /\ mpc' = "addwork" /\ mfd \in Fds /\ mfd' = mfd
      /\ fd_list \in Seq(Fds) /\ work_list \in Seq(Fds)
      /\ fd_list' = Append(fd_list, mfd) /\ fd_list = work_list
      /\ UNCHANGED <<work_list, queue, leaked, wpc, wsrc>>
  BY DEF RInv, RegistryTyped, WorkerPlaces, ListsAgree, Register, ended
<1>2. Append(fd_list, mfd) \in Seq(Fds)
  BY <1>1, AppendProperties
<1>3. RegistryTyped'
  BY <1>1, <1>2 DEF RInv, RegistryTyped, WorkerPlaces
<1>4. \A f : Servers(f)' = Servers(f)
  BY <1>1 DEF Servers, Active, InLoop
<1>5. \A f : Serving(f)' = Serving(f)
  BY <1>4, ServingSame
<1>6. \A f \in Fds : (Count(work_list, f) = Count(queue, f) + Serving(f) + Count(leaked, f))'
  BY <1>1, <1>5 DEF RInv, RegistryExact, Count
<1>7. ListsAgree'
  BY <1>1 DEF ListsAgree
<1> QED  BY <1>3, <1>6, <1>7 DEF RInv, RegistryExact, ListsAgree

LEMMA LastAppended ==
  ASSUME RInv, mpc = "addwork"
  PROVE  LastFd = mfd
<1>1. /\ mfd \in Fds /\ work_list \in Seq(Fds)
      /\ fd_list = Append(work_list, mfd)
  BY DEF RInv, RegistryTyped, ListsAgree
<1>2. /\ Len(fd_list) = Len(work_list) + 1 /\ fd_list[Len(work_list) + 1] = mfd
      /\ fd_list # <<>>
  BY <1>1, AppendProperties
<1> QED  BY <1>2 DEF LastFd, Last

(* What main reads at the end of fd_list is what it appended.              *)
LEMMA AddWorkDataStep == ASSUME RInv, AddWorkData PROVE RInv'
<1>1. /\ mpc = "addwork" /\ mpc' = "check" /\ mfd \in Fds
      /\ work_list \in Seq(Fds) /\ queue \in Seq(Fds)
      /\ fd_list = Append(work_list, mfd)
      /\ UNCHANGED <<fd_list, leaked, wpc, wsrc>>
  BY DEF RInv, RegistryTyped, WorkerPlaces, ListsAgree, AddWorkData, ended
<1>2. LastFd = mfd
  BY <1>1, LastAppended
<1>3. work_list' = Append(work_list, mfd) /\ queue' = Append(queue, mfd)
  BY <1>2 DEF AddWorkData
<1>4. work_list' \in Seq(Fds) /\ queue' \in Seq(Fds)
  BY <1>1, <1>3, AppendProperties
<1>5. RegistryTyped'
  BY <1>1, <1>4 DEF RInv, RegistryTyped, WorkerPlaces
<1>6. \A f : Serving(f)' = Serving(f)
  BY <1>1, ServingSame DEF Servers, Active, InLoop
<1>7. ASSUME NEW f \in Fds
      PROVE  (Count(work_list, f) = Count(queue, f) + Serving(f) + Count(leaked, f))'
  <2>1. Count(work_list', f) = Count(work_list, f) + IF mfd = f THEN 1 ELSE 0
    BY <1>1, <1>3, CountAppend
  <2>2. Count(queue', f) = Count(queue, f) + IF mfd = f THEN 1 ELSE 0
    BY <1>1, <1>3, CountAppend
  <2>3. Count(work_list, f) = Count(queue, f) + Serving(f) + Count(leaked, f)
    BY DEF RInv, RegistryExact
  <2>4. /\ Count(work_list, f) \in Nat /\ Count(queue, f) \in Nat
        /\ Count(leaked, f) \in Nat /\ Serving(f) \in Nat
    BY CountType, ServingType DEF RInv, RegistryTyped, WorkerPlaces
  <2>5. Count(work_list', f) = Count(queue', f) + Serving(f) + Count(leaked, f)
    BY <2>1, <2>2, <2>3, <2>4
  <2> QED  BY <1>1, <1>6, <2>5 DEF Count
<1>8. fd_list' = work_list'
  BY <1>1, <1>3
<1> QED  BY <1>1, <1>5, <1>7, <1>8 DEF RInv, RegistryExact, ListsAgree

(* A work goes from the queue to a worker.                                 *)
LEMMA TakeWorkStep == ASSUME RInv, NEW w \in Workers, TakeWork(w) PROVE RInv'
<1> DEFINE h == Head(queue)
<1>1. /\ wpc[w] = "idle" /\ queue # <<>> /\ queue \in Seq(Fds)
      /\ wpc' = [wpc EXCEPT ![w] = "open"] /\ wsrc' = [wsrc EXCEPT ![w] = h]
      /\ queue' = Tail(queue) /\ UNCHANGED <<fd_list, work_list, mpc, mfd, leaked>>
  BY DEF RInv, RegistryTyped, WorkerPlaces, TakeWork, Goto, lists, main, ended
<1>2. Tail(queue) \in Seq(Fds) /\ h \in Fds
  BY <1>1, CountTail
<1> HIDE DEF h
<1>3. RegistryTyped'
  BY <1>1, <1>2 DEF RInv, RegistryTyped, WorkerPlaces
<1>4. ASSUME NEW f \in Fds
      PROVE  (Count(work_list, f) = Count(queue, f) + Serving(f) + Count(leaked, f))'
  <2>1. Count(queue, f) = Count(Tail(queue), f) + IF h = f THEN 1 ELSE 0
    BY <1>1, CountTail DEF h
  <2>2. Serving(f)' = Serving(f) + IF h = f THEN 1 ELSE 0
    <3>1. CASE h = f
      <4>1. w \notin Servers(f) /\ Servers(f)' = Servers(f) \cup {w}
        BY <1>1, <3>1 DEF RInv, RegistryTyped, WorkerPlaces, Servers, Active, InLoop
      <4> QED  BY <3>1, <4>1, ServingJoin
    <3>2. CASE h # f
      <4>1. Servers(f)' = Servers(f)
        BY <1>1, <3>2 DEF RInv, RegistryTyped, WorkerPlaces, Servers, Active, InLoop
      <4> QED  BY <3>2, <4>1, ServingSame, ServingType
    <3> QED  BY <3>1, <3>2
  <2>3. Count(work_list, f) = Count(queue, f) + Serving(f) + Count(leaked, f)
    BY DEF RInv, RegistryExact
  <2>4. /\ Count(work_list, f) \in Nat /\ Count(Tail(queue), f) \in Nat
        /\ Count(leaked, f) \in Nat /\ Serving(f) \in Nat
    BY <1>2, CountType, ServingType DEF RInv, RegistryTyped, WorkerPlaces
  <2>5. Count(work_list, f) = Count(Tail(queue), f) + Serving(f)' + Count(leaked, f)
    BY <2>1, <2>2, <2>3, <2>4
  <2> QED  BY <1>1, <2>5 DEF Count
<1>5. ListsAgree'
  BY <1>1 DEF RInv, ListsAgree
<1> QED  BY <1>1, <1>3, <1>4, <1>5 DEF RInv, RegistryExact, ListsAgree

(* A failure of pipe_open, epoll_ctl or epoll_wait leaves the work's       *)
(* descriptor in both lists (proxy_conn, lines 567-588 and 606).           *)
LEMMA GiveUpStep ==
  ASSUME RInv, NEW w \in Workers, Active(w), NEW left, GiveUp(w, left),
         UNCHANGED <<lists, queue, main, wsrc>>
  PROVE  RInv'
<1> DEFINE s == wsrc[w]
<1>1. /\ wpc' = [wpc EXCEPT ![w] = "end"] /\ leaked' = Append(leaked, s)
      /\ s \in Fds /\ leaked \in Seq(Fds)
      /\ UNCHANGED <<fd_list, work_list, queue, mpc, mfd, wsrc>>
  BY DEF RInv, RegistryTyped, WorkerPlaces, GiveUp, Goto, lists, main, ended, Active, InLoop
<1>2. leaked' \in Seq(Fds)
  BY <1>1, AppendProperties
<1>3. RegistryTyped'
  BY <1>1, <1>2 DEF RInv, RegistryTyped, WorkerPlaces
<1>4. ASSUME NEW f \in Fds
      PROVE  (Count(work_list, f) = Count(queue, f) + Serving(f) + Count(leaked, f))'
  <2>1. Count(leaked', f) = Count(leaked, f) + IF s = f THEN 1 ELSE 0
    BY <1>1, CountAppend
  <2>2. Serving(f)' = Serving(f) - IF s = f THEN 1 ELSE 0
    <3>1. CASE s = f
      <4>1. w \in Servers(f) /\ Servers(f)' = Servers(f) \ {w}
        BY <1>1, <3>1 DEF RInv, RegistryTyped, WorkerPlaces, Servers, Active, InLoop
      <4> QED  BY <3>1, <4>1, ServingLeave
    <3>2. CASE s # f
      <4>1. Servers(f)' = Servers(f)
        BY <1>1, <3>2 DEF RInv, RegistryTyped, WorkerPlaces, Servers, Active, InLoop
      <4> QED  BY <3>2, <4>1, ServingSame, ServingType
    <3> QED  BY <3>1, <3>2
  <2>3. Count(work_list, f) = Count(queue, f) + Serving(f) + Count(leaked, f)
    BY DEF RInv, RegistryExact
  <2>4. /\ Count(work_list, f) \in Nat /\ Count(queue, f) \in Nat
        /\ Count(leaked, f) \in Nat /\ Serving(f) \in Nat
    BY CountType, ServingType DEF RInv, RegistryTyped, WorkerPlaces
  <2>5. Count(work_list, f) = Count(queue, f) + Serving(f)' + Count(leaked', f)
    BY <2>1, <2>2, <2>3, <2>4
  <2> QED  BY <1>1, <2>5 DEF Count
<1>5. ListsAgree'
  BY <1>1 DEF RInv, ListsAgree
<1> QED  BY <1>1, <1>3, <1>4, <1>5 DEF RInv, RegistryExact, ListsAgree

(* proxy_delete_src_info takes one entry from each list, and the same one, *)
(* even when main stands between its two appends.                          *)
LEMMA DeleteSrcInfoStep == ASSUME RInv, NEW w \in Workers, DeleteSrcInfo(w) PROVE RInv'
<1> DEFINE s == wsrc[w]
           shorter == RemoveFirst(work_list, s)
<1>1. /\ wpc[w] = "delete" /\ wpc' = [wpc EXCEPT ![w] = "end"] /\ s \in Fds
      /\ fd_list' = RemoveFirst(fd_list, s) /\ work_list' = shorter
      /\ work_list \in Seq(Fds) /\ UNCHANGED <<queue, leaked, mpc, mfd, wsrc>>
  BY DEF RInv, RegistryTyped, WorkerPlaces, DeleteSrcInfo, Goto, main, ended
<1>2. \A f \in Fds : Count(work_list, f) = Count(queue, f) + Serving(f) + Count(leaked, f)
  BY DEF RInv, RegistryExact
<1>3. \A f : /\ Count(work_list, f) \in Nat /\ Count(queue, f) \in Nat
             /\ Count(leaked, f) \in Nat /\ Serving(f) \in Nat
  BY CountType, ServingType DEF RInv, RegistryTyped, WorkerPlaces
<1>4. Count(work_list, s) > 0
  <2>1. w \in Servers(s)
    BY <1>1 DEF Servers, Active, InLoop
  <2>2. Serving(s) > 0
    BY <2>1, ServingType
  <2> QED  BY <1>1, <1>2, <1>3, <2>2
<1>5. /\ shorter \in Seq(Fds)
      /\ \A f : Count(work_list, f) = Count(shorter, f) + IF s = f THEN 1 ELSE 0
  BY <1>1, <1>4, RemoveFirstProperties
<1> HIDE DEF shorter
<1>6. fd_list' = IF mpc = "addwork" THEN Append(shorter, mfd) ELSE shorter
  <2>1. CASE mpc = "addwork"
    <3>1. fd_list = Append(work_list, mfd) /\ mfd \in Fds
      BY <2>1 DEF RInv, RegistryTyped, WorkerPlaces, ListsAgree
    <3>2. RemoveFirst(Append(work_list, mfd), s) = Append(shorter, mfd)
      BY <1>1, <1>4, <3>1, RemoveFirstAppend DEF shorter
    <3> QED  BY <1>1, <2>1, <3>1, <3>2
  <2>2. CASE mpc # "addwork"
    BY <1>1, <2>2 DEF RInv, ListsAgree, shorter
  <2> QED  BY <2>1, <2>2
<1>7. fd_list' \in Seq(Fds)
  <2>1. mpc = "addwork" => mfd \in Fds
    BY DEF RInv, RegistryTyped, WorkerPlaces
  <2> QED  BY <1>5, <1>6, <2>1, AppendProperties
<1>8. RegistryTyped'
  BY <1>1, <1>5, <1>7 DEF RInv, RegistryTyped, WorkerPlaces
<1>9. ASSUME NEW f \in Fds
      PROVE  (Count(work_list, f) = Count(queue, f) + Serving(f) + Count(leaked, f))'
  <2>1. Count(shorter, f) \in Nat
    BY <1>5, CountType
  <2>2. Serving(f)' = Serving(f) - IF s = f THEN 1 ELSE 0
    <3>1. CASE s = f
      <4>1. w \in Servers(f) /\ Servers(f)' = Servers(f) \ {w}
        BY <1>1, <3>1 DEF RInv, RegistryTyped, WorkerPlaces, Servers, Active, InLoop
      <4> QED  BY <3>1, <4>1, ServingLeave
    <3>2. CASE s # f
      <4>1. Servers(f)' = Servers(f)
        BY <1>1, <3>2 DEF RInv, RegistryTyped, WorkerPlaces, Servers, Active, InLoop
      <4> QED  BY <3>2, <4>1, ServingSame, ServingType
    <3> QED  BY <3>1, <3>2
  <2>3. Count(work_list, f) = Count(shorter, f) + IF s = f THEN 1 ELSE 0
    BY <1>5
  <2>4. Count(shorter, f) = Count(queue, f) + Serving(f)' + Count(leaked, f)
    BY <1>2, <1>3, <2>1, <2>2, <2>3
  <2> QED  BY <1>1, <2>4 DEF Count
<1>10. ListsAgree'
  BY <1>1, <1>6 DEF ListsAgree
<1>11. fd_list' = work_list' \/ (mpc' = "addwork" /\ fd_list' = Append(work_list', mfd'))
  BY <1>1, <1>6
<1> QED  BY <1>8, <1>9, <1>10, <1>11 DEF RInv, RegistryExact

-----------------------------------------------------------------------------
(* Every step keeps the invariant.                                         *)
LEMMA NextRegistry == RInv /\ [Next]_vars => RInv'
<1> SUFFICES ASSUME RInv, [Next]_vars PROVE RInv'
  OBVIOUS
<1>1. CASE UNCHANGED vars
  BY <1>1, QuietMain DEF vars, lists, main, ended
<1>2. ASSUME Environment PROVE RInv'
  <2>1. UNCHANGED <<lists, queue, leaked, wpc, wsrc>> /\ UNCHANGED main
    BY <1>2 DEF Environment, Connect, Send, Leave, Reply, DstCloses, ended
  <2> QED  BY <2>1, QuietMain
<1>3. ASSUME MainStep PROVE RInv'
  <2>1. CASE CheckDst
    BY <2>1, QuietMain DEF CheckDst, ended
  <2>2. CASE Accept
    BY <2>2, QuietMain DEF Accept, ended
  <2>3. CASE Admit
    <3>1. mfd' = mfd /\ mfd \in Fds
      BY <2>3 DEF Admit, RInv, RegistryTyped, WorkerPlaces
    <3> QED  BY <2>3, <3>1, QuietMain DEF Admit, ended
  <2>4. CASE Register
    BY <2>4, RegisterStep
  <2>5. CASE AddWorkData
    BY <2>5, AddWorkDataStep
  <2> QED  BY <1>3, <2>1, <2>2, <2>3, <2>4, <2>5 DEF MainStep
<1>4. ASSUME NEW w \in Workers, WorkerStep(w) PROVE RInv'
  <2>1. CASE TakeWork(w)
    BY <2>1, TakeWorkStep
  <2>2. CASE OpenConn(w)
    <3>1. wpc[w] = "open" /\ UNCHANGED <<lists, queue, main, wsrc>>
      BY <2>2 DEF OpenConn
    <3>2. \/ \E left : GiveUp(w, left)
          \/ UNCHANGED leaked /\ wpc' = [wpc EXCEPT ![w] = "loop"]
      BY <2>2 DEF OpenConn, Goto, ended
    <3>3. CASE \E left : GiveUp(w, left)
      BY <3>1, <3>3, GiveUpStep DEF Active, InLoop
    <3>4. CASE UNCHANGED leaked /\ wpc' = [wpc EXCEPT ![w] = "loop"]
      BY <3>1, <3>4, QuietWorker DEF Active, InLoop, LoopPlaces
    <3> QED  BY <3>2, <3>3, <3>4
  <2>3. CASE CheckConn(w)
    BY <2>3, QuietWorker DEF CheckConn, Goto, Active, InLoop, LoopPlaces, ended
  <2>4. CASE EpollWait(w)
    <3>1. /\ wpc[w] = "wait" /\ Active(w) /\ UNCHANGED <<lists, queue, main, wsrc>>
          /\ \/ UNCHANGED leaked /\ wpc' = [wpc EXCEPT ![w] = "events"]
             \/ UNCHANGED leaked /\ wpc' = [wpc EXCEPT ![w] = "loop"]
             \/ \E left : GiveUp(w, left)
      BY <2>4 DEF EpollWait, Goto, AfterTimeout, Active, InLoop, ended
    <3>2. CASE \E left : GiveUp(w, left)
      BY <3>1, <3>2, GiveUpStep
    <3>3. CASE UNCHANGED leaked /\ wpc' = [wpc EXCEPT ![w] = "events"]
      BY <3>1, <3>3, QuietWorker DEF LoopPlaces
    <3>4. CASE UNCHANGED leaked /\ wpc' = [wpc EXCEPT ![w] = "loop"]
      BY <3>1, <3>4, QuietWorker DEF LoopPlaces
    <3> QED  BY <3>1, <3>2, <3>3, <3>4
  <2>5. CASE HandleEvent(w)
    <3>1. PICK label \in LoopPlaces : wpc' = [wpc EXCEPT ![w] = label]
      BY <2>5, LoopLabels
    <3>2. Active(w) /\ UNCHANGED <<lists, queue, main, wsrc, leaked>>
      BY <2>5 DEF HandleEvent, Active, InLoop, ended
    <3> QED  BY <3>1, <3>2, QuietWorker
  <2>6. CASE CloseFd(w)
    <3>1. PICK label \in LoopPlaces : wpc' = [wpc EXCEPT ![w] = label]
      BY <2>6, LoopLabels
    <3>2. Active(w) /\ UNCHANGED <<lists, queue, main, wsrc, leaked>>
      BY <2>6 DEF CloseFd, Active, InLoop, ended
    <3> QED  BY <3>1, <3>2, QuietWorker
  <2>7. CASE DeleteSrcInfo(w)
    BY <2>7, DeleteSrcInfoStep
  <2>8. CASE EndConn(w)
    BY <2>8, QuietWorker DEF EndConn, Goto, ended
  <2> QED  BY <1>4, <2>1, <2>2, <2>3, <2>4, <2>5, <2>6, <2>7, <2>8 DEF WorkerStep
<1> QED  BY <1>1, <1>2, <1>3, <1>4 DEF Next

(* At every moment both lists hold, in the same order, the descriptor of   *)
(* each work that is queued, served or was given up, and nothing else      *)
(* (proxy_wait, proxy_add_work_data, proxy_delete_src_info), for any       *)
(* number of workers, connections and descriptors, although a descriptor   *)
(* may be in the lists more than once and each deletion takes the first.   *)
THEOREM RegistryHolds == Spec => []RegistryExact
<1>1. RInv => RegistryExact
  BY DEF RInv
<1> QED  BY <1>1, InitRegistry, NextRegistry, PTL DEF Spec

(* Main finds at the end of fd_list the descriptor it has put there        *)
(* (proxy_add_work_data), whatever workers delete in between.              *)
THEOREM LastIsOwn == Spec => [](mpc = "addwork" => LastFd = mfd)
<1>1. RInv => (mpc = "addwork" => LastFd = mfd)
  BY LastAppended
<1> QED  BY <1>1, InitRegistry, NextRegistry, PTL DEF Spec

-----------------------------------------------------------------------------
(* The descriptors registered in epoll.                                    *)

FilesTyped ==
  /\ fdt \in [Fds -> Conns \cup {DST, NONE}]
  /\ made \in 0..MaxConns
  /\ backlog \in Seq(Conns)
  /\ epset \subseteq Conns

ServedWhileUp == fdt[DstFd] = DST => RegisteredServed
EInv == RegistryTyped /\ FilesTyped /\ ServedWhileUp

LEMMA DstFdType == DstFd \in Fds /\ DST \notin Conns /\ DST # NONE /\ NONE \notin Conns
  BY ConstantsAssumption DEF DstFd, Fds, DST, Conns, NONE

LEMMA InitEpoll == Init => EInv
<1> SUFFICES ASSUME Init PROVE EInv
  OBVIOUS
<1>1. RegistryTyped
  BY InitRegistry DEF RInv
<1>2. FilesTyped
  BY ConstantsAssumption DEF Init, FilesTyped
<1>3. RegisteredServed
  BY DEF Init, RegisteredServed
<1> QED  BY <1>1, <1>2, <1>3 DEF EInv, ServedWhileUp

(* A connection stays served when its worker stays in the loop and its     *)
(* descriptor in the table, and main's one is never taken for a new one.   *)
LEMMA ServedKept ==
  ASSUME EInv, RegistryTyped', FilesTyped',
         fdt'[DstFd] = DST => fdt[DstFd] = DST, givenUp \subseteq givenUp',
         fdt'[DstFd] = DST => \A c \in epset' \ givenUp' :
           \/ \E w \in Workers : InLoop(w)' /\ FileOf(wsrc[w])' = c
           \/ c \in epset /\ \A w \in Workers :
                InLoop(w) /\ FileOf(wsrc[w]) = c => InLoop(w)' /\ FileOf(wsrc[w])' = c
  PROVE  EInv'
BY DEF EInv, ServedWhileUp, RegisteredServed

(* Nothing of the kind changes.                                            *)
LEMMA ServedUntouched ==
  ASSUME EInv, RegistryTyped', FilesTyped', UNCHANGED <<fdt, epset, givenUp>>,
         \A v \in Workers : InLoop(v) => InLoop(v)' /\ wsrc'[v] = wsrc[v]
  PROVE  EInv'
BY DEF EInv, ServedWhileUp, RegisteredServed, FileOf

LEMMA NextEpoll == RInv /\ EInv /\ [Next]_vars => EInv'
<1> SUFFICES ASSUME RInv, EInv, [Next]_vars PROVE EInv'
  OBVIOUS
<1>1. RegistryTyped'
  BY NextRegistry DEF RInv
<1>2. CASE UNCHANGED vars
  <2>1. FilesTyped'
    BY <1>2 DEF EInv, FilesTyped, vars, peers
  <2> QED  BY <1>1, <1>2, <2>1, ServedUntouched DEF InLoop, vars, ended
<1>3. ASSUME Environment PROVE EInv'
  <2>1. UNCHANGED <<fdt, epset, wpc, wsrc, givenUp>>
    BY <1>3 DEF Environment, Connect, Send, Leave, Reply, DstCloses, ended
  <2>2. \/ UNCHANGED <<made, backlog>>
        \/ made < MaxConns /\ made' = made + 1 /\ backlog' = Append(backlog, made + 1)
    BY <1>3 DEF Environment, Connect, Send, Leave, Reply, DstCloses, peers
  <2>3. FilesTyped'
    <3>1. CASE UNCHANGED <<made, backlog>>
      BY <2>1, <3>1 DEF EInv, FilesTyped
    <3>2. CASE made < MaxConns /\ made' = made + 1 /\ backlog' = Append(backlog, made + 1)
      <4>1. made + 1 \in Conns /\ made + 1 \in 0..MaxConns /\ backlog \in Seq(Conns)
        BY <3>2, ConstantsAssumption DEF EInv, FilesTyped, Conns
      <4>2. backlog' \in Seq(Conns)
        BY <3>2, <4>1, AppendProperties
      <4> QED  BY <2>1, <3>2, <4>1, <4>2 DEF EInv, FilesTyped
    <3> QED  BY <2>2, <3>1, <3>2
  <2> QED  BY <1>1, <2>1, <2>3, ServedUntouched DEF InLoop
<1>4. CASE Accept
  <2>1. UNCHANGED <<made, epset, wpc, wsrc, givenUp>>
    BY <1>4 DEF Accept, peers, ended
  <2>2. CASE UNCHANGED <<fdt, backlog>>
    <3>1. FilesTyped'
      BY <2>1, <2>2 DEF EInv, FilesTyped
    <3> QED  BY <1>1, <2>1, <2>2, <3>1, ServedUntouched DEF InLoop
  <2>3. CASE \E f \in Fds : /\ backlog # <<>> /\ fdt[f] = NONE /\ backlog' = Tail(backlog)
                            /\ fdt' = [fdt EXCEPT ![f] = Head(backlog)]
    <3>1. PICK f \in Fds : /\ backlog # <<>> /\ fdt[f] = NONE /\ backlog' = Tail(backlog)
                           /\ fdt' = [fdt EXCEPT ![f] = Head(backlog)]
      BY <2>3
    <3>2. Head(backlog) \in Conns /\ backlog' \in Seq(Conns)
      BY <3>1, CountTail DEF EInv, FilesTyped
    <3>3. FilesTyped'
      BY <2>1, <3>1, <3>2 DEF EInv, FilesTyped
    <3>4. fdt'[DstFd] = DST => fdt[DstFd] = DST
      BY <3>1, <3>2, DstFdType DEF EInv, FilesTyped
    <3>5. ASSUME NEW c \in epset', NEW w \in Workers, InLoop(w), FileOf(wsrc[w]) = c
          PROVE  InLoop(w)' /\ FileOf(wsrc[w])' = c
      <4>1. c \in Conns /\ c # NONE
        BY <2>1, <3>5, DstFdType DEF EInv, FilesTyped
      <4>2. wsrc[w] # NONE /\ fdt[wsrc[w]] = c /\ wsrc[w] # f /\ wsrc[w] \in Fds
        BY <3>1, <3>5, <4>1 DEF FileOf, EInv, RegistryTyped
      <4>3. fdt'[wsrc[w]] = c
        BY <3>1, <4>2 DEF EInv, FilesTyped
      <4> QED  BY <2>1, <3>5, <4>2, <4>3 DEF InLoop, FileOf
    <3> QED  BY <1>1, <2>1, <3>3, <3>4, <3>5, ServedKept
  <2> QED  BY <1>4, <2>2, <2>3 DEF Accept
<1>5. CASE CheckDst \/ Admit \/ Register \/ AddWorkData
  <2>1. UNCHANGED <<fdt, made, backlog, epset, wpc, wsrc, givenUp>>
    BY <1>5 DEF CheckDst, Admit, Register, AddWorkData, peers, ended
  <2>2. FilesTyped'
    BY <2>1 DEF EInv, FilesTyped
  <2> QED  BY <1>1, <2>1, <2>2, ServedUntouched DEF InLoop
<1>6. ASSUME NEW w \in Workers, WorkerStep(w) PROVE EInv'
  <2> DEFINE file == FileOf(wsrc[w])
  <2>1. UNCHANGED <<made, backlog>>
    BY <1>6 DEF WorkerStep, TakeWork, OpenConn, CheckConn, EpollWait, HandleEvent,
                CloseFd, DeleteSrcInfo, EndConn, peers
  <2>2. CASE TakeWork(w) \/ DeleteSrcInfo(w) \/ EndConn(w)
    <3>1. ~InLoop(w) /\ UNCHANGED <<fdt, epset, givenUp>>
      BY <2>2 DEF TakeWork, DeleteSrcInfo, EndConn, InLoop, ended
    <3>2. \A v \in Workers \ {w} : wpc'[v] = wpc[v] /\ wsrc'[v] = wsrc[v]
      BY <2>2 DEF TakeWork, DeleteSrcInfo, EndConn, Goto, EInv, RegistryTyped
    <3>3. FilesTyped'
      BY <2>1, <3>1 DEF EInv, FilesTyped
    <3>4. \A v \in Workers : InLoop(v) => InLoop(v)' /\ wsrc'[v] = wsrc[v]
      BY <3>1, <3>2 DEF InLoop
    <3> QED  BY <1>1, <3>1, <3>3, <3>4, ServedUntouched
  <2>3. CASE CheckConn(w)
    <3>1. /\ UNCHANGED <<fdt, epset, wsrc, givenUp>> /\ wpc[w] = "loop"
          /\ wpc' = [wpc EXCEPT ![w] = IF file = NONE \/ fdt[DstFd] = NONE
                                       THEN "delete" ELSE "wait"]
      BY <2>3 DEF CheckConn, Goto, ended
    <3>2. FilesTyped'
      BY <2>1, <3>1 DEF EInv, FilesTyped
    <3>3. ASSUME NEW c \in epset, fdt[DstFd] = DST, NEW v \in Workers,
                 InLoop(v), FileOf(wsrc[v]) = c
          PROVE  InLoop(v)' /\ FileOf(wsrc[v])' = c
      <4>1. c # NONE /\ fdt[DstFd] # NONE
        BY <3>3, DstFdType DEF EInv, FilesTyped
      <4>2. InLoop(v)'
        BY <3>1, <3>3, <4>1 DEF InLoop, EInv, RegistryTyped
      <4> QED  BY <3>1, <3>3, <4>2 DEF FileOf
    <3> QED  BY <1>1, <3>1, <3>2, <3>3, ServedKept
  <2>4. CASE EpollWait(w)
    <3>1. /\ UNCHANGED <<fdt, epset, wsrc>> /\ wpc[w] = "wait"
          /\ \/ wpc' = [wpc EXCEPT ![w] = "events"] /\ UNCHANGED givenUp
             \/ wpc' = [wpc EXCEPT ![w] = "loop"] /\ UNCHANGED givenUp
             \/ /\ wpc' = [wpc EXCEPT ![w] = "end"]
                /\ givenUp' = givenUp \cup ({file} \cap Conns)
      BY <2>4 DEF EpollWait, Goto, GiveUp, AfterTimeout, ended
    <3>2. FilesTyped'
      BY <2>1, <3>1 DEF EInv, FilesTyped
    <3>3. CASE wpc' = [wpc EXCEPT ![w] = "end"]
      <4>1. \A v \in Workers \ {w} : InLoop(v) => InLoop(v)'
        BY <3>3 DEF InLoop, EInv, RegistryTyped
      <4>2. givenUp' = givenUp \cup ({file} \cap Conns)
        BY <3>1, <3>3 DEF EInv, RegistryTyped
      <4>3. \A c \in epset' \ givenUp' : c \in epset /\ c # file
        BY <3>1, <4>2 DEF EInv, FilesTyped
      <4>4. \A v \in Workers : FileOf(wsrc[v])' = FileOf(wsrc[v])
        BY <3>1 DEF FileOf
      <4> QED  BY <1>1, <3>1, <3>2, <4>1, <4>2, <4>3, <4>4, ServedKept
    <3>4. CASE \/ wpc' = [wpc EXCEPT ![w] = "events"] /\ UNCHANGED givenUp
               \/ wpc' = [wpc EXCEPT ![w] = "loop"] /\ UNCHANGED givenUp
      <4>1. \A v \in Workers : InLoop(v) => InLoop(v)'
        BY <3>4 DEF InLoop, EInv, RegistryTyped
      <4> QED  BY <1>1, <3>1, <3>2, <3>4, <4>1, ServedUntouched
    <3> QED  BY <3>1, <3>3, <3>4
  <2>5. CASE OpenConn(w)
    <3>1. /\ UNCHANGED <<fdt, wsrc>> /\ wpc[w] = "open" /\ wsrc[w] \in Fds
          /\ \/ /\ wpc' = [wpc EXCEPT ![w] = "end"] /\ UNCHANGED epset
                /\ givenUp \subseteq givenUp'
             \/ /\ file \notin {NONE, DST} /\ epset' = epset \cup {file}
                /\ wpc' = [wpc EXCEPT ![w] = "loop"] /\ UNCHANGED givenUp
      BY <2>5 DEF OpenConn, GiveUp, Goto, EInv, RegistryTyped, ended
    <3>2. file \in Conns \cup {DST, NONE}
      BY <3>1 DEF FileOf, EInv, FilesTyped
    <3>3. FilesTyped'
      BY <2>1, <3>1, <3>2 DEF EInv, FilesTyped
    <3>4. \A v \in Workers : InLoop(v) => InLoop(v)'
      BY <3>1 DEF InLoop, EInv, RegistryTyped
    <3>5. ASSUME NEW c \in epset', c \notin epset PROVE InLoop(w)' /\ FileOf(wsrc[w])' = c
      BY <3>1, <3>5 DEF InLoop, FileOf, EInv, RegistryTyped
    <3>6. \A v \in Workers : FileOf(wsrc[v])' = FileOf(wsrc[v])
      BY <3>1 DEF FileOf
    <3>7. givenUp \subseteq givenUp'
      BY <3>1
    <3> QED  BY <1>1, <3>1, <3>3, <3>4, <3>5, <3>6, <3>7, ServedKept
  <2>6. CASE HandleEvent(w) \/ CloseFd(w)
    <3>1. /\ InLoop(w) /\ wsrc[w] \in Fds /\ UNCHANGED <<wsrc, givenUp>>
          /\ \E label \in LoopPlaces : wpc' = [wpc EXCEPT ![w] = label]
      BY <2>6, LoopLabels DEF HandleEvent, CloseFd, InLoop, EInv, RegistryTyped, ended
    <3>2. \A v \in Workers : InLoop(v) => InLoop(v)'
      BY <3>1 DEF InLoop, LoopPlaces, EInv, RegistryTyped
    <3>3. \/ UNCHANGED <<fdt, epset>>
          \/ \E f \in Fds : fdt' = [fdt EXCEPT ![f] = NONE] /\ epset' = epset \ {fdt[f]}
      BY <2>6, <3>1, DstFdType DEF HandleEvent, CloseFd, Process, NothingRead
    <3>4. CASE UNCHANGED <<fdt, epset>>
      <4>1. FilesTyped'
        BY <2>1, <3>4 DEF EInv, FilesTyped
      <4> QED  BY <1>1, <3>1, <3>2, <3>4, <4>1, ServedUntouched
    <3>5. CASE \E f \in Fds : fdt' = [fdt EXCEPT ![f] = NONE] /\ epset' = epset \ {fdt[f]}
      <4>1. PICK f \in Fds : fdt' = [fdt EXCEPT ![f] = NONE] /\ epset' = epset \ {fdt[f]}
        BY <3>5
      <4>2. FilesTyped'
        BY <2>1, <4>1 DEF EInv, FilesTyped
      <4>3. fdt'[DstFd] = DST => fdt[DstFd] = DST
        BY <4>1, DstFdType DEF EInv, FilesTyped
      <4>4. ASSUME NEW c \in epset', NEW v \in Workers, InLoop(v), FileOf(wsrc[v]) = c
            PROVE  InLoop(v)' /\ FileOf(wsrc[v])' = c
        <5>1. c # fdt[f] /\ c # NONE
          BY <4>1, <4>4, DstFdType DEF EInv, FilesTyped
        <5>2. wsrc[v] # NONE /\ fdt[wsrc[v]] = c /\ wsrc[v] # f /\ wsrc[v] \in Fds
          BY <4>4, <5>1 DEF FileOf, EInv, RegistryTyped
        <5>3. fdt'[wsrc[v]] = c
          BY <4>1, <5>2 DEF EInv, FilesTyped
        <5> QED  BY <3>1, <3>2, <4>4, <5>2, <5>3 DEF FileOf
      <4> QED  BY <1>1, <3>1, <4>1, <4>2, <4>3, <4>4, ServedKept
    <3> QED  BY <3>3, <3>4, <3>5
  <2> QED  BY <1>6, <2>2, <2>3, <2>4, <2>5, <2>6 DEF WorkerStep
<1> QED  BY <1>2, <1>3, <1>4, <1>5, <1>6 DEF Next, MainStep

-----------------------------------------------------------------------------
(* The connections that are open.                                          *)

(* A connection has one descriptor, and none before it is accepted.        *)
OneDescriptor ==
  /\ \A f, g \in Fds : fdt[f] = fdt[g] /\ fdt[f] \in Conns => f = g
  /\ \A f \in Fds : fdt[f] \in Conns =>
       fdt[f] <= made /\ \A k \in 1..Len(backlog) : backlog[k] # fdt[f]
  /\ \A k \in 1..Len(backlog) : backlog[k] <= made
  /\ \A j, k \in 1..Len(backlog) : backlog[j] = backlog[k] => j = k

LEMMA InitDescriptors == Init => OneDescriptor
<1> SUFFICES ASSUME Init PROVE OneDescriptor
  OBVIOUS
<1>1. backlog = <<>> /\ Len(backlog) = 0
  BY DEF Init
<1>2. \A f \in Fds : fdt[f] \notin Conns
  BY DstFdType DEF Init
<1> QED  BY <1>1, <1>2 DEF OneDescriptor

(* Descriptors are closed, and the backlog stays.                          *)
LEMMA DescriptorsClosed ==
  ASSUME OneDescriptor, UNCHANGED <<made, backlog>>,
         \A f \in Fds : fdt'[f] = fdt[f] \/ fdt'[f] = NONE
  PROVE  OneDescriptor'
BY DstFdType DEF OneDescriptor

LEMMA NextDescriptors == RInv /\ EInv /\ OneDescriptor /\ [Next]_vars => OneDescriptor'
<1> SUFFICES ASSUME RInv, EInv, OneDescriptor, [Next]_vars PROVE OneDescriptor'
  OBVIOUS
<1>1. FilesTyped /\ Len(backlog) \in Nat /\ made \in Nat
  BY LenProperties DEF EInv, FilesTyped
<1>2. CASE Connect
  <2>1. /\ made' = made + 1 /\ backlog' = Append(backlog, made + 1) /\ UNCHANGED fdt
        /\ made + 1 \in Conns
    BY <1>1, <1>2, ConstantsAssumption DEF Connect, FilesTyped, Conns
  <2>2. /\ Len(backlog') = Len(backlog) + 1 /\ backlog'[Len(backlog) + 1] = made + 1
        /\ \A k \in 1..Len(backlog) : backlog'[k] = backlog[k]
    BY <1>1, <2>1, AppendProperties DEF FilesTyped
  <2>3. \A k \in 1..Len(backlog') : k \in 1..Len(backlog) \/ k = Len(backlog) + 1
    BY <1>1, <2>2
  <2>4. \A k \in 1..Len(backlog) : backlog[k] \in Nat /\ backlog[k] <= made
    <3>1. \A k \in 1..Len(backlog) : backlog[k] \in Conns
      BY <1>1, ElementOfSeq DEF FilesTyped
    <3> QED  BY <3>1 DEF OneDescriptor, Conns
  <2>5. \A f \in Fds : fdt[f] \in Conns => fdt[f] \in Nat /\ fdt[f] <= made
    BY DEF OneDescriptor, Conns
  <2>6. \A f \in Fds : fdt'[f] \in Conns =>
          fdt'[f] <= made' /\ \A k \in 1..Len(backlog') : backlog'[k] # fdt'[f]
    BY <1>1, <2>1, <2>2, <2>3, <2>4, <2>5 DEF OneDescriptor
  <2>7. \A k \in 1..Len(backlog') : backlog'[k] <= made'
    BY <1>1, <2>1, <2>2, <2>3, <2>4
  <2>8. \A j, k \in 1..Len(backlog') : backlog'[j] = backlog'[k] => j = k
    BY <1>1, <2>1, <2>2, <2>3, <2>4 DEF OneDescriptor
  <2> QED  BY <2>1, <2>6, <2>7, <2>8 DEF OneDescriptor
<1>3. CASE Accept
  <2>1. made' = made
    BY <1>3 DEF Accept, peers
  <2>2. CASE UNCHANGED <<fdt, backlog>>
    BY <2>1, <2>2, DescriptorsClosed
  <2>3. ASSUME NEW f \in Fds, backlog # <<>>, fdt[f] = NONE, backlog' = Tail(backlog),
               fdt' = [fdt EXCEPT ![f] = Head(backlog)]
        PROVE  OneDescriptor'
    <3>1. /\ Len(backlog) >= 1 /\ Head(backlog) = backlog[1] /\ Head(backlog) \in Conns
          /\ Len(backlog') = Len(backlog) - 1
          /\ \A k \in 1..(Len(backlog) - 1) : backlog'[k] = backlog[k + 1]
      BY <1>1, <2>3, EmptySeq, HeadTailProperties DEF FilesTyped
    <3> DEFINE h == Head(backlog)
    <3>2. fdt'[f] = h /\ \A g \in Fds \ {f} : fdt'[g] = fdt[g]
      BY <1>1, <2>3 DEF FilesTyped
    <3>3. \A k \in 1..Len(backlog') :
            k \in Nat /\ k + 1 \in 1..Len(backlog) /\ k + 1 # 1 /\ backlog'[k] = backlog[k + 1]
      BY <1>1, <3>1
    <3>4. 1 \in 1..Len(backlog) /\ h = backlog[1] /\ h \in Conns /\ h <= made
      BY <1>1, <3>1 DEF OneDescriptor
    <3> HIDE DEF h
    <3>5. \A g, e \in Fds : fdt'[g] = fdt'[e] /\ fdt'[g] \in Conns => g = e
      BY <3>2, <3>4 DEF OneDescriptor
    <3>6. \A g \in Fds : fdt'[g] \in Conns =>
            fdt'[g] <= made' /\ \A k \in 1..Len(backlog') : backlog'[k] # fdt'[g]
      BY <2>1, <3>2, <3>3, <3>4 DEF OneDescriptor
    <3>7. \A k \in 1..Len(backlog') : backlog'[k] <= made'
      BY <2>1, <3>3 DEF OneDescriptor
    <3>8. \A j, k \in 1..Len(backlog') : backlog'[j] = backlog'[k] => j = k
      BY <3>3 DEF OneDescriptor
    <3> QED  BY <3>5, <3>6, <3>7, <3>8 DEF OneDescriptor
  <2> QED  BY <1>3, <2>2, <2>3 DEF Accept
<1>4. ASSUME NEW w \in Workers, CloseFd(w) PROVE OneDescriptor'
  <2>1. UNCHANGED <<made, backlog>>
    BY <1>4 DEF CloseFd, peers
  <2>2. \A f \in Fds : fdt'[f] = fdt[f] \/ fdt'[f] = NONE
    BY <1>1, <1>4 DEF CloseFd, FilesTyped
  <2> QED  BY <2>1, <2>2, DescriptorsClosed
<1>5. CASE UNCHANGED <<fdt, made, backlog>>
  BY <1>5, DescriptorsClosed
<1>6. ASSUME Environment, ~Connect PROVE UNCHANGED <<fdt, made, backlog>>
  BY <1>6 DEF Environment, Send, Leave, Reply, DstCloses, peers
<1>7. ASSUME MainStep, ~Accept PROVE UNCHANGED <<fdt, made, backlog>>
  BY <1>7 DEF MainStep, CheckDst, Admit, Register, AddWorkData, peers
<1>8. ASSUME NEW w \in Workers, WorkerStep(w), ~CloseFd(w)
      PROVE  UNCHANGED <<fdt, made, backlog>>
  BY <1>8 DEF WorkerStep, TakeWork, OpenConn, CheckConn, EpollWait, HandleEvent,
              Process, NothingRead, DeleteSrcInfo, EndConn, peers
<1>9. CASE UNCHANGED vars
  BY <1>5, <1>9 DEF vars, peers
<1> QED  BY <1>2, <1>3, <1>4, <1>5, <1>6, <1>7, <1>8, <1>9 DEF Next

(* What Carried says of the main thread, of the queue and of the workers.  *)
MainHas(f) == mpc \in {"admit", "register", "addwork"} /\ mfd = f
Queued(f) == \E k \in 1..Len(queue) : queue[k] = f
Works(w, f) == wsrc[w] = f /\ (wpc[w] = "open" \/ InLoop(w))

CarriedWhileUp == fdt[DstFd] = DST => AcceptedCarried
CInv == EInv /\ OneDescriptor /\ CarriedWhileUp

Has(f) == MainHas(f) \/ Queued(f) \/ \E w \in Workers : Works(w, f)
CarriedIsHas == \A f : Carried(f) <=> Has(f)

LEMMA CarriedParts == (RegistryTyped => CarriedIsHas) /\ (RegistryTyped' => CarriedIsHas')
<1>1. RegistryTyped => CarriedIsHas
  <2> SUFFICES ASSUME RegistryTyped PROVE CarriedIsHas
    OBVIOUS
  <2>1. DOMAIN queue = 1..Len(queue)
    BY LenProperties DEF RegistryTyped
  <2> QED  BY <2>1 DEF CarriedIsHas, Has, Carried, MainHas, Queued, Works
<1>2. RegistryTyped' => CarriedIsHas'
  BY <1>1, PTL
<1> QED  BY <1>1, <1>2

LEMMA InitCarried == Init => CInv
<1> SUFFICES ASSUME Init PROVE CInv
  OBVIOUS
<1>1. \A f \in Fds : fdt[f] \notin Conns
  BY DstFdType DEF Init
<1> QED  BY <1>1, InitEpoll, InitDescriptors DEF CInv, CarriedWhileUp, AcceptedCarried

(* A connection stays carried when those that carry it do, or is new and   *)
(* carried, or is given up.                                                *)
LEMMA CarriedKept ==
  ASSUME RegistryTyped, RegistryTyped', CarriedWhileUp,
         fdt'[DstFd] = DST => fdt[DstFd] = DST, givenUp \subseteq givenUp',
         \A f \in Fds : fdt'[f] \in Conns \ givenUp' /\ fdt[DstFd] = DST =>
           Has(f)' \/ (fdt[f] = fdt'[f] /\ ~Has(f))
  PROVE  CarriedWhileUp'
<1>1. CarriedIsHas /\ CarriedIsHas'
  BY CarriedParts
<1> SUFFICES ASSUME fdt'[DstFd] = DST, NEW f \in Fds, fdt'[f] \in Conns \ givenUp'
             PROVE  Carried(f)'
  BY DEF CarriedWhileUp, AcceptedCarried
<1>2. CASE Has(f)'
  BY <1>1, <1>2 DEF CarriedIsHas
<1>3. CASE fdt[f] = fdt'[f] /\ ~Has(f)
  BY <1>1, <1>3 DEF CarriedIsHas, CarriedWhileUp, AcceptedCarried
<1> QED  BY <1>2, <1>3

(* Steps that leave the open descriptors and those who carry them alone.   *)
LEMMA CarriedUntouched ==
  ASSUME RegistryTyped, RegistryTyped', CarriedWhileUp, UNCHANGED <<queue, givenUp>>,
         \A f \in Fds : fdt'[f] = fdt[f] \/ fdt'[f] = NONE,
         \A f : MainHas(f) => MainHas(f)',
         \A f \in Fds : fdt'[f] \in Conns /\ fdt[DstFd] = DST =>
           \A v \in Workers : Works(v, f) => Works(v, f)'
  PROVE  CarriedWhileUp'
<1>1. \A f : Queued(f)' <=> Queued(f)
  BY DEF Queued
<1>2. fdt'[DstFd] = DST => fdt[DstFd] = DST
  BY DstFdType
<1>3. ASSUME NEW f \in Fds, fdt'[f] \in Conns \ givenUp', fdt[DstFd] = DST
      PROVE  Has(f)' \/ (fdt[f] = fdt'[f] /\ ~Has(f))
  <2>1. fdt'[f] = fdt[f]
    BY <1>3, DstFdType
  <2> QED  BY <1>1, <1>3, <2>1 DEF Has
<1> QED  BY <1>2, <1>3, CarriedKept

LEMMA NextCarried == RInv /\ CInv /\ [Next]_vars => CInv'
<1> SUFFICES ASSUME RInv, CInv, [Next]_vars PROVE CInv'
  OBVIOUS
<1>1. EInv' /\ OneDescriptor'
  BY NextEpoll, NextDescriptors DEF CInv
<1>2. /\ RegistryTyped /\ RegistryTyped' /\ EInv /\ OneDescriptor /\ CarriedWhileUp
      /\ FilesTyped
  BY <1>1 DEF CInv, EInv
<1> SUFFICES CarriedWhileUp'
  BY <1>1 DEF CInv
<1>3. CASE UNCHANGED <<fdt, queue, wpc, wsrc, givenUp>> /\ (UNCHANGED main \/ CheckDst)
  <2>1. \A f : MainHas(f) => MainHas(f)'
    BY <1>3 DEF MainHas, CheckDst, main
  <2>2. \A f : \A v \in Workers : Works(v, f) => Works(v, f)'
    BY <1>3 DEF Works, InLoop
  <2> QED  BY <1>2, <1>3, <2>1, <2>2, CarriedUntouched
<1>4. CASE UNCHANGED vars
  BY <1>3, <1>4 DEF vars, ended
<1>5. ASSUME Environment PROVE CarriedWhileUp'
  BY <1>3, <1>5 DEF Environment, Connect, Send, Leave, Reply, DstCloses, ended
<1>6. ASSUME MainStep PROVE CarriedWhileUp'
  <2>1. UNCHANGED <<wpc, wsrc, givenUp>>
    BY <1>6 DEF MainStep, CheckDst, Accept, Admit, Register, AddWorkData, ended
  <2>2. \A f : \A v \in Workers : Works(v, f) => Works(v, f)'
    BY <2>1 DEF Works, InLoop
  <2>3. CASE CheckDst
    BY <1>3, <2>1, <2>3 DEF CheckDst
  <2>4. CASE Accept
    <3>1. UNCHANGED queue /\ \A f : ~MainHas(f)
      BY <2>4 DEF Accept, MainHas
    <3>2. CASE UNCHANGED fdt
      BY <1>2, <2>1, <2>2, <3>1, <3>2, CarriedUntouched
    <3>3. ASSUME NEW g \in Fds, fdt' = [fdt EXCEPT ![g] = Head(backlog)],
                 backlog # <<>>, mfd' = g, mpc' = "admit"
          PROVE  CarriedWhileUp'
      <4>1. MainHas(g)'
        BY <3>3 DEF MainHas
      <4>2. \A f : Queued(f)' <=> Queued(f)
        BY <3>1 DEF Queued
      <4>3. \A f \in Fds \ {g} : fdt'[f] = fdt[f]
        BY <1>2, <3>3 DEF FilesTyped
      <4>4. fdt'[DstFd] = DST => fdt[DstFd] = DST
        <5>1. Head(backlog) \in Conns
          BY <1>2, <3>3, CountTail DEF FilesTyped
        <5> QED  BY <1>2, <3>3, <5>1, DstFdType DEF FilesTyped
      <4>5. \A f \in Fds : Has(f)' \/ (fdt[f] = fdt'[f] /\ ~Has(f))
        BY <2>2, <3>1, <4>1, <4>2, <4>3 DEF Has
      <4> QED  BY <1>2, <2>1, <4>4, <4>5, CarriedKept
    <3> QED  BY <2>4, <3>2, <3>3 DEF Accept
  <2>5. CASE Admit \/ Register
    <3>1. UNCHANGED <<fdt, queue>> /\ \A f : MainHas(f) => MainHas(f)'
      BY <2>5 DEF Admit, Register, MainHas
    <3> QED  BY <1>2, <2>1, <2>2, <3>1, CarriedUntouched
  <2>6. CASE AddWorkData
    <3>1. LastFd = mfd /\ mfd \in Fds /\ queue \in Seq(Fds)
      BY <1>2, <2>6, LastAppended DEF AddWorkData, RegistryTyped
    <3>2. queue' = Append(queue, mfd) /\ UNCHANGED fdt
      BY <2>6, <3>1 DEF AddWorkData
    <3>3. /\ Len(queue) \in Nat /\ Len(queue') = Len(queue) + 1
          /\ queue'[Len(queue) + 1] = mfd
          /\ \A k \in 1..Len(queue) : queue'[k] = queue[k]
      BY <3>1, <3>2, LenProperties, AppendProperties
    <3>4. \A k \in 1..Len(queue) : k \in 1..Len(queue')
      BY <3>3
    <3>5. \A f : Queued(f) => Queued(f)'
      BY <3>3, <3>4 DEF Queued
    <3>6. \A f : MainHas(f) => Queued(f)'
      <4>1. Len(queue) + 1 \in 1..Len(queue')
        BY <3>3
      <4> QED  BY <3>3, <4>1 DEF MainHas, Queued
    <3>7. \A f \in Fds : Has(f)' \/ ~Has(f)
      BY <2>2, <3>5, <3>6 DEF Has
    <3> QED  BY <1>2, <2>1, <3>2, <3>7, CarriedKept
  <2> QED  BY <1>6, <2>3, <2>4, <2>5, <2>6 DEF MainStep
<1>7. ASSUME NEW w \in Workers, WorkerStep(w) PROVE CarriedWhileUp'
  <2> DEFINE file == FileOf(wsrc[w])
  <2>1. \A f : MainHas(f)' <=> MainHas(f)
    BY <1>7 DEF WorkerStep, TakeWork, OpenConn, CheckConn, EpollWait, HandleEvent, CloseFd,
                DeleteSrcInfo, EndConn, main, MainHas
  <2>2. ASSUME NEW label, wpc' = [wpc EXCEPT ![w] = label]
        PROVE  /\ wpc'[w] = label
               /\ \A v \in Workers \ {w} : wpc'[v] = wpc[v]
    BY <1>2, <2>2 DEF RegistryTyped
  <2>3. CASE TakeWork(w)
    <3>1. /\ wpc[w] = "idle" /\ queue # <<>> /\ queue \in Seq(Fds)
          /\ queue' = Tail(queue) /\ wsrc' = [wsrc EXCEPT ![w] = Head(queue)]
          /\ wpc' = [wpc EXCEPT ![w] = "open"] /\ UNCHANGED <<fdt, givenUp>>
      BY <1>2, <2>3 DEF TakeWork, Goto, RegistryTyped, ended
    <3>2. /\ Len(queue) \in Nat /\ Len(queue') = Len(queue) - 1 /\ Head(queue) = queue[1]
          /\ \A k \in 1..(Len(queue) - 1) : queue'[k] = queue[k + 1]
      BY <3>1, LenProperties, EmptySeq, HeadTailProperties
    <3>3. \A f : f = Head(queue) => Works(w, f)'
      BY <1>2, <3>1 DEF Works, RegistryTyped
    <3>4. \A f : \A v \in Workers : Works(v, f) => Works(v, f)'
      BY <1>2, <3>1 DEF Works, InLoop, RegistryTyped
    <3>5. ASSUME NEW f, Queued(f) PROVE Queued(f)' \/ f = Head(queue)
      <4>1. PICK k \in 1..Len(queue) : queue[k] = f
        BY <3>5 DEF Queued
      <4>2. CASE k = 1
        BY <3>2, <4>1, <4>2
      <4>3. CASE k # 1
        <5>1. k - 1 \in 1..Len(queue') /\ k - 1 \in 1..(Len(queue) - 1) /\ (k - 1) + 1 = k
          BY <3>2, <4>1, <4>3
        <5>2. queue'[k - 1] = f
          BY <3>2, <4>1, <5>1
        <5> QED  BY <5>1, <5>2 DEF Queued
      <4> QED  BY <4>2, <4>3
    <3>6. \A f \in Fds : Has(f)' \/ ~Has(f)
      BY <2>1, <3>3, <3>4, <3>5 DEF Has
    <3> QED  BY <1>2, <3>1, <3>6, CarriedKept
  <2>4. ASSUME NEW left, GiveUp(w, left), wsrc[w] \in Fds, UNCHANGED <<fdt, queue, wsrc>>,
               \/ left = {file} \cap Conns
               \/ wpc[w] = "open" /\ file \in {NONE, DST} \cup epset
        PROVE  CarriedWhileUp'
    <3>1. wpc' = [wpc EXCEPT ![w] = "end"] /\ givenUp' = givenUp \cup left
      BY <2>4 DEF GiveUp, Goto
    <3>2. \A v \in Workers \ {w} : wpc'[v] = wpc[v] /\ wsrc'[v] = wsrc[v]
      BY <2>2, <2>4, <3>1
    <3>3. ASSUME NEW f \in Fds, fdt'[f] \in Conns \ givenUp', fdt[DstFd] = DST, Has(f)
          PROVE  Has(f)'
      <4>1. CASE MainHas(f) \/ Queued(f)
        BY <2>1, <2>4, <4>1 DEF Has, Queued
      <4>2. CASE \E v \in Workers \ {w} : Works(v, f)
        BY <3>2, <4>2 DEF Has, Works, InLoop
      <4>3. CASE Works(w, f)
        <5>1. f = wsrc[w] /\ file = fdt[f] /\ file \in Conns /\ file \notin left
              /\ file \notin givenUp
          BY <2>4, <3>1, <3>3, <4>3, DstFdType DEF Works, FileOf, DstFd, Fds, NONE
        <5>2. wpc[w] = "open" /\ file \in epset
          BY <2>4, <5>1, DstFdType
        <5>3. PICK v \in Workers : InLoop(v) /\ FileOf(wsrc[v]) = file
          BY <1>2, <3>3, <5>1, <5>2 DEF EInv, ServedWhileUp, RegisteredServed
        <5>4. wsrc[v] \in Fds /\ fdt[wsrc[v]] = file
          BY <1>2, <5>1, <5>3, DstFdType DEF FileOf, InLoop, RegistryTyped
        <5>5. wsrc[v] = f
          BY <1>2, <5>1, <5>4 DEF OneDescriptor
        <5>6. v # w
          BY <5>2, <5>3 DEF InLoop
        <5> QED  BY <3>2, <5>3, <5>5, <5>6 DEF Has, Works, InLoop
      <4> QED  BY <3>3, <4>1, <4>2, <4>3 DEF Has
    <3> QED  BY <1>2, <2>4, <3>1, <3>3, CarriedKept
  <2>5. ASSUME NEW label \in LoopPlaces, wpc' = [wpc EXCEPT ![w] = label],
               UNCHANGED <<queue, wsrc, givenUp>>,
               \A f \in Fds : fdt'[f] = fdt[f] \/ fdt'[f] = NONE
        PROVE  CarriedWhileUp'
    <3>1. \A f : \A v \in Workers : Works(v, f) => Works(v, f)'
      BY <2>2, <2>5 DEF Works, InLoop, LoopPlaces
    <3> QED  BY <1>2, <2>1, <2>5, <3>1, CarriedUntouched
  <2>6. CASE OpenConn(w)
    <3>1. /\ wpc[w] = "open" /\ wsrc[w] \in Fds /\ UNCHANGED <<fdt, queue, wsrc>>
          /\ \/ GiveUp(w, {file} \cap Conns)
             \/ GiveUp(w, {}) /\ file \in {NONE, DST} \cup epset
             \/ wpc' = [wpc EXCEPT ![w] = "loop"] /\ UNCHANGED givenUp
      BY <1>2, <2>6 DEF OpenConn, Goto, RegistryTyped, ended
    <3>2. CASE GiveUp(w, {file} \cap Conns)
      BY <2>4, <3>1, <3>2
    <3>3. CASE GiveUp(w, {}) /\ file \in {NONE, DST} \cup epset
      BY <2>4, <3>1, <3>3
    <3>4. CASE wpc' = [wpc EXCEPT ![w] = "loop"] /\ UNCHANGED givenUp
      BY <2>5, <3>1, <3>4 DEF LoopPlaces
    <3> QED  BY <3>1, <3>2, <3>3, <3>4
  <2>7. CASE CheckConn(w)
    <3>1. /\ UNCHANGED <<fdt, queue, wsrc, givenUp>> /\ wpc[w] = "loop"
          /\ wsrc[w] \in Fds
          /\ wpc' = [wpc EXCEPT ![w] = IF file = NONE \/ fdt[DstFd] = NONE
                                       THEN "delete" ELSE "wait"]
      BY <1>2, <2>7 DEF CheckConn, Goto, RegistryTyped, ended
    <3>2. ASSUME NEW f \in Fds, fdt'[f] \in Conns, fdt[DstFd] = DST,
                 NEW v \in Workers, Works(v, f)
          PROVE  Works(v, f)'
      <4>1. CASE v = w
        <5>1. file = fdt[f] /\ file # NONE /\ fdt[DstFd] # NONE
          BY <3>1, <3>2, <4>1, DstFdType DEF Works, FileOf, Fds, NONE
        <5> QED  BY <1>2, <3>1, <3>2, <4>1, <5>1 DEF Works, InLoop, RegistryTyped
      <4>2. CASE v # w
        BY <2>2, <3>1, <3>2, <4>2 DEF Works, InLoop
      <4> QED  BY <4>1, <4>2
    <3> QED  BY <1>2, <2>1, <3>1, <3>2, CarriedUntouched
  <2>8. CASE EpollWait(w)
    <3>1. /\ wpc[w] = "wait" /\ wsrc[w] \in Fds /\ UNCHANGED <<fdt, queue, wsrc>>
          /\ \/ wpc' = [wpc EXCEPT ![w] = "events"] /\ UNCHANGED givenUp
             \/ wpc' = [wpc EXCEPT ![w] = "loop"] /\ UNCHANGED givenUp
             \/ GiveUp(w, {file} \cap Conns)
      BY <1>2, <2>8 DEF EpollWait, Goto, AfterTimeout, RegistryTyped, ended
    <3> QED  BY <2>4, <2>5, <3>1 DEF LoopPlaces
  <2>9. CASE HandleEvent(w) \/ CloseFd(w)
    <3>1. /\ UNCHANGED <<queue, wsrc, givenUp>>
          /\ \E label \in LoopPlaces : wpc' = [wpc EXCEPT ![w] = label]
      BY <2>9, LoopLabels DEF HandleEvent, CloseFd, ended
    <3>2. \A f \in Fds : fdt'[f] = fdt[f] \/ fdt'[f] = NONE
      BY <1>2, <2>9 DEF HandleEvent, CloseFd, Process, NothingRead, FilesTyped
    <3> QED  BY <2>5, <3>1, <3>2
  <2>10. CASE DeleteSrcInfo(w) \/ EndConn(w)
    <3>1. /\ wpc[w] \in {"delete", "end"} /\ UNCHANGED <<fdt, queue, givenUp>>
          /\ \A v \in Workers \ {w} : wpc'[v] = wpc[v] /\ wsrc'[v] = wsrc[v]
      BY <1>2, <2>10 DEF DeleteSrcInfo, EndConn, Goto, RegistryTyped, ended
    <3>2. \A f : \A v \in Workers : Works(v, f) => Works(v, f)'
      BY <3>1 DEF Works, InLoop
    <3> QED  BY <1>2, <2>1, <3>1, <3>2, CarriedUntouched
  <2> QED  BY <1>7, <2>3, <2>6, <2>7, <2>8, <2>9, <2>10 DEF WorkerStep
<1> QED  BY <1>4, <1>5, <1>6, <1>7 DEF Next

(* While the destination is connected, each connection registered in epoll *)
(* has a worker in the loop of proxy_conn that looks at its descriptor,    *)
(* and each one accepted is carried by main, by the queue of the pool or   *)
(* by a worker, whatever numbers the kernel gives out again, whoever       *)
(* closes them and whatever other workers write over the shared array of   *)
(* events.  Only a failure of pipe_open or of epoll_wait leaves one behind *)
(* (lines 569, 576 and 606).                                               *)
THEOREM NothingForgotten == Spec => []NoneForgotten
<1>1. CInv => NoneForgotten
  BY DEF CInv, EInv, ServedWhileUp, CarriedWhileUp, NoneForgotten
<1>2. RInv /\ CInv /\ [Next]_vars => (RInv /\ CInv)'
  BY NextRegistry, NextCarried
<1>3. Init => RInv /\ CInv
  BY InitRegistry, InitCarried
<1> QED  BY <1>1, <1>2, <1>3, PTL DEF Spec

-----------------------------------------------------------------------------
(* The array of events, which all workers share.                           *)

LEMMA CardInterval ==
  ASSUME NEW n \in Nat
  PROVE  IsFiniteSet(1..n) /\ Cardinality(1..n) = n
<1>1. 1 \in Int /\ n \in Int /\ (1 > n => n = 0) /\ n - 1 + 1 = n
  OBVIOUS
<1>2. IsFiniteSet(1..n) /\ Cardinality(1..n) = IF 1 > n THEN 0 ELSE n - 1 + 1
  BY <1>1, FS_Interval
<1> QED  BY <1>1, <1>2

LEMMA UnreadCovers ==
  ASSUME TypeOK, NEW w \in Workers
  PROVE  /\ Cardinality(Unread(w)) \in 0..Len(events)
         /\ \A v \in Workers \ {w} :
              Reading(v) => wn[v] <= Cardinality(Unread(w))
<1>1. Len(events) \in Nat /\ DOMAIN events = 1..Len(events)
  BY LenProperties DEF TypeOK
<1>2. IsFiniteSet(1..Len(events)) /\ Cardinality(1..Len(events)) = Len(events)
  BY <1>1, CardInterval
<1>3. Unread(w) \in SUBSET (1..Len(events))
  BY <1>1 DEF Unread
<1>4. /\ IsFiniteSet(Unread(w)) /\ Cardinality(Unread(w)) <= Len(events)
      /\ Cardinality(Unread(w)) \in Nat
  BY <1>2, <1>3, FS_Subset, FS_CardinalityType
<1>5. ASSUME NEW v \in Workers \ {w}, Reading(v)
      PROVE  wn[v] <= Cardinality(Unread(w))
  <2>1. wn[v] \in Nat /\ wn[v] <= Len(events) /\ Pending(v) = wn[v]
    BY <1>5 DEF TypeOK, Pending
  <2>2. 1..wn[v] \in SUBSET Unread(w)
    BY <1>1, <2>1 DEF Unread
  <2>3. Cardinality(1..wn[v]) = wn[v]
    BY <2>1, CardInterval
  <2> QED  BY <1>4, <2>2, <2>3, FS_Subset
<1> QED  BY <1>1, <1>4, <1>5

LEMMA ReadyTyped ==
  ASSUME ReadyFds # {}, NEW ready \in SetToAllKPermutations(ReadyFds),
         Len(ready) = Cardinality(ReadyFds)
  PROVE  ready \in Seq(Fds) /\ Len(ready) \in Nat \ {0}
<1>1. PICK S \in SUBSET ReadyFds : ready \in SetToSeqs(S)
  BY DEF SetToAllKPermutations
<1>2. IsFiniteSet(Fds)
  BY ConstantsAssumption, FS_Interval DEF Fds
<1>3. ReadyFds \in SUBSET Fds
  BY DEF ReadyFds
<1>4. S \in SUBSET Fds
  BY <1>3
<1>5. Cardinality(S) \in Nat
  BY <1>2, <1>4, FS_Subset, FS_CardinalityType
<1>6. ready \in [1..Cardinality(S) -> Fds]
  BY <1>1, <1>4 DEF SetToSeqs
<1>7. ready \in Seq(Fds)
  BY <1>5, <1>6
<1>8. Cardinality(ReadyFds) \in Nat /\ Cardinality(ReadyFds) # 0
  BY <1>2, <1>3, FS_Subset, FS_CardinalityType, FS_EmptySet
<1> QED  BY <1>7, <1>8

(* Entries that other workers will still read stay in the array.           *)
EventsOK ==
  /\ events \in Seq(Fds)
  /\ wi \in [Workers -> Nat] /\ wn \in [Workers -> Nat]
  /\ \A w \in Workers : Reading(w) => wi[w] \in 1..wn[w] /\ wn[w] <= Len(events)

LEMMA EpollWaitEvents ==
  ASSUME TypeOK, NEW w \in Workers, EpollWait(w)
  PROVE  EventsOK'
<1>1. /\ events \in Seq(Fds) /\ Len(events) \in Nat
      /\ wi \in [Workers -> Nat] /\ wn \in [Workers -> Nat]
      /\ \A v \in Workers : Reading(v) => wi[v] \in 1..wn[v] /\ wn[v] <= Len(events)
  BY LenProperties DEF TypeOK
<1>2. wpc[w] = "wait" /\ w \in DOMAIN wpc
  BY DEF EpollWait, TypeOK
<1>3. ASSUME NEW ready \in SetToAllKPermutations(ReadyFds), ReadyFds # {},
             Len(ready) = Cardinality(ReadyFds),
             events' = ready \o SubSeq(events, Len(ready) + 1, Cardinality(Unread(w))),
             wn' = [wn EXCEPT ![w] = Len(ready)],
             wi' = [wi EXCEPT ![w] = 1], wpc' = [wpc EXCEPT ![w] = "events"]
      PROVE  EventsOK'
  <2> DEFINE u == Cardinality(Unread(w))
  <2>1. events' = ready \o SubSeq(events, Len(ready) + 1, u)
    BY <1>3
  <2>3. ready \in Seq(Fds) /\ Len(ready) \in Nat \ {0}
    BY <1>3, ReadyTyped
  <2>4. /\ u \in 0..Len(events)
        /\ \A v \in Workers \ {w} : Reading(v) => wn[v] <= u
    BY UnreadCovers
  <2> HIDE DEF u
  <2>5. /\ SubSeq(events, Len(ready) + 1, u) \in Seq(Fds)
        /\ Len(SubSeq(events, Len(ready) + 1, u)) =
             IF Len(ready) + 1 <= u THEN u - Len(ready) ELSE 0
    BY <1>1, <2>3, <2>4, SubSeqProperties
  <2>6. events' \in Seq(Fds) /\ Len(events') >= Len(ready) /\ Len(events') >= u
    BY <2>1, <2>3, <2>4, <2>5, ConcatProperties
  <2>7. ASSUME NEW v \in Workers, Reading(v)'
        PROVE  wi'[v] \in 1..wn'[v] /\ wn'[v] <= Len(events')
    <3>1. CASE v = w
      BY <1>1, <1>3, <2>3, <2>6, <3>1
    <3>2. CASE v # w
      <4>1. Reading(v) /\ wi'[v] = wi[v] /\ wn'[v] = wn[v] /\ wn[v] <= u
        BY <1>1, <1>2, <1>3, <2>4, <2>7, <3>2 DEF Reading
      <4>2. Len(events') \in Nat /\ wn[v] \in Nat /\ u \in Nat
        BY <1>1, <2>4, <2>6, LenProperties
      <4> QED  BY <1>1, <2>6, <4>1, <4>2
    <3> QED  BY <3>1, <3>2
  <2> QED  BY <1>1, <1>3, <2>3, <2>6, <2>7 DEF EventsOK
<1>4. ASSUME NEW label \in {"loop", "end"}, wpc' = [wpc EXCEPT ![w] = label],
             UNCHANGED <<events, wi, wn>>
      PROVE  EventsOK'
  <2>1. \A v \in Workers : Reading(v)' => Reading(v)
    BY <1>2, <1>4 DEF TypeOK, Reading
  <2> QED  BY <1>1, <1>4, <2>1 DEF EventsOK
<1> QED  BY <1>3, <1>4 DEF EpollWait, Goto, GiveUp, AfterTimeout, loops

LEMMA NextTurnEvents ==
  ASSUME TypeOK, NEW w \in Workers, Reading(w), NextTurn(w)
  PROVE  EventsOK'
<1> DEFINE u == Cardinality(Unread(w))
<1>1. /\ events \in Seq(Fds) /\ Len(events) \in Nat
      /\ wi \in [Workers -> Nat] /\ wn \in [Workers -> Nat]
      /\ \A v \in Workers : Reading(v) => wi[v] \in 1..wn[v] /\ wn[v] <= Len(events)
  BY LenProperties DEF TypeOK
<1>2. w \in DOMAIN wpc /\ wi[w] \in 1..wn[w] /\ wn[w] <= Len(events)
  BY <1>1 DEF TypeOK
<1>3. CASE /\ wi[w] < wn[w] /\ wi' = [wi EXCEPT ![w] = @ + 1] /\ UNCHANGED <<wn, events>>
           /\ wpc' = [wpc EXCEPT ![w] = "events"]
  <2>1. wi'[w] \in 1..wn'[w] /\ wi' \in [Workers -> Nat]
    BY <1>1, <1>2, <1>3
  <2>2. \A v \in Workers \ {w} : wi'[v] = wi[v] /\ (Reading(v)' => Reading(v))
    BY <1>1, <1>2, <1>3 DEF Reading
  <2> QED  BY <1>1, <1>2, <1>3, <2>1, <2>2 DEF EventsOK
<1>4. CASE /\ wi' = [wi EXCEPT ![w] = 0] /\ wn' = [wn EXCEPT ![w] = 0]
           /\ events' = SubSeq(events, 1, u)
           /\ wpc' = [wpc EXCEPT ![w] = "loop"]
  <2>1. /\ u \in 0..Len(events)
        /\ \A v \in Workers \ {w} : Reading(v) => wn[v] <= u
    BY UnreadCovers
  <2> HIDE DEF u
  <2>2. events' \in Seq(Fds) /\ Len(events') = u
    BY <1>1, <1>4, <2>1, SubSeqProperties
  <2>3. ASSUME NEW v \in Workers, Reading(v)'
        PROVE  wi'[v] \in 1..wn'[v] /\ wn'[v] <= Len(events')
    <3>1. v # w /\ Reading(v) /\ wi'[v] = wi[v] /\ wn'[v] = wn[v]
      BY <1>1, <1>2, <1>4, <2>3 DEF Reading
    <3> QED  BY <1>1, <2>1, <2>2, <3>1
  <2> QED  BY <1>1, <1>4, <2>2, <2>3 DEF EventsOK
<1> QED  BY <1>3, <1>4 DEF NextTurn, Goto

(* A worker that is about to close a descriptor keeps its place.           *)
LEMMA HandleEventEvents ==
  ASSUME TypeOK, NEW w \in Workers, HandleEvent(w) \/ CloseFd(w)
  PROVE  EventsOK'
<1>1. Reading(w)
  BY DEF HandleEvent, CloseFd, Reading
<1>2. CASE NextTurn(w)
  BY <1>1, <1>2, NextTurnEvents
<1>3. ASSUME NEW label, wpc' = [wpc EXCEPT ![w] = label], UNCHANGED <<wi, wn, events>>
      PROVE  EventsOK'
  <2>1. \A v \in Workers : Reading(v)' => Reading(v)
    BY <1>1, <1>3 DEF TypeOK, Reading
  <2> QED  BY <1>3, <2>1 DEF EventsOK, TypeOK
<1> QED  BY <1>2, <1>3 DEF HandleEvent, CloseFd, Goto, loops

-----------------------------------------------------------------------------
(* The types of all variables.                                               *)

FilesOK ==
  /\ fdt \in [Fds -> Conns \cup {DST, NONE}]
  /\ epset \subseteq Conns /\ givenUp \subseteq Conns
TrafficOK ==
  /\ inbox \in [Conns -> Nat]
  /\ got \in [Conns -> Seq(Conns)]
  /\ toDst \in Seq(Conns) /\ fromDst \in Seq(Conns)
QueuesOK ==
  /\ queue \in Seq(Fds)
  /\ fd_list \in Seq(Fds) /\ work_list \in Seq(Fds) /\ leaked \in Seq(Fds)
EnvOK ==
  /\ backlog \in Seq(Conns) /\ gone \subseteq Conns
  /\ made \in 0..MaxConns /\ unsent \in 0..Requests /\ dstUp \in BOOLEAN
  /\ asked \in [Conns -> Nat]
PlacesOK ==
  /\ mpc \in {"check", "accept", "admit", "register", "addwork", "exit"}
  /\ mfd \in Fds \cup {NONE}
  /\ wpc \in [Workers -> WorkerPlaces]
  /\ wsrc \in [Workers -> Fds \cup {NONE}]

LEMMA TypeParts ==
  /\ TypeOK <=> FilesOK /\ TrafficOK /\ QueuesOK /\ EnvOK /\ PlacesOK /\ EventsOK
  /\ TypeOK' <=> FilesOK' /\ TrafficOK' /\ QueuesOK' /\ EnvOK' /\ PlacesOK' /\ EventsOK'
BY DEF TypeOK, FilesOK, TrafficOK, QueuesOK, EnvOK, PlacesOK, EventsOK

LEMMA WriteToTyped ==
  ASSUME TrafficOK, FilesOK, NEW f \in Fds, NEW c \in Conns, WriteTo(f, c)
  PROVE  got' \in [Conns -> Seq(Conns)] /\ toDst' \in Seq(Conns)
<1>1. CASE toDst' = Append(toDst, c) /\ UNCHANGED got
  BY <1>1, AppendProperties DEF TrafficOK
<1>2. ASSUME NEW d \in Conns, got' = [got EXCEPT ![d] = Append(@, c)], UNCHANGED toDst
      PROVE  got' \in [Conns -> Seq(Conns)] /\ toDst' \in Seq(Conns)
  <2>1. Append(got[d], c) \in Seq(Conns)
    BY AppendProperties DEF TrafficOK
  <2> QED  BY <1>2, <2>1 DEF TrafficOK
<1>3. CASE UNCHANGED <<toDst, got>>
  BY <1>3 DEF TrafficOK
<1> QED  BY <1>1, <1>2, <1>3 DEF WriteTo

LEMMA ProcessTyped ==
  ASSUME TrafficOK, FilesOK, UNCHANGED givenUp, NEW f \in Fds, NEW g \in Fds, Process(f, g)
  PROVE  TrafficOK' /\ FilesOK'
<1> DEFINE file == FileOf(f)
<1>1. CASE NothingRead
  BY <1>1 DEF NothingRead, TrafficOK, FilesOK, traffic
<1>3. CASE /\ file \in Conns /\ inbox[file] > 0
           /\ inbox' = [inbox EXCEPT ![file] = @ - 1]
           /\ WriteTo(g, file)
           /\ UNCHANGED <<fdt, epset, fromDst>>
  <2>1. got' \in [Conns -> Seq(Conns)] /\ toDst' \in Seq(Conns)
    BY <1>3, WriteToTyped
  <2>2. inbox' \in [Conns -> Nat]
    <3> HIDE DEF file
    <3> QED  BY <1>3 DEF TrafficOK
  <2> QED  BY <1>3, <2>1, <2>2 DEF TrafficOK, FilesOK
<1>4. CASE /\ fromDst # <<>>
           /\ fromDst' = Tail(fromDst)
           /\ WriteTo(g, Head(fromDst)) \/ UNCHANGED <<toDst, got>>
           /\ UNCHANGED <<fdt, epset, inbox>>
  <2>1. Tail(fromDst) \in Seq(Conns) /\ Head(fromDst) \in Conns
    BY <1>4, CountTail DEF TrafficOK
  <2>2. got' \in [Conns -> Seq(Conns)] /\ toDst' \in Seq(Conns)
    BY <1>4, <2>1, WriteToTyped DEF TrafficOK
  <2> QED  BY <1>4, <2>1, <2>2 DEF TrafficOK, FilesOK
<1> QED  BY <1>1, <1>3, <1>4 DEF Process

(* A worker that handles an event has its own descriptor to look at.       *)
LEMMA HandleEventCases ==
  ASSUME RInv, NEW w \in Workers, HandleEvent(w)
  PROVE  NothingRead \/ \E f \in Fds, g \in Fds : Process(f, g)
<1>1. wsrc[w] \in Fds
  BY DEF HandleEvent, RInv, RegistryTyped
<1> QED  BY <1>1, DstFdType DEF HandleEvent

LEMMA NextTyped == RInv /\ TypeOK /\ [Next]_vars => TypeOK'
<1> SUFFICES ASSUME RInv, TypeOK, [Next]_vars PROVE TypeOK'
  OBVIOUS
<1>0. FilesOK /\ TrafficOK /\ QueuesOK /\ EnvOK /\ PlacesOK /\ EventsOK
  BY TypeParts
<1>q. QueuesOK'
  BY NextRegistry DEF RInv, RegistryTyped, QueuesOK
<1>1. CASE UNCHANGED vars
  BY <1>1 DEF TypeOK, Reading, vars, peers, lists, main, loops, traffic, ended
<1>2. ASSUME Environment PROVE TypeOK'
  <2>1. /\ UNCHANGED <<fdt, epset, givenUp, main, wpc, wsrc, events, loops>>
    BY <1>2 DEF Environment, Connect, Send, Leave, Reply, DstCloses, ended
  <2>2. FilesOK' /\ PlacesOK' /\ EventsOK'
    BY <1>0, <2>1 DEF FilesOK, PlacesOK, EventsOK, Reading, main, loops
  <2>3. TrafficOK'
    <3>1. CASE UNCHANGED traffic
      BY <1>0, <3>1 DEF TrafficOK, traffic
    <3>2. CASE \E c \in Conns : inbox' = [inbox EXCEPT ![c] = @ + 1]
                              /\ UNCHANGED <<got, toDst, fromDst>>
      BY <1>0, <3>2 DEF TrafficOK
    <3>3. CASE /\ toDst # <<>> /\ toDst' = Tail(toDst)
               /\ fromDst' = Append(fromDst, Head(toDst)) /\ UNCHANGED <<inbox, got>>
      <4>1. Tail(toDst) \in Seq(Conns) /\ Head(toDst) \in Conns
        BY <1>0, <3>3, CountTail DEF TrafficOK
      <4>2. Append(fromDst, Head(toDst)) \in Seq(Conns)
        BY <1>0, <4>1, AppendProperties DEF TrafficOK
      <4> QED  BY <1>0, <3>3, <4>1, <4>2 DEF TrafficOK
    <3> QED  BY <1>2, <3>1, <3>2, <3>3
             DEF Environment, Connect, Send, Leave, Reply, DstCloses
  <2>4. EnvOK'
    <3>1. CASE Connect
      <4>1. made + 1 \in Conns /\ made + 1 \in 0..MaxConns
        BY <1>0, <3>1, ConstantsAssumption DEF EnvOK, Conns, Connect
      <4>2. backlog' \in Seq(Conns)
        BY <1>0, <3>1, <4>1, AppendProperties DEF EnvOK, Connect
      <4> QED  BY <1>0, <3>1, <4>1, <4>2 DEF EnvOK, Connect
    <3>2. ASSUME NEW c \in Conns, Send(c) PROVE EnvOK'
      BY <1>0, <3>2, ConstantsAssumption DEF EnvOK, Send
    <3>3. ASSUME NEW c \in Conns, Leave(c) PROVE EnvOK'
      BY <1>0, <3>3 DEF EnvOK, Leave
    <3>4. CASE Reply
      BY <1>0, <3>4 DEF EnvOK, Reply, peers
    <3>5. CASE DstCloses
      BY <1>0, <3>5 DEF EnvOK, DstCloses
    <3> QED  BY <1>2, <3>1, <3>2, <3>3, <3>4, <3>5 DEF Environment
  <2> QED  BY <1>q, <2>2, <2>3, <2>4, TypeParts
<1>3. ASSUME MainStep PROVE TypeOK'
  <2>1. UNCHANGED <<peers, traffic, epset, events, wpc, wsrc, loops, givenUp>>
    BY <1>3 DEF MainStep, CheckDst, Accept, Admit, Register, AddWorkData, ended
  <2>2. TrafficOK' /\ EventsOK'
    BY <1>0, <2>1 DEF TrafficOK, EventsOK, Reading, traffic, loops
  <2>3. CASE Accept
    <3>1. CASE UNCHANGED <<fdt, mfd, backlog>> /\ mpc' = "check"
      <4>1. FilesOK' /\ PlacesOK' /\ EnvOK'
        BY <1>0, <2>1, <3>1 DEF FilesOK, PlacesOK, EnvOK, peers
      <4> QED  BY <1>q, <2>2, <4>1, TypeParts
    <3>2. ASSUME NEW f \in Fds, backlog # <<>>, fdt' = [fdt EXCEPT ![f] = Head(backlog)],
                 mfd' = f, backlog' = Tail(backlog), mpc' = "admit"
          PROVE  TypeOK'
      <4>1. Tail(backlog) \in Seq(Conns) /\ Head(backlog) \in Conns
        BY <1>0, <3>2, CountTail DEF EnvOK
      <4>2. FilesOK'
        BY <1>0, <2>1, <3>2, <4>1 DEF FilesOK
      <4>3. PlacesOK' /\ EnvOK'
        BY <1>0, <2>1, <3>2, <4>1 DEF PlacesOK, EnvOK, peers
      <4> QED  BY <1>q, <2>2, <4>2, <4>3, TypeParts
    <3> QED  BY <2>3, <3>1, <3>2 DEF Accept
  <2>4. CASE CheckDst \/ Admit \/ Register \/ AddWorkData
    <3>1. /\ UNCHANGED <<fdt, backlog, mfd>>
          /\ mpc' \in {"check", "accept", "register", "addwork", "exit"}
      BY <2>4 DEF CheckDst, Admit, Register, AddWorkData
    <3>2. FilesOK' /\ PlacesOK' /\ EnvOK'
      BY <1>0, <2>1, <3>1 DEF FilesOK, PlacesOK, EnvOK, peers
    <3> QED  BY <1>q, <2>2, <3>2, TypeParts
  <2> QED  BY <1>3, <2>3, <2>4 DEF MainStep
<1>4. ASSUME NEW w \in Workers, WorkerStep(w) PROVE TypeOK'
  <2>1. UNCHANGED <<backlog, peers, main>>
    BY <1>4 DEF WorkerStep, TakeWork, OpenConn, CheckConn, EpollWait, HandleEvent,
                CloseFd, DeleteSrcInfo, EndConn
  <2>2. EnvOK'
    BY <1>0, <2>1 DEF EnvOK, peers
  <2>3. PlacesOK'
    <3>1. wpc' \in [Workers -> WorkerPlaces]
      BY NextRegistry DEF RInv, RegistryTyped
    <3>2. wsrc' \in [Workers -> Fds \cup {NONE}]
      BY NextRegistry DEF RInv, RegistryTyped
    <3> QED  BY <1>0, <2>1, <3>1, <3>2 DEF PlacesOK, main
  <2>4. FilesOK' /\ TrafficOK'
    <3>1. CASE HandleEvent(w)
      <4>1. UNCHANGED givenUp
        BY <3>1 DEF HandleEvent, ended
      <4> QED  BY <1>0, <3>1, <4>1, HandleEventCases, ProcessTyped
               DEF NothingRead, FilesOK, TrafficOK, traffic
    <3>2. CASE CloseFd(w)
      BY <1>0, <3>2 DEF CloseFd, FilesOK, TrafficOK, traffic, ended
    <3>3. CASE OpenConn(w) \/ EpollWait(w)
      <4>1. UNCHANGED <<fdt, traffic>> /\ wsrc[w] \in Fds \cup {NONE}
        BY <1>0, <3>3 DEF OpenConn, EpollWait, PlacesOK
      <4>2. FileOf(wsrc[w]) \in Conns \cup {DST, NONE}
        BY <1>0, <4>1 DEF FilesOK, FileOf
      <4>3. epset' \subseteq Conns /\ givenUp' \subseteq Conns
        BY <1>0, <3>3, <4>2 DEF OpenConn, EpollWait, GiveUp, FilesOK, ended
      <4> QED  BY <1>0, <4>1, <4>3 DEF FilesOK, TrafficOK, traffic
    <3>4. CASE TakeWork(w) \/ CheckConn(w) \/ DeleteSrcInfo(w) \/ EndConn(w)
      BY <1>0, <3>4 DEF TakeWork, CheckConn, DeleteSrcInfo, EndConn,
                        FilesOK, TrafficOK, traffic, ended
    <3> QED  BY <1>4, <3>1, <3>2, <3>3, <3>4 DEF WorkerStep
  <2>5. EventsOK'
    <3>1. CASE EpollWait(w)
      BY <3>1, EpollWaitEvents
    <3>2. CASE HandleEvent(w) \/ CloseFd(w)
      BY <3>2, HandleEventEvents
    <3>3. ASSUME NEW label, label \notin {"events", "close_src", "close_dst"},
                 wpc' = [wpc EXCEPT ![w] = label],
                 UNCHANGED <<events, loops>>
          PROVE  EventsOK'
      <4>1. \A v \in Workers : Reading(v)' => Reading(v)
        BY <1>0, <3>3 DEF PlacesOK, Reading
      <4> QED  BY <1>0, <3>3, <4>1 DEF EventsOK, loops
    <3> QED  BY <1>4, <3>1, <3>2, <3>3
             DEF WorkerStep, TakeWork, OpenConn, GiveUp, CheckConn,
                 DeleteSrcInfo, EndConn, Goto
  <2> QED  BY <1>q, <2>2, <2>3, <2>4, <2>5, TypeParts
<1> QED  BY <1>1, <1>2, <1>3, <1>4 DEF Next

LEMMA InitTyped == Init => TypeOK
<1> SUFFICES ASSUME Init PROVE TypeOK
  OBVIOUS
<1>1. FilesOK /\ TrafficOK /\ QueuesOK
  BY DstFdType DEF Init, FilesOK, TrafficOK, QueuesOK
<1>2. EnvOK /\ PlacesOK /\ EventsOK
  BY ConstantsAssumption DEF Init, EnvOK, PlacesOK, WorkerPlaces, EventsOK, Reading
<1> QED  BY <1>1, <1>2, TypeParts

(* Every variable keeps its type, and a worker in the loop over the events *)
(* of epoll_wait reads entries that are there: other workers that write    *)
(* over the shared array never shorten what it still has to read.          *)
THEOREM ProxyTyped == Spec => []TypeOK
<1>1. RInv /\ TypeOK /\ [Next]_vars => (RInv /\ TypeOK)'
  BY NextRegistry, NextTyped
<1>2. Init => RInv /\ TypeOK
  BY InitRegistry, InitTyped
<1> QED  BY <1>1, <1>2, PTL DEF Spec

-----------------------------------------------------------------------------
(* Requests and their answers.                                             *)

LEMMA AnswersMember ==
  ASSUME TrafficOK, NEW c, NEW a
  PROVE  a \in Answers(c) <=>
           \E d \in Conns : \E k \in 1..Len(got[d]) : a = <<d, k>> /\ got[d][k] = c
<1>1. \A d \in Conns : DOMAIN got[d] = 1..Len(got[d])
  BY LenProperties DEF TrafficOK
<1>2. a \in UNION {{d} \X DOMAIN got[d] : d \in Conns} <=>
        \E d \in Conns : \E k \in 1..Len(got[d]) : a = <<d, k>>
  BY <1>1
<1> QED  BY <1>2 DEF Answers

LEMMA AnswersFinite ==
  ASSUME TrafficOK, NEW c
  PROVE  IsFiniteSet(Answers(c)) /\ Cardinality(Answers(c)) \in Nat
<1> DEFINE row == [d \in Conns |-> {d} \X (1..Len(got[d]))]
           Rows == {row[d] : d \in Conns}
<1>1. IsFiniteSet(Conns)
  BY ConstantsAssumption, CardInterval DEF Conns
<1>2. IsFiniteSet(Rows)
  <2>1. row \in Surjection(Conns, Rows)
    BY DEF Surjection
  <2> QED  BY <1>1, <2>1, FS_Surjection
<1>3. ASSUME NEW r \in Rows PROVE IsFiniteSet(r)
  <2>1. PICK d \in Conns : r = {d} \X (1..Len(got[d]))
    OBVIOUS
  <2>2. IsFiniteSet(1..Len(got[d]))
    BY LenProperties, CardInterval DEF TrafficOK
  <2>3. IsFiniteSet({d})
    BY FS_Singleton
  <2> QED  BY <2>1, <2>2, <2>3, FS_Product
<1>4. IsFiniteSet(UNION Rows)
  BY <1>2, <1>3, FS_UNION
<1>5. \A a \in Answers(c) : a \in UNION Rows
  BY AnswersMember
<1>6. Answers(c) \in SUBSET UNION Rows
  BY <1>5
<1> QED  BY <1>4, <1>6, FS_Subset, FS_CardinalityType

(* A response written to a connection is one more answer to its request.   *)
LEMMA AnswersAppend ==
  ASSUME TrafficOK, TrafficOK', NEW d \in Conns, NEW x \in Conns, NEW c,
         got' = [got EXCEPT ![d] = Append(@, x)]
  PROVE  Cardinality(Answers(c))' = Cardinality(Answers(c)) + IF x = c THEN 1 ELSE 0
<1> DEFINE n == Len(got[d]) + 1
<1>1. /\ got[d] \in Seq(Conns) /\ Len(got[d]) \in Nat
      /\ got'[d] = Append(got[d], x) /\ \A e \in Conns \ {d} : got'[e] = got[e]
  BY LenProperties DEF TrafficOK
<1>2. /\ Len(got'[d]) = n /\ got'[d][n] = x
      /\ \A k \in 1..Len(got[d]) : got'[d][k] = got[d][k]
  BY <1>1, AppendProperties
<1>3. <<d, n>> \notin Answers(c)
  BY <1>1, AnswersMember
<1>4. ASSUME NEW a
      PROVE  a \in Answers(c)' <=>
               \E e \in Conns : \E k \in 1..Len(got'[e]) : a = <<e, k>> /\ got'[e][k] = c
  <2>1. \A e \in Conns : DOMAIN got'[e] = 1..Len(got'[e])
    BY LenProperties DEF TrafficOK
  <2>2. a \in UNION {{e} \X DOMAIN got'[e] : e \in Conns} <=>
          \E e \in Conns : \E k \in 1..Len(got'[e]) : a = <<e, k>>
    BY <2>1
  <2> QED  BY <2>2 DEF Answers
<1>5. ASSUME NEW a
      PROVE  a \in Answers(c)' <=> a \in Answers(c) \/ (x = c /\ a = <<d, n>>)
  <2>1. ASSUME a \in Answers(c) PROVE a \in Answers(c)'
    <3>0. PICK e \in Conns : \E k \in 1..Len(got[e]) : a = <<e, k>> /\ got[e][k] = c
      BY <2>1, AnswersMember
    <3>1. PICK k \in 1..Len(got[e]) : a = <<e, k>> /\ got[e][k] = c
      BY <3>0
    <3>2. k \in 1..Len(got'[e]) /\ got'[e][k] = c
      <4>1. CASE e = d
        BY <1>1, <1>2, <3>1, <4>1
      <4>2. CASE e # d
        BY <1>1, <3>1, <4>2
      <4> QED  BY <4>1, <4>2
    <3> QED  BY <1>4, <3>1, <3>2
  <2>2. ASSUME x = c, a = <<d, n>> PROVE a \in Answers(c)'
    <3>1. n \in 1..Len(got'[d])
      BY <1>1, <1>2
    <3> QED  BY <1>2, <1>4, <2>2, <3>1
  <2>3. ASSUME a \in Answers(c)' PROVE a \in Answers(c) \/ (x = c /\ a = <<d, n>>)
    <3>0. PICK e \in Conns : \E k \in 1..Len(got'[e]) : a = <<e, k>> /\ got'[e][k] = c
      BY <1>4, <2>3
    <3>1. PICK k \in 1..Len(got'[e]) : a = <<e, k>> /\ got'[e][k] = c
      BY <3>0
    <3>2. CASE e = d /\ k = n
      BY <1>2, <3>1, <3>2
    <3>3. CASE e # d \/ k # n
      <4>1. k \in 1..Len(got[e]) /\ got[e][k] = c
        <5>1. CASE e = d
          BY <1>1, <1>2, <3>1, <3>3, <5>1
        <5>2. CASE e # d
          BY <1>1, <3>1, <5>2
        <5> QED  BY <5>1, <5>2
      <4> QED  BY <3>1, <4>1, AnswersMember
    <3> QED  BY <3>2, <3>3
  <2> QED  BY <2>1, <2>2, <2>3
<1>6. Cardinality(Answers(c))' = Cardinality(Answers(c)')
  OBVIOUS
<1> HIDE DEF n
<1>7. CASE x = c
  <2>1. Answers(c)' = Answers(c) \cup {<<d, n>>}
    BY <1>5, <1>7
  <2>2. Cardinality(Answers(c) \cup {<<d, n>>}) = Cardinality(Answers(c)) + 1
    BY <1>3, AnswersFinite, FS_AddElement
  <2> QED  BY <1>6, <1>7, <2>1, <2>2
<1>8. CASE x # c
  <2>1. Answers(c)' = Answers(c)
    BY <1>5, <1>8
  <2> QED  BY <1>6, <1>8, <2>1, AnswersFinite
<1> QED  BY <1>7, <1>8

(* Requests of c that are answered, or on the way to or from the           *)
(* destination.                                                            *)
Load(c) == Cardinality(Answers(c)) + Count(toDst, c) + Count(fromDst, c)

LEMMA LoadType == ASSUME TrafficOK, NEW c PROVE Load(c) \in Nat
<1>1. Cardinality(Answers(c)) \in Nat
  BY AnswersFinite
<1>2. Count(toDst, c) \in Nat /\ Count(fromDst, c) \in Nat
  BY CountType DEF TrafficOK
<1> QED  BY <1>1, <1>2 DEF Load

LoadsTyped == \A c \in Conns : Cardinality(Answers(c)) \in Nat /\ Load(c) \in Nat

LEMMA LoadsNat ==
  /\ TrafficOK => \A c \in Conns : Cardinality(Answers(c)) \in Nat /\ Load(c) \in Nat
  /\ TrafficOK' => \A c \in Conns : Cardinality(Answers(c))' \in Nat /\ Load(c)' \in Nat
<1>1. TrafficOK => LoadsTyped
  BY AnswersFinite, LoadType DEF LoadsTyped
<1>2. TrafficOK' => LoadsTyped'
  BY <1>1, PTL
<1> QED  BY <1>1, <1>2 DEF LoadsTyped

LEMMA LoadSame ==
  ASSUME NEW c, UNCHANGED <<got, toDst, fromDst>>
  PROVE  Load(c)' = Load(c)
BY DEF Load, Answers, Count

(* What WriteTo writes is counted once, wherever it goes.                  *)
LEMMA LoadWriteTo ==
  ASSUME TrafficOK, TrafficOK', NEW f, NEW x \in Conns, WriteTo(f, x), NEW c
  PROVE  Cardinality(Answers(c))' + Count(toDst', c)
           <= Cardinality(Answers(c)) + Count(toDst, c) + IF x = c THEN 1 ELSE 0
<1>1. /\ Cardinality(Answers(c)) \in Nat /\ Count(toDst, c) \in Nat
      /\ toDst \in Seq(Conns)
  BY AnswersFinite, CountType DEF TrafficOK
<1>2. CASE toDst' = Append(toDst, x) /\ UNCHANGED got
  <2>1. Cardinality(Answers(c))' = Cardinality(Answers(c))
    BY <1>2 DEF Answers
  <2>2. Count(toDst', c) = Count(toDst, c) + IF x = c THEN 1 ELSE 0
    BY <1>1, <1>2, CountAppend
  <2> QED  BY <1>1, <2>1, <2>2
<1>3. ASSUME NEW d \in Conns, got' = [got EXCEPT ![d] = Append(@, x)], UNCHANGED toDst
      PROVE  Cardinality(Answers(c))' + Count(toDst', c)
               <= Cardinality(Answers(c)) + Count(toDst, c) + IF x = c THEN 1 ELSE 0
  <2>1. Cardinality(Answers(c))' = Cardinality(Answers(c)) + IF x = c THEN 1 ELSE 0
    BY <1>3, AnswersAppend
  <2>2. Count(toDst', c) = Count(toDst, c)
    BY <1>3
  <2> QED  BY <1>1, <2>1, <2>2
<1>4. CASE UNCHANGED <<toDst, got>>
  <2>1. Cardinality(Answers(c))' = Cardinality(Answers(c))
    BY <1>4 DEF Answers
  <2> QED  BY <1>1, <1>4, <2>1
<1> QED  BY <1>2, <1>3, <1>4 DEF WriteTo

(* A request read is one less to read; a response read is one less to      *)
(* forward.                                                                *)
LEMMA LoadProcess ==
  ASSUME TrafficOK, TrafficOK', NEW f, NEW g, Process(f, g), NEW c \in Conns
  PROVE  Load(c)' + inbox'[c] <= Load(c) + inbox[c]
<1> DEFINE file == FileOf(f)
<1>1. /\ Cardinality(Answers(c)) \in Nat /\ Count(toDst, c) \in Nat
      /\ Count(fromDst, c) \in Nat /\ inbox[c] \in Nat
      /\ Cardinality(Answers(c))' \in Nat /\ Count(toDst', c) \in Nat
      /\ Count(fromDst', c) \in Nat
  <2>1. Cardinality(Answers(c)) \in Nat /\ Cardinality(Answers(c))' \in Nat
    BY LoadsNat
  <2> QED  BY <2>1, CountType DEF TrafficOK
<1> HIDE DEF file
<1>2. CASE UNCHANGED traffic
  BY <1>1, <1>2, LoadSame, LoadType DEF traffic
<1>3. CASE /\ file \in Conns /\ inbox[file] > 0
           /\ inbox' = [inbox EXCEPT ![file] = @ - 1]
           /\ WriteTo(g, file)
           /\ UNCHANGED fromDst
  <2>1. Cardinality(Answers(c))' + Count(toDst', c)
           <= Cardinality(Answers(c)) + Count(toDst, c) + IF file = c THEN 1 ELSE 0
    BY <1>3, LoadWriteTo
  <2>2. inbox'[c] = inbox[c] - IF file = c THEN 1 ELSE 0
    BY <1>1, <1>3, SMTT(30) DEF TrafficOK
  <2>3. Load(c)' = Cardinality(Answers(c))' + Count(toDst', c) + Count(fromDst', c)
    BY DEF Load, Count
  <2> QED  BY <1>1, <1>3, <2>1, <2>2, <2>3 DEF Load
<1>4. CASE /\ fromDst # <<>> /\ fromDst' = Tail(fromDst)
           /\ WriteTo(g, Head(fromDst)) \/ UNCHANGED <<toDst, got>>
           /\ UNCHANGED inbox
  <2> DEFINE h == Head(fromDst)
  <2>1. /\ h \in Conns
        /\ Count(fromDst, c) = Count(fromDst', c) + IF h = c THEN 1 ELSE 0
    BY <1>4, CountTail, SMTT(30) DEF TrafficOK
  <2>2. Cardinality(Answers(c))' + Count(toDst', c)
           <= Cardinality(Answers(c)) + Count(toDst, c) + IF h = c THEN 1 ELSE 0
    <3>1. CASE WriteTo(g, h)
      BY <2>1, <3>1, LoadWriteTo
    <3>2. CASE UNCHANGED <<toDst, got>>
      <4>1. Cardinality(Answers(c))' = Cardinality(Answers(c))
        BY <3>2 DEF Answers
      <4> QED  BY <1>1, <3>2, <4>1
    <3> QED  BY <1>4, <3>1, <3>2
  <2>3. Load(c)' = Cardinality(Answers(c))' + Count(toDst', c) + Count(fromDst', c)
    BY DEF Load, Count
  <2>4. inbox'[c] = inbox[c]
    BY <1>4
  <2>5. Load(c) = Cardinality(Answers(c)) + Count(toDst, c) + Count(fromDst, c)
    BY DEF Load
  <2> HIDE DEF h, Load
  <2> QED  BY <1>1, <2>1, <2>2, <2>3, <2>4, <2>5
<1> QED  BY <1>2, <1>3, <1>4 DEF Process, NothingRead, file

LEMMA AnsweredRestated ==
  /\ AnsweredOnce <=> \A c \in Conns : Load(c) + inbox[c] <= asked[c]
  /\ AnsweredOnce' <=> \A c \in Conns : Load(c)' + inbox'[c] <= asked'[c]
BY DEF AnsweredOnce, Load, Count

LEMMA NextAnswered == RInv /\ TypeOK /\ AnsweredOnce /\ [Next]_vars => AnsweredOnce'
<1> SUFFICES ASSUME RInv, TypeOK, AnsweredOnce, [Next]_vars PROVE AnsweredOnce'
  OBVIOUS
<1>1. TrafficOK /\ TrafficOK' /\ asked \in [Conns -> Nat]
  BY NextTyped, TypeParts DEF EnvOK
<1>2. \A c \in Conns : Load(c) \in Nat /\ inbox[c] \in Nat /\ asked[c] \in Nat
  BY <1>1, LoadType DEF TrafficOK
<1>3. \A c \in Conns : Load(c) + inbox[c] <= asked[c]
  BY AnsweredRestated
<1>4. CASE UNCHANGED <<traffic, asked>>
  BY <1>3, <1>4, LoadSame, AnsweredRestated DEF traffic
<1>5. ASSUME NEW d \in Conns, Send(d) PROVE AnsweredOnce'
  <2>1. \A c \in Conns : Load(c)' = Load(c)
    BY <1>5, LoadSame DEF Send
  <2>2. \A c \in Conns : inbox'[c] = inbox[c] + (IF c = d THEN 1 ELSE 0)
                       /\ asked'[c] = asked[c] + (IF c = d THEN 1 ELSE 0)
    BY <1>1, <1>2, <1>5 DEF Send, TrafficOK
  <2> QED  BY <1>2, <1>3, <2>1, <2>2, AnsweredRestated
<1>6. CASE Reply
  <2>1. /\ toDst # <<>> /\ toDst' = Tail(toDst) /\ fromDst' = Append(fromDst, Head(toDst))
        /\ UNCHANGED <<got, inbox, asked>>
    BY <1>6 DEF Reply, peers
  <2>2. ASSUME NEW c \in Conns PROVE Load(c)' = Load(c)
    <3>1. /\ Count(toDst, c) = Count(toDst', c) + IF Head(toDst) = c THEN 1 ELSE 0
          /\ Head(toDst) \in Conns /\ toDst' \in Seq(Conns)
      BY <1>1, <2>1, CountTail DEF TrafficOK
    <3>2. Count(fromDst', c) = Count(fromDst, c) + IF Head(toDst) = c THEN 1 ELSE 0
      BY <1>1, <2>1, <3>1, CountAppend DEF TrafficOK
    <3>3. Cardinality(Answers(c))' = Cardinality(Answers(c))
      BY <2>1 DEF Answers
    <3>4. /\ Cardinality(Answers(c)) \in Nat /\ Count(toDst', c) \in Nat
          /\ Count(fromDst, c) \in Nat
      BY <1>1, <3>1, AnswersFinite, CountType DEF TrafficOK
    <3>5. Load(c)' = Cardinality(Answers(c))' + Count(toDst', c) + Count(fromDst', c)
      BY DEF Load, Count
    <3> QED  BY <3>1, <3>2, <3>3, <3>4, <3>5 DEF Load
  <2> QED  BY <1>3, <2>1, <2>2, AnsweredRestated
<1>7. ASSUME NEW w \in Workers, HandleEvent(w) PROVE AnsweredOnce'
  <2>1. UNCHANGED asked
    BY <1>7 DEF HandleEvent, peers
  <2>2. NothingRead \/ \E f \in Fds, g \in Fds : Process(f, g)
    BY <1>7, HandleEventCases
  <2>3. CASE NothingRead
    BY <1>4, <2>1, <2>3 DEF NothingRead
  <2>4. ASSUME NEW f \in Fds, NEW g \in Fds, Process(f, g) PROVE AnsweredOnce'
    <3>1. \A c \in Conns : Load(c)' + inbox'[c] <= Load(c) + inbox[c]
      BY <1>1, <2>4, LoadProcess
    <3>2. \A c \in Conns : Load(c)' \in Nat /\ inbox'[c] \in Nat
      BY <1>1, LoadsNat DEF TrafficOK
    <3> QED  BY <1>2, <1>3, <2>1, <3>1, <3>2, AnsweredRestated
  <2> QED  BY <2>2, <2>3, <2>4
<1>8. ~UNCHANGED <<traffic, asked>> =>
        \/ Reply \/ (\E d \in Conns : Send(d)) \/ \E w \in Workers : HandleEvent(w)
  BY DEF Next, MainStep, Environment, WorkerStep, Connect, Leave, DstCloses,
         CheckDst, Accept, Admit, Register, AddWorkData, TakeWork, OpenConn, CheckConn,
         EpollWait, CloseFd, DeleteSrcInfo, EndConn, vars, peers, traffic
<1> QED  BY <1>4, <1>5, <1>6, <1>7, <1>8

LEMMA InitAnswered == Init => AnsweredOnce
<1> SUFFICES ASSUME Init, NEW c \in Conns
             PROVE  Cardinality(Answers(c)) + Count(toDst, c) + Count(fromDst, c) + inbox[c]
                      <= asked[c]
  BY DEF AnsweredOnce
<1>1. TrafficOK
  BY InitTyped, TypeParts
<1>2. \A a : a \notin Answers(c)
  BY <1>1, AnswersMember DEF Init
<1>3. Cardinality(Answers(c)) = 0
  BY <1>2, FS_EmptySet
<1>4. Count(toDst, c) = 0 /\ Count(fromDst, c) = 0
  BY CountEmpty DEF Init
<1> QED  BY <1>3, <1>4 DEF Init

(* Whichever workers read a request and its response, and whatever         *)
(* descriptor they write to, no request is answered twice: proxy_conn      *)
(* takes each message from one place and puts it in at most one other.     *)
THEOREM AnsweredHolds == Spec => []AnsweredOnce
<1>1. RInv /\ TypeOK /\ AnsweredOnce /\ [Next]_vars => (RInv /\ TypeOK /\ AnsweredOnce)'
  BY NextRegistry, NextTyped, NextAnswered
<1>2. Init => RInv /\ TypeOK /\ AnsweredOnce
  BY InitRegistry, InitTyped, InitAnswered
<1> QED  BY <1>1, <1>2, PTL DEF Spec
=============================================================================
