--------------------------- MODULE DlistPtrProofs ---------------------------
(***************************************************************************)
(* Proofs about DlistPtr for any number of nodes and any descriptors: that *)
(* the list and its length are exact, and that the loop of dlist_ptr_final *)
(* never stands on a freed node and leaves none behind, although           *)
(* dlist_ptr_del_node_by_node deletes another node than its target.        *)
(***************************************************************************)
EXTENDS DlistPtr, SequenceTheorems, TLAPS

(* Where the loop of dlist_ptr_final stands: at HEAD or on the first node, *)
(* because what it deletes is the second node, when it asks for the first, *)
(* or the first, when it asks for the second; at TAIL once the list is     *)
(* empty.                                                                  *)
SweepAt ==
  pc = "final" =>
    \/ nodes # <<>> /\ index \in {HEAD, nodes[1]}
    \/ nodes = <<>> /\ index = TAIL

FreedWereCreated == freed \subseteq 1..created

SInv == TypeOK /\ NodesAccounted /\ FreedWereCreated /\ SweepAt /\ FinalEmpties

-----------------------------------------------------------------------------
(* What the operators return.                                              *)

LEMMA DummiesApart ==
  /\ NULL \notin NodeIds /\ HEAD \notin NodeIds /\ TAIL \notin NodeIds
  /\ HEAD # TAIL /\ HEAD # NULL /\ TAIL # NULL
  BY MaxNodesAssumption DEF NULL, HEAD, TAIL, NodeIds

(* The list without its k-th node.                                         *)
LEMMA RemoveIs ==
  ASSUME NEW s \in Seq(NodeIds), IsInjective(s), NEW k \in 1..Len(s)
  PROVE  /\ RemoveAt(s, k) \in Seq(NodeIds)
         /\ Len(RemoveAt(s, k)) = Len(s) - 1
         /\ \A i \in 1..Len(s) - 1 : RemoveAt(s, k)[i] = IF i < k THEN s[i] ELSE s[i + 1]
         /\ IsInjective(RemoveAt(s, k))
         /\ Range(RemoveAt(s, k)) = Range(s) \ {s[k]}
<1> DEFINE r == RemoveAt(s, k)
           before == SubSeq(s, 1, k - 1)
           after == SubSeq(s, k + 1, Len(s))
<1>1. /\ Len(s) \in Nat /\ k \in Nat /\ k >= 1 /\ k <= Len(s) /\ DOMAIN s = 1..Len(s)
      /\ \A i \in 1..Len(s) : s[i] \in NodeIds
  BY LenProperties, ElementOfSeq
<1>2. /\ before \in Seq(NodeIds) /\ Len(before) = k - 1
      /\ \A i \in 1..k - 1 : before[i] = s[i]
  <2>1. \A i \in 1..k - 1 : s[i] \in NodeIds
    BY <1>1
  <2>2. 1 \in Int /\ k - 1 \in Int
    BY <1>1
  <2>3. /\ before \in Seq(NodeIds)
        /\ Len(before) = IF 1 <= k - 1 THEN (k - 1) - 1 + 1 ELSE 0
        /\ \A i \in 1..(k - 1) - 1 + 1 : before[i] = s[1 + i - 1]
    BY <2>1, <2>2, SubSeqProperties
  <2> HIDE DEF before
  <2> QED
    BY <1>1, <2>3
<1>3. /\ after \in Seq(NodeIds) /\ Len(after) = Len(s) - k
      /\ \A i \in 1..Len(s) - k : after[i] = s[k + i]
  <2>1. \A i \in k + 1..Len(s) : s[i] \in NodeIds
    BY <1>1
  <2>2. k + 1 \in Int /\ Len(s) \in Int
    BY <1>1
  <2>3. /\ after \in Seq(NodeIds)
        /\ Len(after) = IF k + 1 <= Len(s) THEN Len(s) - (k + 1) + 1 ELSE 0
        /\ \A i \in 1..Len(s) - (k + 1) + 1 : after[i] = s[(k + 1) + i - 1]
    BY <2>1, <2>2, SubSeqProperties
  <2> HIDE DEF after
  <2>4. ASSUME NEW i \in 1..Len(s) - k PROVE after[i] = s[k + i]
    <3>1. i \in 1..Len(s) - (k + 1) + 1 /\ (k + 1) + i - 1 = k + i
      BY <1>1
    <3> QED
      BY <2>3, <3>1
  <2>5. Len(after) = Len(s) - k
    <3>1. CASE k + 1 <= Len(s)
      <4>1. Len(after) = Len(s) - (k + 1) + 1
        BY <2>3, <3>1
      <4> QED
        BY <1>1, <4>1
    <3>2. CASE ~(k + 1 <= Len(s))
      <4>1. Len(after) = 0
        BY <2>3, <3>2
      <4>2. k \in Int /\ Len(s) \in Int /\ k <= Len(s)
        BY <1>1
      <4>3. Len(s) - k = 0
        BY <3>2, <4>2
      <4> QED
        BY <4>1, <4>3
    <3> QED
      BY <3>1, <3>2
  <2> QED
    BY <2>3, <2>4, <2>5
<1>4. r = before \o after
  BY DEF RemoveAt
<1> HIDE DEF before, after, r
<1>5. /\ r \in Seq(NodeIds) /\ Len(r) = Len(s) - 1
      /\ \A i \in 1..Len(s) - 1 :
           r[i] = IF i <= k - 1 THEN before[i] ELSE after[i - (k - 1)]
  <2>1. /\ r \in Seq(NodeIds) /\ Len(r) = Len(before) + Len(after)
        /\ \A i \in 1..Len(before) + Len(after) :
             r[i] = IF i <= Len(before) THEN before[i] ELSE after[i - Len(before)]
    BY <1>2, <1>3, <1>4, ConcatProperties
  <2>2. Len(before) + Len(after) = Len(s) - 1 /\ Len(before) = k - 1
    BY <1>1, <1>2, <1>3
  <2> QED
    BY <2>1, <2>2
<1>6. \A i \in 1..Len(s) - 1 : r[i] = IF i < k THEN s[i] ELSE s[i + 1]
  <2> TAKE i \in 1..Len(s) - 1
  <2>1. CASE i < k
    BY <1>1, <1>2, <1>5, <2>1
  <2>2. CASE ~(i < k)
    <3>1. i - (k - 1) \in 1..Len(s) - k /\ k + (i - (k - 1)) = i + 1 /\ ~(i <= k - 1)
      BY <1>1, <2>2
    <3>2. r[i] = after[i - (k - 1)]
      BY <1>5, <3>1
    <3> QED
      BY <1>3, <2>2, <3>1, <3>2
  <2> QED
    BY <2>1, <2>2
<1>7. DOMAIN r = 1..Len(s) - 1
  BY <1>5, LenProperties
<1>8. IsInjective(r)
  <2> SUFFICES ASSUME NEW a \in 1..Len(s) - 1, NEW b \in 1..Len(s) - 1, r[a] = r[b]
               PROVE  a = b
    BY <1>7 DEF IsInjective
  <2> DEFINE at(i) == IF i < k THEN i ELSE i + 1
  <2>1. s[at(a)] = s[at(b)]
    BY <1>6
  <2>2. at(a) \in DOMAIN s /\ at(b) \in DOMAIN s
    BY <1>1
  <2>3. at(a) = at(b)
    BY <2>1, <2>2 DEF IsInjective
  <2> QED
    BY <1>1, <2>3
<1>9. Range(r) = Range(s) \ {s[k]}
  <2>1. ASSUME NEW x \in Range(r) PROVE x \in Range(s) \ {s[k]}
    <3>1. PICK i \in 1..Len(s) - 1 : r[i] = x
      BY <1>7 DEF Range
    <3> DEFINE j == IF i < k THEN i ELSE i + 1
    <3>2. j \in DOMAIN s /\ k \in DOMAIN s /\ j # k /\ x = s[j]
      BY <1>1, <1>6, <3>1
    <3> QED
      BY <3>2 DEF Range, IsInjective
  <2>2. ASSUME NEW x \in Range(s) \ {s[k]} PROVE x \in Range(r)
    <3>1. PICK j \in 1..Len(s) : s[j] = x
      BY <1>1 DEF Range
    <3>2. CASE j < k
      <4>1. j \in 1..Len(s) - 1 /\ r[j] = x
        BY <1>1, <1>6, <3>1, <3>2
      <4> QED
        BY <1>7, <4>1 DEF Range
    <3>3. CASE j > k
      <4>1. j - 1 \in 1..Len(s) - 1 /\ ~(j - 1 < k) /\ (j - 1) + 1 = j
        BY <1>1, <3>3
      <4>2. r[j - 1] = x
        BY <1>6, <3>1, <4>1
      <4> QED
        BY <1>7, <4>1, <4>2 DEF Range
    <3> QED
      BY <1>1, <3>1, <3>2, <3>3
  <2> QED
    BY <2>1, <2>2
<1> QED
  BY <1>5, <1>6, <1>8, <1>9 DEF r

(* The neighbours of a node are the places before and after its own.       *)
LEMMA Neighbours ==
  ASSUME TypeOK, NodesAccounted
  PROVE  /\ NextOf(HEAD) = IF nodes = <<>> THEN TAIL ELSE nodes[1]
         /\ NextOf(TAIL) = NULL
         /\ PrevOf(TAIL) = IF nodes = <<>> THEN HEAD ELSE nodes[Len(nodes)]
         /\ \A k \in 1..Len(nodes) :
              /\ nodes[k] \in NodeIds
              /\ NextOf(nodes[k]) = IF k = Len(nodes) THEN TAIL ELSE nodes[k + 1]
              /\ PrevOf(nodes[k]) = IF k = 1 THEN HEAD ELSE nodes[k - 1]
<1>1. /\ nodes \in Seq(NodeIds) /\ DOMAIN nodes = 1..Len(nodes) /\ IsInjective(nodes)
      /\ \A k \in 1..Len(nodes) : nodes[k] \in NodeIds
  BY LenProperties, ElementOfSeq DEF TypeOK, NodesAccounted
<1>2. /\ NextOf(HEAD) = IF nodes = <<>> THEN TAIL ELSE nodes[1]
      /\ NextOf(TAIL) = NULL
      /\ PrevOf(TAIL) = IF nodes = <<>> THEN HEAD ELSE nodes[Len(nodes)]
  BY DummiesApart DEF NextOf, PrevOf
<1>3. ASSUME NEW k \in 1..Len(nodes)
      PROVE  /\ NextOf(nodes[k]) = IF k = Len(nodes) THEN TAIL ELSE nodes[k + 1]
             /\ PrevOf(nodes[k]) = IF k = 1 THEN HEAD ELSE nodes[k - 1]
  <2>1. Places(nodes[k]) = {k}
    BY <1>1 DEF Places, IsInjective
  <2>2. (CHOOSE j \in Places(nodes[k]) : TRUE) = k /\ Places(nodes[k]) # {}
    BY <2>1
  <2>3. nodes[k] \in NodeIds /\ nodes[k] # HEAD /\ nodes[k] # TAIL
    BY <1>1, DummiesApart
  <2> QED
    BY <2>2, <2>3 DEF NextOf, PrevOf
<1> QED
  BY <1>1, <1>2, <1>3

(* The first two of them.                                                  *)
LEMMA FirstNodes ==
  ASSUME TypeOK, NodesAccounted, nodes # <<>>
  PROVE  /\ Len(nodes) \in Nat /\ Len(nodes) >= 1
         /\ nodes[1] \in NodeIds /\ PrevOf(nodes[1]) = HEAD
         /\ Len(nodes) = 1 => NextOf(nodes[1]) = TAIL /\ PrevOf(TAIL) = nodes[1]
         /\ Len(nodes) # 1 => /\ nodes[2] \in NodeIds /\ NextOf(nodes[1]) = nodes[2]
                              /\ PrevOf(nodes[2]) = nodes[1]
<1>1. Len(nodes) \in Nat \ {0}
  BY EmptySeq DEF TypeOK
<1>2. 1 \in 1..Len(nodes)
  BY <1>1
<1>3. /\ nodes[1] \in NodeIds
      /\ NextOf(nodes[1]) = IF 1 = Len(nodes) THEN TAIL ELSE nodes[1 + 1]
      /\ PrevOf(nodes[1]) = IF 1 = 1 THEN HEAD ELSE nodes[1 - 1]
  BY <1>2, Neighbours
<1>4. ASSUME Len(nodes) # 1
      PROVE  nodes[2] \in NodeIds /\ PrevOf(nodes[2]) = nodes[1]
  <2>1. 2 \in 1..Len(nodes) /\ 2 - 1 = 1 /\ 2 # 1
    BY <1>1, <1>4
  <2>2. /\ nodes[2] \in NodeIds
        /\ PrevOf(nodes[2]) = IF 2 = 1 THEN HEAD ELSE nodes[2 - 1]
    BY <2>1, Neighbours
  <2> QED
    BY <2>1, <2>2
<1>5. PrevOf(TAIL) = nodes[Len(nodes)]
  BY Neighbours
<1>6. 1 + 1 = 2
  OBVIOUS
<1> QED
  BY <1>1, <1>3, <1>4, <1>5, <1>6

(* A scan deletes the first node of the set, if there is one.              *)
LEMMA DeletedIs ==
  ASSUME SInv, NEW matching, DeleteFirst(matching), UNCHANGED created
  PROVE  /\ nodes' \in Seq(NodeIds) /\ freed' \subseteq NodeIds /\ length' \in Int
         /\ length' = Len(nodes')
         /\ Range(nodes') = 1..created \ freed'
         /\ IsInjective(nodes')
         /\ freed' \subseteq 1..created
<1>1. /\ nodes \in Seq(NodeIds) /\ IsInjective(nodes) /\ length = Len(nodes) /\ length \in Int
      /\ Range(nodes) = 1..created \ freed /\ freed \subseteq NodeIds /\ freed \subseteq 1..created
      /\ DOMAIN nodes = 1..Len(nodes)
  BY LenProperties DEF SInv, TypeOK, NodesAccounted, FreedWereCreated
<1>2. CASE UNCHANGED <<nodes, freed, length>>
  BY <1>1, <1>2
<1>3. ASSUME NEW k \in 1..Len(nodes), Delete(k)
      PROVE  /\ nodes' \in Seq(NodeIds) /\ freed' \subseteq NodeIds /\ length' \in Int
             /\ length' = Len(nodes')
             /\ Range(nodes') = 1..created \ freed'
             /\ IsInjective(nodes')
             /\ freed' \subseteq 1..created
  <2>1. /\ nodes' \in Seq(NodeIds) /\ Len(nodes') = Len(nodes) - 1
        /\ IsInjective(nodes') /\ Range(nodes') = Range(nodes) \ {nodes[k]}
    BY <1>1, <1>3, RemoveIs DEF Delete
  <2>2. nodes[k] \in 1..created /\ nodes[k] \in NodeIds
    BY <1>1, ElementOfSeq DEF Range
  <2>3. freed' = freed \cup {nodes[k]} /\ length' = length - 1
    BY <1>3 DEF Delete
  <2>4. length' \in Int /\ length' = Len(nodes')
    BY <1>1, <2>1, <2>3
  <2>5. freed' \subseteq NodeIds /\ freed' \subseteq 1..created
    BY <1>1, <2>2, <2>3
  <2>6. Range(nodes') = 1..created \ freed'
    BY <1>1, <2>1, <2>3
  <2> QED
    BY <2>1, <2>4, <2>5, <2>6
<1> QED
  BY <1>2, <1>3 DEF DeleteFirst

-----------------------------------------------------------------------------
(* SInv is inductive.                                                      *)

LEMMA InitSInv == Init => SInv
<1> SUFFICES ASSUME Init PROVE SInv
  OBVIOUS
<1>1. TypeOK
  BY MaxNodesAssumption DEF Init, TypeOK
<1>2. NodesAccounted /\ FreedWereCreated
  BY DEF Init, NodesAccounted, FreedWereCreated, Range, IsInjective
<1>3. SweepAt /\ FinalEmpties
  BY DEF Init, SweepAt, FinalEmpties
<1> QED
  BY <1>1, <1>2, <1>3 DEF SInv

LEMMA AddKeeps ==
  ASSUME SInv, NEW fd \in Fds, AddNode(fd)
  PROVE  SInv'
<1> DEFINE n == created + 1
<1>1. /\ n \in NodeIds /\ created \in Nat /\ nodes \in Seq(NodeIds)
      /\ DOMAIN nodes = 1..Len(nodes) /\ Len(nodes) \in Nat /\ n \notin 1..created
      /\ n \notin freed /\ n \notin Range(nodes) /\ created' = n
  BY MaxNodesAssumption, LenProperties
     DEF SInv, TypeOK, NodesAccounted, FreedWereCreated, AddNode, NodeIds
<1>2. /\ nodes' \in Seq(NodeIds) /\ Len(nodes') = Len(nodes) + 1
      /\ DOMAIN nodes' = 1..Len(nodes) + 1
      /\ \A i \in 1..Len(nodes) : nodes'[i] = nodes[i]
      /\ nodes'[Len(nodes) + 1] = n
  BY <1>1, AppendProperties, LenProperties DEF AddNode
<1> HIDE DEF n
<1>3. IsInjective(nodes')
  <2> SUFFICES ASSUME NEW a \in 1..Len(nodes) + 1, NEW b \in 1..Len(nodes) + 1,
                      nodes'[a] = nodes'[b]
               PROVE  a = b
    BY <1>2 DEF IsInjective
  <2>1. \A i \in 1..Len(nodes) : nodes'[i] # n
    BY <1>1, <1>2 DEF Range
  <2>2. CASE a \in 1..Len(nodes) /\ b \in 1..Len(nodes)
    BY <1>1, <1>2, <2>2 DEF SInv, NodesAccounted, IsInjective
  <2> QED
    BY <1>1, <1>2, <2>1, <2>2
<1>4. Range(nodes') = Range(nodes) \cup {n}
  <2>1. ASSUME NEW x \in Range(nodes') PROVE x \in Range(nodes) \cup {n}
    <3>1. PICK i \in 1..Len(nodes) + 1 : x = nodes'[i]
      BY <1>2 DEF Range
    <3> QED
      BY <1>1, <1>2, <3>1 DEF Range
  <2>2. ASSUME NEW x \in Range(nodes) PROVE x \in Range(nodes')
    <3>1. PICK i \in 1..Len(nodes) : x = nodes[i]
      BY <1>1 DEF Range
    <3>2. i \in DOMAIN nodes' /\ x = nodes'[i]
      BY <1>1, <1>2, <3>1
    <3> QED
      BY <3>2 DEF Range
  <2>3. n \in Range(nodes')
    <3>1. Len(nodes) + 1 \in DOMAIN nodes'
      BY <1>1, <1>2
    <3> QED
      BY <1>2, <3>1 DEF Range
  <2> QED
    BY <2>1, <2>2, <2>3
<1>5. 1..created' = 1..created \cup {n}
  BY <1>1 DEF n
<1>6. /\ freed' = freed /\ length' = length + 1 /\ pc' = "open"
      /\ fdOf' \in [NodeIds -> {NULL} \cup Fds] /\ index' = index
  BY <1>1 DEF AddNode, SInv, TypeOK, n
<1>7. NodesAccounted' /\ FreedWereCreated'
  BY <1>1, <1>2, <1>3, <1>4, <1>5, <1>6 DEF SInv, NodesAccounted, FreedWereCreated
<1>8. TypeOK'
  BY <1>1, <1>2, <1>6, MaxNodesAssumption DEF SInv, TypeOK, NodeIds
<1>9. SweepAt' /\ FinalEmpties'
  BY <1>6 DEF SweepAt, FinalEmpties
<1> QED
  BY <1>7, <1>8, <1>9 DEF SInv

LEMMA DelByDataKeeps ==
  ASSUME SInv, NEW fd \in Fds, DelNodeByData(fd)
  PROVE  SInv'
<1>1. pc = "open" /\ UNCHANGED <<fdOf, created, index, pc>>
  BY DEF DelNodeByData
<1>2. /\ nodes' \in Seq(NodeIds) /\ freed' \subseteq NodeIds /\ length' \in Int
      /\ length' = Len(nodes') /\ Range(nodes') = 1..created \ freed'
      /\ IsInjective(nodes') /\ freed' \subseteq 1..created
  BY <1>1, DeletedIs DEF DelNodeByData
<1> QED
  BY <1>1, <1>2 DEF SInv, TypeOK, NodesAccounted, FreedWereCreated, SweepAt, FinalEmpties

(* dlist_ptr_final starts its loop on a list that is not empty.            *)
LEMMA FinalKeeps ==
  ASSUME SInv, Final
  PROVE  SInv'
<1>1. /\ index' = HEAD /\ UNCHANGED <<nodes, fdOf, created, freed, length>>
      /\ pc' = IF length > 0 /\ NextOf(HEAD) # TAIL /\ NextOf(HEAD) # NULL
               THEN "final" ELSE "done"
  BY DEF Final
<1>2. /\ nodes \in Seq(NodeIds) /\ length = Len(nodes)
      /\ Range(nodes) = 1..created \ freed /\ freed \subseteq 1..created
      /\ NextOf(HEAD) = IF nodes = <<>> THEN TAIL ELSE nodes[1]
  BY Neighbours DEF SInv, TypeOK, NodesAccounted, FreedWereCreated
<1>3. nodes # <<>> => length > 0 /\ nodes[1] \in NodeIds
  BY <1>2, EmptySeq, ElementOfSeq
<1>4. SweepAt'
  BY <1>1, <1>2, <1>3, DummiesApart DEF SweepAt
<1>5. FinalEmpties'
  <2>1. pc' = "done" => nodes = <<>>
    BY <1>1, <1>2, <1>3, DummiesApart
  <2>2. nodes = <<>> => Range(nodes) = {}
    BY DEF Range
  <2> QED
    BY <1>1, <1>2, <2>1, <2>2 DEF FinalEmpties
<1>6. TypeOK' /\ NodesAccounted' /\ FreedWereCreated'
  BY <1>1 DEF SInv, TypeOK, NodesAccounted, FreedWereCreated
<1> QED
  BY <1>4, <1>5, <1>6 DEF SInv

(* One turn deletes the second node or, once it stands on it, the first.   *)
LEMMA FinalTurnKeeps ==
  ASSUME SInv, FinalTurn
  PROVE  SInv'
<1> DEFINE target == NextOf(index)
           matching == {n \in ToSet(nodes) : PrevOf(n) # PrevOf(target)}
<1>1. /\ pc = "final" /\ target # NULL /\ index' = target
      /\ DeleteFirst(matching) /\ UNCHANGED <<fdOf, created, pc>>
  BY DEF FinalTurn, DelNodeByNode
<1>2. /\ nodes \in Seq(NodeIds) /\ Len(nodes) \in Nat /\ DOMAIN nodes = 1..Len(nodes)
      /\ IsInjective(nodes) /\ TypeOK /\ NodesAccounted
  BY LenProperties DEF SInv, TypeOK, NodesAccounted
<1>3. nodes # <<>> /\ index \in {HEAD, nodes[1]}
  BY <1>1, <1>2, Neighbours DEF SInv, SweepAt
<1>4. Len(nodes) >= 1 /\ nodes[1] \in NodeIds /\ nodes[1] \in ToSet(nodes)
  BY <1>2, <1>3, EmptySeq, ElementOfSeq DEF ToSet
<1>5. PrevOf(nodes[1]) = HEAD
  BY <1>2, <1>3, FirstNodes
<1> HIDE DEF target, matching
<1>6. /\ target \in NodeIds \cup {HEAD, TAIL}
      /\ \/ nodes' # <<>> /\ target = nodes'[1]
         \/ nodes' = <<>> /\ target = TAIL
  <2>1. CASE index = HEAD
    <3>1. target = nodes[1]
      BY <1>2, <1>3, <2>1, Neighbours DEF target
    <3>2. nodes[1] \notin matching
      BY <1>5, <3>1 DEF matching
    <3>3. CASE UNCHANGED nodes
      BY <1>3, <1>4, <3>1, <3>3
    <3>4. ASSUME NEW k \in 1..Len(nodes), nodes[k] \in matching, Delete(k)
          PROVE  nodes' # <<>> /\ nodes'[1] = nodes[1]
      <4>1. k # 1
        BY <3>2, <3>4
      <4>2. /\ Len(nodes') = Len(nodes) - 1
            /\ \A i \in 1..Len(nodes) - 1 :
                 nodes'[i] = IF i < k THEN nodes[i] ELSE nodes[i + 1]
        BY <1>2, <3>4, RemoveIs DEF Delete
      <4>3. 1 \in 1..Len(nodes) - 1 /\ 1 < k
        BY <1>2, <4>1
      <4> QED
        BY <4>2, <4>3, EmptySeq
    <3> QED
      BY <1>1, <1>4, <3>1, <3>3, <3>4 DEF DeleteFirst
  <2>2. CASE index = nodes[1]
    <3>1. target = IF Len(nodes) = 1 THEN TAIL ELSE nodes[2]
      BY <1>2, <1>3, <2>2, FirstNodes DEF target
    <3>2. PrevOf(target) = nodes[1]
      BY <1>2, <1>3, <3>1, FirstNodes
    <3>3. nodes[1] \in matching
      BY <1>4, <1>5, <3>2, DummiesApart DEF matching
    <3>4. PICK k \in 1..Len(nodes) : /\ nodes[k] \in matching
                                     /\ \A j \in 1..k - 1 : nodes[j] \notin matching
                                     /\ Delete(k)
      BY <1>1, <1>4, <3>3 DEF DeleteFirst
    <3>5. k = 1
      BY <1>2, <3>3, <3>4
    <3>6. /\ nodes' \in Seq(NodeIds) /\ Len(nodes') = Len(nodes) - 1
          /\ \A i \in 1..Len(nodes) - 1 : nodes'[i] = nodes[i + 1]
      <4>1. \A i \in 1..Len(nodes) - 1 : ~(i < 1)
        BY <1>2
      <4> QED
        BY <1>2, <3>4, <3>5, <4>1, RemoveIs DEF Delete
    <3>7. CASE Len(nodes) = 1
      BY <3>1, <3>6, <3>7, EmptySeq
    <3>8. CASE Len(nodes) # 1
      <4>1. 1 \in 1..Len(nodes) - 1 /\ 2 \in 1..Len(nodes) /\ 1 + 1 = 2
        BY <1>2, <1>4, <3>8
      <4>2. nodes'[1] = nodes[2] /\ nodes' # <<>> /\ nodes[2] \in NodeIds
        BY <1>2, <3>6, <4>1, EmptySeq, ElementOfSeq
      <4> QED
        BY <3>1, <3>8, <4>2
    <3> QED
      BY <3>7, <3>8
  <2> QED
    BY <1>3, <2>1, <2>2
<1>7. /\ nodes' \in Seq(NodeIds) /\ freed' \subseteq NodeIds /\ length' \in Int
      /\ length' = Len(nodes') /\ Range(nodes') = 1..created \ freed'
      /\ IsInjective(nodes') /\ freed' \subseteq 1..created
  BY <1>1, DeletedIs
<1>8. TypeOK'
  BY <1>1, <1>6, <1>7 DEF SInv, TypeOK
<1>9. NodesAccounted' /\ FreedWereCreated'
  BY <1>1, <1>7 DEF NodesAccounted, FreedWereCreated
<1>10. SweepAt' /\ FinalEmpties'
  BY <1>1, <1>6 DEF SweepAt, FinalEmpties
<1> QED
  BY <1>8, <1>9, <1>10 DEF SInv

(* The loop ends at TAIL.                                                  *)
LEMMA FinalEndKeeps ==
  ASSUME SInv, FinalEnd
  PROVE  SInv'
<1>1. /\ pc = "final" /\ NextOf(index) = NULL /\ pc' = "done"
      /\ UNCHANGED <<nodes, fdOf, created, freed, length, index>>
  BY DEF FinalEnd
<1>2. nodes = <<>>
  <2> SUFFICES ASSUME nodes # <<>> PROVE FALSE
    OBVIOUS
  <2>1. index \in {HEAD, nodes[1]} /\ nodes \in Seq(NodeIds)
    BY <1>1 DEF SInv, SweepAt, TypeOK
  <2>2. Len(nodes) \in Nat \ {0}
    BY <2>1, EmptySeq
  <2>3. \A k \in 1..Len(nodes) : nodes[k] # NULL
    BY <2>1, ElementOfSeq, DummiesApart
  <2>4. CASE index = HEAD
    BY <1>1, <2>2, <2>3, <2>4, Neighbours DEF SInv
  <2>5. CASE index = nodes[1]
    <3>1. NextOf(nodes[1]) \in NodeIds \cup {TAIL}
      BY FirstNodes DEF SInv
    <3> QED
      BY <1>1, <2>5, <3>1, DummiesApart
  <2> QED
    BY <2>1, <2>4, <2>5
<1>3. freed = 1..created
  <2>1. Range(nodes) = {}
    BY <1>2 DEF Range
  <2> QED
    BY <2>1 DEF SInv, NodesAccounted, FreedWereCreated
<1>4. TypeOK' /\ NodesAccounted' /\ FreedWereCreated'
  BY <1>1 DEF SInv, TypeOK, NodesAccounted, FreedWereCreated
<1>5. SweepAt' /\ FinalEmpties'
  BY <1>1, <1>2, <1>3 DEF SweepAt, FinalEmpties
<1> QED
  BY <1>4, <1>5 DEF SInv

LEMMA NextSInv ==
  ASSUME SInv, [Next]_vars
  PROVE  SInv'
<1>1. CASE \E fd \in Fds : AddNode(fd) \/ DelNodeByData(fd)
  BY <1>1, AddKeeps, DelByDataKeeps
<1>2. CASE Final \/ FinalTurn \/ FinalEnd
  BY <1>2, FinalKeeps, FinalTurnKeeps, FinalEndKeeps
<1>3. CASE Over \/ UNCHANGED vars
  BY <1>3 DEF Over, vars, SInv, TypeOK, NodesAccounted, FreedWereCreated, SweepAt, FinalEmpties
<1> QED
  BY <1>1, <1>2, <1>3 DEF Next

(* The list, its length and the place of dlist_ptr_final are as SInv says, *)
(* in every reachable state.                                               *)
THEOREM ListInvariant == Spec => []SInv
<1>1. SInv /\ [Next]_vars => SInv'
  BY NextSInv
<1> QED
  BY <1>1, InitSInv, PTL DEF Spec

(* The list is a sequence of nodes that were created, and the calls of     *)
(* dlist_ptr_add_node, dlist_ptr_del_node_by_data and dlist_ptr_final keep *)
(* every variable in its range, for any number of nodes and descriptors.   *)
THEOREM TypesHold == Spec => []TypeOK
<1>1. SInv => TypeOK
  BY DEF SInv
<1> QED
  BY <1>1, ListInvariant, PTL

(* length is the number of nodes and no freed node is in the list.         *)
THEOREM NodesExact == Spec => []NodesAccounted
<1>1. SInv => NodesAccounted
  BY DEF SInv
<1> QED
  BY <1>1, ListInvariant, PTL

(* The loop of dlist_ptr_final never steps from a node it has freed.       *)
THEOREM SweepOnList == Spec => []FinalStepsOnList
<1>1. SInv => FinalStepsOnList
  <2> SUFFICES ASSUME SInv, pc = "final", nodes # <<>>, index = nodes[1]
               PROVE  index \in Range(nodes)
    BY DEF SInv, SweepAt, FinalStepsOnList
  <2>1. nodes \in Seq(NodeIds)
    BY DEF SInv, TypeOK
  <2>2. 1 \in DOMAIN nodes
    BY <2>1, EmptySeq, LenProperties
  <2> QED
    BY <2>2 DEF Range
<1> QED
  BY <1>1, ListInvariant, PTL

(* When dlist_ptr_final is done, every node was freed.                     *)
THEOREM SweepEmpties == Spec => []FinalEmpties
<1>1. SInv => FinalEmpties
  BY DEF SInv
<1> QED
  BY <1>1, ListInvariant, PTL
=============================================================================
