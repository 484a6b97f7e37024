------------------------------ MODULE DlistPtr ------------------------------
(***************************************************************************)
(* The doubly linked list of src/src/proxy/dlist_ptr.c as proxy.c uses it  *)
(* for work_list: nodes are appended with a copy of a jpool_work_data_t,   *)
(* removed by the source fd of that copy, and all removed by               *)
(* dlist_ptr_final when the proxy ends.                                    *)
(*                                                                         *)
(* The list is the sequence of its nodes between the dummies; the links of *)
(* a node are its neighbours, and a freed node has none.  Operations are   *)
(* serial here (DlistInt shows what happens to such a list when they       *)
(* overlap), but dlist_ptr_final is modelled one turn of its loop at a     *)
(* time: it walks over a list it is deleting from, with                    *)
(* dlist_ptr_del_node_by_node, whose memcmp test is inverted: it deletes   *)
(* the first node whose prev differs from the target's, never the target.  *)
(***************************************************************************)
EXTENDS Naturals, Integers, Sequences, SequencesExt, FiniteSets

CONSTANTS Fds,      \* source fds of the work data
          MaxNodes  \* bound on the nodes ever created

ASSUME MaxNodesAssumption == MaxNodes \in Nat

VARIABLES nodes,   \* the nodes from head to tail
          fdOf,    \* fdOf[n]: src_fd in the data of node n
          created, \* nodes created so far
          freed,   \* nodes given to node_ptr_destroy
          length,  \* the field `length' of the list
          index,   \* index_node of dlist_ptr_final
          pc       \* "open", "final" while dlist_ptr_final runs, "done"

vars == <<nodes, fdOf, created, freed, length, index, pc>>

NULL == 0
HEAD == MaxNodes + 1
TAIL == MaxNodes + 2
NodeIds == 1..MaxNodes

Init ==
  /\ nodes = <<>>
  /\ fdOf = [n \in NodeIds |-> NULL]
  /\ created = 0
  /\ freed = {}
  /\ length = 0
  /\ index = HEAD
  /\ pc = "open"

-----------------------------------------------------------------------------
(* The fields next and prev: node_ptr_destroy leaves NULL in both.         *)
Places(n) == {k \in 1..Len(nodes) : nodes[k] = n}

NextOf(n) ==
  CASE n = TAIL                        -> NULL
    [] n = HEAD                        -> IF nodes = <<>> THEN TAIL ELSE nodes[1]
    [] n \in NodeIds /\ Places(n) = {} -> NULL
    [] OTHER -> LET k == CHOOSE k \in Places(n) : TRUE
                IN IF k = Len(nodes) THEN TAIL ELSE nodes[k + 1]

PrevOf(n) ==
  CASE n = HEAD                        -> NULL
    [] n = TAIL                        -> IF nodes = <<>> THEN HEAD ELSE nodes[Len(nodes)]
    [] n \in NodeIds /\ Places(n) = {} -> NULL
    [] OTHER -> LET k == CHOOSE k \in Places(n) : TRUE
                IN IF k = 1 THEN HEAD ELSE nodes[k - 1]

(* Operators named X_y are X with a slip y; no specification uses them:    *)
(* put in the place of X, each breaks one of the properties below.         *)

Delete_uncounted(k) ==
  nodes' = RemoveAt(nodes, k) /\ freed' = freed \cup {nodes[k]} /\ UNCHANGED length

(* The node at place k is unlinked and freed.                              *)
Delete(k) ==
  /\ nodes' = RemoveAt(nodes, k)
  /\ freed' = freed \cup {nodes[k]}
  /\ length' = length - 1

(* A scan from the head that deletes the first node of a set.              *)
DeleteFirst(matching) ==
  \/ \E k \in 1..Len(nodes) :
       /\ nodes[k] \in matching
       /\ \A j \in 1..k - 1 : nodes[j] \notin matching
       /\ Delete(k)
  \/ /\ ToSet(nodes) \cap matching = {}                    \* OBJECT_ERR
     /\ UNCHANGED <<nodes, freed, length>>

(* dlist_ptr_add_node                                                      *)
AddNode(fd) ==
  /\ pc = "open"
  /\ created < MaxNodes
  /\ created' = created + 1
  /\ nodes' = Append(nodes, created + 1)
  /\ fdOf' = [fdOf EXCEPT ![created + 1] = fd]
  /\ length' = length + 1
  /\ UNCHANGED <<freed, index, pc>>

(* proxy_delete_src_info: dlist_ptr_find_node_data_by_data for the fd,     *)
(* then dlist_ptr_del_node_by_data for the data found.                     *)
DelNodeByData(fd) ==
  /\ pc = "open"
  /\ DeleteFirst({n \in NodeIds : fdOf[n] = fd})
  /\ UNCHANGED <<fdOf, created, index, pc>>

(* dlist_ptr_final, lines 77-80.                                           *)
Final ==
  /\ pc = "open"
  /\ pc' = IF length > 0 /\ NextOf(HEAD) # TAIL /\ NextOf(HEAD) # NULL
           THEN "final" ELSE "done"
  /\ index' = HEAD
  /\ UNCHANGED <<nodes, fdOf, created, freed, length>>

(* The comparison the right way round: the target itself is deleted.       *)
DelNodeByNode_target(target) ==
  DeleteFirst({n \in ToSet(nodes) : PrevOf(n) = PrevOf(target)})
DelNodeByNode_never(target) == UNCHANGED <<nodes, freed, length>>

(* dlist_ptr_del_node_by_node: sizeof( target) bytes are compared, which   *)
(* is the field prev alone, and a difference counts as a match.            *)
DelNodeByNode(target) ==
  DeleteFirst({n \in ToSet(nodes) : PrevOf(n) # PrevOf(target)})

FinalTurn_unguarded ==
  /\ pc = "final"
  /\ index' = NextOf(index)
  /\ DelNodeByNode(NextOf(index))
  /\ UNCHANGED <<fdOf, created, pc>>
FinalTurn_still ==
  /\ pc = "final"
  /\ NextOf(index) # NULL
  /\ DelNodeByNode(NextOf(index))
  /\ UNCHANGED <<fdOf, created, pc, index>>

(* One turn of the loop of lines 81-84.                                    *)
FinalTurn ==
  /\ pc = "final"
  /\ NextOf(index) # NULL
  /\ index' = NextOf(index)
  /\ DelNodeByNode(NextOf(index))
  /\ UNCHANGED <<fdOf, created, pc>>

FinalEnd ==
  /\ pc = "final"
  /\ NextOf(index) = NULL
  /\ pc' = "done"
  /\ UNCHANGED <<nodes, fdOf, created, freed, length, index>>

Over == pc = "done" /\ UNCHANGED vars

Next ==
  \/ \E fd \in Fds : AddNode(fd) \/ DelNodeByData(fd)
  \/ Final \/ FinalTurn \/ FinalEnd
  \/ Over

Spec == Init /\ [][Next]_vars
FairSpec == Spec /\ WF_vars(FinalTurn \/ FinalEnd)

-----------------------------------------------------------------------------
(* The type of every variable.                                             *)
TypeOK ==
  /\ nodes \in Seq(NodeIds)
  /\ fdOf \in [NodeIds -> {NULL} \cup Fds]
  /\ created \in 0..MaxNodes
  /\ freed \subseteq NodeIds
  /\ length \in Int
  /\ index \in NodeIds \cup {HEAD, TAIL}
  /\ pc \in {"open", "final", "done"}

(* length is the number of nodes (dlist_ptr_l.h, the field's comment), and *)
(* a node is in the list until it is freed, never after.                   *)
NodesAccounted ==
  /\ length = Len(nodes)
  /\ Range(nodes) = 1..created \ freed
  /\ IsInjective(nodes)

(* dlist_ptr_final never steps from a node it has freed, although its      *)
(* deletions are not the ones it asks for: it stays on the first node.     *)
FinalStepsOnList ==
  pc = "final" => index \in {HEAD, TAIL} \cup Range(nodes)

(* dlist_ptr_final leaves no node behind.                                  *)
FinalEmpties == pc = "done" => nodes = <<>> /\ freed = 1..created

(* dlist_ptr_final ends.                                                   *)
FinalEnds == pc = "final" ~> pc = "done"
=============================================================================
