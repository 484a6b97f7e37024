------------------------------- MODULE FdList -------------------------------
(***************************************************************************)
(* What a registry of dlist_int.c promises to proxy.c: a sequence of file  *)
(* descriptors to which proxy_wait appends and from which                  *)
(* proxy_delete_src_info removes the descriptor it names, first occurrence *)
(* first, and no other.                                                    *)
(***************************************************************************)
EXTENDS Naturals, Sequences, SequencesExt

CONSTANT Fds      \* the descriptors that may be registered

VARIABLES fds,    \* the registered descriptors, oldest first
          ending  \* descriptors whose removal was asked for and is not done

Init == fds = <<>> /\ ending = {}

Register(fd) == fds' = Append(fds, fd) /\ UNCHANGED ending

AskRemoval(fd) ==
  /\ fd \notin ending
  /\ ending' = ending \cup {fd}
  /\ UNCHANGED fds

Unregister(fd) ==
  /\ fd \in ending
  /\ Contains(fds, fd)
  /\ fds' = RemoveFirst(fds, fd)
  /\ ending' = ending \ {fd}

Next == \E fd \in Fds : Register(fd) \/ AskRemoval(fd) \/ Unregister(fd)

Spec == Init /\ [][Next]_<<fds, ending>>
=============================================================================
