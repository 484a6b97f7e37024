------------------------------ MODULE MCProxy ------------------------------
(* Two workers, as THREAD_NUM of proxy_l.h, interchangeable, and two       *)
(* descriptors for sources (three, when dst_fd is closed).  MCProxy.cfg    *)
(* has three connections, with which a number is used again while a worker *)
(* still serves it, two works carry the same number and a work waits       *)
(* behind two busy workers; and two requests, of one source or of both.    *)
EXTENDS Proxy, TLC

Symmetry == Permutations(Workers)

(* The third connection comes in the behaviours without requests only.     *)
(* Both counts only move one way, so these are all the behaviours with     *)
(* three connections and no request, and all those with two connections.   *)
ThreeOrTraffic == made <= 2 \/ unsent = Requests
=============================================================================
