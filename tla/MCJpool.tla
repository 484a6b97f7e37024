------------------------------ MODULE MCJpool ------------------------------
(* A pool of three threads given at most four works.                       *)
EXTENDS Jpool
=============================================================================
