----------------------------- MODULE MCDlistPtr -----------------------------
(* Up to six nodes over two fds: an fd may be in the list more than once.  *)
EXTENDS DlistPtr
=============================================================================
