----------------------------- MODULE MCDlistInt -----------------------------
(* The main thread and two workers on fd_list.                             *)
EXTENDS DlistInt
=============================================================================
