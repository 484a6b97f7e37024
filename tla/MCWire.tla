------------------------------- MODULE MCWire -------------------------------
(* One message of two body bytes from each of the two sources.             *)
EXTENDS Wire
=============================================================================
