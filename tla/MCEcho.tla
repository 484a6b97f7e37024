------------------------------- MODULE MCEcho -------------------------------
(* Two clients, headers of 4 bytes, an empty line among the lines typed.   *)
EXTENDS Echo
=============================================================================
