------------------------------ MODULE MCRelay ------------------------------
(* Two messages, header of 4 bytes; a message may be a bare header.        *)
EXTENDS Relay
=============================================================================
