------------------------------- MODULE Client -------------------------------
(***************************************************************************)
(* The client (src/src/client/client.c): connect, then a line, one write   *)
(* of the message, one read of the answer, again and again.  It installs   *)
(* no signal handler and starts no thread (client_set_signal and           *)
(* client_handle_finish have no caller), so SIGINT ends it at once.        *)
(***************************************************************************)
EXTENDS EchoNet

CONSTANTS
  BUF_MAX_LEN,  \* most bytes one read returns
  BodyLens,     \* lengths of the lines typed; 0 is an empty line or the end of input
  MaxRequests   \* bound on the requests of all clients together

ASSUME ClientAssumption ==
  BUF_MAX_LEN \in Nat \ {0} /\ BodyLens \subseteq Nat /\ MaxRequests \in Nat

VARIABLES
  cpc,       \* cpc[c]: where client c is
  requests   \* messages the clients have tried to write

clientvars == <<cpc, requests>>

(* "ended" has left client_process_data and waits for ctrl-c, its socket   *)
(* open; "gone" is a process that does not exist any more.                 *)
ClientStates == {"start", "prompt", "read", "ended", "gone"}

ClientInit ==
  /\ cpc = [c \in Clients |-> "start"]
  /\ requests = 0

(* client_init.  Clients are numbered as they connect; without a listening *)
(* socket connect fails and main returns.                                  *)
Connect(c, listening) ==
  /\ cpc[c] = "start"
  /\ \A d \in Clients : d < c => cpc[d] # "start"
  /\ cpc' = [cpc EXCEPT ![c] = IF listening THEN "prompt" ELSE "gone"]
  /\ conn' = [conn EXCEPT ![c] = IF listening THEN "waiting" ELSE "none"]
  /\ UNCHANGED <<up, taken, down, got, peer, requests>>

(* Lines 147-168: the line, the message, one blocking write.  Towards a    *)
(* server that has closed, the write is accepted in vain, fails, or raises *)
(* SIGPIPE.                                                                *)
Request(c, bodylen) ==
  /\ cpc[c] = "prompt"
  /\ requests < MaxRequests
  /\ requests' = requests + 1
  /\ \/ /\ conn[c] \in {"waiting", "open"}
        /\ up' = [up EXCEPT ![c] = @ \o Message(c, bodylen, Len(@))]
        /\ cpc' = [cpc EXCEPT ![c] = "read"]
     \/ /\ conn[c] \in {"closed", "reset"}
        /\ \E next \in {"read", "ended", "gone"} : cpc' = [cpc EXCEPT ![c] = next]
        /\ UNCHANGED up
  /\ UNCHANGED <<taken, down, got, conn, peer>>

(* Lines 177-187: one read, which returns what there is.                   *)
ReadAnswer(c) ==
  /\ cpc[c] = "read"
  /\ \/ /\ \E n \in 1..Lesser(UnreadDown(c), BUF_MAX_LEN) : got' = [got EXCEPT ![c] = @ + n]
        /\ cpc' = [cpc EXCEPT ![c] = "prompt"]
     \/ /\ conn[c] = "reset" \/ (conn[c] = "closed" /\ UnreadDown(c) = 0)
        /\ cpc' = [cpc EXCEPT ![c] = "ended"]
        /\ UNCHANGED got
  /\ UNCHANGED <<up, taken, down, conn, peer, requests>>

(* SIGINT, also in the loop at the end of main: the kernel closes the      *)
(* socket, with RST when there is input left.                              *)
ClientKilled(c) ==
  /\ cpc[c] \in {"prompt", "read", "ended"}
  /\ cpc' = [cpc EXCEPT ![c] = "gone"]
  /\ peer' = [peer EXCEPT ![c] = IF @ = "up"
                                 THEN IF UnreadDown(c) > 0 THEN "rst" ELSE "fin"
                                 ELSE @]
  /\ UNCHANGED <<up, taken, down, got, conn, requests>>

(* The kernel answers what the server writes to a socket that was closed.  *)
ResetArrives(c) ==
  /\ peer[c] = "fin" /\ UnreadDown(c) > 0
  /\ peer' = [peer EXCEPT ![c] = "rst"]
  /\ UNCHANGED <<up, taken, down, got, conn, clientvars>>
=============================================================================
