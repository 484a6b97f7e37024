-------------------------------- MODULE Echo --------------------------------
(***************************************************************************)
(* The echo server and its clients together: the composition of Server and *)
(* Client over the connections of EchoNet.                                 *)
(***************************************************************************)
EXTENDS Server, Client

vars == <<netvars, servervars, clientvars>>

Init == NetInit /\ ServerInit /\ ClientInit

ClientStep(c) ==
  \/ ~Over /\ Connect(c, listen = "open")
  \/ \E bodylen \in BodyLens : Request(c, bodylen)
  \/ ClientKilled(c)

Network(c) == ReadAnswer(c) \/ ResetArrives(c)

(* The server's process is gone and every client has ended or never began. *)
Finished ==
  /\ Over
  /\ \A c \in Clients : cpc[c] \in {"start", "prompt", "ended", "gone"}
  /\ UNCHANGED vars

Next ==
  \/ (Interrupt \/ InterruptAgain \/ Detect \/ Main) /\ UNCHANGED clientvars
  \/ \E c \in Clients : (ClientStep(c) \/ Network(c)) /\ UNCHANGED servervars
  \/ Finished

Spec == Init /\ [][Next]_vars

(* Both threads of the server run, a client that waits for an answer takes *)
(* what has come, and resets arrive.  Nothing is assumed of who connects,  *)
(* types, leaves or presses ctrl-c.                                        *)
Fairness ==
  /\ WF_vars(Main /\ UNCHANGED clientvars)
  /\ WF_vars(Detect /\ UNCHANGED clientvars)
  /\ \A c \in Clients : WF_vars(Network(c) /\ UNCHANGED servervars)
FairSpec == Spec /\ Fairness

-----------------------------------------------------------------------------
(* The type of every variable.                                             *)
TypeOK ==
  /\ up \in [Clients -> Seq(Nat)] /\ down \in [Clients -> Seq(Nat)]
  /\ \A c \in Clients : taken[c] \in 0..Len(up[c]) /\ got[c] \in 0..Len(down[c])
  /\ conn \in [Clients -> ConnStates] /\ peer \in [Clients -> PeerStates]
  /\ cpc \in [Clients -> ClientStates] /\ requests \in 0..MaxRequests
  /\ spc \in ServerStates
  /\ cur \in Clients \union {0}
  /\ spc \in {"loop", "wait", "recv_header", "recv_body", "recv_again", "recv_rest",
              "send_header", "send_body", "send_again"} => cur # 0
  /\ transc \in [is_recv_header : BOOLEAN, is_recv_body : BOOLEAN,
                 is_send_header : BOOLEAN, is_send_body : BOOLEAN,
                 length : Int, recv_bytes : Nat, send_bytes : Nat,
                 read_hdr_buf : [1..MSG_HEADER_LEN -> Nat], read_body_buf : Seq(Nat)]
  /\ fdfree \in 0..FdRoom
  /\ listen \in {"none", "open", "closed"}
  /\ is_finish \in BOOLEAN /\ is_error \in BOOLEAN /\ resumed \in BOOLEAN
  /\ dpc \in {"watch", "mark", "left"}
  /\ destroys \in Nat
  /\ stale \subseteq Clients

(* Everything a client reads is its own bytes, in order and unchanged,     *)
(* over any number of messages, splits and connections, unless its         *)
(* connection found the leftovers of another or a write had been partial   *)
(* (server_recv_data and server_send_data, one transc for all of them).    *)
EchoFaithful ==
  ~resumed => \A c \in Clients \ stale : IsPrefix(down[c], up[c])

(* transc counts what the server holds: the bytes read from the client and *)
(* not yet written back, from the first byte of a header to the reset, so  *)
(* that recv_bytes = 0 is the end of the message and of nothing else.      *)
BytesHeld ==
  cur # 0 /\ cur \notin stale /\ ~resumed /\ conn[cur] = "open" /\ ~Over =>
    transc.recv_bytes - (IF transc.is_send_header THEN 0 ELSE transc.send_bytes)
      = taken[cur] - Len(down[cur])

(* The transc_t of line 354 is in use at the start of a connection only    *)
(* when an earlier client went without the whole of its answer: a          *)
(* connection that ended between messages leaves nothing behind.           *)
StaleOnlyAfterBreak ==
  ~resumed => \A c \in stale : \E d \in Clients : d < c /\ Len(down[d]) < Len(up[d])

(* The server_t is freed at most once, by one of the two threads, whenever *)
(* SIGINT comes and whatever main is doing (server_detect_finish, the two  *)
(* ends of main) - except where it never came to listen: a server_init     *)
(* that fails frees the server_t itself, and with SIGINT before main has   *)
(* returned the second thread does so too, before or after.                *)
DestroyedOnce == destroys <= 1 \/ (listen = "none" /\ is_finish)

(* The server does not leave the client it serves in its read: an answer   *)
(* or the end of the connection comes, unless SIGINT does.  A partial      *)
(* write or a transc in use loses the promise.                             *)
Answered ==
  (cur # 0 /\ cur \notin stale /\ cpc[cur] = "read")
    ~> (cur = 0 \/ cpc[cur] # "read" \/ is_finish \/ resumed)

(* Once the second thread has closed the listening socket, main ends too,  *)
(* unless it serves one client that stays for ever, or the rest of a       *)
(* partial write was sent (resumed): its counters then do not fit the      *)
(* message, and with a client that has left the loop of                    *)
(* server_process_data may go round for ever on a result it ignores.       *)
ServerStops ==
  \/ <>[](resumed \/ (cur # 0 /\ peer[cur] = "up"))
  \/ (listen = "closed") ~> Over

-----------------------------------------------------------------------------
(* What a comment says and the code does not do.                           *)

(* server_conn "receives and processes the data" of a connected client:    *)
(* the server does not close a client that is there before it has read     *)
(* anything from it.                                                       *)
ServesItsClient ==
  listen = "open" /\ ~Over =>
    \A c \in Clients : conn[c] \in {"closed", "reset"} => taken[c] > 0 \/ peer[c] # "up"
=============================================================================
