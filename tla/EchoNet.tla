------------------------------ MODULE EchoNet ------------------------------
(***************************************************************************)
(* The connections between the clients (src/src/client) and the echo       *)
(* server (src/src/server): the sockets' state, which the two programs     *)
(* share, and the messages both speak (src/src/client/jmp.h).              *)
(***************************************************************************)
EXTENDS Integers, Sequences, FiniteSets, SequencesExt

CONSTANTS
  Clients,        \* 1..n, in the order in which they connect
  MSG_HEADER_LEN, \* 20 in server.h and sizeof( jmp_hdr_t)
  SND_CAP         \* bytes the server's send buffer holds for a client

ASSUME NetAssumption ==
  /\ Clients \subseteq Nat \ {0} /\ IsFiniteSet(Clients)
  /\ MSG_HEADER_LEN \in Nat /\ MSG_HEADER_LEN >= 4
  /\ SND_CAP \in Nat \ {0}

VARIABLES
  up,     \* up[c]: bytes client c has written
  taken,  \* taken[c]: how many of them the server has read
  down,   \* down[c]: bytes the server has written to c
  got,    \* got[c]: how many of them c has read
  conn,   \* conn[c]: the server's end
  peer    \* peer[c]: the client's end, as the server's kernel knows it

netvars == <<up, taken, down, got, conn, peer>>

(* "waiting" is in the queue of listen, "open" accepted; "closed" ended    *)
(* with FIN, "reset" with RST, which a close with unread input sends.      *)
ConnStates == {"none", "waiting", "open", "closed", "reset"}
(* "rst" is a reset not yet reported, "broken" a reset already reported:   *)
(* writing to it raises SIGPIPE.                                           *)
PeerStates == {"up", "fin", "rst", "broken"}

NetInit ==
  /\ up = [c \in Clients |-> <<>>]
  /\ down = [c \in Clients |-> <<>>]
  /\ taken = [c \in Clients |-> 0]
  /\ got = [c \in Clients |-> 0]
  /\ conn = [c \in Clients |-> "none"]
  /\ peer = [c \in Clients |-> "up"]

Lesser(a, b) == IF a < b THEN a ELSE b

UnreadUp(c) == Len(up[c]) - taken[c]
UnreadDown(c) == Len(down[c]) - got[c]
Room(c) == SND_CAP - UnreadDown(c)

(* epoll reports the connection of c: input, end of input or an error.     *)
Readable(c) == UnreadUp(c) > 0 \/ peer[c] # "up"

(* All of the server's ends when its process is gone.                      *)
ShutAll ==
  [c \in Clients |->
     CASE conn[c] = "waiting"                   -> "reset"
       [] conn[c] = "open" /\ UnreadUp(c) > 0   -> "reset"
       [] conn[c] = "open" /\ UnreadUp(c) = 0   -> "closed"
       [] OTHER                                 -> conn[c]]

(* The queue of listen when the listening socket alone is closed.          *)
ShutWaiting == [c \in Clients |-> IF conn[c] = "waiting" THEN "reset" ELSE conn[c]]

(* jmp_set_msg: version 1, the length of header and body in host order     *)
(* (little endian), header fields nobody reads, the body.  A body byte     *)
(* names its client and its position: no two are equal.                    *)
Message(c, bodylen, at) ==
  LET len == MSG_HEADER_LEN + bodylen IN
  <<1, len % 256, (len \div 256) % 256, len \div 65536>>
  \o [i \in 1..(MSG_HEADER_LEN - 4) |-> 0]
  \o [i \in 1..bodylen |-> 100 * c + at + MSG_HEADER_LEN + i]
=============================================================================
