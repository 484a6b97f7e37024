------------------------------- MODULE Server -------------------------------
(***************************************************************************)
(* The echo server (src/src/server/server.c).  The main thread accepts one *)
(* client after the other (server_conn) and serves each until its          *)
(* descriptor is closed (server_process_data); a second thread waits for   *)
(* SIGINT and frees the server_t the main thread works with.               *)
(*                                                                         *)
(* Every call to the kernel is one action.  The transc_t of                *)
(* server_process_data is a local variable that nothing initialises; its   *)
(* frame has the same address in every call and nothing else reaches as    *)
(* deep, so a connection starts with what the one before has left.         *)
(***************************************************************************)
EXTENDS EchoNet

CONSTANT FdRoom   \* descriptors the process may still open once it listens
ASSUME FdAssumption == FdRoom \in Nat

VARIABLES
  spc,        \* where the main thread is
  cur,        \* the client served, 0 when there is none
  transc,     \* the transc_t on the stack
  fdfree,     \* descriptors that may still be opened
  listen,     \* server->fd: "none" until it listens, then "open", "closed"
  is_finish,  \* SIGINT was received
  is_error,   \* the second thread is done, or main tells it to end
  dpc,        \* where the second thread is
  destroys,   \* how often the server_t was freed
  stale,      \* history: clients whose connection found transc in use
  resumed     \* history: the rest of a partial write was sent

servervars ==
  <<spc, cur, transc, fdfree, listen, is_finish, is_error, dpc, destroys, stale, resumed>>
flagvars == <<is_finish, is_error, dpc, destroys>>
(* What the calls of server_recv_data and server_send_data leave alone.    *)
around == <<cur, fdfree, listen, stale, flagvars>>

ServerStates ==
  {"init", "failed", "check", "accept", "loop", "wait",
   "recv_header", "recv_body", "recv_again", "recv_rest",
   "send_header", "send_body", "send_again",
   "end", "await_finish", "await_error", "exited", "killed"}
Over == spc \in {"exited", "killed"}

Zeros(n) == [i \in 1..n |-> 0]

(* server_transc_clear                                                     *)
ClearedTransc ==
  [is_recv_header |-> FALSE, is_recv_body |-> FALSE,
   is_send_header |-> FALSE, is_send_body |-> FALSE,
   length |-> 0, recv_bytes |-> 0, send_bytes |-> 0,
   read_hdr_buf |-> Zeros(MSG_HEADER_LEN), read_body_buf |-> <<>>]

ServerInit ==
  /\ spc = "init"
  /\ cur = 0
  /\ transc = ClearedTransc
  /\ fdfree = FdRoom
  /\ listen = "none"
  /\ is_finish = FALSE
  /\ is_error = FALSE
  /\ dpc = "watch"
  /\ destroys = 0
  /\ stale = {}
  /\ resumed = FALSE

(* Operators named X_y are X with a slip y; no specification uses them:    *)
(* put in the place of X, each breaks one of the properties.               *)

(* server_transc_get_msg_length: -1 when strlen of the buffer is 0.        *)
MsgLength(hdr) ==
  IF hdr[1] = 0 THEN -1 ELSE hdr[4] * 65536 + hdr[3] * 256 + hdr[2]

-----------------------------------------------------------------------------
(* server_destroy: the listening socket is closed, if it exists already,   *)
(* with the connections in its queue, and the server_t freed.              *)
Destroy ==
  /\ destroys' = destroys + 1
  /\ listen' = IF listen = "open" THEN "closed" ELSE listen
  /\ conn' = ShutWaiting

(* The process ends: its memory is gone and the kernel closes its sockets. *)
ProcessEnds(how) ==
  /\ spc' = how
  /\ conn' = ShutAll
  /\ listen' = IF listen = "none" THEN "none" ELSE "closed"
  /\ cur' = 0
  /\ transc' = ClearedTransc
  /\ fdfree' = FdRoom
  /\ dpc' = "left"
  /\ UNCHANGED <<up, taken, down, got, peer, is_finish, stale, resumed>>

(* server_init after server_handle_finish: the second thread runs already. *)
Listen ==
  /\ spc = "init"
  /\ spc' = "check"
  /\ listen' = "open"
  /\ UNCHANGED <<netvars, cur, transc, fdfree, flagvars, stale, resumed>>

(* socket, setsockopt, bind or listen fails: server_init frees the         *)
(* server_t, which the second thread has and may have freed already, or    *)
(* may free still before main has returned.                                *)
ListenFails ==
  /\ spc = "init"
  /\ spc' = "failed"
  /\ destroys' = destroys + 1
  /\ UNCHANGED <<netvars, cur, transc, fdfree, listen, is_finish, is_error, dpc,
                 stale, resumed>>

(* server_signal_handler, in either thread.  epoll_wait is not restarted:  *)
(* when it is the main thread that is interrupted there, it leaves         *)
(* server_process_data without closing the client.                         *)
Interrupt ==
  /\ ~Over /\ ~is_finish
  /\ is_finish' = TRUE
  /\ \/ UNCHANGED <<spc, cur>>
     \/ spc = "wait" /\ ~Readable(cur) /\ spc' = "check" /\ cur' = 0
  /\ UNCHANGED <<netvars, transc, fdfree, listen, is_error, dpc, destroys, stale, resumed>>

(* The handler has restored SIG_DFL: a second SIGINT ends the process.     *)
InterruptAgain ==
  /\ ~Over /\ is_finish
  /\ ProcessEnds("killed")
  /\ UNCHANGED <<is_error, destroys>>

(* server_detect_finish.  Its tests and server_destroy are one step.  In   *)
(* between is_finish stays set; is_error is set only here and by main at   *)
(* line 651, behind a socket that only this call closes and a test of      *)
(* is_finish that SIGINT has made fail: the step hides no outcome.         *)
Detect ==
  /\ ~Over
  /\ \/ /\ dpc = "watch" /\ is_error
        /\ dpc' = "left"
        /\ UNCHANGED <<conn, listen, is_error, destroys>>
     \/ /\ dpc = "watch" /\ ~is_error /\ is_finish
        /\ dpc' = "mark"
        /\ Destroy
        /\ UNCHANGED is_error
     \/ /\ dpc = "mark"
        /\ dpc' = "left"
        /\ is_error' = TRUE
        /\ UNCHANGED <<conn, listen, destroys>>
  /\ UNCHANGED <<up, taken, down, got, peer, spc, cur, transc, fdfree, is_finish,
                 stale, resumed>>

(* Lines 649-665: which end of the program main chooses; line 636 is the   *)
(* end after a server_init that failed.                                    *)
EndBranch_error == IF is_error THEN "await_error" ELSE "await_finish"
EndBranch == IF is_finish THEN "await_error" ELSE "await_finish"

MainEnd ==
  \/ /\ spc = "end"
     /\ spc' = EndBranch
     /\ is_error' = (is_error \/ EndBranch = "await_finish")
     /\ UNCHANGED <<netvars, cur, transc, fdfree, listen, is_finish, dpc, destroys,
                    stale, resumed>>
  \/ /\ spc = "await_finish" /\ is_finish
     /\ destroys' = destroys + 1
     /\ ProcessEnds("exited")
     /\ UNCHANGED is_error
  \/ /\ spc = "failed"
     /\ ProcessEnds("exited")
     /\ UNCHANGED <<is_error, destroys>>
  \/ /\ spc = "await_error" /\ is_error
     /\ ProcessEnds("exited")
     /\ UNCHANGED <<is_error, destroys>>

-----------------------------------------------------------------------------
(* server_conn                                                             *)

(* server_check_fd( server->fd): SOC_ERR once the socket is closed.        *)
CheckServer ==
  /\ spc = "check"
  /\ spc' = IF listen = "open" THEN "accept" ELSE "end"
  /\ UNCHANGED <<netvars, cur, transc, fdfree, listen, flagvars, stale, resumed>>

FirstWaiting(c) ==
  conn[c] = "waiting" /\ \A d \in Clients : d < c => conn[d] # "waiting"

(* accept fails: nobody waits, no descriptor is left, or the socket was    *)
(* closed since the check.                                                 *)
AcceptFails ==
  /\ spc = "accept"
  /\ listen # "open" \/ fdfree = 0 \/ \A c \in Clients : conn[c] # "waiting"
  /\ spc' = "check"
  /\ UNCHANGED <<netvars, cur, transc, fdfree, listen, flagvars, stale, resumed>>

(* accept, and an epoll instance for the connection, which is never        *)
(* closed.  When that fails the client's descriptor stays open unserved.   *)
Accept(c) ==
  /\ spc = "accept"
  /\ listen = "open" /\ fdfree > 0 /\ FirstWaiting(c)
  /\ conn' = [conn EXCEPT ![c] = "open"]
  /\ \/ /\ fdfree = 1                                        \* OBJECT_ERR
        /\ spc' = "check"
        /\ fdfree' = 0
        /\ UNCHANGED <<cur, stale>>
     \/ /\ fdfree > 1
        /\ spc' = "loop"
        /\ fdfree' = fdfree - 2
        /\ cur' = c
        /\ stale' = IF transc = ClearedTransc THEN stale ELSE stale \union {c}
  /\ UNCHANGED <<up, taken, down, got, peer, transc, listen, flagvars, resumed>>

-----------------------------------------------------------------------------
(* server_process_data                                                     *)

AfterMessage_counted(t) == [ClearedTransc EXCEPT !.send_bytes = t.send_bytes]
AfterMessage_never(t) == t
AfterMessage(t) == ClearedTransc

(* Lines 357-365.  getsockopt takes the pending error of the socket.       *)
Loop ==
  /\ spc = "loop"
  /\ \/ /\ conn[cur] # "open"
        /\ spc' = "check"
        /\ cur' = 0
        /\ UNCHANGED <<peer, transc>>
     \/ /\ conn[cur] = "open"
        /\ spc' = "wait"
        /\ peer' = [peer EXCEPT ![cur] = IF @ = "rst" THEN "broken" ELSE @]
        /\ transc' = IF transc.is_send_header /\ transc.is_send_body
                     THEN AfterMessage(transc) ELSE transc
        /\ UNCHANGED cur
  /\ UNCHANGED <<up, taken, down, got, conn, fdfree, listen, flagvars, stale, resumed>>

(* The first call of lines 381-409 for an event of the client.             *)
FirstCall(t) ==
  CASE ~t.is_recv_header                                      -> "recv_header"
    [] t.is_recv_header /\ ~t.is_recv_body                    -> "recv_rest"
    [] t.is_recv_header /\ t.is_recv_body /\ ~t.is_send_header -> "send_header"
    [] t.is_recv_header /\ t.is_recv_body /\ t.is_send_header  -> "send_body"

(* Lines 367-375: an event, or nothing for TIMEOUT.                        *)
EpollWait ==
  /\ spc = "wait"
  /\ spc' = IF Readable(cur) THEN FirstCall(transc) ELSE "loop"
  /\ UNCHANGED <<netvars, transc, around, resumed>>

(* Once freed, the server_t may not hold the epoll descriptor any more:    *)
(* epoll_wait fails, the loop ends and the client stays open.              *)
EpollFails ==
  /\ spc = "wait" /\ destroys > 0
  /\ spc' = "check"
  /\ cur' = 0
  /\ UNCHANGED <<netvars, transc, fdfree, listen, flagvars, stale, resumed>>

(* A result up to ZERO_BYTE, n bytes read: close( fd), which sends RST     *)
(* when there is input left.                                               *)
CloseClient(n) ==
  /\ conn' = [conn EXCEPT ![cur] = IF UnreadUp(cur) > n THEN "reset" ELSE "closed"]
  /\ fdfree' = fdfree + 1
  /\ spc' = "loop"
  /\ UNCHANGED <<up, down, got, peer, cur, listen, flagvars, stale, resumed>>

(* The client is gone: read returns 0 or an error.  What it had written    *)
(* before a reset may never arrive.                                        *)
AtEnd_reset(c) == peer[c] \in {"rst", "broken"}
AtEnd(c) == peer[c] \in {"rst", "broken"} \/ (peer[c] = "fin" /\ UnreadUp(c) = 0)

(* server_recv_data, lines 139-193.                                        *)
HeaderRead(t, data) ==
  [t EXCEPT !.recv_bytes = @ + Len(data),
            !.read_hdr_buf = [i \in 1..MSG_HEADER_LEN |->
                IF i - t.recv_bytes \in DOMAIN data THEN data[i - t.recv_bytes] ELSE 0]]

RecvHeader ==
  /\ spc = "recv_header"
  /\ \/ /\ AtEnd(cur) \/ transc.recv_bytes = MSG_HEADER_LEN    \* ZERO_, NEGATIVE_BYTE
        /\ transc' = [transc EXCEPT !.read_hdr_buf = Zeros(MSG_HEADER_LEN)]
        /\ CloseClient(0)
        /\ UNCHANGED taken
     \/ \E n \in 1..Lesser(UnreadUp(cur), MSG_HEADER_LEN - transc.recv_bytes) :
          LET t   == HeaderRead(transc, SubSeq(up[cur], taken[cur] + 1, taken[cur] + n))
              len == MsgLength(t.read_hdr_buf)
          IN
          /\ taken' = [taken EXCEPT ![cur] = @ + n]
          /\ \/ /\ t.recv_bytes = MSG_HEADER_LEN /\ len > MSG_HEADER_LEN
                /\ transc' = [t EXCEPT !.length = len, !.is_recv_header = TRUE]
                /\ spc' = "recv_body"
                /\ UNCHANGED <<up, down, got, conn, peer, around, resumed>>
             \/ /\ t.recv_bytes = MSG_HEADER_LEN /\ len <= MSG_HEADER_LEN   \* BUF_ERR
                /\ transc' = [t EXCEPT !.length = len]
                /\ CloseClient(n)
             \/ /\ t.recv_bytes # MSG_HEADER_LEN                          \* BUF_ERR
                /\ transc' = t
                /\ CloseClient(n)

BodyRead(t, data) ==
  [t EXCEPT !.recv_bytes = @ + Len(data),
            !.read_body_buf = @ \o data,
            !.is_recv_body = (t.recv_bytes + Len(data) = t.length)]

(* After an incomplete body the second block, line 390, calls once more.   *)
AfterRecv(t) ==
  CASE t.is_recv_body                           -> "send_header"
    [] ~t.is_recv_body /\ spc = "recv_body"     -> "recv_again"
    [] ~t.is_recv_body /\ spc # "recv_body"     -> "loop"

(* server_recv_data, lines 195-226.  A second call after one event may     *)
(* find that the rest is still under way.                                  *)
RecvBody ==
  /\ spc \in {"recv_body", "recv_again", "recv_rest"}
  /\ \/ /\ AtEnd(cur)                                        \* ZERO_, NEGATIVE_BYTE
        /\ CloseClient(0)
        /\ UNCHANGED <<taken, transc>>
     \/ /\ peer[cur] = "up"                                  \* ERRNO_EAGAIN
        /\ spc # "recv_rest" \/ UnreadUp(cur) = 0
        /\ spc' = AfterRecv(transc)
        /\ UNCHANGED <<netvars, transc, around, resumed>>
     \/ \E n \in 1..Lesser(UnreadUp(cur), transc.length - transc.recv_bytes) :
          LET t == BodyRead(transc, SubSeq(up[cur], taken[cur] + 1, taken[cur] + n)) IN
          /\ taken' = [taken EXCEPT ![cur] = @ + n]
          /\ transc' = t
          /\ spc' = AfterRecv(t)
          /\ UNCHANGED <<up, down, got, conn, peer, around, resumed>>

(* A write of `data' to the client, also to one that has closed.  After a  *)
(* reset it fails; after a reported one it raises SIGPIPE, which nothing   *)
(* handles.                                                                *)
Written(data) ==
  /\ peer[cur] \in {"up", "fin"}
  /\ down' = [down EXCEPT ![cur] = @ \o data]
WriteReset ==
  /\ peer[cur] = "rst"
  /\ peer' = [peer EXCEPT ![cur] = "broken"]
  /\ UNCHANGED <<up, taken, down, got, conn, transc, around, resumed>>
SigPipe ==
  /\ peer[cur] = "broken"
  /\ ProcessEnds("killed")
  /\ UNCHANGED <<is_error, destroys>>

HeaderSent_whole(t, n) ==
  [t EXCEPT !.send_bytes = @ + n, !.is_send_header = TRUE]
HeaderSent(t, n) ==
  IF t.send_bytes + n = MSG_HEADER_LEN
  THEN [t EXCEPT !.send_bytes = MSG_HEADER_LEN, !.is_send_header = TRUE,
                 !.recv_bytes = @ - n]
  ELSE [t EXCEPT !.send_bytes = @ + n]

(* The rest of the header in its place behind zeros, written from 1.       *)
HeaderBuffer(t) ==
  [i \in 1..MSG_HEADER_LEN |-> IF i > t.send_bytes THEN t.read_hdr_buf[i] ELSE 0]

(* server_send_data, lines 254-292.                                        *)
SendHeader ==
  LET n == Lesser(MSG_HEADER_LEN - transc.send_bytes, Room(cur)) IN
  /\ spc = "send_header"
  /\ \/ WriteReset /\ spc' = "loop"
     \/ SigPipe
     \/ /\ Room(cur) = 0 /\ peer[cur] \in {"up", "fin"}      \* ERRNO_EAGAIN
        /\ spc' = "loop"
        /\ UNCHANGED <<netvars, transc, around, resumed>>
     \/ /\ Room(cur) > 0
        /\ Written(SubSeq(HeaderBuffer(transc), 1, n))
        /\ transc' = HeaderSent(transc, n)
        /\ resumed' = (resumed \/ transc.send_bytes > 0)
        /\ spc' = IF transc'.is_send_header THEN "send_body" ELSE "loop"
        /\ UNCHANGED <<up, taken, got, conn, peer, around>>

(* Lines 296-311: what is in write_body_buf after the copy.                *)
BodyBuffer_zeros(t) == Zeros(t.recv_bytes)
BodyBuffer(t) ==
  LET index  == t.send_bytes - MSG_HEADER_LEN
      copied == IF index = 0 THEN t.length - MSG_HEADER_LEN
                ELSE t.length - MSG_HEADER_LEN - t.send_bytes
  IN [i \in 1..t.recv_bytes |->
        IF i > index /\ i <= index + copied THEN t.read_body_buf[i] ELSE 0]

BodySent_total(t, n) ==
  [t EXCEPT !.recv_bytes = @ - t.send_bytes, !.send_bytes = @ + n,
            !.is_send_body = (t.recv_bytes - t.send_bytes = 0)]
BodySent(t, n) ==
  [t EXCEPT !.recv_bytes = @ - n, !.send_bytes = @ + n,
            !.is_send_body = (t.recv_bytes - n = 0)]

AfterSend(t) == IF spc = "send_body" /\ ~t.is_send_body THEN "send_again" ELSE "loop"

(* server_send_data, lines 294-337, and the second call of line 406.  A    *)
(* negative count for memcpy (line 305) ends the process.                  *)
SendBody ==
  LET n       == Lesser(transc.recv_bytes, Room(cur))
      resume  == transc.send_bytes > MSG_HEADER_LEN
      crashes == resume /\ transc.length - MSG_HEADER_LEN < transc.send_bytes
  IN
  /\ spc \in {"send_body", "send_again"}
  /\ \/ /\ transc.send_bytes >= transc.length                \* UNKNOWN
        /\ spc' = AfterSend(transc)
        /\ UNCHANGED <<netvars, transc, around, resumed>>
     \/ /\ transc.send_bytes < transc.length /\ crashes
        /\ ProcessEnds("killed")
        /\ UNCHANGED <<is_error, destroys>>
     \/ /\ transc.send_bytes < transc.length /\ ~crashes
        /\ \/ WriteReset /\ spc' = AfterSend(transc)
           \/ SigPipe
           \/ /\ Room(cur) = 0 /\ peer[cur] \in {"up", "fin"}  \* ERRNO_EAGAIN
              /\ spc' = AfterSend(transc)
              /\ UNCHANGED <<netvars, transc, around, resumed>>
           \/ /\ Room(cur) > 0
              /\ Written(SubSeq(BodyBuffer(transc), 1, n))
              /\ transc' = BodySent(transc, n)
              /\ resumed' = (resumed \/ resume)
              /\ spc' = AfterSend(transc')
              /\ UNCHANGED <<up, taken, got, conn, peer, around>>

Main ==
  \/ Listen \/ ListenFails \/ CheckServer \/ AcceptFails \/ (\E c \in Clients : Accept(c))
  \/ Loop \/ EpollWait \/ EpollFails
  \/ RecvHeader \/ RecvBody \/ SendHeader \/ SendBody
  \/ MainEnd
=============================================================================
