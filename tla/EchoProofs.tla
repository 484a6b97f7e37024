----------------------------- MODULE EchoProofs -----------------------------
(***************************************************************************)
(* Proofs about Echo for any clients, lengths and limits: that the two     *)
(* threads free the server_t of a server that listens once; and, from an   *)
(* invariant of what transc_t holds of the client served (SInv, Echoes),   *)
(* the types, that a client gets its own bytes, that recv_bytes counts     *)
(* what the server holds, and when a connection finds transc_t in use.     *)
(***************************************************************************)
EXTENDS Echo, SequenceTheorems, TLAPS

(* Who may free the server_t.  The second thread does so on the way from   *)
(* "watch" to "mark" and only after SIGINT; main has left its loop only    *)
(* when the listening socket was closed, which that thread does, so at the *)
(* end of main is_finish is set and the branch that frees is not taken.    *)
(* Only where nothing listens yet may server_init free it as well.         *)
FreedBy ==
  /\ destroys \in {0, 1, 2}
  /\ destroys = 2 => listen = "none" /\ is_finish
  /\ listen \in {"none", "open", "closed"}
  /\ dpc = "watch" => destroys = (IF spc = "failed" THEN 1 ELSE 0)
  /\ spc = "init" => destroys < 2 /\ (destroys = 1 => is_finish)
  /\ spc # "await_finish"
  /\ spc = "end" => is_finish
  /\ ~Over => (listen = "closed" => is_finish) /\ (listen = "none" <=> spc \in {"init", "failed"})

LEMMA InitFreedBy == Init => FreedBy
  BY DEF Init, ServerInit, FreedBy, Over

(* Steps that touch neither the flags nor the listening socket.            *)
LEMMA ElsewhereKeeps ==
  ASSUME FreedBy, UNCHANGED <<destroys, dpc, is_finish, listen>>,
         spc \notin {"init", "failed"}, spc' \notin {"init", "failed", "await_finish", "end"},
         ~Over
  PROVE  FreedBy'
  BY DEF FreedBy, Over

LEMMA EndsKeep ==
  ASSUME FreedBy, NEW how \in {"exited", "killed"}, ProcessEnds(how), destroys' = destroys
  PROVE  FreedBy'
  BY DEF FreedBy, ProcessEnds, Over

(* The first calls and the two threads' ends.                              *)
LEMMA ThreadsKeep ==
  ASSUME FreedBy, Interrupt \/ InterruptAgain \/ Detect \/ MainEnd \/ Listen \/ ListenFails
                  \/ CheckServer
  PROVE  FreedBy'
<1>1. CASE Interrupt
  BY <1>1 DEF FreedBy, Interrupt, Over
<1>2. CASE InterruptAgain
  BY <1>2, EndsKeep DEF InterruptAgain
<1>3. CASE Detect
  BY <1>3 DEF FreedBy, Detect, Destroy, Over
<1>4. CASE MainEnd
  <2>1. CASE spc = "end"
    BY <1>4, <2>1 DEF FreedBy, MainEnd, EndBranch, Over
  <2>2. CASE spc \in {"await_error", "failed"}
    BY <1>4, <2>2, EndsKeep DEF MainEnd
  <2> QED
    BY <1>4, <2>1, <2>2 DEF MainEnd, FreedBy
<1>5. CASE Listen
  BY <1>5 DEF FreedBy, Listen, flagvars, Over
<1>6. CASE ListenFails
  BY <1>6 DEF FreedBy, ListenFails, Over
<1>7. CASE CheckServer
  BY <1>7 DEF FreedBy, CheckServer, flagvars, Over
<1> QED
  BY <1>1, <1>2, <1>3, <1>4, <1>5, <1>6, <1>7

(* Accepting and the event loop.                                           *)
LEMMA LoopKeeps ==
  ASSUME FreedBy, AcceptFails \/ (\E c \in Clients : Accept(c)) \/ Loop \/ EpollWait \/ EpollFails
  PROVE  FreedBy'
<1>1. CASE AcceptFails
  BY <1>1, ElsewhereKeeps DEF AcceptFails, flagvars, Over
<1>2. CASE \E c \in Clients : Accept(c)
  BY <1>2, ElsewhereKeeps DEF Accept, flagvars, Over
<1>3. CASE Loop
  BY <1>3, ElsewhereKeeps DEF Loop, flagvars, Over
<1>4. CASE EpollWait
  <2>1. spc' \notin {"init", "failed", "await_finish", "end"}
    BY <1>4 DEF EpollWait, FirstCall
  <2> QED
    BY <1>4, <2>1, ElsewhereKeeps DEF EpollWait, around, flagvars, Over
<1>5. CASE EpollFails
  BY <1>5, ElsewhereKeeps DEF EpollFails, flagvars, Over
<1> QED
  BY <1>1, <1>2, <1>3, <1>4, <1>5

(* The reads: server_recv_data.                                            *)
LEMMA RecvKeeps ==
  ASSUME FreedBy, RecvHeader \/ RecvBody
  PROVE  FreedBy'
<1>1. \A t : spc \in {"recv_body", "recv_again", "recv_rest"} =>
             AfterRecv(t) \notin {"init", "failed", "await_finish", "end"}
  BY DEF AfterRecv
<1>2. CASE RecvHeader
  BY <1>2, ElsewhereKeeps DEF RecvHeader, CloseClient, around, flagvars, Over
<1>3. CASE RecvBody
  BY <1>1, <1>3, ElsewhereKeeps DEF RecvBody, CloseClient, around, flagvars, Over
<1> QED
  BY <1>2, <1>3

(* The writes: server_send_data.                                           *)
LEMMA SendKeeps ==
  ASSUME FreedBy, SendHeader \/ SendBody
  PROVE  FreedBy'
<1>1. CASE destroys' = destroys /\ \E how \in {"exited", "killed"} : ProcessEnds(how)
  BY <1>1, EndsKeep
<1>2. CASE UNCHANGED around /\ spc' \in {"loop", "send_body", "send_again"}
           /\ spc \in {"send_header", "send_body", "send_again"}
  BY <1>2, ElsewhereKeeps DEF around, flagvars, Over
<1>3. \A t : AfterSend(t) \in {"loop", "send_again"}
  BY DEF AfterSend
<1> QED
  BY <1>1, <1>2, <1>3 DEF SendHeader, SendBody, SigPipe, WriteReset, around

LEMMA NextFreedBy ==
  ASSUME FreedBy, [Next]_vars
  PROVE  FreedBy'
<1>1. CASE Interrupt \/ InterruptAgain \/ Detect
  BY <1>1, ThreadsKeep
<1>2. CASE Main
  BY <1>2, ThreadsKeep, LoopKeeps, RecvKeeps, SendKeeps DEF Main
<1>3. CASE UNCHANGED servervars
  BY <1>3 DEF servervars, FreedBy, Over
<1> QED
  BY <1>1, <1>2, <1>3 DEF Next, Finished, vars

(* The server_t is freed at most once, for any number of clients and       *)
(* whenever SIGINT comes, unless it never came to listen                   *)
(* (server_detect_finish, server_init and the two ends of main).           *)
THEOREM FreedOnce == Spec => []DestroyedOnce
<1>1. FreedBy /\ [Next]_vars => FreedBy'
  BY NextFreedBy
<1>2. FreedBy => DestroyedOnce
  BY DEF FreedBy, DestroyedOnce
<1> QED
  BY <1>1, <1>2, InitFreedBy, PTL DEF Spec
-----------------------------------------------------------------------------
(* What the server holds of a message and what the clients have read.      *)

InService ==
  {"loop", "wait", "recv_header", "recv_body", "recv_again", "recv_rest",
   "send_header", "send_body", "send_again"}

Transc ==
  [is_recv_header : BOOLEAN, is_recv_body : BOOLEAN,
   is_send_header : BOOLEAN, is_send_body : BOOLEAN,
   length : Int, recv_bytes : Nat, send_bytes : Nat,
   read_hdr_buf : [1..MSG_HEADER_LEN -> Nat], read_body_buf : Seq(Nat)]

NetTyped ==
  /\ up \in [Clients -> Seq(Nat)] /\ down \in [Clients -> Seq(Nat)]
  /\ taken \in [Clients -> Nat] /\ got \in [Clients -> Nat]
  /\ \A c \in Clients : taken[c] <= Len(up[c]) /\ got[c] <= Len(down[c])
  /\ conn \in [Clients -> ConnStates] /\ peer \in [Clients -> PeerStates]
ClientTyped == cpc \in [Clients -> ClientStates] /\ requests \in 0..MaxRequests
ServerTyped ==
  /\ spc \in ServerStates
  /\ cur \in Clients \union {0}
  /\ transc \in Transc
  /\ fdfree \in Nat /\ fdfree <= FdRoom
  /\ listen \in {"none", "open", "closed"}
  /\ is_finish \in BOOLEAN /\ is_error \in BOOLEAN /\ resumed \in BOOLEAN
  /\ dpc \in {"watch", "mark", "left"}
  /\ destroys \in Nat
  /\ stale \subseteq Clients

(* The counters and buffers of transc_t fit its flags, in any connection.  *)
Counters ==
  /\ ~transc.is_recv_header =>
       /\ ~transc.is_recv_body /\ transc.read_body_buf = <<>>
       /\ transc.recv_bytes <= MSG_HEADER_LEN /\ transc.send_bytes = 0
  /\ transc.is_recv_header => transc.length > MSG_HEADER_LEN
  /\ transc.is_recv_header /\ ~transc.is_recv_body =>
       /\ transc.send_bytes = 0
       /\ MSG_HEADER_LEN <= transc.recv_bytes /\ transc.recv_bytes < transc.length
       /\ Len(transc.read_body_buf) = transc.recv_bytes - MSG_HEADER_LEN
  /\ transc.is_recv_body => Len(transc.read_body_buf) = transc.length - MSG_HEADER_LEN
  /\ ~transc.is_recv_body => ~transc.is_send_header
  /\ transc.is_recv_body /\ ~transc.is_send_header =>
       transc.recv_bytes = transc.length /\ transc.send_bytes < MSG_HEADER_LEN
  /\ ~transc.is_send_header => ~transc.is_send_body
  /\ transc.is_send_header =>
       /\ MSG_HEADER_LEN <= transc.send_bytes
       /\ transc.is_send_body <=> transc.recv_bytes = 0

(* The call to come fits the flags and the client's descriptor.            *)
Phases ==
  /\ cur # 0 <=> spc \in InService
  /\ cur # 0 /\ conn[cur] # "open" => spc = "loop" /\ ~transc.is_recv_body
  /\ spc = "wait" => ~transc.is_send_body
  /\ spc = "recv_header" => ~transc.is_recv_header
  /\ spc \in {"recv_body", "recv_again", "recv_rest"} =>
       transc.is_recv_header /\ ~transc.is_recv_body
  /\ spc = "send_header" => transc.is_recv_body /\ ~transc.is_send_header
  /\ spc \in {"send_body", "send_again"} => transc.is_send_header /\ ~transc.is_send_body
  /\ cur # 0 /\ conn[cur] = "open" => fdfree < FdRoom

(* The clients that the server has not seen come after those that it has.  *)
Later(c) == conn[c] = "waiting" \/ cpc[c] = "start"
Order ==
  /\ \A c, d \in Clients : cpc[c] # "start" /\ cpc[d] = "start" => c < d
  /\ \A c \in Clients : cpc[c] = "start" => conn[c] = "none"
  /\ \A c \in Clients : conn[c] \in {"none", "waiting"} => taken[c] = 0 /\ down[c] = <<>>
  /\ cur # 0 => conn[cur] \notin {"none", "waiting"}
  /\ cur # 0 => \A c \in Clients : Later(c) => cur < c

(* What transc_t holds is what was read from c and not yet written back.   *)
Carries(c) ==
  /\ ~transc.is_recv_header =>
       /\ taken[c] = Len(down[c]) + transc.recv_bytes
       /\ transc.recv_bytes = 0 => transc = ClearedTransc
       /\ transc.recv_bytes > 0 => conn[c] # "open"
  /\ transc.is_send_header => transc.recv_bytes + transc.send_bytes = transc.length
  /\ transc.is_recv_header =>
       /\ transc.send_bytes <= Len(down[c])
       /\ taken[c] = Len(down[c]) - transc.send_bytes + MSG_HEADER_LEN + Len(transc.read_body_buf)
       /\ \A i \in 1..MSG_HEADER_LEN :
            transc.read_hdr_buf[i] = up[c][Len(down[c]) - transc.send_bytes + i]
       /\ \A i \in 1..Len(transc.read_body_buf) :
            transc.read_body_buf[i]
              = up[c][Len(down[c]) - transc.send_bytes + MSG_HEADER_LEN + i]

(* A client that the server has left before it had its whole answer.       *)
Past(d) == d # cur /\ ~Later(d) /\ Len(down[d]) < Len(up[d])

OwnBytes(c) == Len(down[c]) <= Len(up[c]) /\ \A i \in 1..Len(down[c]) : down[c][i] = up[c][i]

Echoes ==
  ~resumed =>
    /\ \A c \in Clients \ stale : OwnBytes(c)
    /\ cur # 0 /\ cur \notin stale => Carries(cur)
    /\ \A c \in stale : \E d \in Clients : d < c /\ Past(d)
    /\ cur = 0 /\ transc # ClearedTransc =>
         \E d \in Clients : Past(d) /\ \A c \in Clients : Later(c) => d < c

SInv == NetTyped /\ ClientTyped /\ ServerTyped /\ Counters /\ Phases /\ Order

-----------------------------------------------------------------------------
(* What the helpers return.                                                *)

LEMMA LesserIs ==
  ASSUME NEW a \in Int, NEW b \in Int
  PROVE  /\ Lesser(a, b) \in Int
         /\ Lesser(a, b) <= a /\ Lesser(a, b) <= b
         /\ Lesser(a, b) \in {a, b}
  BY DEF Lesser

LEMMA UpTo ==
  ASSUME NEW a \in Int, NEW b \in Int, NEW n \in 1..Lesser(a, b)
  PROVE  n \in Nat /\ n >= 1 /\ n <= a /\ n <= b
  BY LesserIs

(* The constants.                                                          *)
LEMMA Numbers ==
  /\ MSG_HEADER_LEN \in Nat /\ MSG_HEADER_LEN >= 4 /\ FdRoom \in Nat
  /\ SND_CAP \in Nat /\ SND_CAP > 0 /\ 0 \notin Clients /\ Clients \subseteq Nat
  BY NetAssumption, FdAssumption

LEMMA MessageType ==
  ASSUME NEW c \in Clients, NEW bodylen \in Nat, NEW at \in Nat
  PROVE  Message(c, bodylen, at) \in Seq(Nat)
<1> DEFINE len == MSG_HEADER_LEN + bodylen
           head == <<1, len % 256, (len \div 256) % 256, len \div 65536>>
           zeros == [i \in 1..(MSG_HEADER_LEN - 4) |-> 0]
           body == [i \in 1..bodylen |-> 100 * c + at + MSG_HEADER_LEN + i]
<1>1. /\ len \in Nat /\ MSG_HEADER_LEN \in Nat /\ MSG_HEADER_LEN - 4 \in Nat /\ c \in Nat
  BY Numbers
<1>2. head \in Seq(Nat)
  <2>1. len \div 65536 \in Nat /\ (len \div 256) % 256 \in Nat /\ len % 256 \in Nat
    BY <1>1, SMTT(30)
  <2> HIDE DEF len
  <2> QED
    BY <2>1
<1>3. zeros \in Seq(Nat)
  BY <1>1
<1>4. body \in Seq(Nat)
  <2>1. \A i \in 1..bodylen : 100 * c + at + MSG_HEADER_LEN + i \in Nat
    BY <1>1
  <2> QED
    BY <2>1
<1>5. Message(c, bodylen, at) = (head \o zeros) \o body
  BY DEF Message
<1> HIDE DEF head, zeros, body
<1> QED
  BY <1>2, <1>3, <1>4, <1>5, ConcatProperties

LEMMA ClearedIs ==
  /\ ClearedTransc \in Transc
  /\ ClearedTransc.is_recv_header = FALSE /\ ClearedTransc.is_recv_body = FALSE
  /\ ClearedTransc.is_send_header = FALSE /\ ClearedTransc.is_send_body = FALSE
  /\ ClearedTransc.recv_bytes = 0 /\ ClearedTransc.send_bytes = 0
  /\ ClearedTransc.read_body_buf = <<>>
  BY Numbers DEF ClearedTransc, Transc, Zeros

(* The record after a read of the header, a part of the body, and after a  *)
(* write of either.                                                        *)
LEMMA HeaderReadIs ==
  ASSUME NEW t \in Transc, NEW data \in Seq(Nat)
  PROVE  /\ HeaderRead(t, data) \in Transc
         /\ HeaderRead(t, data).is_recv_header = t.is_recv_header
         /\ HeaderRead(t, data).is_recv_body = t.is_recv_body
         /\ HeaderRead(t, data).is_send_header = t.is_send_header
         /\ HeaderRead(t, data).is_send_body = t.is_send_body
         /\ HeaderRead(t, data).recv_bytes = t.recv_bytes + Len(data)
         /\ HeaderRead(t, data).send_bytes = t.send_bytes
         /\ HeaderRead(t, data).read_body_buf = t.read_body_buf
         /\ \A i \in 1..MSG_HEADER_LEN :
              HeaderRead(t, data).read_hdr_buf[i]
                = IF i - t.recv_bytes \in 1..Len(data) THEN data[i - t.recv_bytes] ELSE 0
<1> DEFINE hdr == [i \in 1..MSG_HEADER_LEN |->
                     IF i - t.recv_bytes \in DOMAIN data THEN data[i - t.recv_bytes] ELSE 0]
<1>1. Len(data) \in Nat /\ DOMAIN data = 1..Len(data) /\ \A i \in 1..Len(data) : data[i] \in Nat
  BY LenProperties, ElementOfSeq
<1>2. hdr \in [1..MSG_HEADER_LEN -> Nat]
  BY <1>1
<1>3. \A i \in 1..MSG_HEADER_LEN :
        hdr[i] = IF i - t.recv_bytes \in 1..Len(data) THEN data[i - t.recv_bytes] ELSE 0
  BY <1>1
<1>4. t.recv_bytes + Len(data) \in Nat
  BY <1>1 DEF Transc
<1>5. HeaderRead(t, data) = [t EXCEPT !.recv_bytes = t.recv_bytes + Len(data), !.read_hdr_buf = hdr]
  BY DEF HeaderRead
<1> HIDE DEF hdr
<1> QED
  BY <1>2, <1>3, <1>4, <1>5 DEF Transc

LEMMA BodyReadIs ==
  ASSUME NEW t \in Transc, NEW data \in Seq(Nat)
  PROVE  /\ BodyRead(t, data) \in Transc
         /\ BodyRead(t, data).is_recv_header = t.is_recv_header
         /\ BodyRead(t, data).is_recv_body = (t.recv_bytes + Len(data) = t.length)
         /\ BodyRead(t, data).is_send_header = t.is_send_header
         /\ BodyRead(t, data).is_send_body = t.is_send_body
         /\ BodyRead(t, data).length = t.length
         /\ BodyRead(t, data).recv_bytes = t.recv_bytes + Len(data)
         /\ BodyRead(t, data).send_bytes = t.send_bytes
         /\ BodyRead(t, data).read_hdr_buf = t.read_hdr_buf
         /\ BodyRead(t, data).read_body_buf = t.read_body_buf \o data
<1> DEFINE full == (t.recv_bytes + Len(data) = t.length)
           body == t.read_body_buf \o data
           sum == t.recv_bytes + Len(data)
<1>1. Len(data) \in Nat
  BY LenProperties
<1>2. full \in BOOLEAN /\ body \in Seq(Nat) /\ sum \in Nat
  BY <1>1, ConcatProperties DEF Transc
<1>3. BodyRead(t, data) = [t EXCEPT !.recv_bytes = sum, !.read_body_buf = body, !.is_recv_body = full]
  BY DEF BodyRead
<1> HIDE DEF full, body, sum
<1>4. /\ BodyRead(t, data) \in Transc
      /\ BodyRead(t, data).is_recv_header = t.is_recv_header
      /\ BodyRead(t, data).is_recv_body = full
      /\ BodyRead(t, data).is_send_header = t.is_send_header
      /\ BodyRead(t, data).is_send_body = t.is_send_body
      /\ BodyRead(t, data).length = t.length
      /\ BodyRead(t, data).recv_bytes = sum
      /\ BodyRead(t, data).send_bytes = t.send_bytes
      /\ BodyRead(t, data).read_hdr_buf = t.read_hdr_buf
      /\ BodyRead(t, data).read_body_buf = body
  BY <1>2, <1>3 DEF Transc
<1> QED
  BY <1>4 DEF full, body, sum
LEMMA HeaderSentIs ==
  ASSUME NEW t \in Transc, NEW n \in Nat, n <= t.recv_bytes
  PROVE  /\ HeaderSent(t, n) \in Transc
         /\ HeaderSent(t, n).is_recv_header = t.is_recv_header
         /\ HeaderSent(t, n).is_recv_body = t.is_recv_body
         /\ HeaderSent(t, n).is_send_body = t.is_send_body
         /\ HeaderSent(t, n).length = t.length
         /\ HeaderSent(t, n).send_bytes = t.send_bytes + n
         /\ HeaderSent(t, n).read_hdr_buf = t.read_hdr_buf
         /\ HeaderSent(t, n).read_body_buf = t.read_body_buf
         /\ t.send_bytes + n = MSG_HEADER_LEN =>
              HeaderSent(t, n).is_send_header /\ HeaderSent(t, n).recv_bytes = t.recv_bytes - n
         /\ t.send_bytes + n # MSG_HEADER_LEN =>
              /\ HeaderSent(t, n).is_send_header = t.is_send_header
              /\ HeaderSent(t, n).recv_bytes = t.recv_bytes
<1>1. /\ t.recv_bytes - n \in Nat /\ t.send_bytes + n \in Nat
  BY DEF Transc
<1>2. CASE t.send_bytes + n = MSG_HEADER_LEN
  <2>1. HeaderSent(t, n) = [t EXCEPT !.send_bytes = MSG_HEADER_LEN, !.is_send_header = TRUE,
                                     !.recv_bytes = t.recv_bytes - n]
    BY <1>2 DEF HeaderSent
  <2> QED
    BY <1>1, <1>2, <2>1 DEF Transc
<1>3. CASE t.send_bytes + n # MSG_HEADER_LEN
  <2>1. HeaderSent(t, n) = [t EXCEPT !.send_bytes = t.send_bytes + n]
    BY <1>3 DEF HeaderSent
  <2> QED
    BY <1>1, <1>3, <2>1 DEF Transc
<1> QED
  BY <1>2, <1>3

LEMMA BodySentIs ==
  ASSUME NEW t \in Transc, NEW n \in Nat, n <= t.recv_bytes
  PROVE  /\ BodySent(t, n) \in Transc
         /\ BodySent(t, n).is_recv_header = t.is_recv_header
         /\ BodySent(t, n).is_recv_body = t.is_recv_body
         /\ BodySent(t, n).is_send_header = t.is_send_header
         /\ BodySent(t, n).is_send_body = (t.recv_bytes - n = 0)
         /\ BodySent(t, n).length = t.length
         /\ BodySent(t, n).recv_bytes = t.recv_bytes - n
         /\ BodySent(t, n).send_bytes = t.send_bytes + n
         /\ BodySent(t, n).read_hdr_buf = t.read_hdr_buf
         /\ BodySent(t, n).read_body_buf = t.read_body_buf
<1> DEFINE left == t.recv_bytes - n
           done == (t.recv_bytes - n = 0)
           more == t.send_bytes + n
<1>1. left \in Nat /\ done \in BOOLEAN /\ more \in Nat
  BY DEF Transc
<1>2. BodySent(t, n) = [t EXCEPT !.recv_bytes = left, !.send_bytes = more, !.is_send_body = done]
  BY DEF BodySent
<1> HIDE DEF left, done, more
<1>3. /\ BodySent(t, n) \in Transc
      /\ BodySent(t, n).is_recv_header = t.is_recv_header
      /\ BodySent(t, n).is_recv_body = t.is_recv_body
      /\ BodySent(t, n).is_send_header = t.is_send_header
      /\ BodySent(t, n).is_send_body = done
      /\ BodySent(t, n).length = t.length
      /\ BodySent(t, n).recv_bytes = left
      /\ BodySent(t, n).send_bytes = more
      /\ BodySent(t, n).read_hdr_buf = t.read_hdr_buf
      /\ BodySent(t, n).read_body_buf = t.read_body_buf
  BY <1>1, <1>2 DEF Transc
<1> QED
  BY <1>3 DEF left, done, more

(* A part of a sequence, and a sequence with another behind it.            *)
LEMMA PartIs ==
  ASSUME NEW s \in Seq(Nat), NEW m \in Nat, NEW n \in Nat, m + n <= Len(s)
  PROVE  /\ SubSeq(s, m + 1, m + n) \in Seq(Nat)
         /\ Len(SubSeq(s, m + 1, m + n)) = n
         /\ \A i \in 1..n : SubSeq(s, m + 1, m + n)[i] = s[m + i]
<1>1. Len(s) \in Nat /\ m + 1 \in Int /\ m + n \in Int
  BY LenProperties
<1>2. \A i \in (m + 1)..(m + n) : s[i] \in Nat
  BY <1>1, ElementOfSeq
<1>3. /\ SubSeq(s, m + 1, m + n) \in Seq(Nat)
      /\ Len(SubSeq(s, m + 1, m + n)) = IF m + 1 <= m + n THEN (m + n) - (m + 1) + 1 ELSE 0
      /\ \A i \in 1..((m + n) - (m + 1) + 1) : SubSeq(s, m + 1, m + n)[i] = s[(m + 1) + i - 1]
  BY <1>1, <1>2, SubSeqProperties
<1>4. /\ (m + n) - (m + 1) + 1 = n
      /\ m + 1 <= m + n <=> n > 0
  OBVIOUS
<1>5. \A i \in 1..n : (m + 1) + i - 1 = m + i
  OBVIOUS
<1>6. \A i \in 1..n : SubSeq(s, m + 1, m + n)[i] = s[m + i]
  BY <1>3, <1>4, <1>5
<1>7. Len(SubSeq(s, m + 1, m + n)) = n
  BY <1>3, <1>4
<1> QED
  BY <1>3, <1>6, <1>7

LEMMA BehindIs ==
  ASSUME NEW s \in Seq(Nat), NEW t \in Seq(Nat)
  PROVE  /\ s \o t \in Seq(Nat) /\ Len(s) \in Nat /\ Len(t) \in Nat
         /\ Len(s \o t) = Len(s) + Len(t)
         /\ \A i \in 1..Len(s) : (s \o t)[i] = s[i]
         /\ \A i \in 1..Len(t) : (s \o t)[Len(s) + i] = t[i]
<1>1. Len(s) \in Nat /\ Len(t) \in Nat
  BY LenProperties
<1>2. /\ s \o t \in Seq(Nat) /\ Len(s \o t) = Len(s) + Len(t)
      /\ \A i \in 1..(Len(s) + Len(t)) :
           (s \o t)[i] = IF i <= Len(s) THEN s[i] ELSE t[i - Len(s)]
  BY ConcatProperties
<1>3. \A i \in 1..Len(s) : i \in 1..(Len(s) + Len(t)) /\ i <= Len(s)
  BY <1>1
<1>4. \A i \in 1..Len(t) : /\ Len(s) + i \in 1..(Len(s) + Len(t))
                           /\ ~(Len(s) + i <= Len(s)) /\ (Len(s) + i) - Len(s) = i
  BY <1>1
<1> QED
  BY <1>1, <1>2, <1>3, <1>4

(* The first n bytes of what is about to be written.                       *)
LEMMA FirstBytes ==
  ASSUME NEW m \in Nat, NEW b \in [1..m -> Nat], NEW n \in Nat, n <= m
  PROVE  /\ SubSeq(b, 1, n) \in Seq(Nat)
         /\ Len(SubSeq(b, 1, n)) = n
         /\ \A i \in 1..n : SubSeq(b, 1, n)[i] = b[i]
<1>1. b \in Seq(Nat) /\ Len(b) = m
  OBVIOUS
<1>2. 0 + n <= Len(b) /\ 0 + 1 = 1 /\ 0 + n = n
  BY <1>1
<1>3. /\ SubSeq(b, 0 + 1, 0 + n) \in Seq(Nat)
      /\ Len(SubSeq(b, 0 + 1, 0 + n)) = n
      /\ \A i \in 1..n : SubSeq(b, 0 + 1, 0 + n)[i] = b[0 + i]
  BY <1>1, <1>2, PartIs
<1> QED
  BY <1>2, <1>3

LEMMA HeaderBufferIs ==
  ASSUME NEW t \in Transc
  PROVE  /\ HeaderBuffer(t) \in [1..MSG_HEADER_LEN -> Nat]
         /\ t.send_bytes = 0 => \A i \in 1..MSG_HEADER_LEN : HeaderBuffer(t)[i] = t.read_hdr_buf[i]
  BY Numbers DEF HeaderBuffer, Transc

(* What is written of a body.  Only the first write takes its bytes from   *)
(* the right place.                                                        *)
LEMMA BodyBufferIs ==
  ASSUME NEW t \in Transc, t.length > MSG_HEADER_LEN, t.send_bytes >= MSG_HEADER_LEN,
         Len(t.read_body_buf) = t.length - MSG_HEADER_LEN
  PROVE  /\ BodyBuffer(t) \in [1..t.recv_bytes -> Nat]
         /\ t.send_bytes = MSG_HEADER_LEN /\ t.recv_bytes <= Len(t.read_body_buf) =>
              \A i \in 1..t.recv_bytes : BodyBuffer(t)[i] = t.read_body_buf[i]
<1> DEFINE index == t.send_bytes - MSG_HEADER_LEN
           copied == IF index = 0 THEN t.length - MSG_HEADER_LEN
                     ELSE t.length - MSG_HEADER_LEN - t.send_bytes
           e(i) == IF i > index /\ i <= index + copied THEN t.read_body_buf[i] ELSE 0
<1>1. /\ index \in Nat /\ t.length \in Int /\ t.send_bytes \in Nat /\ t.recv_bytes \in Nat
      /\ t.read_body_buf \in Seq(Nat) /\ MSG_HEADER_LEN \in Nat
  BY Numbers DEF Transc
<1>2. index + copied <= t.length - MSG_HEADER_LEN /\ copied \in Int
  BY <1>1
<1>3. BodyBuffer(t) = [i \in 1..t.recv_bytes |-> e(i)]
  BY DEF BodyBuffer
<1> HIDE DEF index, copied
<1>4. ASSUME NEW i \in 1..t.recv_bytes PROVE e(i) \in Nat
  <2>1. CASE i > index /\ i <= index + copied
    <3>1. i \in 1..Len(t.read_body_buf)
      BY <1>1, <1>2, <2>1
    <3> QED
      BY <1>1, <2>1, <3>1, ElementOfSeq
  <2> QED
    BY <2>1
<1>5. ASSUME t.send_bytes = MSG_HEADER_LEN, t.recv_bytes <= Len(t.read_body_buf),
             NEW i \in 1..t.recv_bytes
      PROVE  e(i) = t.read_body_buf[i]
  <2>1. index = 0 /\ copied = t.length - MSG_HEADER_LEN
    BY <1>1, <1>5 DEF index, copied
  <2> QED
    BY <1>1, <1>5, <2>1
<1> QED
  BY <1>3, <1>4, <1>5

-----------------------------------------------------------------------------
(* The types, counters, phases and the order of the clients are kept.      *)

LEMMA InitSInv == Init => SInv
<1> SUFFICES ASSUME Init PROVE SInv
  OBVIOUS
<1>1. NetTyped /\ ClientTyped
  BY ClientAssumption, EmptySeq
     DEF Init, NetInit, ClientInit, NetTyped, ClientTyped, ConnStates, PeerStates, ClientStates
<1>2. ServerTyped
  <2>1. transc \in Transc
    BY ClearedIs DEF Init, ServerInit
  <2>2. fdfree \in Nat /\ fdfree <= FdRoom /\ destroys \in Nat
    BY Numbers DEF Init, ServerInit
  <2>3. spc \in ServerStates /\ cur \in Clients \union {0} /\ stale \subseteq Clients
    BY DEF Init, ServerInit, ServerStates
  <2>4. /\ listen \in {"none", "open", "closed"} /\ dpc \in {"watch", "mark", "left"}
        /\ is_finish \in BOOLEAN /\ is_error \in BOOLEAN /\ resumed \in BOOLEAN
    BY Zenon DEF Init, ServerInit
  <2> QED
    BY <2>1, <2>2, <2>3, <2>4 DEF ServerTyped
<1>3. Counters
  BY ClearedIs, Numbers DEF Init, ServerInit, Counters
<1>4. Phases
  BY DEF Init, ServerInit, Phases, InService
<1>5. Order
  BY DEF Init, ServerInit, NetInit, ClientInit, Order
<1> QED
  BY <1>1, <1>2, <1>3, <1>4, <1>5 DEF SInv

(* Steps of the clients and of the network.                                *)
LEMMA ClientKeeps ==
  ASSUME SInv, NEW c \in Clients, UNCHANGED servervars,
         UNCHANGED <<taken, down>>, NetTyped', ClientTyped',
         \A d \in Clients : (cpc[d] = "start" <=> cpc'[d] = "start") /\ conn'[d] = conn[d]
  PROVE  SInv'
<1>1. ServerTyped'
  BY DEF SInv, ServerTyped, servervars, flagvars
<1>2. Counters'
  BY DEF SInv, Counters, servervars
<1>3. cur # 0 => cur \in Clients
  BY DEF SInv, ServerTyped
<1>4. Phases'
  BY <1>3 DEF SInv, Phases, servervars
<1>5. Order'
  BY <1>3 DEF SInv, Order, Later, servervars
<1> QED
  BY <1>1, <1>2, <1>4, <1>5 DEF SInv

LEMMA ConnectKeeps ==
  ASSUME SInv, NEW c \in Clients, NEW listening \in BOOLEAN, Connect(c, listening),
         UNCHANGED servervars
  PROVE  SInv'
<1>1. cur # 0 => cur \in Clients /\ cur # c
  BY DEF SInv, ServerTyped, Order, Connect
<1>2. \A d \in Clients : d # c => conn'[d] = conn[d] /\ cpc'[d] = cpc[d]
  BY DEF SInv, NetTyped, ClientTyped, Connect
<1>3. /\ cpc[c] = "start" /\ cpc'[c] # "start" /\ conn'[c] \in {"none", "waiting"}
      /\ conn[c] = "none" /\ \A d \in Clients : d < c => cpc[d] # "start"
  BY DEF SInv, NetTyped, ClientTyped, Connect, Order
<1>4. NetTyped' /\ ClientTyped'
  BY DEF SInv, NetTyped, ClientTyped, Connect, ConnStates, ClientStates
<1>5. ServerTyped'
  BY DEF SInv, ServerTyped, servervars, flagvars
<1>6. Counters'
  BY DEF SInv, Counters, servervars
<1>7. Phases'
  BY <1>1, <1>2 DEF SInv, Phases, servervars
<1>8. Order'
  <2>1. UNCHANGED <<taken, down, cur>>
    BY DEF Connect, servervars
  <2>2. \A d, e \in Clients : cpc'[d] # "start" /\ cpc'[e] = "start" => d < e
    <3> TAKE d, e \in Clients
    <3> HAVE cpc'[d] # "start" /\ cpc'[e] = "start"
    <3>1. e # c /\ cpc[e] = "start"
      BY <1>2, <1>3
    <3>2. CASE d = c
      BY <1>3, <3>1, <3>2, Numbers
    <3>3. CASE d # c
      BY <1>2, <3>1, <3>3 DEF SInv, Order
    <3> QED
      BY <3>2, <3>3
  <2>3. \A d \in Clients : Later(d)' => Later(d)
    BY <1>2, <1>3 DEF Later
  <2>4. \A d \in Clients : cpc'[d] = "start" => conn'[d] = "none"
    BY <1>2, <1>3 DEF SInv, Order
  <2>5. \A d \in Clients : conn'[d] \in {"none", "waiting"} => taken[d] = 0 /\ down[d] = <<>>
    BY <1>2, <1>3 DEF SInv, Order
  <2>6. cur # 0 => conn'[cur] \notin {"none", "waiting"}
    BY <1>1, <1>2 DEF SInv, Order
  <2> QED
    BY <2>1, <2>2, <2>3, <2>4, <2>5, <2>6 DEF SInv, Order
<1> QED
  BY <1>4, <1>5, <1>6, <1>7, <1>8 DEF SInv

LEMMA PeersKeep ==
  ASSUME SInv, NEW c \in Clients, UNCHANGED servervars,
         \/ ~Over /\ Connect(c, listen = "open")
         \/ \E bodylen \in BodyLens : Request(c, bodylen)
         \/ ClientKilled(c) \/ Network(c)
  PROVE  SInv'
<1> USE DEF ConnStates, PeerStates, ClientStates
<1>1. CASE Connect(c, listen = "open")
  BY <1>1, ConnectKeeps
<1>2. CASE \E bodylen \in BodyLens : Request(c, bodylen)
  <2>1. PICK bodylen \in BodyLens : Request(c, bodylen)
    BY <1>2
  <2> DEFINE m == Message(c, bodylen, Len(up[c]))
  <2>2. /\ bodylen \in Nat /\ up[c] \in Seq(Nat) /\ Len(up[c]) \in Nat
        /\ up \in [Clients -> Seq(Nat)]
    BY ClientAssumption, LenProperties DEF SInv, NetTyped
  <2>3. m \in Seq(Nat)
    BY <2>2, MessageType
  <2>4. up' = [up EXCEPT ![c] = up[c] \o m] \/ up' = up
    BY <2>1 DEF Request
  <2> HIDE DEF m
  <2>5. up' \in [Clients -> Seq(Nat)] /\ \A d \in Clients : Len(up'[d]) >= Len(up[d])
    <3>1. up[c] \o m \in Seq(Nat) /\ Len(up[c] \o m) >= Len(up[c])
      BY <2>2, <2>3, BehindIs
    <3>2. \A d \in Clients : Len(up[d]) \in Nat
      BY <2>2, LenProperties
    <3>3. CASE up' = up
      BY <2>2, <3>2, <3>3
    <3>4. CASE up' = [up EXCEPT ![c] = up[c] \o m]
      <4>1. up' \in [Clients -> Seq(Nat)] /\ up'[c] = up[c] \o m
        BY <2>2, <3>1, <3>4
      <4>2. \A d \in Clients : d # c => up'[d] = up[d]
        BY <2>2, <3>4
      <4>3. ASSUME NEW d \in Clients PROVE Len(up'[d]) >= Len(up[d])
        <5>1. CASE d = c
          BY <3>1, <4>1, <5>1
        <5>2. CASE d # c
          BY <3>2, <4>2, <5>2
        <5> QED
          BY <5>1, <5>2
      <4> QED
        BY <4>1, <4>3
    <3> QED
      BY <2>4, <3>3, <3>4
  <2>6. NetTyped'
    <3>1. UNCHANGED <<taken, down, got, conn, peer>>
      BY <2>1 DEF Request
    <3>2. \A d \in Clients : taken[d] <= Len(up'[d])
      <4>1. \A d \in Clients : Len(up[d]) \in Nat /\ Len(up'[d]) \in Nat /\ taken[d] \in Nat
        BY <2>2, <2>5, LenProperties DEF SInv, NetTyped
      <4> QED
        BY <2>5, <4>1 DEF SInv, NetTyped
    <3> QED
      BY <2>5, <3>1, <3>2 DEF SInv, NetTyped
  <2>7. ClientTyped' /\ \A d \in Clients : cpc[d] = "start" <=> cpc'[d] = "start"
    <3>1. requests' \in 0..MaxRequests
      BY <2>1, ClientAssumption DEF SInv, ClientTyped, Request
    <3>2. cpc' \in [Clients -> ClientStates] /\ \A d \in Clients : cpc[d] = "start" <=> cpc'[d] = "start"
      BY <2>1 DEF SInv, ClientTyped, Request
    <3> QED
      BY <3>1, <3>2 DEF ClientTyped
  <2> QED
    BY <2>1, <2>6, <2>7, ClientKeeps DEF Request
<1>3. CASE ClientKilled(c)
  <2>1. NetTyped' /\ ClientTyped' /\ \A d \in Clients : cpc[d] = "start" <=> cpc'[d] = "start"
    BY <1>3 DEF SInv, NetTyped, ClientTyped, ClientKilled
  <2> QED
    BY <1>3, <2>1, ClientKeeps DEF ClientKilled
<1>4. CASE ReadAnswer(c)
  <2>1. ClientTyped' /\ \A d \in Clients : cpc[d] = "start" <=> cpc'[d] = "start"
    BY <1>4 DEF SInv, ClientTyped, ReadAnswer
  <2>2. NetTyped'
    <3>1. CASE got' = got
      BY <1>4, <3>1 DEF SInv, NetTyped, ReadAnswer
    <3>2. ASSUME NEW n \in 1..Lesser(UnreadDown(c), BUF_MAX_LEN),
                 got' = [got EXCEPT ![c] = got[c] + n]
          PROVE  NetTyped'
      <4>1. Len(down[c]) \in Nat /\ got[c] \in Nat /\ BUF_MAX_LEN \in Int
        BY ClientAssumption, LenProperties DEF SInv, NetTyped
      <4>2. UnreadDown(c) \in Int /\ UnreadDown(c) = Len(down[c]) - got[c]
        BY <4>1 DEF UnreadDown
      <4>3. n \in Nat /\ n <= UnreadDown(c)
        <5> DEFINE most == Lesser(UnreadDown(c), BUF_MAX_LEN)
        <5>1. most \in Int /\ most <= UnreadDown(c)
          BY <4>1, <4>2, LesserIs
        <5> HIDE DEF most
        <5>2. n \in 1..most
          BY DEF most
        <5> QED
          BY <4>2, <5>1, <5>2
      <4>4. got[c] + n \in Nat /\ got[c] + n <= Len(down[c])
        BY <4>1, <4>2, <4>3
      <4> QED
        BY <1>4, <3>2, <4>4 DEF SInv, NetTyped, ReadAnswer
    <3> QED
      BY <1>4, <3>1, <3>2 DEF ReadAnswer
  <2> QED
    BY <1>4, <2>1, <2>2, ClientKeeps DEF ReadAnswer
<1>5. CASE ResetArrives(c)
  <2>1. NetTyped' /\ ClientTyped'
    BY <1>5 DEF SInv, NetTyped, ClientTyped, ResetArrives, clientvars
  <2> QED
    BY <1>5, <2>1, ClientKeeps DEF ResetArrives, clientvars
<1> QED
  BY <1>1, <1>2, <1>3, <1>4, <1>5 DEF Network

(* The end of the process, and of the listening socket.                    *)
LEMMA EndKeeps ==
  ASSUME SInv, NEW how \in {"exited", "killed"}, ProcessEnds(how),
         is_error' \in BOOLEAN, destroys' \in Nat, UNCHANGED clientvars
  PROVE  SInv'
<1>1. NetTyped' /\ ClientTyped'
  BY DEF SInv, NetTyped, ClientTyped, ProcessEnds, ShutAll, ConnStates, clientvars
<1>2. ServerTyped'
  BY ClearedIs, Numbers DEF SInv, ServerTyped, ProcessEnds, ServerStates
<1>3. Counters'
  BY ClearedIs, Numbers DEF Counters, ProcessEnds
<1>4. Phases'
  BY DEF Phases, InService, ProcessEnds
<1>5. \A c \in Clients : /\ conn[c] = "none" => conn'[c] = "none"
                         /\ conn'[c] \in {"none", "waiting"} => conn[c] \in {"none", "waiting"}
  BY DEF SInv, NetTyped, ConnStates, ProcessEnds, ShutAll
<1>6. Order'
  BY <1>5 DEF SInv, Order, ProcessEnds, clientvars
<1> QED
  BY <1>1, <1>2, <1>3, <1>4, <1>6 DEF SInv

LEMMA DetectKeeps ==
  ASSUME SInv, Detect, UNCHANGED clientvars
  PROVE  SInv'
<1>1. /\ conn' \in [Clients -> ConnStates]
      /\ \A c \in Clients :
           /\ conn[c] # "waiting" => conn'[c] = conn[c]
           /\ conn'[c] \in {"none", "waiting"} => conn'[c] = conn[c]
  BY DEF SInv, NetTyped, Detect, Destroy, ShutWaiting, ConnStates
<1>2. /\ UNCHANGED <<up, taken, down, got, peer, spc, cur, transc, fdfree, stale, resumed, cpc>>
      /\ cur # 0 => cur \in Clients /\ conn'[cur] = conn[cur]
  BY <1>1 DEF SInv, ServerTyped, Order, Detect, clientvars
<1>3. NetTyped' /\ ClientTyped'
  BY <1>1, <1>2 DEF SInv, NetTyped, ClientTyped, clientvars
<1>4. ServerTyped'
  <2>1. destroys' \in Nat
    BY DEF SInv, ServerTyped, Detect, Destroy
  <2>2. is_error' \in BOOLEAN
    BY Zenon DEF SInv, ServerTyped, Detect
  <2>3. dpc' \in {"watch", "mark", "left"}
    BY DEF SInv, ServerTyped, Detect
  <2>4. listen' \in {"none", "open", "closed"} /\ is_finish' = is_finish
    BY DEF SInv, ServerTyped, Detect, Destroy
  <2> QED
    BY <1>2, <2>1, <2>2, <2>3, <2>4 DEF SInv, ServerTyped
<1>5. Counters'
  BY <1>2 DEF SInv, Counters
<1>6. Phases'
  BY <1>2 DEF SInv, Phases
<1>7. \A c \in Clients : Later(c)' => Later(c)
  BY <1>1, <1>2 DEF Later
<1>8. Order'
  <2>1. \A c \in Clients : cpc[c] = "start" => conn'[c] = "none"
    BY <1>1 DEF SInv, Order
  <2>2. \A c \in Clients : conn'[c] \in {"none", "waiting"} => taken[c] = 0 /\ down[c] = <<>>
    BY <1>1 DEF SInv, Order
  <2> QED
    BY <1>2, <1>7, <2>1, <2>2 DEF SInv, Order
<1> QED
  BY <1>3, <1>4, <1>5, <1>6, <1>8 DEF SInv

(* A step of main that leaves the sockets alone and, between two clients,  *)
(* the transc_t too.                                                       *)
LEMMA FlowKeeps ==
  ASSUME SInv, UNCHANGED <<up, taken, down, got, conn, clientvars, transc, fdfree, stale, resumed>>,
         peer' \in [Clients -> PeerStates],
         spc' \in ServerStates, cur' \in {0, cur},
         listen' \in {"none", "open", "closed"}, is_finish' \in BOOLEAN, is_error' \in BOOLEAN,
         dpc' \in {"watch", "mark", "left"}, destroys' \in Nat,
         cur' # 0 <=> spc' \in InService,
         cur' # 0 => Phases'
  PROVE  SInv'
<1>1. NetTyped' /\ ClientTyped'
  BY DEF SInv, NetTyped, ClientTyped, clientvars
<1>2. ServerTyped'
  BY DEF SInv, ServerTyped
<1>3. Counters'
  BY DEF SInv, Counters
<1>4. Phases'
  BY DEF Phases, InService
<1>5. Order'
  BY DEF SInv, Order, Later, clientvars
<1> QED
  BY <1>1, <1>2, <1>3, <1>4, <1>5 DEF SInv

(* A step of main for the client that it serves.                           *)
LEMMA ServeKeeps ==
  ASSUME SInv, cur # 0, UNCHANGED <<up, got, cur, stale, listen, flagvars, clientvars>>,
         taken' \in [Clients -> Nat], down' \in [Clients -> Seq(Nat)],
         conn' \in [Clients -> ConnStates], peer' \in [Clients -> PeerStates],
         taken'[cur] <= Len(up[cur]), got[cur] <= Len(down'[cur]),
         \A c \in Clients : c # cur =>
           taken'[c] = taken[c] /\ down'[c] = down[c] /\ conn'[c] = conn[c],
         conn'[cur] \notin {"none", "waiting"},
         spc' \in InService, transc' \in Transc, Counters', Phases',
         fdfree' \in Nat, fdfree' <= FdRoom, resumed' \in BOOLEAN
  PROVE  SInv'
<1>0. cur \in Clients
  BY DEF SInv, ServerTyped
<1>1. NetTyped' /\ ClientTyped'
  BY <1>0 DEF SInv, NetTyped, ClientTyped, clientvars
<1>2. ServerTyped'
  BY DEF SInv, ServerTyped, flagvars, InService, ServerStates
<1>3. \A c \in Clients : Later(c)' => Later(c)
  BY DEF Later, clientvars
<1>4. Order'
  <2>1. cpc[cur] # "start"
    BY <1>0 DEF SInv, Order
  <2>2. \A c \in Clients : cpc[c] = "start" => conn'[c] = "none"
    BY <2>1 DEF SInv, Order
  <2>3. \A c \in Clients : conn'[c] \in {"none", "waiting"} => taken'[c] = 0 /\ down'[c] = <<>>
    BY DEF SInv, Order
  <2> QED
    BY <1>3, <2>2, <2>3 DEF SInv, Order, clientvars
<1> QED
  BY <1>1, <1>2, <1>4 DEF SInv

(* What is known of the client served.                                     *)
LEMMA Served ==
  ASSUME SInv, spc \in InService
  PROVE  /\ cur \in Clients /\ cur # 0
         /\ up[cur] \in Seq(Nat) /\ down[cur] \in Seq(Nat)
         /\ Len(up[cur]) \in Nat /\ Len(down[cur]) \in Nat
         /\ taken[cur] \in Nat /\ got[cur] \in Nat
         /\ taken[cur] <= Len(up[cur]) /\ got[cur] <= Len(down[cur])
         /\ UnreadUp(cur) \in Nat /\ taken[cur] + UnreadUp(cur) = Len(up[cur])
         /\ Room(cur) \in Int
         /\ spc # "loop" => conn[cur] = "open"
<1>1. cur \in Clients /\ cur # 0
  BY DEF SInv, Phases, ServerTyped
<1>2. /\ up[cur] \in Seq(Nat) /\ down[cur] \in Seq(Nat)
      /\ taken[cur] \in Nat /\ got[cur] \in Nat
      /\ taken[cur] <= Len(up[cur]) /\ got[cur] <= Len(down[cur])
  BY <1>1 DEF SInv, NetTyped
<1>3. Len(up[cur]) \in Nat /\ Len(down[cur]) \in Nat
  BY <1>2, LenProperties
<1>4. UnreadUp(cur) \in Nat /\ taken[cur] + UnreadUp(cur) = Len(up[cur])
  BY <1>2, <1>3 DEF UnreadUp
<1>5. Room(cur) \in Int
  BY <1>2, <1>3, Numbers DEF Room, UnreadDown
<1> QED
  BY <1>1, <1>2, <1>3, <1>4, <1>5 DEF SInv, Phases

LEMMA FlowSteps ==
  ASSUME SInv, UNCHANGED clientvars,
         Listen \/ Interrupt \/ CheckServer \/ AcceptFails \/ EpollFails \/ EpollWait
  PROVE  SInv'
<1>0. peer \in [Clients -> PeerStates] /\ ServerTyped /\ Phases
  BY DEF SInv, NetTyped
<1>1. CASE Listen
  <2>1. cur = 0 /\ cur' = 0 /\ spc' = "check"
    BY <1>0, <1>1 DEF Listen, Phases, InService
  <2> QED
    BY <1>0, <1>1, <2>1, FlowKeeps DEF Listen, ServerTyped, netvars, flagvars, ServerStates, InService
<1>2. CASE Interrupt
  <2>1. CASE UNCHANGED <<spc, cur>>
    <3>1. Phases'
      BY <1>0, <1>2, <2>1 DEF Interrupt, Phases, netvars
    <3> QED
      BY <1>0, <1>2, <2>1, <3>1, FlowKeeps DEF Interrupt, ServerTyped, netvars, Phases
  <2>2. CASE spc' = "check" /\ cur' = 0
    BY <1>0, <1>2, <2>2, FlowKeeps DEF Interrupt, ServerTyped, netvars, ServerStates, InService
  <2> QED
    BY <1>2, <2>1, <2>2 DEF Interrupt
<1>3. CASE CheckServer \/ AcceptFails
  <2>1. cur = 0 /\ cur' = 0 /\ spc' \in {"check", "accept", "end"}
    BY <1>0, <1>3 DEF CheckServer, AcceptFails, Phases, InService
  <2> QED
    BY <1>0, <1>3, <2>1, FlowKeeps
       DEF CheckServer, AcceptFails, ServerTyped, netvars, flagvars, ServerStates, InService
<1>4. CASE EpollFails
  BY <1>0, <1>4, FlowKeeps DEF EpollFails, ServerTyped, netvars, flagvars, ServerStates, InService
<1>5. CASE EpollWait
  <2>1. spc' \in InService /\ cur # 0 /\ cur' = cur /\ conn[cur] = "open"
    BY <1>5, Served DEF EpollWait, InService, FirstCall, around
  <2>2. Phases'
    <3>1. transc \in Transc /\ Counters /\ ~transc.is_send_body
      BY <1>0, <1>5 DEF SInv, ServerTyped, Phases, EpollWait
    <3>2. CASE spc' = "loop"
      BY <1>0, <1>5, <2>1, <3>2 DEF EpollWait, Phases, InService, netvars, around
    <3>3. CASE spc' = FirstCall(transc)
      <4>1. /\ spc' = "recv_header" => ~transc.is_recv_header
            /\ spc' = "recv_rest" => transc.is_recv_header /\ ~transc.is_recv_body
            /\ spc' = "send_header" => transc.is_recv_body /\ ~transc.is_send_header
            /\ spc' = "send_body" => transc.is_send_header
            /\ spc' \in {"recv_header", "recv_rest", "send_header", "send_body"}
        BY <3>1, <3>3 DEF FirstCall, Counters, Transc
      <4> QED
        BY <1>0, <1>5, <2>1, <3>1, <4>1 DEF EpollWait, Phases, InService, netvars, around
    <3> QED
      BY <1>5, <3>2, <3>3 DEF EpollWait
  <2> QED
    BY <1>0, <1>5, <2>1, <2>2, FlowKeeps
       DEF EpollWait, ServerTyped, netvars, around, flagvars, ServerStates, InService
<1> QED
  BY <1>1, <1>2, <1>3, <1>4, <1>5

LEMMA EndSteps ==
  ASSUME SInv, UNCHANGED clientvars, InterruptAgain \/ ListenFails \/ MainEnd
  PROVE  SInv'
<1>0. is_error \in BOOLEAN /\ destroys \in Nat /\ destroys + 1 \in Nat
  BY DEF SInv, ServerTyped
<1>1. CASE InterruptAgain
  BY <1>0, <1>1, EndKeeps DEF InterruptAgain
<1>3. CASE ListenFails
  <2>1. cur = 0 /\ cur' = 0 /\ spc' = "failed"
    BY <1>3 DEF SInv, Phases, ListenFails, InService
  <2> QED
    BY <1>0, <1>3, <2>1, FlowKeeps
       DEF SInv, NetTyped, ServerTyped, ListenFails, netvars, ServerStates, InService
<1>2. CASE MainEnd
  <2>1. CASE spc = "end"
    <3>1. cur = 0 /\ cur' = 0 /\ spc' \in {"await_error", "await_finish"}
      BY <1>2, <2>1 DEF SInv, Phases, MainEnd, EndBranch, InService
    <3>2. is_error' \in BOOLEAN
      BY <1>0, <1>2, <2>1, Zenon DEF MainEnd
    <3> QED
      BY <1>2, <2>1, <3>1, <3>2, FlowKeeps
         DEF SInv, NetTyped, ServerTyped, MainEnd, netvars, ServerStates, InService
  <2>2. CASE spc # "end"
    BY <1>0, <1>2, <2>2, EndKeeps DEF MainEnd
  <2> QED
    BY <2>1, <2>2
<1> QED
  BY <1>1, <1>2, <1>3

LEMMA AcceptKeeps ==
  ASSUME SInv, UNCHANGED clientvars, NEW c \in Clients, Accept(c)
  PROVE  SInv'
<1>1. /\ cur = 0 /\ conn[c] = "waiting" /\ \A d \in Clients : d < c => conn[d] # "waiting"
      /\ fdfree \in Nat /\ fdfree > 0 /\ fdfree <= FdRoom /\ FdRoom \in Nat
      /\ conn \in [Clients -> ConnStates]
  BY Numbers DEF SInv, NetTyped, ServerTyped, Phases, InService, Accept, FirstWaiting
<1>2. /\ conn' \in [Clients -> ConnStates] /\ conn'[c] = "open"
      /\ \A d \in Clients : d # c => conn'[d] = conn[d]
  BY <1>1 DEF Accept, ConnStates
<1>3. /\ UNCHANGED <<up, taken, down, got, peer, transc, resumed, cpc>>
      /\ cur' \in {0, c}
      /\ cur' # 0 <=> spc' \in InService
      /\ cur' = c => spc' = "loop" /\ fdfree' = fdfree - 2 /\ fdfree > 1
      /\ fdfree' \in Nat /\ fdfree' <= FdRoom
  <2>1. c # 0
    BY Numbers
  <2>2. CASE fdfree = 1
    BY <1>1, <2>1, <2>2 DEF Accept, InService, clientvars
  <2>3. CASE fdfree > 1
    BY <1>1, <2>1, <2>3 DEF Accept, InService, clientvars
  <2> QED
    BY <1>1, <2>2, <2>3
<1>4. NetTyped' /\ ClientTyped'
  BY <1>2, <1>3 DEF SInv, NetTyped, ClientTyped, clientvars, Accept
<1>5. ServerTyped'
  <2>1. spc' \in ServerStates /\ stale' \subseteq Clients /\ UNCHANGED <<listen, flagvars>>
    BY DEF SInv, ServerTyped, Accept, ServerStates
  <2>2. cur' \in Clients \union {0}
    BY <1>3
  <2>3. UNCHANGED <<is_finish, is_error, dpc, destroys>>
    BY <2>1 DEF flagvars
  <2> QED
    BY <1>3, <2>1, <2>2, <2>3 DEF SInv, ServerTyped
<1>6. Counters'
  BY <1>3 DEF SInv, Counters
<1>7. Phases'
  <2>1. cur' = c => fdfree' < FdRoom
    BY <1>1, <1>3
  <2>2. spc' \in {"check", "loop"}
    BY DEF Accept
  <2> QED
    <3>1. CASE cur' = c
      BY <1>2, <1>3, <2>1, <3>1 DEF Phases, InService
    <3>2. CASE cur' = 0
      BY <1>3, <2>2, <3>2 DEF Phases, InService
    <3> QED
      BY <1>3, <3>1, <3>2
<1>8. Order'
  <2>1. \A d \in Clients : Later(d)' => Later(d) /\ d # c
    BY <1>1, <1>2, <1>3 DEF SInv, Order, Later
  <2>2. \A d \in Clients : Later(d)' => c < d
    <3> TAKE d \in Clients
    <3> HAVE Later(d)'
    <3>1. d # c /\ d \in Nat /\ c \in Nat
      BY <2>1, Numbers
    <3>2. CASE conn[d] = "waiting"
      BY <1>1, <3>1, <3>2
    <3>3. CASE cpc[d] = "start"
      BY <1>1, <3>3 DEF SInv, Order
    <3> QED
      BY <2>1, <3>2, <3>3 DEF Later
  <2>3. \A d \in Clients : cpc[d] = "start" => conn'[d] = "none"
    BY <1>1, <1>2 DEF SInv, Order
  <2>4. \A d \in Clients : conn'[d] \in {"none", "waiting"} => taken[d] = 0 /\ down[d] = <<>>
    BY <1>2 DEF SInv, Order
  <2>5. cur' # 0 => conn'[cur'] = "open" /\ cur' = c
    BY <1>2, <1>3
  <2>6. \A d, e \in Clients : cpc'[d] # "start" /\ cpc'[e] = "start" => d < e
    BY <1>3 DEF SInv, Order
  <2> QED
    BY <1>3, <2>2, <2>3, <2>4, <2>5, <2>6 DEF Order
<1> QED
  BY <1>4, <1>5, <1>6, <1>7, <1>8 DEF SInv

LEMMA LoopKeeps2 ==
  ASSUME SInv, UNCHANGED clientvars, Loop
  PROVE  SInv'
<1>1. /\ cur \in Clients /\ cur # 0 /\ peer \in [Clients -> PeerStates] /\ transc \in Transc
      /\ spc = "loop" /\ conn[cur] \notin {"none", "waiting"} /\ Counters
  BY Served DEF SInv, NetTyped, ServerTyped, Order, Loop, InService
<1>2. CASE conn[cur] # "open"
  BY <1>1, <1>2, FlowKeeps
     DEF SInv, ServerTyped, Loop, flagvars, ServerStates, InService
<1>3. CASE conn[cur] = "open"
  <2>1. /\ peer' \in [Clients -> PeerStates] /\ spc' = "wait" /\ UNCHANGED <<conn, cur>>
        /\ UNCHANGED <<up, taken, down, got, fdfree, listen, flagvars, stale, resumed>>
    BY <1>1, <1>3 DEF Loop, PeerStates
  <2>2. transc' \in Transc /\ Counters' /\ ~transc'.is_send_body
    <3>1. CASE transc.is_send_header /\ transc.is_send_body
      <4>1. transc' = ClearedTransc
        BY <1>1, <1>3, <3>1 DEF Loop, AfterMessage
      <4> QED
        BY <4>1, ClearedIs, Numbers DEF Counters
    <3>2. CASE ~(transc.is_send_header /\ transc.is_send_body)
      <4>1. transc' = transc
        BY <1>1, <1>3, <3>2 DEF Loop
      <4> QED
        BY <1>1, <3>2, <4>1 DEF Counters
    <3> QED
      BY <3>1, <3>2
  <2>3. Phases'
    BY <1>1, <1>3, <2>1, <2>2 DEF SInv, Phases, InService
  <2>4. /\ taken[cur] <= Len(up[cur]) /\ got[cur] <= Len(down[cur])
        /\ taken \in [Clients -> Nat] /\ down \in [Clients -> Seq(Nat)]
        /\ conn \in [Clients -> ConnStates] /\ fdfree \in Nat /\ fdfree <= FdRoom
        /\ resumed \in BOOLEAN /\ spc' \in InService
    BY <1>1, <2>1 DEF SInv, NetTyped, ServerTyped, InService
  <2> QED
    BY <1>1, <2>1, <2>2, <2>3, <2>4, ServeKeeps
<1> QED
  BY <1>2, <1>3

(* The effects of a read and of a close.                                   *)
LEMMA TakenBy ==
  ASSUME SInv, cur # 0, NEW n \in Nat, n <= UnreadUp(cur),
         taken' = [taken EXCEPT ![cur] = taken[cur] + n]
  PROVE  /\ taken' \in [Clients -> Nat] /\ taken'[cur] = taken[cur] + n
         /\ taken'[cur] <= Len(up[cur])
         /\ \A c \in Clients : c # cur => taken'[c] = taken[c]
<1>1. /\ cur \in Clients /\ taken \in [Clients -> Nat] /\ spc \in InService
  BY DEF SInv, NetTyped, ServerTyped, Phases
<1>2. /\ taken[cur] \in Nat /\ UnreadUp(cur) \in Nat
      /\ taken[cur] + UnreadUp(cur) = Len(up[cur])
  BY <1>1, Served
<1>3. taken[cur] + n \in Nat /\ taken[cur] + n <= Len(up[cur])
  BY <1>2
<1> QED
  BY <1>1, <1>3

LEMMA ClosedBy ==
  ASSUME SInv, spc \in InService, spc # "loop", NEW n \in Nat, CloseClient(n)
  PROVE  /\ conn' \in [Clients -> ConnStates] /\ conn'[cur] \in {"reset", "closed"}
         /\ \A c \in Clients : c # cur => conn'[c] = conn[c]
         /\ fdfree' \in Nat /\ fdfree' <= FdRoom /\ spc' = "loop"
         /\ UNCHANGED <<up, down, got, peer, cur, listen, flagvars, stale, resumed>>
<1>1. /\ cur \in Clients /\ cur # 0 /\ conn[cur] = "open" /\ conn \in [Clients -> ConnStates]
      /\ fdfree \in Nat /\ fdfree < FdRoom /\ FdRoom \in Nat
  BY Served, Numbers DEF SInv, NetTyped, ServerTyped, Phases
<1>2. /\ conn' \in [Clients -> ConnStates] /\ conn'[cur] \in {"reset", "closed"}
      /\ \A c \in Clients : c # cur => conn'[c] = conn[c]
  BY <1>1 DEF CloseClient, ConnStates
<1> QED
  BY <1>1, <1>2 DEF CloseClient

(* After a close main is at the start of its loop.                         *)
LEMMA CloseKeeps ==
  ASSUME SInv, UNCHANGED clientvars, spc \in InService, spc # "loop",
         NEW n \in Nat, CloseClient(n), n <= UnreadUp(cur),
         taken' = taken \/ taken' = [taken EXCEPT ![cur] = taken[cur] + n],
         transc' \in Transc, Counters', ~transc'.is_recv_body
  PROVE  SInv'
<1>1. /\ cur # 0 /\ got[cur] <= Len(down[cur]) /\ down \in [Clients -> Seq(Nat)]
      /\ taken \in [Clients -> Nat] /\ taken[cur] <= Len(up[cur]) /\ resumed \in BOOLEAN
      /\ peer \in [Clients -> PeerStates]
  BY Served DEF SInv, NetTyped, ServerTyped
<1>2. /\ taken' \in [Clients -> Nat] /\ taken'[cur] <= Len(up[cur])
      /\ \A c \in Clients : c # cur => taken'[c] = taken[c]
  BY <1>1, TakenBy
<1>3. /\ conn' \in [Clients -> ConnStates] /\ conn'[cur] \in {"reset", "closed"}
      /\ \A c \in Clients : c # cur => conn'[c] = conn[c]
      /\ fdfree' \in Nat /\ fdfree' <= FdRoom /\ spc' = "loop"
      /\ UNCHANGED <<up, down, got, peer, cur, listen, flagvars, stale, resumed>>
  BY ClosedBy
<1>4. Phases'
  BY <1>1, <1>3 DEF Phases, InService
<1> QED
  BY <1>1, <1>2, <1>3, <1>4, ServeKeeps DEF InService

(* One read of the header (server_recv_data).                              *)
LEMMA RecvHeaderKeeps ==
  ASSUME SInv, UNCHANGED clientvars, RecvHeader
  PROVE  SInv'
<1>1. /\ spc = "recv_header" /\ spc \in InService /\ spc # "loop"
      /\ transc \in Transc /\ Counters /\ ~transc.is_recv_header
      /\ MSG_HEADER_LEN \in Nat /\ transc.recv_bytes \in Nat
      /\ transc.recv_bytes <= MSG_HEADER_LEN
  BY Numbers DEF SInv, ServerTyped, Phases, Counters, RecvHeader, InService, Transc
<1>2. CASE /\ transc' = [transc EXCEPT !.read_hdr_buf = Zeros(MSG_HEADER_LEN)]
           /\ CloseClient(0) /\ UNCHANGED taken
  <2>1. Zeros(MSG_HEADER_LEN) \in [1..MSG_HEADER_LEN -> Nat]
    BY DEF Zeros
  <2>2. transc' \in Transc /\ Counters' /\ ~transc'.is_recv_body
    BY <1>1, <1>2, <2>1 DEF Counters, Transc
  <2>3. 0 <= UnreadUp(cur)
    BY <1>1, Served
  <2> QED
    BY <1>1, <1>2, <2>2, <2>3, CloseKeeps
<1>3. ASSUME NEW n \in 1..Lesser(UnreadUp(cur), MSG_HEADER_LEN - transc.recv_bytes),
             NEW t, t = HeaderRead(transc, SubSeq(up[cur], taken[cur] + 1, taken[cur] + n)),
             taken' = [taken EXCEPT ![cur] = taken[cur] + n],
             \/ /\ t.recv_bytes = MSG_HEADER_LEN /\ MsgLength(t.read_hdr_buf) > MSG_HEADER_LEN
                /\ transc' = [t EXCEPT !.length = MsgLength(t.read_hdr_buf), !.is_recv_header = TRUE]
                /\ spc' = "recv_body"
                /\ UNCHANGED <<up, down, got, conn, peer, around, resumed>>
             \/ /\ t.recv_bytes = MSG_HEADER_LEN
                /\ transc' = [t EXCEPT !.length = MsgLength(t.read_hdr_buf)]
                /\ CloseClient(n)
             \/ transc' = t /\ CloseClient(n)
      PROVE  SInv'
  <2> DEFINE data == SubSeq(up[cur], taken[cur] + 1, taken[cur] + n)
             len == MsgLength(t.read_hdr_buf)
  <2>1. /\ cur \in Clients /\ cur # 0 /\ up[cur] \in Seq(Nat) /\ taken[cur] \in Nat
        /\ UnreadUp(cur) \in Nat /\ taken[cur] + UnreadUp(cur) = Len(up[cur])
        /\ conn[cur] = "open"
    BY <1>1, Served
  <2>2. n \in Nat /\ n <= UnreadUp(cur) /\ n <= MSG_HEADER_LEN - transc.recv_bytes
    <3> DEFINE a == UnreadUp(cur)
               b == MSG_HEADER_LEN - transc.recv_bytes
    <3>1. a \in Int /\ b \in Int
      BY <1>1, <2>1
    <3>2. n \in 1..Lesser(a, b)
      OBVIOUS
    <3> HIDE DEF a, b
    <3>3. n \in Nat /\ n <= a /\ n <= b
      BY <3>1, <3>2, UpTo
    <3> QED
      BY <3>3 DEF a, b
  <2>3. data \in Seq(Nat) /\ Len(data) = n
    <3>1. taken[cur] + n <= Len(up[cur])
      BY <2>1, <2>2
    <3> QED
      BY <2>1, <2>2, <3>1, PartIs
  <2>4. /\ t \in Transc /\ ~t.is_recv_header /\ ~t.is_recv_body
        /\ ~t.is_send_header /\ ~t.is_send_body
        /\ t.recv_bytes = transc.recv_bytes + n /\ t.send_bytes = 0
        /\ t.read_body_buf = <<>>
    <3> HIDE DEF data
    <3>1. t = HeaderRead(transc, data)
      BY <1>3 DEF data
    <3> QED
      BY <1>1, <2>3, <3>1, HeaderReadIs DEF Counters
  <2>5. len \in Int
    <3>1. /\ t.read_hdr_buf[1] \in Nat /\ t.read_hdr_buf[2] \in Nat
          /\ t.read_hdr_buf[3] \in Nat /\ t.read_hdr_buf[4] \in Nat
      BY <2>4, Numbers, SMTT(30) DEF Transc
    <3> QED
      BY <3>1 DEF MsgLength
  <2> HIDE DEF len, data
  <2>6. t.recv_bytes <= MSG_HEADER_LEN
    BY <1>1, <2>2, <2>4
  <2>7. CASE /\ t.recv_bytes = MSG_HEADER_LEN /\ len > MSG_HEADER_LEN
             /\ transc' = [t EXCEPT !.length = len, !.is_recv_header = TRUE]
             /\ spc' = "recv_body"
             /\ UNCHANGED <<up, down, got, conn, peer, around, resumed>>
    <3>1. /\ transc' \in Transc /\ transc'.is_recv_header /\ ~transc'.is_recv_body
          /\ ~transc'.is_send_header /\ ~transc'.is_send_body /\ transc'.length = len
          /\ transc'.recv_bytes = MSG_HEADER_LEN /\ transc'.send_bytes = 0
          /\ transc'.read_body_buf = <<>>
      BY <2>4, <2>5, <2>7 DEF Transc
    <3>2. Counters'
      <4>1. Len(<<>>) = MSG_HEADER_LEN - MSG_HEADER_LEN
        BY <1>1
      <4> QED
        BY <1>1, <2>5, <2>7, <3>1, <4>1 DEF Counters
    <3>3. Phases'
      BY <2>1, <2>7, <3>1 DEF SInv, Phases, InService, around
    <3>4. /\ taken' \in [Clients -> Nat] /\ taken'[cur] <= Len(up[cur])
          /\ \A c \in Clients : c # cur => taken'[c] = taken[c]
      BY <1>3, <2>1, <2>2, TakenBy
    <3>5. /\ UNCHANGED <<up, got, cur, stale, listen, flagvars, down, conn, peer, fdfree, resumed>>
          /\ spc' \in InService
      BY <2>7 DEF around, InService
    <3>6. /\ got[cur] <= Len(down[cur]) /\ down \in [Clients -> Seq(Nat)]
          /\ conn \in [Clients -> ConnStates] /\ peer \in [Clients -> PeerStates]
          /\ fdfree \in Nat /\ fdfree <= FdRoom /\ resumed \in BOOLEAN
      BY <2>1 DEF SInv, NetTyped, ServerTyped
    <3> QED
      BY <2>1, <3>1, <3>2, <3>3, <3>4, <3>5, <3>6, ServeKeeps
  <2>8. CASE transc' = [t EXCEPT !.length = len] /\ CloseClient(n)
    <3>1. /\ transc' \in Transc /\ ~transc'.is_recv_header /\ ~transc'.is_recv_body
          /\ ~transc'.is_send_header /\ ~transc'.is_send_body
          /\ transc'.recv_bytes = t.recv_bytes /\ transc'.send_bytes = 0
          /\ transc'.read_body_buf = <<>>
      BY <2>4, <2>5, <2>8 DEF Transc
    <3>2. Counters'
      BY <2>6, <3>1 DEF Counters
    <3> QED
      BY <1>1, <1>3, <2>2, <2>8, <3>1, <3>2, CloseKeeps
  <2>9. CASE transc' = t /\ CloseClient(n)
    <3>1. Counters'
      BY <2>4, <2>6, <2>9 DEF Counters
    <3> QED
      BY <1>1, <1>3, <2>2, <2>4, <2>9, <3>1, CloseKeeps
  <2> QED
    BY <1>3, <2>7, <2>8, <2>9 DEF len
<1> QED
  BY <1>2, <1>3 DEF RecvHeader

(* One read of the body (server_recv_data).                                *)
LEMMA RecvBodyKeeps ==
  ASSUME SInv, UNCHANGED clientvars, RecvBody
  PROVE  SInv'
<1>1. /\ spc \in {"recv_body", "recv_again", "recv_rest"} /\ spc \in InService /\ spc # "loop"
      /\ transc \in Transc /\ Counters /\ transc.is_recv_header /\ ~transc.is_recv_body
      /\ ~transc.is_send_header /\ ~transc.is_send_body /\ transc.send_bytes = 0
      /\ MSG_HEADER_LEN \in Nat /\ transc.recv_bytes \in Nat /\ transc.length \in Int
      /\ MSG_HEADER_LEN <= transc.recv_bytes /\ transc.recv_bytes < transc.length
      /\ transc.read_body_buf \in Seq(Nat)
      /\ Len(transc.read_body_buf) = transc.recv_bytes - MSG_HEADER_LEN
  BY Numbers DEF SInv, ServerTyped, Phases, Counters, RecvBody, InService, Transc
<1>2. /\ cur \in Clients /\ cur # 0 /\ up[cur] \in Seq(Nat) /\ taken[cur] \in Nat
      /\ UnreadUp(cur) \in Nat /\ taken[cur] + UnreadUp(cur) = Len(up[cur])
      /\ conn[cur] = "open"
  BY <1>1, Served
<1>3. /\ got[cur] <= Len(down[cur]) /\ down \in [Clients -> Seq(Nat)]
      /\ conn \in [Clients -> ConnStates] /\ peer \in [Clients -> PeerStates]
      /\ fdfree \in Nat /\ fdfree <= FdRoom /\ resumed \in BOOLEAN
      /\ taken \in [Clients -> Nat] /\ taken[cur] <= Len(up[cur])
  BY <1>2 DEF SInv, NetTyped, ServerTyped
<1>4. CASE CloseClient(0) /\ UNCHANGED <<taken, transc>>
  <2>1. 0 <= UnreadUp(cur) /\ Counters'
    BY <1>1, <1>2, <1>4 DEF Counters
  <2> QED
    BY <1>1, <1>4, <2>1, CloseKeeps
<1>5. CASE spc' = AfterRecv(transc) /\ UNCHANGED <<netvars, transc, around, resumed>>
  <2>1. spc' \in {"recv_again", "loop"}
    BY <1>1, <1>5 DEF AfterRecv
  <2>2. Phases'
    BY <1>1, <1>2, <1>5, <2>1 DEF SInv, Phases, InService, netvars, around
  <2>3. /\ spc' \in InService /\ Counters'
        /\ UNCHANGED <<up, got, cur, stale, listen, flagvars, taken, down, conn, peer, fdfree>>
    BY <1>1, <1>5, <2>1 DEF InService, Counters, netvars, around
  <2> QED
    BY <1>1, <1>2, <1>3, <1>5, <2>2, <2>3, ServeKeeps
<1>6. ASSUME NEW n \in 1..Lesser(UnreadUp(cur), transc.length - transc.recv_bytes),
             NEW t, t = BodyRead(transc, SubSeq(up[cur], taken[cur] + 1, taken[cur] + n)),
             taken' = [taken EXCEPT ![cur] = taken[cur] + n], transc' = t, spc' = AfterRecv(t),
             UNCHANGED <<up, down, got, conn, peer, around, resumed>>
      PROVE  SInv'
  <2> DEFINE data == SubSeq(up[cur], taken[cur] + 1, taken[cur] + n)
  <2>1. n \in Nat /\ n <= UnreadUp(cur) /\ n <= transc.length - transc.recv_bytes
    <3> DEFINE a == UnreadUp(cur)
               b == transc.length - transc.recv_bytes
    <3>1. a \in Int /\ b \in Int
      BY <1>1, <1>2
    <3>2. n \in 1..Lesser(a, b)
      OBVIOUS
    <3> HIDE DEF a, b
    <3>3. n \in Nat /\ n <= a /\ n <= b
      BY <3>1, <3>2, UpTo
    <3> QED
      BY <3>3 DEF a, b
  <2>2. data \in Seq(Nat) /\ Len(data) = n
    <3>1. taken[cur] + n <= Len(up[cur])
      BY <1>2, <2>1
    <3> QED
      BY <1>2, <2>1, <3>1, PartIs
  <2> HIDE DEF data
  <2>3. /\ t \in Transc /\ t.is_recv_header
        /\ t.is_recv_body <=> transc.recv_bytes + n = transc.length
        /\ ~t.is_send_header /\ ~t.is_send_body /\ t.length = transc.length
        /\ t.recv_bytes = transc.recv_bytes + n /\ t.send_bytes = 0
        /\ t.read_body_buf = transc.read_body_buf \o data
    <3>1. t = BodyRead(transc, data)
      BY <1>6 DEF data
    <3>2. /\ t \in Transc /\ t.is_recv_header = transc.is_recv_header
          /\ t.is_recv_body = (transc.recv_bytes + Len(data) = transc.length)
          /\ t.is_send_header = transc.is_send_header
          /\ t.is_send_body = transc.is_send_body
          /\ t.length = transc.length
          /\ t.recv_bytes = transc.recv_bytes + Len(data)
          /\ t.send_bytes = transc.send_bytes
          /\ t.read_body_buf = transc.read_body_buf \o data
      BY <1>1, <2>2, <3>1, BodyReadIs
    <3> QED
      BY <1>1, <2>2, <3>2
  <2>4. Len(t.read_body_buf) = t.recv_bytes - MSG_HEADER_LEN
    <3>1. Len(transc.read_body_buf \o data) = Len(transc.read_body_buf) + Len(data)
      BY <1>1, <2>2, BehindIs
    <3> QED
      BY <1>1, <2>1, <2>2, <2>3, <3>1
  <2>5. Counters'
    <3>1. /\ t.recv_bytes \in Nat /\ MSG_HEADER_LEN <= t.recv_bytes /\ t.recv_bytes <= t.length
          /\ t.is_recv_body <=> t.recv_bytes = t.length
          /\ t.length > MSG_HEADER_LEN
      BY <1>1, <2>1, <2>3
    <3>2. MSG_HEADER_LEN > 0
      BY Numbers
    <3> QED
      BY <1>1, <1>6, <2>3, <2>4, <3>1, <3>2, SMTT(30) DEF Counters
  <2>6. /\ spc' \in {"send_header", "recv_again", "loop"}
        /\ spc' = "send_header" <=> t.is_recv_body
    BY <1>1, <1>6, <2>3 DEF AfterRecv, Transc
  <2>7. Phases'
    BY <1>1, <1>2, <1>6, <2>3, <2>6 DEF SInv, Phases, InService, around
  <2>8. /\ taken' \in [Clients -> Nat] /\ taken'[cur] <= Len(up[cur])
        /\ \A c \in Clients : c # cur => taken'[c] = taken[c]
    BY <1>2, <1>6, <2>1, TakenBy
  <2>9. /\ UNCHANGED <<up, got, cur, stale, listen, flagvars, down, conn, peer, fdfree, resumed>>
        /\ spc' \in InService
    BY <1>6, <2>6 DEF around, InService
  <2> QED
    BY <1>2, <1>3, <1>6, <2>3, <2>5, <2>7, <2>8, <2>9, ServeKeeps
<1> QED
  BY <1>4, <1>5, <1>6 DEF RecvBody

(* A write: what the client gets is longer by it.                          *)
LEMMA WrittenBy ==
  ASSUME SInv, spc \in InService, NEW data \in Seq(Nat), Written(data)
  PROVE  /\ down' \in [Clients -> Seq(Nat)] /\ down'[cur] = down[cur] \o data
         /\ Len(down'[cur]) = Len(down[cur]) + Len(data)
         /\ got[cur] <= Len(down'[cur])
         /\ \A c \in Clients : c # cur => down'[c] = down[c]
<1>1. /\ cur \in Clients /\ down \in [Clients -> Seq(Nat)] /\ down[cur] \in Seq(Nat)
      /\ got[cur] \in Nat /\ got[cur] <= Len(down[cur]) /\ Len(down[cur]) \in Nat
  BY Served DEF SInv, NetTyped
<1>2. /\ down[cur] \o data \in Seq(Nat) /\ Len(data) \in Nat
      /\ Len(down[cur] \o data) = Len(down[cur]) + Len(data)
  BY <1>1, BehindIs
<1>3. down' = [down EXCEPT ![cur] = down[cur] \o data]
  BY DEF Written
<1>4. /\ down' \in [Clients -> Seq(Nat)] /\ down'[cur] = down[cur] \o data
      /\ \A c \in Clients : c # cur => down'[c] = down[c]
  BY <1>1, <1>2, <1>3
<1> QED
  BY <1>1, <1>2, <1>4

(* A write that writes nothing.                                            *)
LEMMA NoWriteKeeps ==
  ASSUME SInv, UNCHANGED clientvars, spc \in InService, spc # "loop",
         spc' \in InService, spc' \in {"loop", "send_again"},
         spc' = "send_again" => spc \in {"send_body", "send_again"},
         \/ WriteReset
         \/ UNCHANGED <<netvars, transc, around, resumed>>
  PROVE  SInv'
<1>1. /\ cur \in Clients /\ cur # 0 /\ conn[cur] = "open"
  BY Served
<1>2. /\ got[cur] <= Len(down[cur]) /\ down \in [Clients -> Seq(Nat)]
      /\ conn \in [Clients -> ConnStates] /\ peer \in [Clients -> PeerStates]
      /\ fdfree \in Nat /\ fdfree <= FdRoom /\ resumed \in BOOLEAN
      /\ taken \in [Clients -> Nat] /\ taken[cur] <= Len(up[cur])
      /\ transc \in Transc
  BY <1>1 DEF SInv, NetTyped, ServerTyped
<1>3. /\ UNCHANGED <<up, got, cur, stale, listen, flagvars, taken, down, conn, fdfree,
                     transc, resumed>>
      /\ peer' \in [Clients -> PeerStates]
  BY <1>1, <1>2 DEF WriteReset, netvars, around, PeerStates
<1>4. Phases' /\ Counters'
  BY <1>1, <1>3 DEF SInv, Phases, Counters, InService
<1> QED
  BY <1>1, <1>2, <1>3, <1>4, ServeKeeps

LEMMA SendHeaderKeeps ==
  ASSUME SInv, UNCHANGED clientvars, SendHeader
  PROVE  SInv'
<1> DEFINE n == Lesser(MSG_HEADER_LEN - transc.send_bytes, Room(cur))
           data == SubSeq(HeaderBuffer(transc), 1, n)
<1>1. /\ spc = "send_header" /\ spc \in InService /\ spc # "loop"
      /\ transc \in Transc /\ Counters /\ transc.is_recv_header /\ transc.is_recv_body
      /\ ~transc.is_send_header /\ ~transc.is_send_body
      /\ MSG_HEADER_LEN \in Nat /\ transc.recv_bytes \in Nat /\ transc.length \in Int
      /\ transc.send_bytes \in Nat /\ transc.send_bytes < MSG_HEADER_LEN
      /\ transc.recv_bytes = transc.length /\ transc.length > MSG_HEADER_LEN
  BY Numbers DEF SInv, ServerTyped, Phases, Counters, SendHeader, InService, Transc
<1>2. cur \in Clients /\ cur # 0 /\ conn[cur] = "open" /\ Room(cur) \in Int
  BY <1>1, Served
<1>3. CASE (WriteReset \/ UNCHANGED <<netvars, transc, around, resumed>>) /\ spc' = "loop"
  BY <1>1, <1>3, NoWriteKeeps DEF InService
<1>4. CASE SigPipe
  BY <1>4, EndKeeps DEF SigPipe, SInv, ServerTyped
<1>5. CASE /\ Room(cur) > 0 /\ Written(data) /\ transc' = HeaderSent(transc, n)
           /\ resumed' = (resumed \/ transc.send_bytes > 0)
           /\ spc' = IF transc'.is_send_header THEN "send_body" ELSE "loop"
           /\ UNCHANGED <<up, taken, got, conn, peer, around>>
  <2>1. n \in Nat /\ n > 0 /\ n <= MSG_HEADER_LEN - transc.send_bytes
    <3> DEFINE a == MSG_HEADER_LEN - transc.send_bytes
               b == Room(cur)
    <3>1. a \in Int /\ b \in Int /\ a > 0 /\ b > 0
      BY <1>1, <1>2, <1>5
    <3>2. n = Lesser(a, b)
      OBVIOUS
    <3> HIDE DEF a, b, n
    <3>3. n \in Int /\ n > 0 /\ n <= a
      BY <3>1, <3>2, LesserIs
    <3> QED
      BY <3>1, <3>3 DEF a
  <2> HIDE DEF n
  <2>2. data \in Seq(Nat) /\ Len(data) = n
    BY <1>1, <2>1, HeaderBufferIs, FirstBytes
  <2> HIDE DEF data
  <2>3. n <= transc.recv_bytes /\ transc.send_bytes + n <= MSG_HEADER_LEN
    BY <1>1, <2>1
  <2>4. /\ transc' \in Transc /\ transc'.is_recv_header /\ transc'.is_recv_body
        /\ ~transc'.is_send_body /\ transc'.length = transc.length
        /\ transc'.send_bytes = transc.send_bytes + n
        /\ transc'.read_body_buf = transc.read_body_buf
        /\ transc'.is_send_header <=> transc.send_bytes + n = MSG_HEADER_LEN
        /\ transc'.is_send_header => transc'.recv_bytes = transc.recv_bytes - n
        /\ ~transc'.is_send_header => transc'.recv_bytes = transc.recv_bytes
    BY <1>1, <1>5, <2>1, <2>3, HeaderSentIs
  <2>5. Counters'
    <3>1. transc'.is_send_header => transc'.recv_bytes # 0 /\ MSG_HEADER_LEN <= transc'.send_bytes
      BY <1>1, <2>1, <2>3, <2>4
    <3>2. ~transc'.is_send_header => transc'.send_bytes < MSG_HEADER_LEN
      BY <1>1, <2>1, <2>3, <2>4
    <3>3. Len(transc'.read_body_buf) = transc'.length - MSG_HEADER_LEN
      BY <1>1, <2>4 DEF Counters
    <3> QED
      BY <1>1, <2>4, <3>1, <3>2, <3>3 DEF Counters
  <2>6. spc' \in {"send_body", "loop"} /\ (spc' = "send_body" <=> transc'.is_send_header)
    BY <1>5
  <2>7. Phases'
    BY <1>1, <1>2, <1>5, <2>4, <2>6 DEF SInv, Phases, InService, around
  <2>8. /\ down' \in [Clients -> Seq(Nat)] /\ got[cur] <= Len(down'[cur])
        /\ \A c \in Clients : c # cur => down'[c] = down[c]
    BY <1>1, <1>5, <2>2, WrittenBy
  <2>9. /\ UNCHANGED <<up, got, cur, stale, listen, flagvars, taken, conn, peer, fdfree>>
        /\ spc' \in InService
    BY <1>5, <2>6 DEF around, InService
  <2>10. resumed' \in BOOLEAN
    BY <1>5 DEF SInv, ServerTyped
  <2>11. /\ conn \in [Clients -> ConnStates] /\ peer \in [Clients -> PeerStates]
         /\ fdfree \in Nat /\ fdfree <= FdRoom
         /\ taken \in [Clients -> Nat] /\ taken[cur] <= Len(up[cur])
    BY <1>2 DEF SInv, NetTyped, ServerTyped
  <2> QED
    BY <1>2, <2>4, <2>5, <2>7, <2>8, <2>9, <2>10, <2>11, ServeKeeps
<1> QED
  BY <1>3, <1>4, <1>5 DEF SendHeader

LEMMA SendBodyKeeps ==
  ASSUME SInv, UNCHANGED clientvars, SendBody
  PROVE  SInv'
<1> DEFINE n == Lesser(transc.recv_bytes, Room(cur))
           data == SubSeq(BodyBuffer(transc), 1, n)
<1>1. /\ spc \in {"send_body", "send_again"} /\ spc \in InService /\ spc # "loop"
      /\ transc \in Transc /\ Counters /\ transc.is_recv_header /\ transc.is_recv_body
      /\ transc.is_send_header /\ ~transc.is_send_body
      /\ MSG_HEADER_LEN \in Nat /\ transc.recv_bytes \in Nat /\ transc.length \in Int
      /\ transc.send_bytes \in Nat /\ transc.send_bytes >= MSG_HEADER_LEN
      /\ transc.length > MSG_HEADER_LEN /\ transc.recv_bytes > 0
      /\ Len(transc.read_body_buf) = transc.length - MSG_HEADER_LEN
  BY Numbers DEF SInv, ServerTyped, Phases, Counters, SendBody, InService, Transc
<1>2. cur \in Clients /\ cur # 0 /\ conn[cur] = "open" /\ Room(cur) \in Int
  BY <1>1, Served
<1>3. AfterSend(transc) \in {"loop", "send_again"}
  BY DEF AfterSend
<1>4. CASE (WriteReset \/ UNCHANGED <<netvars, transc, around, resumed>>)
           /\ spc' = AfterSend(transc)
  BY <1>1, <1>3, <1>4, NoWriteKeeps DEF InService
<1>5. CASE SigPipe \/ (ProcessEnds("killed") /\ UNCHANGED <<is_error, destroys>>)
  BY <1>5, EndKeeps DEF SigPipe, SInv, ServerTyped
<1>6. CASE /\ Room(cur) > 0 /\ Written(data) /\ transc' = BodySent(transc, n)
           /\ resumed' \in BOOLEAN
           /\ spc' = AfterSend(transc')
           /\ UNCHANGED <<up, taken, got, conn, peer, around>>
  <2>1. n \in Nat /\ n > 0 /\ n <= transc.recv_bytes
    <3> DEFINE a == transc.recv_bytes
               b == Room(cur)
    <3>1. a \in Int /\ b \in Int /\ a > 0 /\ b > 0
      BY <1>1, <1>2, <1>6
    <3>2. n = Lesser(a, b)
      OBVIOUS
    <3> HIDE DEF a, b, n
    <3>3. n \in Int /\ n > 0 /\ n <= a
      BY <3>1, <3>2, LesserIs
    <3> QED
      BY <3>1, <3>3 DEF a
  <2> HIDE DEF n
  <2>2. data \in Seq(Nat) /\ Len(data) = n
    <3>1. BodyBuffer(transc) \in [1..transc.recv_bytes -> Nat]
      BY <1>1, BodyBufferIs
    <3> QED
      BY <1>1, <2>1, <3>1, FirstBytes
  <2> HIDE DEF data
  <2>3. /\ transc' \in Transc /\ transc'.is_recv_header /\ transc'.is_recv_body
        /\ transc'.is_send_header /\ transc'.length = transc.length
        /\ transc'.is_send_body <=> transc.recv_bytes - n = 0
        /\ transc'.recv_bytes = transc.recv_bytes - n
        /\ transc'.send_bytes = transc.send_bytes + n
        /\ transc'.read_body_buf = transc.read_body_buf
    <3>1. transc \in Transc /\ n \in Nat /\ n <= transc.recv_bytes
      BY <1>1, <2>1
    <3> DEFINE u == BodySent(transc, n)
    <3>2. /\ u \in Transc /\ u.is_recv_header = transc.is_recv_header
          /\ u.is_recv_body = transc.is_recv_body /\ u.is_send_header = transc.is_send_header
          /\ u.is_send_body = (transc.recv_bytes - n = 0) /\ u.length = transc.length
          /\ u.recv_bytes = transc.recv_bytes - n /\ u.send_bytes = transc.send_bytes + n
          /\ u.read_body_buf = transc.read_body_buf
      BY <3>1, BodySentIs
    <3>3. transc' = u
      BY <1>6
    <3> HIDE DEF u
    <3> QED
      BY <1>1, <3>2, <3>3
  <2>4. Counters'
    <3>1. MSG_HEADER_LEN <= transc'.send_bytes
      BY <1>1, <2>1, <2>3
    <3> QED
      BY <1>1, <2>3, <3>1 DEF Counters
  <2>5. spc' \in {"send_again", "loop"} /\ (spc' = "send_again" => ~transc'.is_send_body)
    BY <1>6 DEF AfterSend
  <2>6. Phases'
    BY <1>1, <1>2, <1>6, <2>3, <2>5 DEF SInv, Phases, InService, around
  <2>7. /\ down' \in [Clients -> Seq(Nat)] /\ got[cur] <= Len(down'[cur])
        /\ \A c \in Clients : c # cur => down'[c] = down[c]
    BY <1>1, <1>6, <2>2, WrittenBy
  <2>8. /\ UNCHANGED <<up, got, cur, stale, listen, flagvars, taken, conn, peer, fdfree>>
        /\ spc' \in InService
    BY <1>6, <2>5 DEF around, InService
  <2>9. /\ conn \in [Clients -> ConnStates] /\ peer \in [Clients -> PeerStates]
        /\ fdfree \in Nat /\ fdfree <= FdRoom
        /\ taken \in [Clients -> Nat] /\ taken[cur] <= Len(up[cur])
    BY <1>2 DEF SInv, NetTyped, ServerTyped
  <2> QED
    BY <1>2, <1>6, <2>3, <2>4, <2>6, <2>7, <2>8, <2>9, ServeKeeps
<1>7. resumed \in BOOLEAN
  BY DEF SInv, ServerTyped
<1> QED
  BY <1>4, <1>5, <1>6, <1>7 DEF SendBody

LEMMA NextSInv ==
  ASSUME SInv, [Next]_vars
  PROVE  SInv'
<1>1. CASE (Interrupt \/ InterruptAgain \/ Detect \/ Main) /\ UNCHANGED clientvars
  <2>1. CASE Detect
    BY <1>1, <2>1, DetectKeeps
  <2>2. CASE Interrupt \/ InterruptAgain
    BY <1>1, <2>2, FlowSteps, EndSteps
  <2>3. CASE Main
    BY <1>1, <2>3, FlowSteps, EndSteps, AcceptKeeps, LoopKeeps2, RecvHeaderKeeps,
       RecvBodyKeeps, SendHeaderKeeps, SendBodyKeeps DEF Main
  <2> QED
    BY <1>1, <2>1, <2>2, <2>3
<1>2. CASE \E c \in Clients : (ClientStep(c) \/ Network(c)) /\ UNCHANGED servervars
  BY <1>2, PeersKeep DEF ClientStep
<1>3. CASE UNCHANGED vars
  BY <1>3 DEF SInv, NetTyped, ClientTyped, ServerTyped, Counters, Phases, Order, Later,
              vars, netvars, servervars, clientvars, flagvars
<1> QED
  BY <1>1, <1>2, <1>3 DEF Next, Finished

(* Every variable keeps its type; with it, at each call of main the flags, *)
(* the counters and the buffers of transc_t are those that the call        *)
(* expects, in connections that find it in use too.                        *)
THEOREM EchoTyped == Spec => []TypeOK
<1>1. SInv => TypeOK
  <2> SUFFICES ASSUME SInv PROVE TypeOK
    OBVIOUS
  <2>1. \A c \in Clients : taken[c] \in 0..Len(up[c]) /\ got[c] \in 0..Len(down[c])
    <3> TAKE c \in Clients
    <3>1. /\ taken[c] \in Nat /\ got[c] \in Nat /\ up[c] \in Seq(Nat) /\ down[c] \in Seq(Nat)
          /\ taken[c] <= Len(up[c]) /\ got[c] <= Len(down[c])
      BY DEF SInv, NetTyped
    <3> QED
      BY <3>1, LenProperties
  <2>2. fdfree \in 0..FdRoom
    BY Numbers DEF SInv, ServerTyped
  <2>3. spc \in InService => cur # 0
    BY DEF SInv, Phases
  <2>4. /\ is_finish \in BOOLEAN /\ is_error \in BOOLEAN /\ resumed \in BOOLEAN
        /\ spc \in ServerStates /\ cur \in Clients \union {0} /\ transc \in Transc
        /\ listen \in {"none", "open", "closed"} /\ dpc \in {"watch", "mark", "left"}
        /\ destroys \in Nat /\ stale \subseteq Clients
    BY DEF SInv, ServerTyped
  <2>5. /\ up \in [Clients -> Seq(Nat)] /\ down \in [Clients -> Seq(Nat)]
        /\ conn \in [Clients -> ConnStates] /\ peer \in [Clients -> PeerStates]
        /\ cpc \in [Clients -> ClientStates] /\ requests \in 0..MaxRequests
    BY DEF SInv, NetTyped, ClientTyped
  <2> QED
    BY <2>1, <2>2, <2>3, <2>4, <2>5, Zenon DEF InService, Transc, TypeOK
<1>2. SInv /\ [Next]_vars => SInv'
  BY NextSInv
<1> QED
  BY <1>1, <1>2, InitSInv, PTL DEF Spec

-----------------------------------------------------------------------------
(* Every client gets its own bytes.                                        *)

(* Steps by which the clients only write more.                             *)
UpGrows ==
  \A c \in Clients :
    Len(up[c]) <= Len(up'[c]) /\ \A i \in 1..Len(up[c]) : up'[c][i] = up[c][i]

LEMMA Lengths ==
  ASSUME SInv, NEW c \in Clients
  PROVE  /\ Len(up[c]) \in Nat /\ Len(down[c]) \in Nat /\ taken[c] \in Nat /\ c \in Nat /\ c # 0
         /\ taken[c] <= Len(up[c])
  BY LenProperties, Numbers DEF SInv, NetTyped

LEMMA OwnBytesStay ==
  ASSUME SInv, SInv', NEW c \in Clients, OwnBytes(c), UpGrows, down'[c] = down[c]
  PROVE  OwnBytes(c)'
<1>1. /\ Len(up[c]) \in Nat /\ Len(down[c]) \in Nat /\ Len(up'[c]) \in Nat
      /\ Len(up[c]) <= Len(up'[c])
  BY Lengths, LenProperties DEF SInv, NetTyped, UpGrows
<1>2. \A i \in 1..Len(down[c]) : i \in 1..Len(up[c])
  BY <1>1 DEF OwnBytes
<1> QED
  BY <1>1, <1>2 DEF OwnBytes, UpGrows

LEMMA PastStays ==
  ASSUME SInv, SInv', NEW d \in Clients, Past(d), UpGrows, down'[d] = down[d],
         Later(d)' => Later(d), cur' # d
  PROVE  Past(d)'
<1>1. /\ Len(up[d]) \in Nat /\ Len(down[d]) \in Nat /\ Len(up'[d]) \in Nat
      /\ Len(up[d]) <= Len(up'[d])
  BY Lengths, LenProperties DEF SInv, NetTyped, UpGrows
<1> QED
  BY <1>1 DEF Past

LEMMA Within ==
  ASSUME NEW base \in Nat, NEW a \in Nat, NEW b \in Nat, NEW m \in Nat, base + a + b <= m
  PROVE  /\ \A i \in 1..a : base + i \in 1..m
         /\ \A i \in 1..b : base + a + i \in 1..m
  OBVIOUS

LEMMA CarriesStays ==
  ASSUME SInv, SInv', NEW c \in Clients, Carries(c), UpGrows,
         down'[c] = down[c], taken'[c] = taken[c], transc' = transc,
         conn[c] # "open" => conn'[c] # "open"
  PROVE  Carries(c)'
<1>1. /\ Len(up[c]) \in Nat /\ Len(down[c]) \in Nat /\ taken[c] \in Nat
      /\ taken[c] <= Len(up[c]) /\ MSG_HEADER_LEN \in Nat
      /\ transc.send_bytes \in Nat /\ Len(transc.read_body_buf) \in Nat
  BY Lengths, Numbers, LenProperties DEF SInv, ServerTyped, Transc
<1>2. ASSUME transc.is_recv_header
      PROVE  /\ \A i \in 1..MSG_HEADER_LEN :
                  Len(down[c]) - transc.send_bytes + i \in 1..Len(up[c])
             /\ \A i \in 1..Len(transc.read_body_buf) :
                  Len(down[c]) - transc.send_bytes + MSG_HEADER_LEN + i \in 1..Len(up[c])
  <2>1. /\ transc.send_bytes <= Len(down[c])
        /\ taken[c] = Len(down[c]) - transc.send_bytes + MSG_HEADER_LEN + Len(transc.read_body_buf)
    BY <1>2 DEF Carries
  <2> DEFINE base == Len(down[c]) - transc.send_bytes
  <2>2. base \in Nat /\ base + MSG_HEADER_LEN + Len(transc.read_body_buf) <= Len(up[c])
    BY <1>1, <2>1
  <2> HIDE DEF base
  <2>3. /\ \A i \in 1..MSG_HEADER_LEN : base + i \in 1..Len(up[c])
        /\ \A i \in 1..Len(transc.read_body_buf) : base + MSG_HEADER_LEN + i \in 1..Len(up[c])
    BY <1>1, <2>2, Within
  <2> QED
    BY <2>3 DEF base
<1>3. ASSUME transc.is_recv_header
      PROVE  /\ \A i \in 1..MSG_HEADER_LEN :
                  transc.read_hdr_buf[i] = up'[c][Len(down[c]) - transc.send_bytes + i]
             /\ \A i \in 1..Len(transc.read_body_buf) :
                  transc.read_body_buf[i]
                    = up'[c][Len(down[c]) - transc.send_bytes + MSG_HEADER_LEN + i]
  <2>1. \A i \in 1..Len(up[c]) : up'[c][i] = up[c][i]
    BY DEF UpGrows
  <2> QED
    BY <1>2, <1>3, <2>1 DEF Carries
<1> QED
  BY <1>3 DEF Carries

LEMMA QuietEchoes ==
  ASSUME SInv, SInv', Echoes, UpGrows,
         UNCHANGED <<taken, down, transc, cur, stale, resumed>>,
         \A c \in Clients : Later(c)' => Later(c),
         cur # 0 /\ conn[cur] # "open" => conn'[cur] # "open"
  PROVE  Echoes'
<1> SUFFICES ASSUME ~resumed PROVE Echoes'
  BY DEF Echoes
<1>1. ASSUME NEW c \in Clients \ stale PROVE OwnBytes(c)'
  BY <1>1, OwnBytesStay DEF Echoes
<1>2. ASSUME NEW c \in Clients, c = cur, cur \notin stale PROVE Carries(c)'
  <2>1. Carries(c)
    BY <1>2, Lengths DEF Echoes
  <2> QED
    BY <1>2, <2>1, CarriesStays, Lengths
<1>3. cur # 0 => cur \in Clients
  BY DEF SInv, ServerTyped
<1>4. ASSUME NEW d \in Clients, Past(d) PROVE Past(d)'
  <2>1. cur' # d
    BY <1>4 DEF Past
  <2> QED
    BY <1>4, <2>1, PastStays
<1>5. \A c \in stale : \E d \in Clients : d < c /\ Past(d)'
  BY <1>4 DEF Echoes
<1>6. cur = 0 /\ transc # ClearedTransc =>
        \E d \in Clients : Past(d)' /\ \A c \in Clients : Later(c)' => d < c
  BY <1>4 DEF Echoes
<1> QED
  BY <1>1, <1>2, <1>3, <1>5, <1>6 DEF Echoes

(* When the process ends nothing is carried any more.                      *)
LEMMA EndEchoes ==
  ASSUME SInv, SInv', Echoes, NEW how, ProcessEnds(how), UNCHANGED clientvars
  PROVE  Echoes'
<1> SUFFICES ASSUME ~resumed PROVE Echoes'
  BY DEF Echoes, ProcessEnds
<1>1. UNCHANGED <<up, taken, down, stale, resumed, cpc>> /\ cur' = 0 /\ transc' = ClearedTransc
  BY DEF ProcessEnds, clientvars
<1>2. UpGrows
  BY <1>1, Lengths DEF UpGrows
<1>3. \A c \in Clients : Later(c)' => Later(c)
  BY <1>1 DEF ProcessEnds, ShutAll, Later
<1>4. ASSUME NEW c \in Clients \ stale PROVE OwnBytes(c)'
  BY <1>1, <1>2, <1>4, OwnBytesStay DEF Echoes
<1>5. ASSUME NEW d \in Clients, Past(d) PROVE Past(d)'
  BY <1>1, <1>2, <1>3, <1>5, PastStays, Lengths
<1>6. \A c \in stale : \E d \in Clients : d < c /\ Past(d)'
  BY <1>5 DEF Echoes
<1> QED
  BY <1>1, <1>4, <1>6 DEF Echoes

(* A client that carries something has not had its whole answer.           *)
LEMMA CarriedIsOwed ==
  ASSUME SInv, NEW c \in Clients, Carries(c), transc # ClearedTransc, ~transc.is_send_body
  PROVE  Len(down[c]) < Len(up[c])
<1>1. /\ Len(up[c]) \in Nat /\ Len(down[c]) \in Nat /\ taken[c] \in Nat
      /\ taken[c] <= Len(up[c]) /\ MSG_HEADER_LEN \in Nat /\ MSG_HEADER_LEN > 0
      /\ transc.send_bytes \in Nat /\ Len(transc.read_body_buf) \in Nat
      /\ transc.recv_bytes \in Nat /\ transc.length \in Int
      /\ transc.is_recv_header \in BOOLEAN
  BY Lengths, Numbers, LenProperties DEF SInv, ServerTyped, Transc
<1>2. CASE ~transc.is_recv_header
  BY <1>1, <1>2 DEF Carries
<1>3. CASE transc.is_recv_header
  <2>1. taken[c] = Len(down[c]) - transc.send_bytes + MSG_HEADER_LEN + Len(transc.read_body_buf)
    BY <1>3 DEF Carries
  <2>2. transc.send_bytes < MSG_HEADER_LEN + Len(transc.read_body_buf)
    <3>1. CASE ~transc.is_recv_body
      BY <1>1, <1>3, <3>1 DEF SInv, Counters
    <3>2. CASE transc.is_recv_body /\ ~transc.is_send_header
      BY <1>1, <3>2 DEF SInv, Counters
    <3>3. CASE transc.is_recv_body /\ transc.is_send_header
      <4>1. /\ Len(transc.read_body_buf) = transc.length - MSG_HEADER_LEN
            /\ transc.recv_bytes # 0
        BY <3>3 DEF SInv, Counters
      <4>2. transc.recv_bytes + transc.send_bytes = transc.length
        BY <3>3 DEF Carries
      <4> QED
        BY <1>1, <4>1, <4>2
    <3> QED
      BY <3>1, <3>2, <3>3
  <2> QED
    BY <1>1, <2>1, <2>2, SMTT(30)
<1> QED
  BY <1>1, <1>2, <1>3

(* Main leaves the client it serves.                                       *)
LEMMA LeaveEchoes ==
  ASSUME SInv, SInv', Echoes, cur # 0, cur' = 0, ~transc.is_send_body,
         UNCHANGED <<up, taken, down, transc, stale, resumed, conn, cpc>>
  PROVE  Echoes'
<1> SUFFICES ASSUME ~resumed PROVE Echoes'
  BY DEF Echoes
<1>1. UpGrows /\ cur \in Clients
  BY Lengths DEF UpGrows, SInv, ServerTyped
<1>2. \A c \in Clients : Later(c)' = Later(c)
  BY DEF Later
<1>3. ASSUME NEW c \in Clients \ stale PROVE OwnBytes(c)'
  BY <1>1, <1>3, OwnBytesStay DEF Echoes
<1>4. ASSUME NEW d \in Clients, Past(d) PROVE Past(d)'
  BY <1>1, <1>2, <1>4, PastStays, Lengths
<1>5. \A c \in stale : \E d \in Clients : d < c /\ Past(d)'
  BY <1>4 DEF Echoes
<1>6. \A c \in Clients : Later(c) => cur < c
  BY DEF SInv, Order
<1>7. CASE cur \in stale
  <2>1. PICK d \in Clients : d < cur /\ Past(d)
    BY <1>7 DEF Echoes
  <2>2. \A c \in Clients : Later(c)' => d < c
    <3> TAKE c \in Clients
    <3> HAVE Later(c)'
    <3>1. cur < c /\ c \in Nat /\ cur \in Nat /\ d \in Nat
      BY <1>1, <1>2, <1>6, Numbers
    <3> QED
      BY <2>1, <3>1
  <2> QED
    BY <1>3, <1>4, <1>5, <2>1, <2>2 DEF Echoes
<1>8. CASE cur \notin stale
  <2>1. ASSUME transc # ClearedTransc, NEW d \in Clients, d = cur PROVE Past(d)'
    <3>1. Len(down[d]) < Len(up[d])
      BY <1>8, <2>1, CarriedIsOwed DEF Echoes
    <3>2. ~Later(d)
      BY <2>1 DEF SInv, Order, Later
    <3> QED
      BY <1>2, <2>1, <3>1, <3>2 DEF Past
  <2>2. transc # ClearedTransc => \E d \in Clients : Past(d)' /\ \A c \in Clients : Later(c)' => d < c
    BY <1>1, <1>2, <1>6, <2>1
  <2> QED
    BY <1>3, <1>5, <2>2 DEF Echoes
<1> QED
  BY <1>7, <1>8

(* Main serves a client.                                                   *)
LEMMA ServeEchoes ==
  ASSUME SInv, SInv', Echoes, cur # 0, UNCHANGED <<up, cur, stale, cpc>>,
         resumed => resumed',
         \A c \in Clients : c # cur => down'[c] = down[c] /\ conn'[c] = conn[c],
         conn'[cur] # "waiting",
         ASSUME ~resumed', ~resumed, NEW c \in Clients, c = cur, c \notin stale,
                Carries(c), OwnBytes(c)
         PROVE  Carries(c)' /\ OwnBytes(c)'
  PROVE  Echoes'
<1> SUFFICES ASSUME ~resumed', ~resumed PROVE Echoes'
  BY DEF Echoes
<1>1. UpGrows /\ cur \in Clients
  BY Lengths DEF UpGrows, SInv, ServerTyped
<1>2. \A c \in Clients : Later(c)' => Later(c)
  BY <1>1 DEF Later
<1>3. ASSUME NEW c \in Clients, c = cur, c \notin stale PROVE Carries(c)' /\ OwnBytes(c)'
  BY <1>3 DEF Echoes
<1>4. ASSUME NEW c \in Clients \ stale PROVE OwnBytes(c)'
  BY <1>1, <1>3, <1>4, OwnBytesStay DEF Echoes
<1>5. ASSUME NEW d \in Clients, Past(d) PROVE Past(d)'
  <2>1. d # cur
    BY <1>5 DEF Past
  <2> QED
    BY <1>1, <1>2, <1>5, <2>1, PastStays
<1>6. \A c \in stale : \E d \in Clients : d < c /\ Past(d)'
  BY <1>5 DEF Echoes
<1> QED
  BY <1>1, <1>3, <1>4, <1>6 DEF Echoes

LEMMA PeersEchoes ==
  ASSUME SInv, SInv', Echoes, NEW c \in Clients, UNCHANGED servervars,
         \/ ~Over /\ Connect(c, listen = "open")
         \/ \E bodylen \in BodyLens : Request(c, bodylen)
         \/ ClientKilled(c) \/ Network(c)
  PROVE  Echoes'
<1>0. /\ UNCHANGED <<taken, down, transc, cur, stale, resumed>>
      /\ cpc \in [Clients -> ClientStates] /\ conn \in [Clients -> ConnStates]
      /\ up \in [Clients -> Seq(Nat)]
  BY DEF SInv, NetTyped, ClientTyped, servervars, Connect, Request, ClientKilled, Network,
         ReadAnswer, ResetArrives
<1>1. \A d \in Clients : Later(d)' => Later(d)
  BY <1>0 DEF Later, Connect, Request, ClientKilled, Network, ReadAnswer, ResetArrives, clientvars
<1>2. cur # 0 /\ conn[cur] # "open" => conn'[cur] # "open"
  <2>1. \A d \in Clients : conn[d] # "open" => conn'[d] # "open"
    BY <1>0 DEF Connect, Request, ClientKilled, Network, ReadAnswer, ResetArrives
  <2> QED
    BY <2>1 DEF SInv, ServerTyped
<1>3. UpGrows
  <2>1. CASE up' = up
    BY <2>1, Lengths DEF UpGrows
  <2>2. ASSUME NEW bodylen \in BodyLens, Request(c, bodylen), up' # up PROVE UpGrows
    <3> DEFINE m == Message(c, bodylen, Len(up[c]))
    <3>1. up' = [up EXCEPT ![c] = up[c] \o m]
      BY <2>2 DEF Request
    <3>2. m \in Seq(Nat) /\ up[c] \in Seq(Nat)
      BY <1>0, Lengths, ClientAssumption, MessageType
    <3> HIDE DEF m
    <3>3. /\ Len(up[c]) <= Len(up[c] \o m)
          /\ \A i \in 1..Len(up[c]) : (up[c] \o m)[i] = up[c][i]
      BY <3>2, BehindIs
    <3>4. up'[c] = up[c] \o m /\ \A d \in Clients : d # c => up'[d] = up[d]
      BY <1>0, <3>1
    <3>5. ASSUME NEW d \in Clients
          PROVE  Len(up[d]) <= Len(up'[d]) /\ \A i \in 1..Len(up[d]) : up'[d][i] = up[d][i]
      <4>1. CASE d = c
        BY <3>3, <3>4, <4>1
      <4>2. CASE d # c
        BY <3>4, <4>2, Lengths
      <4> QED
        BY <4>1, <4>2
    <3> QED
      BY <3>5 DEF UpGrows
  <2> QED
    BY <2>1, <2>2 DEF Connect, ClientKilled, Network, ReadAnswer, ResetArrives
<1> QED
  BY <1>0, <1>1, <1>2, <1>3, QuietEchoes

(* Steps of the server that neither read nor write nor change the client.  *)
LEMMA FlowEchoes ==
  ASSUME SInv, SInv', Echoes, UNCHANGED clientvars,
         Listen \/ Interrupt \/ CheckServer \/ AcceptFails \/ EpollFails \/ EpollWait \/ Detect
  PROVE  Echoes'
<1>0. spc = "wait" => ~transc.is_send_body /\ cur # 0
  BY DEF SInv, Phases, InService
<1>1. CASE EpollFails
  BY <1>0, <1>1, LeaveEchoes DEF EpollFails, netvars, clientvars
<1>2. CASE Interrupt /\ cur' # cur
  BY <1>0, <1>2, LeaveEchoes DEF Interrupt, netvars, clientvars
<1>3. CASE cur' = cur /\ ~EpollFails
  <2>1. UNCHANGED <<up, taken, down, transc, cur, stale, resumed, cpc>>
    BY <1>3 DEF Listen, Interrupt, CheckServer, AcceptFails, EpollWait, Detect, netvars,
                clientvars, around
  <2>2. \A c \in Clients : Later(c)' => Later(c)
    BY <1>3, <2>1 DEF Listen, Interrupt, CheckServer, AcceptFails, EpollWait, Detect, Destroy,
                      ShutWaiting, Later, netvars
  <2>3. cur # 0 /\ conn[cur] # "open" => conn'[cur] # "open"
    <3>1. cur # 0 => cur \in Clients
      BY DEF SInv, ServerTyped
    <3> QED
      BY <1>3, <3>1 DEF Listen, Interrupt, CheckServer, AcceptFails, EpollWait, Detect, Destroy,
                        ShutWaiting, netvars
  <2>4. UpGrows
    BY <2>1, Lengths DEF UpGrows
  <2> QED
    BY <2>1, <2>2, <2>3, <2>4, QuietEchoes
<1> QED
  BY <1>1, <1>2, <1>3
     DEF Listen, Interrupt, CheckServer, AcceptFails, EpollWait, Detect, around

LEMMA EndStepsEchoes ==
  ASSUME SInv, SInv', Echoes, UNCHANGED clientvars, InterruptAgain \/ ListenFails \/ MainEnd
  PROVE  Echoes'
<1>1. CASE ListenFails \/ (MainEnd /\ spc = "end")
  <2>1. /\ UNCHANGED <<up, taken, down, transc, cur, stale, resumed, cpc, conn>>
    BY <1>1 DEF MainEnd, ListenFails, netvars, clientvars
  <2>2. UpGrows /\ \A c \in Clients : Later(c)' => Later(c)
    BY <2>1, Lengths DEF UpGrows, Later
  <2> QED
    BY <2>1, <2>2, QuietEchoes
<1>2. CASE \E how \in {"exited", "killed"} : ProcessEnds(how)
  BY <1>2, EndEchoes
<1> QED
  BY <1>1, <1>2 DEF InterruptAgain, MainEnd

(* The new client finds transc_t clear, or one before it was left.         *)
LEMMA AcceptEchoes ==
  ASSUME SInv, SInv', Echoes, UNCHANGED clientvars, NEW c \in Clients, Accept(c)
  PROVE  Echoes'
<1> SUFFICES ASSUME ~resumed PROVE Echoes'
  BY DEF Echoes, Accept
<1>1. /\ UNCHANGED <<up, taken, down, transc, resumed, cpc>> /\ cur = 0 /\ c # 0
      /\ conn[c] = "waiting" /\ conn \in [Clients -> ConnStates]
      /\ conn' = [conn EXCEPT ![c] = "open"]
  BY Numbers DEF SInv, NetTyped, Phases, InService, Accept, FirstWaiting, clientvars
<1>2. UpGrows
  BY <1>1, Lengths DEF UpGrows
<1>3. \A d \in Clients : Later(d)' => Later(d)
  BY <1>1 DEF Later
<1>4. ASSUME NEW d \in Clients, OwnBytes(d) PROVE OwnBytes(d)'
  BY <1>1, <1>2, <1>4, OwnBytesStay
<1>5. ASSUME NEW d \in Clients, Past(d), d # c PROVE Past(d)'
  <2>1. cur' # d
    BY <1>1, <1>5, Lengths DEF Accept
  <2> QED
    BY <1>1, <1>2, <1>3, <1>5, <2>1, PastStays
<1>6. \A d \in Clients : Past(d) => d # c
  BY <1>1 DEF Past, Later
<1>7. transc # ClearedTransc =>
        \E d \in Clients : Past(d)' /\ d < c /\ \A e \in Clients : Later(e)' => d < e
  <2> SUFFICES ASSUME transc # ClearedTransc
               PROVE  \E d \in Clients : Past(d)' /\ d < c /\ \A e \in Clients : Later(e)' => d < e
    OBVIOUS
  <2>1. PICK d \in Clients : Past(d) /\ \A e \in Clients : Later(e) => d < e
    BY <1>1 DEF Echoes
  <2>2. Later(c)
    BY <1>1 DEF Later
  <2> QED
    BY <1>3, <1>5, <1>6, <2>1, <2>2
<1>8. \A e \in stale : \E d \in Clients : d < e /\ Past(d)'
  BY <1>5, <1>6 DEF Echoes
<1>9. CASE cur' = 0
  <2>1. stale' = stale
    BY <1>1, <1>9 DEF Accept
  <2>2. \A d \in Clients \ stale : OwnBytes(d)'
    BY <1>4 DEF Echoes
  <2>3. transc' # ClearedTransc =>
          \E d \in Clients : Past(d)' /\ \A e \in Clients : Later(e)' => d < e
    BY <1>1, <1>7
  <2> QED
    BY <1>8, <1>9, <2>1, <2>2, <2>3 DEF Echoes
<1>10. CASE cur' = c
  <2>1. stale' = IF transc = ClearedTransc THEN stale ELSE stale \union {c}
    BY <1>1, <1>10 DEF Accept
  <2>2. \A d \in Clients \ stale' : OwnBytes(d)'
    <3>1. \A d \in Clients \ stale : OwnBytes(d)'
      BY <1>4 DEF Echoes
    <3> QED
      BY <2>1, <3>1
  <2>3. \A e \in stale' : \E d \in Clients : d < e /\ Past(d)'
    BY <1>7, <1>8, <2>1
  <2>4. c \notin stale' => Carries(c)'
    <3>1. transc # ClearedTransc => c \in stale'
      BY <2>1
    <3>2. /\ taken[c] = 0 /\ Len(down[c]) = 0
      BY <1>1 DEF SInv, Order
    <3>3. ASSUME transc = ClearedTransc PROVE Carries(c)'
      <4>1. /\ transc' = ClearedTransc /\ ~transc'.is_recv_header /\ transc'.recv_bytes = 0
            /\ ~transc'.is_send_header /\ taken'[c] = 0 /\ Len(down'[c]) = 0
        BY <1>1, <3>2, <3>3, ClearedIs
      <4> QED
        BY <4>1 DEF Carries
    <3> QED
      BY <3>1, <3>3
  <2> QED
    BY <1>1, <1>10, <2>2, <2>3, <2>4 DEF Echoes
<1> QED
  BY <1>1, <1>9, <1>10 DEF Accept

(* transc_clear_data between two messages of one client.                   *)
LEMMA LoopEchoes ==
  ASSUME SInv, SInv', Echoes, UNCHANGED clientvars, Loop
  PROVE  Echoes'
<1>1. /\ cur \in Clients /\ cur # 0 /\ UNCHANGED <<up, taken, down, stale, resumed, conn, cpc>>
      /\ conn[cur] # "waiting"
  BY Served DEF Loop, InService, clientvars, SInv, Order
<1>2. CASE conn[cur] # "open"
  <2>1. ~transc.is_send_body
    BY <1>1, <1>2 DEF SInv, Phases, Counters
  <2> QED
    BY <1>1, <1>2, <2>1, LeaveEchoes DEF Loop
<1>3. CASE conn[cur] = "open"
  <2>1. cur' = cur
    BY <1>3 DEF Loop
  <2>2. ASSUME NEW c \in Clients, c = cur, Carries(c), OwnBytes(c)
        PROVE  Carries(c)' /\ OwnBytes(c)'
    <3>1. OwnBytes(c)'
      BY <1>1, <2>2 DEF OwnBytes
    <3>2. CASE transc' = transc
      BY <1>1, <2>2, <3>1, <3>2 DEF Carries
    <3>3. CASE transc' # transc
      <4>1. transc.is_send_header /\ transc.is_send_body /\ transc' = ClearedTransc
        BY <1>3, <3>3 DEF Loop, AfterMessage
      <4>2. /\ transc.is_recv_header /\ transc.recv_bytes = 0
            /\ Len(transc.read_body_buf) = transc.length - MSG_HEADER_LEN
        BY <4>1 DEF SInv, Counters
      <4>3. /\ taken[c] = Len(down[c]) - transc.send_bytes + MSG_HEADER_LEN
                            + Len(transc.read_body_buf)
            /\ transc.recv_bytes + transc.send_bytes = transc.length
        BY <2>2, <4>1, <4>2 DEF Carries
      <4>4. /\ transc.send_bytes \in Nat /\ transc.length \in Int /\ Len(down[c]) \in Nat
            /\ MSG_HEADER_LEN \in Nat
        BY Lengths, Numbers DEF SInv, ServerTyped, Transc
      <4>5. taken[c] = Len(down[c])
        BY <4>2, <4>3, <4>4
      <4>6. /\ ~transc'.is_recv_header /\ transc'.recv_bytes = 0
            /\ ~transc'.is_send_header /\ taken'[c] = Len(down'[c]) /\ Len(down'[c]) \in Nat
        BY <1>1, <4>1, <4>4, <4>5, ClearedIs
      <4> QED
        BY <3>1, <4>1, <4>6 DEF Carries
    <3> QED
      BY <3>1, <3>2, <3>3
  <2> QED
    BY <1>1, <2>1, <2>2, ServeEchoes
<1> QED
  BY <1>2, <1>3

(* The bytes of the client served, in numbers.                             *)
LEMMA CarriedIs ==
  ASSUME SInv, NEW c \in Clients, Carries(c), transc.is_recv_header
  PROVE  /\ Len(down[c]) - transc.send_bytes \in Nat
         /\ taken[c] \in Nat /\ taken[c] <= Len(up[c])
         /\ taken[c] = (Len(down[c]) - transc.send_bytes) + MSG_HEADER_LEN
                         + Len(transc.read_body_buf)
         /\ Len(transc.read_body_buf) \in Nat /\ transc.read_body_buf \in Seq(Nat)
         /\ \A i \in 1..MSG_HEADER_LEN :
              transc.read_hdr_buf[i] = up[c][(Len(down[c]) - transc.send_bytes) + i]
         /\ \A i \in 1..Len(transc.read_body_buf) :
              transc.read_body_buf[i]
                = up[c][(Len(down[c]) - transc.send_bytes) + MSG_HEADER_LEN + i]
<1>1. /\ transc.send_bytes \in Nat /\ Len(transc.read_body_buf) \in Nat
      /\ transc.read_body_buf \in Seq(Nat)
  BY LenProperties DEF SInv, ServerTyped, Transc
<1>2. Len(down[c]) \in Nat /\ taken[c] \in Nat /\ taken[c] <= Len(up[c])
  BY Lengths
<1> QED
  BY <1>1, <1>2 DEF Carries

LEMMA ReadsEchoHeader ==
  ASSUME SInv, SInv', Echoes, UNCHANGED clientvars, RecvHeader
  PROVE  Echoes'
<1>1. /\ spc = "recv_header" /\ spc \in InService /\ cur \in Clients /\ cur # 0
      /\ conn[cur] = "open" /\ UnreadUp(cur) \in Nat
      /\ up[cur] \in Seq(Nat) /\ taken[cur] \in Nat
      /\ taken[cur] + UnreadUp(cur) = Len(up[cur]) /\ taken \in [Clients -> Nat]
      /\ transc \in Transc /\ ~transc.is_recv_header /\ Counters
      /\ MSG_HEADER_LEN \in Nat /\ transc.recv_bytes \in Nat
  BY Served, Numbers DEF RecvHeader, InService, SInv, NetTyped, ServerTyped, Phases, Transc
<1>2. /\ UNCHANGED <<up, down, cur, stale, resumed, cpc>>
      /\ \A c \in Clients : c # cur => conn'[c] = conn[c]
      /\ conn'[cur] # "waiting"
  BY <1>1 DEF RecvHeader, CloseClient, around, SInv, NetTyped, clientvars
<1>3. ASSUME NEW c \in Clients, c = cur, Carries(c), OwnBytes(c)
      PROVE  Carries(c)' /\ OwnBytes(c)'
  <2>1. OwnBytes(c)'
    BY <1>2, <1>3 DEF OwnBytes
  <2>2. /\ transc.recv_bytes = 0 /\ transc = ClearedTransc /\ taken[c] = Len(down[c])
        /\ Len(down[c]) \in Nat
    BY <1>1, <1>3, Lengths DEF Carries
  <2>3. CASE transc' = [transc EXCEPT !.read_hdr_buf = Zeros(MSG_HEADER_LEN)] /\ taken' = taken
    <3>1. transc' = ClearedTransc
      <4>1. transc.read_hdr_buf = Zeros(MSG_HEADER_LEN)
        BY <2>2 DEF ClearedTransc
      <4>2. [transc EXCEPT !.read_hdr_buf = transc.read_hdr_buf] = transc
        BY <1>1 DEF Transc
      <4> QED
        BY <2>2, <2>3, <4>1, <4>2
    <3>2. /\ ~transc'.is_recv_header /\ transc'.recv_bytes = 0
          /\ ~transc'.is_send_header /\ taken'[c] = Len(down'[c]) /\ Len(down'[c]) \in Nat
      BY <1>2, <2>2, <2>3, <3>1, ClearedIs
    <3> QED
      BY <2>1, <3>1, <3>2 DEF Carries
  <2>4. ASSUME NEW n \in 1..Lesser(UnreadUp(cur), MSG_HEADER_LEN - transc.recv_bytes),
               NEW t, t = HeaderRead(transc, SubSeq(up[cur], taken[cur] + 1, taken[cur] + n)),
               taken' = [taken EXCEPT ![cur] = taken[cur] + n],
               \/ /\ t.recv_bytes = MSG_HEADER_LEN
                  /\ transc' = [t EXCEPT !.length = MsgLength(t.read_hdr_buf), !.is_recv_header = TRUE]
               \/ /\ transc' = [t EXCEPT !.length = MsgLength(t.read_hdr_buf)] \/ transc' = t
                  /\ CloseClient(n)
        PROVE  Carries(c)'
    <3> DEFINE data == SubSeq(up[cur], taken[cur] + 1, taken[cur] + n)
    <3>1. n \in Nat /\ n >= 1 /\ n <= UnreadUp(cur) /\ n <= MSG_HEADER_LEN
      <4> DEFINE a == UnreadUp(cur)
                 b == MSG_HEADER_LEN - transc.recv_bytes
      <4>1. a \in Int /\ b \in Int /\ b = MSG_HEADER_LEN
        BY <1>1, <2>2
      <4>2. n \in 1..Lesser(a, b)
        OBVIOUS
      <4> HIDE DEF a, b
      <4>3. n \in Nat /\ n >= 1 /\ n <= a /\ n <= b
        BY <4>1, <4>2, UpTo
      <4> QED
        BY <4>1, <4>3 DEF a
    <3>2. /\ data \in Seq(Nat) /\ Len(data) = n
          /\ \A i \in 1..n : data[i] = up[c][Len(down[c]) + i]
      <4>1. taken[cur] + n <= Len(up[cur])
        BY <1>1, <3>1
      <4>2. /\ data \in Seq(Nat) /\ Len(data) = n
            /\ \A i \in 1..n : data[i] = up[cur][taken[cur] + i]
        <5>1. up[cur] \in Seq(Nat) /\ taken[cur] \in Nat /\ n \in Nat
          BY <1>1, <3>1
        <5> QED
          BY <4>1, <5>1, PartIs
      <4> HIDE DEF data
      <4> QED
        BY <1>3, <2>2, <4>2
    <3> HIDE DEF data
    <3>3. t = HeaderRead(transc, data)
      BY <2>4 DEF data
    <3>4. /\ t \in Transc /\ t.is_recv_header = transc.is_recv_header
          /\ t.is_send_header = transc.is_send_header
          /\ t.recv_bytes = transc.recv_bytes + Len(data)
          /\ t.send_bytes = transc.send_bytes /\ t.read_body_buf = transc.read_body_buf
          /\ \A i \in 1..MSG_HEADER_LEN :
               t.read_hdr_buf[i]
                 = IF i - transc.recv_bytes \in 1..Len(data) THEN data[i - transc.recv_bytes] ELSE 0
      BY <1>1, <3>2, <3>3, HeaderReadIs
    <3>5. /\ ~t.is_recv_header /\ ~t.is_send_header /\ t.recv_bytes = n /\ t.send_bytes = 0
          /\ t.read_body_buf = <<>>
      BY <1>1, <2>2, <3>1, <3>2, <3>4, ClearedIs
    <3>6. taken'[c] = Len(down'[c]) + n /\ Len(down'[c]) = Len(down[c])
      BY <1>1, <1>2, <1>3, <2>2, <2>4
    <3>7. CASE /\ t.recv_bytes = MSG_HEADER_LEN
               /\ transc' = [t EXCEPT !.length = MsgLength(t.read_hdr_buf), !.is_recv_header = TRUE]
      <4>1. /\ transc'.is_recv_header /\ ~transc'.is_send_header /\ transc'.send_bytes = 0
            /\ transc'.read_hdr_buf = t.read_hdr_buf /\ transc'.read_body_buf = <<>>
        BY <3>4, <3>5, <3>7 DEF Transc
      <4>2. n = MSG_HEADER_LEN
        BY <3>5, <3>7
      <4>3. \A i \in 1..MSG_HEADER_LEN : transc'.read_hdr_buf[i] = up'[c][Len(down'[c]) - 0 + i]
        <5> TAKE i \in 1..MSG_HEADER_LEN
        <5>1. i - transc.recv_bytes = i /\ i \in 1..Len(data)
          BY <1>1, <2>2, <3>2, <4>2
        <5>2. t.read_hdr_buf[i] = data[i]
          BY <3>4, <5>1
        <5>3. data[i] = up[c][Len(down[c]) + i]
          BY <3>2, <4>2
        <5>4. Len(down'[c]) - 0 + i = Len(down[c]) + i
          BY <2>2, <3>6
        <5> QED
          BY <1>2, <4>1, <5>2, <5>3, <5>4
      <4>4. /\ 0 <= Len(down'[c])
            /\ taken'[c] = Len(down'[c]) - 0 + MSG_HEADER_LEN + Len(<<>>)
        BY <1>1, <2>2, <3>6, <4>2
      <4>5. \A i \in 1..Len(<<>>) : FALSE
        OBVIOUS
      <4> QED
        BY <4>1, <4>3, <4>4, <4>5 DEF Carries
    <3>8. CASE /\ transc' = [t EXCEPT !.length = MsgLength(t.read_hdr_buf)] \/ transc' = t
               /\ CloseClient(n)
      <4>1. ~transc'.is_recv_header /\ ~transc'.is_send_header /\ transc'.recv_bytes = n
        BY <3>4, <3>5, <3>8 DEF Transc
      <4>2. conn'[c] # "open"
        BY <1>1, <1>3, <3>8 DEF CloseClient, SInv, NetTyped
      <4> QED
        BY <3>1, <3>6, <4>1, <4>2 DEF Carries
    <3> QED
      BY <2>4, <3>7, <3>8
  <2> QED
    BY <2>1, <2>3, <2>4 DEF RecvHeader
<1> QED
  BY <1>1, <1>2, <1>3, ServeEchoes

LEMMA ReadsEchoBody ==
  ASSUME SInv, SInv', Echoes, UNCHANGED clientvars, RecvBody
  PROVE  Echoes'
<1>1. /\ spc \in {"recv_body", "recv_again", "recv_rest"} /\ spc \in InService
      /\ cur \in Clients /\ cur # 0
      /\ conn[cur] = "open" /\ UnreadUp(cur) \in Nat
      /\ up[cur] \in Seq(Nat) /\ taken[cur] \in Nat
      /\ taken[cur] + UnreadUp(cur) = Len(up[cur]) /\ taken \in [Clients -> Nat]
      /\ transc \in Transc /\ transc.is_recv_header /\ ~transc.is_send_header
      /\ MSG_HEADER_LEN \in Nat /\ transc.recv_bytes \in Nat /\ transc.length \in Int
  BY Served, Numbers
     DEF RecvBody, InService, SInv, NetTyped, ServerTyped, Phases, Counters, Transc
<1>2. /\ UNCHANGED <<up, down, cur, stale, resumed, cpc>>
      /\ \A c \in Clients : c # cur => conn'[c] = conn[c]
      /\ conn'[cur] # "waiting"
  BY <1>1 DEF RecvBody, CloseClient, around, SInv, NetTyped, clientvars, netvars
<1>3. ASSUME NEW c \in Clients, c = cur, Carries(c), OwnBytes(c)
      PROVE  Carries(c)' /\ OwnBytes(c)'
  <2> DEFINE base == Len(down[c]) - transc.send_bytes
             body == transc.read_body_buf
  <2>1. OwnBytes(c)'
    BY <1>2, <1>3 DEF OwnBytes
  <2>2. CASE UNCHANGED <<taken, transc>>
    BY <1>1, <1>2, <1>3, <2>1, <2>2 DEF Carries
  <2>3. ASSUME NEW n \in 1..Lesser(UnreadUp(cur), transc.length - transc.recv_bytes),
               NEW t, t = BodyRead(transc, SubSeq(up[cur], taken[cur] + 1, taken[cur] + n)),
               taken' = [taken EXCEPT ![cur] = taken[cur] + n], transc' = t
        PROVE  Carries(c)'
    <3> DEFINE data == SubSeq(up[cur], taken[cur] + 1, taken[cur] + n)
    <3>1. n \in Nat /\ n <= UnreadUp(cur)
      <4> DEFINE a == UnreadUp(cur)
                 b == transc.length - transc.recv_bytes
      <4>1. a \in Int /\ b \in Int
        BY <1>1
      <4>2. n \in 1..Lesser(a, b)
        OBVIOUS
      <4> HIDE DEF a, b
      <4>3. n \in Nat /\ n <= a
        BY <4>1, <4>2, UpTo
      <4> QED
        BY <4>1, <4>3 DEF a
    <3>2. /\ data \in Seq(Nat) /\ Len(data) = n
          /\ \A i \in 1..n : data[i] = up[c][taken[c] + i]
      <4>1. taken[cur] + n <= Len(up[cur])
        BY <1>1, <3>1
      <4>2. /\ data \in Seq(Nat) /\ Len(data) = n
            /\ \A i \in 1..n : data[i] = up[cur][taken[cur] + i]
        BY <1>1, <3>1, <4>1, PartIs
      <4> HIDE DEF data
      <4> QED
        BY <1>3, <4>2
    <3> HIDE DEF data
    <3>3. t = BodyRead(transc, data)
      BY <2>3 DEF data
    <3>4. /\ t.is_recv_header = transc.is_recv_header /\ t.is_send_header = transc.is_send_header
          /\ t.send_bytes = transc.send_bytes /\ t.read_hdr_buf = transc.read_hdr_buf
          /\ t.read_body_buf = transc.read_body_buf \o data
      BY <1>1, <3>2, <3>3, BodyReadIs
    <3>5. /\ base \in Nat /\ taken[c] = base + MSG_HEADER_LEN + Len(body)
          /\ Len(body) \in Nat /\ body \in Seq(Nat)
          /\ \A i \in 1..MSG_HEADER_LEN : transc.read_hdr_buf[i] = up[c][base + i]
          /\ \A i \in 1..Len(body) : body[i] = up[c][base + MSG_HEADER_LEN + i]
      BY <1>1, <1>3, CarriedIs
    <3>6. /\ transc'.read_body_buf = body \o data /\ transc'.send_bytes = transc.send_bytes
          /\ transc'.read_hdr_buf = transc.read_hdr_buf /\ down' = down /\ up' = up
          /\ transc'.is_recv_header /\ ~transc'.is_send_header /\ taken'[c] = taken[c] + n
      BY <1>1, <1>2, <1>3, <2>3, <3>4
    <3>7. transc.send_bytes <= Len(down[c])
      BY <1>1, <1>3 DEF Carries
    <3> HIDE DEF base, body
    <3>8. /\ Len(body \o data) = Len(body) + n
          /\ \A i \in 1..Len(body) : (body \o data)[i] = body[i]
          /\ \A i \in 1..n : (body \o data)[Len(body) + i] = data[i]
      BY <3>2, <3>5, BehindIs
    <3>9. taken'[c] = base + MSG_HEADER_LEN + Len(body \o data)
      BY <1>1, <3>1, <3>5, <3>6, <3>8
    <3>10. \A i \in 1..Len(body \o data) : (body \o data)[i] = up[c][base + MSG_HEADER_LEN + i]
      <4> TAKE i \in 1..Len(body \o data)
      <4>1. CASE i <= Len(body)
        BY <3>1, <3>5, <3>8, <4>1
      <4>2. CASE i > Len(body)
        <5> DEFINE j == i - Len(body)
        <5>1. j \in 1..n /\ i = Len(body) + j
          BY <3>1, <3>5, <3>8, <4>2
        <5> HIDE DEF j
        <5>2. (body \o data)[i] = up[c][taken[c] + j]
          BY <3>2, <3>8, <5>1
        <5>3. taken[c] + j = base + MSG_HEADER_LEN + i
          BY <1>1, <3>1, <3>5, <5>1
        <5> QED
          BY <5>2, <5>3
      <4> QED
        BY <3>1, <3>5, <3>8, <4>1, <4>2
    <3> QED
      BY <3>5, <3>6, <3>7, <3>9, <3>10 DEF Carries, base
  <2> QED
    BY <2>1, <2>2, <2>3 DEF RecvBody, netvars
<1> QED
  BY <1>1, <1>2, <1>3, ServeEchoes

(* What is appended to a client's answers continues its own bytes.         *)
LEMMA OwnBytesGrow ==
  ASSUME SInv, NEW c \in Clients, OwnBytes(c), up' = up, NEW data \in Seq(Nat),
         down'[c] = down[c] \o data, Len(down[c]) + Len(data) <= Len(up[c]),
         \A i \in 1..Len(data) : data[i] = up[c][Len(down[c]) + i]
  PROVE  OwnBytes(c)'
<1>1. down[c] \in Seq(Nat) /\ Len(up[c]) \in Nat
  BY Lengths DEF SInv, NetTyped
<1>2. /\ Len(down[c]) \in Nat /\ Len(data) \in Nat
      /\ Len(down'[c]) = Len(down[c]) + Len(data)
      /\ \A i \in 1..Len(down[c]) : down'[c][i] = down[c][i]
      /\ \A i \in 1..Len(data) : down'[c][Len(down[c]) + i] = data[i]
  BY <1>1, BehindIs
<1>3. ASSUME NEW i \in 1..Len(down'[c]) PROVE down'[c][i] = up[c][i]
  <2>1. CASE i <= Len(down[c])
    BY <1>2, <2>1 DEF OwnBytes
  <2>2. CASE i > Len(down[c])
    <3> DEFINE j == i - Len(down[c])
    <3>1. j \in 1..Len(data) /\ i = Len(down[c]) + j
      BY <1>2, <2>2
    <3> HIDE DEF j
    <3> QED
      BY <1>2, <3>1
  <2> QED
    BY <1>2, <2>1, <2>2
<1> QED
  BY <1>2, <1>3 DEF OwnBytes

(* The same for what transc_t has left of the message.                     *)
LEMMA CarriesLess ==
  ASSUME SInv, SInv', NEW c \in Clients, Carries(c), UNCHANGED <<up, taken>>,
         transc.is_recv_header, transc'.is_recv_header,
         NEW n \in Nat, Len(down'[c]) = Len(down[c]) + n,
         transc'.send_bytes = transc.send_bytes + n,
         transc'.read_hdr_buf = transc.read_hdr_buf,
         transc'.read_body_buf = transc.read_body_buf,
         transc'.is_send_header => transc'.recv_bytes + transc'.send_bytes = transc'.length
  PROVE  Carries(c)'
<1>1. /\ transc.send_bytes \in Nat /\ Len(down[c]) \in Nat
  BY Lengths DEF SInv, ServerTyped, Transc
<1>2. Len(down'[c]) - transc'.send_bytes = Len(down[c]) - transc.send_bytes
  BY <1>1
<1>3. transc'.send_bytes <= Len(down'[c])
  BY <1>1 DEF Carries
<1> QED
  BY <1>2, <1>3 DEF Carries

LEMMA NoWriteEchoes ==
  ASSUME SInv, SInv', Echoes, UNCHANGED clientvars,
         WriteReset \/ UNCHANGED <<netvars, transc, around, resumed>>
  PROVE  Echoes'
<1>1. UNCHANGED <<up, taken, down, transc, cur, stale, resumed, conn, cpc>>
  BY DEF WriteReset, netvars, around, clientvars
<1>2. UpGrows /\ \A c \in Clients : Later(c)' => Later(c)
  BY <1>1, Lengths DEF UpGrows, Later
<1> QED
  BY <1>1, <1>2, QuietEchoes

LEMMA WritesEchoHeader ==
  ASSUME SInv, SInv', Echoes, UNCHANGED clientvars, SendHeader
  PROVE  Echoes'
<1> DEFINE n == Lesser(MSG_HEADER_LEN - transc.send_bytes, Room(cur))
           data == SubSeq(HeaderBuffer(transc), 1, n)
<1>1. /\ spc = "send_header" /\ spc \in InService /\ cur \in Clients /\ cur # 0
      /\ conn[cur] = "open" /\ Room(cur) \in Int
      /\ transc \in Transc /\ transc.is_recv_header /\ transc.is_recv_body
      /\ ~transc.is_send_header
      /\ MSG_HEADER_LEN \in Nat /\ transc.recv_bytes \in Nat /\ transc.length \in Int
      /\ transc.send_bytes \in Nat /\ transc.send_bytes < MSG_HEADER_LEN
      /\ transc.recv_bytes = transc.length /\ transc.length > MSG_HEADER_LEN
  BY Served, Numbers
     DEF SInv, ServerTyped, Phases, Counters, SendHeader, InService, Transc
<1>2. CASE WriteReset \/ UNCHANGED <<netvars, transc, around, resumed>>
  BY <1>2, NoWriteEchoes
<1>3. CASE SigPipe
  BY <1>3, EndEchoes DEF SigPipe
<1>4. CASE /\ Room(cur) > 0 /\ Written(data) /\ transc' = HeaderSent(transc, n)
           /\ resumed' = (resumed \/ transc.send_bytes > 0)
           /\ UNCHANGED <<up, taken, got, conn, peer, around>>
  <2>1. n \in Nat /\ n <= MSG_HEADER_LEN - transc.send_bytes
    <3> DEFINE a == MSG_HEADER_LEN - transc.send_bytes
               b == Room(cur)
    <3>1. a \in Int /\ b \in Int /\ a > 0 /\ b > 0
      BY <1>1, <1>4
    <3>2. n = Lesser(a, b)
      OBVIOUS
    <3> HIDE DEF a, b, n
    <3>3. n \in Int /\ n > 0 /\ n <= a
      BY <3>1, <3>2, LesserIs
    <3> QED
      BY <3>1, <3>3 DEF a
  <2> HIDE DEF n
  <2>2. n <= MSG_HEADER_LEN /\ n <= transc.recv_bytes
    BY <1>1, <2>1
  <2>3. /\ data \in Seq(Nat) /\ Len(data) = n
        /\ \A i \in 1..n : data[i] = HeaderBuffer(transc)[i]
    BY <1>1, <2>1, <2>2, HeaderBufferIs, FirstBytes
  <2> HIDE DEF data
  <2>4. /\ down'[cur] = down[cur] \o data /\ Len(down'[cur]) = Len(down[cur]) + n
        /\ \A c \in Clients : c # cur => down'[c] = down[c]
    BY <1>1, <1>4, <2>3, WrittenBy
  <2>5. /\ transc'.is_recv_header = transc.is_recv_header
        /\ transc'.length = transc.length
        /\ transc'.send_bytes = transc.send_bytes + n
        /\ transc'.read_hdr_buf = transc.read_hdr_buf
        /\ transc'.read_body_buf = transc.read_body_buf
        /\ transc.send_bytes + n = MSG_HEADER_LEN => transc'.recv_bytes = transc.recv_bytes - n
        /\ transc.send_bytes + n # MSG_HEADER_LEN => transc'.is_send_header = transc.is_send_header
    BY <1>1, <1>4, <2>1, <2>2, HeaderSentIs
  <2>6. ASSUME ~resumed', NEW c \in Clients, c = cur, Carries(c), OwnBytes(c)
        PROVE  Carries(c)' /\ OwnBytes(c)'
    <3>0. ~(transc.send_bytes > 0)
      BY <1>4, <2>6, Zenon
    <3>1. transc.send_bytes = 0
      <4>1. transc.send_bytes \in Nat
        BY <1>1, Zenon
      <4> QED
        BY <3>0, <4>1
    <3>2. transc'.is_send_header => transc'.recv_bytes + transc'.send_bytes = transc'.length
      <4>1. CASE transc.send_bytes + n # MSG_HEADER_LEN
        <5>1. ~transc'.is_send_header
          BY <1>1, <2>5, <4>1, Zenon
        <5> QED
          BY <5>1, Zenon
      <4>2. CASE transc.send_bytes + n = MSG_HEADER_LEN
        <5>1. /\ transc'.recv_bytes = transc.recv_bytes - n
              /\ transc'.send_bytes = transc.send_bytes + n
              /\ transc'.length = transc.length
          BY <2>5, <4>2, Zenon
        <5>2. /\ transc.recv_bytes \in Nat /\ transc.length \in Int
              /\ transc.recv_bytes = transc.length
          BY <1>1, Zenon
        <5>3. (transc.recv_bytes - n) + (transc.send_bytes + n) = transc.length
          BY <2>1, <3>1, <5>2
        <5> QED
          BY <5>1, <5>3, Zenon
      <4> QED
        BY <4>1, <4>2, Zenon
    <3>3. Carries(c)'
      BY <1>1, <1>4, <2>1, <2>4, <2>5, <2>6, <3>2, CarriesLess
    <3>4. /\ Len(down[c]) \in Nat /\ Len(up[c]) \in Nat /\ taken[c] \in Nat
          /\ taken[c] <= Len(up[c]) /\ Len(transc.read_body_buf) \in Nat
          /\ taken[c] = (Len(down[c]) - transc.send_bytes) + MSG_HEADER_LEN
                          + Len(transc.read_body_buf)
          /\ \A i \in 1..MSG_HEADER_LEN :
               transc.read_hdr_buf[i] = up[c][(Len(down[c]) - transc.send_bytes) + i]
      BY <1>1, <2>6, CarriedIs, Lengths
    <3>5. Len(down[c]) + Len(data) <= Len(up[c])
      BY <1>1, <2>1, <2>2, <2>3, <3>1, <3>4, SMTT(30)
    <3>6. \A i \in 1..Len(data) : data[i] = up[c][Len(down[c]) + i]
      <4> TAKE i \in 1..Len(data)
      <4>1. i \in 1..n /\ i \in 1..MSG_HEADER_LEN
        BY <1>1, <2>1, <2>2, <2>3
      <4>2. data[i] = transc.read_hdr_buf[i]
        BY <1>1, <2>3, <3>1, <4>1, HeaderBufferIs
      <4>3. (Len(down[c]) - transc.send_bytes) + i = Len(down[c]) + i
        BY <3>1, <3>4
      <4> QED
        BY <3>4, <4>1, <4>2, <4>3
    <3> QED
      BY <1>4, <2>3, <2>4, <2>6, <3>3, <3>5, <3>6, OwnBytesGrow
  <2>7. UNCHANGED <<up, cur, stale, cpc, conn>> /\ (resumed => resumed') /\ conn'[cur] # "waiting"
    BY <1>1, <1>4 DEF around, clientvars
  <2> QED
    BY <1>1, <2>4, <2>6, <2>7, ServeEchoes
<1> QED
  BY <1>2, <1>3, <1>4 DEF SendHeader

LEMMA WritesEchoBody ==
  ASSUME SInv, SInv', Echoes, UNCHANGED clientvars, SendBody
  PROVE  Echoes'
<1> DEFINE n == Lesser(transc.recv_bytes, Room(cur))
           data == SubSeq(BodyBuffer(transc), 1, n)
<1>1. /\ spc \in {"send_body", "send_again"} /\ spc \in InService /\ cur \in Clients /\ cur # 0
      /\ conn[cur] = "open" /\ Room(cur) \in Int
      /\ transc \in Transc /\ transc.is_recv_header /\ transc.is_recv_body
      /\ transc.is_send_header
      /\ MSG_HEADER_LEN \in Nat /\ transc.recv_bytes \in Nat /\ transc.length \in Int
      /\ transc.send_bytes \in Nat /\ transc.send_bytes >= MSG_HEADER_LEN
      /\ transc.recv_bytes > 0 /\ transc.length > MSG_HEADER_LEN
      /\ Len(transc.read_body_buf) = transc.length - MSG_HEADER_LEN
  <2>1. spc \in {"send_body", "send_again"} /\ spc \in InService
    BY DEF SendBody, InService
  <2>2. cur \in Clients /\ cur # 0 /\ conn[cur] = "open" /\ Room(cur) \in Int
    BY <2>1, Served
  <2>3. transc.is_send_header /\ ~transc.is_send_body
    BY <2>1, Zenon DEF SInv, Phases
  <2>4. transc.is_recv_body /\ transc.is_recv_header
    BY <2>3, Zenon DEF SInv, Counters
  <2>5. /\ transc \in Transc /\ transc.recv_bytes \in Nat /\ transc.length \in Int
        /\ transc.send_bytes \in Nat
    BY DEF SInv, ServerTyped, Transc
  <2>6. /\ MSG_HEADER_LEN <= transc.send_bytes /\ transc.recv_bytes # 0
        /\ transc.length > MSG_HEADER_LEN
        /\ Len(transc.read_body_buf) = transc.length - MSG_HEADER_LEN
    BY <2>3, <2>4, Zenon DEF SInv, Counters
  <2>7. transc.send_bytes >= MSG_HEADER_LEN /\ transc.recv_bytes > 0
    BY <2>5, <2>6, Numbers
  <2> QED
    BY <2>1, <2>2, <2>3, <2>4, <2>5, <2>6, <2>7, Numbers, Zenon
<1>2. CASE WriteReset \/ UNCHANGED <<netvars, transc, around, resumed>>
  BY <1>2, NoWriteEchoes
<1>3. CASE SigPipe \/ ProcessEnds("killed")
  BY <1>3, EndEchoes DEF SigPipe
<1>4. CASE /\ Room(cur) > 0 /\ Written(data) /\ transc' = BodySent(transc, n)
           /\ resumed' = (resumed \/ transc.send_bytes > MSG_HEADER_LEN)
           /\ UNCHANGED <<up, taken, got, conn, peer, around>>
  <2>1. n \in Nat /\ n <= transc.recv_bytes
    <3> DEFINE a == transc.recv_bytes
               b == Room(cur)
    <3>1. a \in Int /\ b \in Int /\ a > 0 /\ b > 0
      BY <1>1, <1>4
    <3>2. n = Lesser(a, b)
      OBVIOUS
    <3> HIDE DEF a, b, n
    <3>3. n \in Int /\ n > 0 /\ n <= a
      BY <3>1, <3>2, LesserIs
    <3> QED
      BY <3>1, <3>3 DEF a
  <2> HIDE DEF n
  <2>2. BodyBuffer(transc) \in [1..transc.recv_bytes -> Nat]
    BY <1>1, BodyBufferIs
  <2>3. /\ data \in Seq(Nat) /\ Len(data) = n
        /\ \A i \in 1..n : data[i] = BodyBuffer(transc)[i]
    BY <1>1, <2>1, <2>2, FirstBytes
  <2> HIDE DEF data
  <2>4. /\ down'[cur] = down[cur] \o data /\ Len(down'[cur]) = Len(down[cur]) + n
        /\ \A c \in Clients : c # cur => down'[c] = down[c]
    BY <1>1, <1>4, <2>3, WrittenBy
  <2>5. /\ transc'.is_recv_header = transc.is_recv_header
        /\ transc'.length = transc.length
        /\ transc'.recv_bytes = transc.recv_bytes - n
        /\ transc'.send_bytes = transc.send_bytes + n
        /\ transc'.read_hdr_buf = transc.read_hdr_buf
        /\ transc'.read_body_buf = transc.read_body_buf
    BY <1>1, <1>4, <2>1, BodySentIs
  <2>6. ASSUME ~resumed', NEW c \in Clients, c = cur, Carries(c), OwnBytes(c)
        PROVE  Carries(c)' /\ OwnBytes(c)'
    <3>0. ~(transc.send_bytes > MSG_HEADER_LEN)
      BY <1>4, <2>6, Zenon
    <3>1. transc.send_bytes = MSG_HEADER_LEN
      <4>1. /\ transc.send_bytes \in Nat /\ transc.send_bytes >= MSG_HEADER_LEN
            /\ MSG_HEADER_LEN \in Nat
        BY <1>1, Zenon
      <4> QED
        BY <3>0, <4>1
    <3>2. transc.recv_bytes + transc.send_bytes = transc.length
      BY <1>1, <2>6 DEF Carries
    <3>3. transc'.recv_bytes + transc'.send_bytes = transc'.length
      BY <1>1, <2>1, <2>5, <3>2
    <3>4. Carries(c)'
      BY <1>1, <1>4, <2>1, <2>4, <2>5, <2>6, <3>3, CarriesLess
    <3>5. /\ Len(down[c]) \in Nat /\ Len(up[c]) \in Nat /\ taken[c] \in Nat
          /\ taken[c] <= Len(up[c])
          /\ taken[c] = (Len(down[c]) - transc.send_bytes) + MSG_HEADER_LEN
                          + Len(transc.read_body_buf)
          /\ \A i \in 1..Len(transc.read_body_buf) :
               transc.read_body_buf[i]
                 = up[c][(Len(down[c]) - transc.send_bytes) + MSG_HEADER_LEN + i]
      BY <1>1, <2>6, CarriedIs, Lengths
    <3>6. transc.recv_bytes = Len(transc.read_body_buf)
      BY <1>1, <3>1, <3>2
    <3>7. Len(down[c]) + Len(data) <= Len(up[c])
      BY <1>1, <2>1, <2>3, <3>1, <3>5, <3>6
    <3>8. \A i \in 1..Len(data) : data[i] = up[c][Len(down[c]) + i]
      <4> TAKE i \in 1..Len(data)
      <4>1. i \in 1..n /\ i \in 1..transc.recv_bytes
        BY <1>1, <2>1, <2>3
      <4>2. \A j \in 1..transc.recv_bytes : BodyBuffer(transc)[j] = transc.read_body_buf[j]
        BY <1>1, <3>1, <3>6, BodyBufferIs
      <4>3. data[i] = transc.read_body_buf[i]
        BY <2>3, <4>1, <4>2
      <4>4. (Len(down[c]) - transc.send_bytes) + MSG_HEADER_LEN + i = Len(down[c]) + i
        BY <1>1, <3>1, <3>5
      <4> QED
        BY <3>5, <3>6, <4>1, <4>3, <4>4
    <3> QED
      BY <1>4, <2>3, <2>4, <2>6, <3>4, <3>7, <3>8, OwnBytesGrow
  <2>7. UNCHANGED <<up, cur, stale, cpc, conn>> /\ (resumed => resumed') /\ conn'[cur] # "waiting"
    BY <1>1, <1>4 DEF around, clientvars
  <2> QED
    BY <1>1, <2>4, <2>6, <2>7, ServeEchoes
<1> QED
  BY <1>2, <1>3, <1>4 DEF SendBody

LEMMA InitEchoes == Init => Echoes
<1> SUFFICES ASSUME Init PROVE Echoes
  OBVIOUS
<1>1. /\ cur = 0 /\ stale = {} /\ transc = ClearedTransc
      /\ \A c \in Clients : down[c] = <<>> /\ up[c] = <<>>
  BY DEF Init, NetInit, ServerInit
<1>2. \A c \in Clients : OwnBytes(c)
  BY <1>1 DEF OwnBytes
<1> QED
  BY <1>1, <1>2 DEF Echoes

LEMMA NextEchoes ==
  ASSUME SInv, SInv', Echoes, [Next]_vars
  PROVE  Echoes'
<1>1. CASE (Interrupt \/ InterruptAgain \/ Detect \/ Main) /\ UNCHANGED clientvars
  <2>1. CASE Detect \/ Interrupt
    BY <1>1, <2>1, FlowEchoes
  <2>2. CASE InterruptAgain
    BY <1>1, <2>2, EndStepsEchoes
  <2>3. CASE Main
    BY <1>1, <2>3, FlowEchoes, EndStepsEchoes, AcceptEchoes, LoopEchoes, ReadsEchoHeader,
       ReadsEchoBody, WritesEchoHeader, WritesEchoBody DEF Main
  <2> QED
    BY <1>1, <2>1, <2>2, <2>3
<1>2. CASE \E c \in Clients : (ClientStep(c) \/ Network(c)) /\ UNCHANGED servervars
  BY <1>2, PeersEchoes DEF ClientStep
<1>3. CASE UNCHANGED vars
  <2>1. UNCHANGED <<up, taken, down, transc, cur, stale, resumed, conn, cpc>>
    BY <1>3 DEF vars, netvars, servervars, clientvars
  <2>2. UpGrows /\ \A c \in Clients : Later(c)' => Later(c)
    BY <2>1, Lengths DEF UpGrows, Later
  <2> QED
    BY <2>1, <2>2, QuietEchoes
<1> QED
  BY <1>1, <1>2, <1>3 DEF Next, Finished

(* The invariant of the echo: the types, the stage of transc_t and what it *)
(* carries for the client served, with the order of the clients.           *)
THEOREM EchoInvariant == Spec => [](SInv /\ Echoes)
<1>1. Init => SInv /\ Echoes
  BY InitSInv, InitEchoes
<1>2. SInv /\ Echoes /\ [Next]_vars => (SInv /\ Echoes)'
  BY NextSInv, NextEchoes
<1> QED
  BY <1>1, <1>2, PTL DEF Spec

(* Everything a client gets is its own bytes, in order and unchanged, over *)
(* any number of clients, messages, splits and connections, unless its     *)
(* connection found transc_t in use or the rest of a partial write was     *)
(* sent (server_recv_data, server_send_data).                              *)
THEOREM EchoesFaithfully == Spec => []EchoFaithful
<1>1. SInv /\ Echoes => EchoFaithful
  <2> SUFFICES ASSUME SInv, Echoes, ~resumed, NEW c \in Clients \ stale
               PROVE  IsPrefix(down[c], up[c])
    BY DEF EchoFaithful
  <2>1. OwnBytes(c)
    BY DEF Echoes
  <2>2. /\ up[c] \in Seq(Nat) /\ down[c] \in Seq(Nat)
        /\ Len(up[c]) \in Nat /\ Len(down[c]) \in Nat
    BY Lengths DEF SInv, NetTyped
  <2> DEFINE n == Len(down[c])
  <2>3. /\ n \in Nat /\ 0 + n <= Len(up[c]) /\ 0 + n <= Len(down[c]) /\ 0 + 1 = 1 /\ 0 + n = n
    BY <2>1, <2>2 DEF OwnBytes
  <2> HIDE DEF n
  <2>4. /\ SubSeq(down[c], 1, n) \in Seq(Nat) /\ Len(SubSeq(down[c], 1, n)) = n
        /\ \A i \in 1..n : SubSeq(down[c], 1, n)[i] = down[c][i]
    BY <2>2, <2>3, PartIs, SMTT(30)
  <2>5. /\ SubSeq(up[c], 1, n) \in Seq(Nat) /\ Len(SubSeq(up[c], 1, n)) = n
        /\ \A i \in 1..n : SubSeq(up[c], 1, n)[i] = up[c][i]
    BY <2>2, <2>3, PartIs, SMTT(30)
  <2>6. \A i \in 1..n : SubSeq(down[c], 1, n)[i] = SubSeq(up[c], 1, n)[i]
    BY <2>1, <2>4, <2>5 DEF OwnBytes, n
  <2>7. SubSeq(down[c], 1, n) = SubSeq(up[c], 1, n)
    BY <2>4, <2>5, <2>6, SeqEqual
  <2> QED
    BY <2>1, <2>7 DEF IsPrefix, OwnBytes, n
<1> QED
  BY <1>1, EchoInvariant, PTL

(* recv_bytes counts what the server holds of the client's bytes, so that  *)
(* it is 0 at the end of a message and there alone.                        *)
THEOREM HeldCounted == Spec => []BytesHeld
<1>1. SInv /\ Echoes => BytesHeld
  <2> SUFFICES ASSUME SInv, Echoes, cur # 0, cur \notin stale, ~resumed, conn[cur] = "open"
               PROVE  transc.recv_bytes
                        - (IF transc.is_send_header THEN 0 ELSE transc.send_bytes)
                        = taken[cur] - Len(down[cur])
    BY DEF BytesHeld
  <2>1. /\ cur \in Clients /\ Carries(cur) /\ Counters
    BY DEF SInv, ServerTyped, Echoes
  <2>2. /\ transc.send_bytes \in Nat /\ transc.recv_bytes \in Nat /\ transc.length \in Int
        /\ Len(down[cur]) \in Nat /\ taken[cur] \in Nat /\ MSG_HEADER_LEN \in Nat
        /\ Len(transc.read_body_buf) \in Nat
    BY <2>1, Lengths, Numbers, LenProperties DEF SInv, ServerTyped, Transc
  <2>3. CASE ~transc.is_recv_header
    BY <2>1, <2>2, <2>3 DEF Carries, Counters
  <2>4. CASE transc.is_recv_header
    <3>1. taken[cur] = (Len(down[cur]) - transc.send_bytes) + MSG_HEADER_LEN
                         + Len(transc.read_body_buf)
      BY <2>1, <2>4, CarriedIs
    <3> DEFINE t == taken[cur]
               d == Len(down[cur])
               s == transc.send_bytes
               r == transc.recv_bytes
               l == transc.length
               b == Len(transc.read_body_buf)
    <3>2. /\ ~transc.is_recv_body => ~transc.is_send_header
          /\ transc.is_send_header => r + s = l
          /\ transc.is_recv_body => b = l - MSG_HEADER_LEN
          /\ ~transc.is_recv_body => s = 0 /\ b = r - MSG_HEADER_LEN
          /\ transc.is_recv_body /\ ~transc.is_send_header => r = l
      BY <2>1, <2>4, Zenon DEF Carries, Counters
    <3>3. /\ t \in Nat /\ d \in Nat /\ s \in Nat /\ r \in Nat /\ l \in Int /\ b \in Nat
          /\ MSG_HEADER_LEN \in Nat
      BY <2>2, Zenon
    <3>4. t = (d - s) + MSG_HEADER_LEN + b
      BY <3>1, Zenon
    <3>5. r - (IF transc.is_send_header THEN 0 ELSE s) = t - d
      <4> HIDE DEF t, d, s, r, l, b
      <4>1. CASE transc.is_send_header
        <5>1. r + s = l /\ b = l - MSG_HEADER_LEN
          BY <3>2, <4>1, Zenon
        <5>2. r - 0 = t - d
          BY <3>3, <3>4, <5>1
        <5> QED
          BY <4>1, <5>2, Zenon
      <4>2. CASE ~transc.is_send_header
        <5>1. b = r - MSG_HEADER_LEN
          <6>1. CASE transc.is_recv_body
            <7>1. b = l - MSG_HEADER_LEN /\ r = l
              BY <3>2, <4>2, <6>1, Zenon
            <7> QED
              BY <7>1, Zenon
          <6>2. CASE ~transc.is_recv_body
            BY <3>2, <6>2, Zenon
          <6> QED
            BY <6>1, <6>2, Zenon
        <5>2. r - s = t - d
          BY <3>3, <3>4, <5>1
        <5> QED
          BY <4>2, <5>2, Zenon
      <4> QED
        BY <4>1, <4>2, Zenon
    <3> QED
      BY <3>5, Zenon
  <2> QED
    BY <2>3, <2>4
<1> QED
  BY <1>1, EchoInvariant, PTL

(* A connection finds transc_t in use only when an earlier client went     *)
(* without the whole of its answer: one that ended between two messages    *)
(* leaves nothing behind.                                                  *)
THEOREM LeftoversExplained == Spec => []StaleOnlyAfterBreak
<1>1. SInv /\ Echoes => StaleOnlyAfterBreak
  BY DEF Echoes, Past, StaleOnlyAfterBreak
<1> QED
  BY <1>1, EchoInvariant, PTL
=============================================================================
