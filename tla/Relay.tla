------------------------------- MODULE Relay -------------------------------
(***************************************************************************)
(* One connection of the proxy, in the direction from its source to the    *)
(* destination: the worker that runs proxy_conn (src/src/proxy/proxy.c)    *)
(* moves messages from src_fd to dst_fd.  The header of a message goes     *)
(* through a user buffer (read, write), its body through a pipe (splice),  *)
(* and transc_t (transc.c) remembers how far the message has got.          *)
(*                                                                         *)
(* Every system call is one action, because the two sockets change between *)
(* them.  The source writes messages, the network delivers their bytes one *)
(* by one, the destination reads at its own pace, and either side may end. *)
(* src_fd belongs to this worker.  dst_fd is shared: the other direction   *)
(* of this connection reads it, every other worker reads and writes it,    *)
(* and each of them may close it.  Of all that, this module has the close  *)
(* (CloseDst); what others write is in Wire, descriptor numbers that come  *)
(* back after a close are in Proxy.                                        *)
(***************************************************************************)
EXTENDS Naturals, Integers, Sequences

CONSTANTS
  MSG_HEADER_LEN,   \* 20 in transc_l.h; a version byte, 3 length bytes, the rest
  ENDIAN,           \* 1 in proxy_l.h: the proxy decodes lengths big endian
  PEER_ENDIAN,      \* how the source encodes lengths: 1 big, 0 little endian
  MsgLengths,       \* total lengths of the messages the source may send
  MaxMsgs,          \* bound on the messages sent
  PIPE_CAP,         \* bytes the pipe holds
  SND_CAP,          \* bytes the socket towards the destination holds
  ShortHeaderWrite, \* TRUE when write may accept a part of the header
  PeersMayFail,     \* TRUE when the peers may close or reset
  DstFdMayClose     \* TRUE when the rest of the proxy may close dst_fd

(* A length fits the three bytes that the header has for it.               *)
ASSUME HeaderAssumption ==
  /\ MSG_HEADER_LEN \in Nat /\ MSG_HEADER_LEN >= 4
  /\ MsgLengths \subseteq {n \in Nat : n >= MSG_HEADER_LEN /\ n \div 65536 < 256}
ASSUME BoundsAssumption ==
  /\ MaxMsgs \in Nat
  /\ PIPE_CAP \in Nat \ {0}
  /\ SND_CAP \in Nat /\ SND_CAP >= MSG_HEADER_LEN
ASSUME ModesAssumption ==
  /\ ENDIAN \in {0, 1} /\ PEER_ENDIAN \in {0, 1}
  /\ ShortHeaderWrite \in BOOLEAN
  /\ PeersMayFail \in BOOLEAN /\ DstFdMayClose \in BOOLEAN

VARIABLES
  sent,      \* bytes the source has written
  bounds,    \* bounds[k]: position in `sent' of the last byte of message k
  arrived,   \* how many of them are in the proxy's receive buffer or beyond
  consumed,  \* how many of them the proxy has read
  src,       \* the source's side: "open", "fin" or "rst"
  dst,       \* dst_fd: "up", "reset" or "broken" by the peer, or "closed"
  pipe,      \* bytes in the pipe
  out,       \* bytes the kernel has accepted for the destination
  drained,   \* how many of them the destination has taken
  transc,    \* the transc_t of this direction
  pc         \* where the worker is

net == <<sent, bounds, arrived, src, dst, drained>>
vars == <<net, consumed, pipe, out, transc, pc>>

Lesser(a, b) == IF a < b THEN a ELSE b

(* Bytes: 1 is the version, 0 the unused header fields, bodies are numbered *)
(* by their position so that no two body bytes are equal.                  *)
VERSION == 1
BodyByte(pos) == 1000 + pos

LengthBytes(len, endian) ==
  LET hi  == len \div 65536
      mid == (len \div 256) % 256
      lo  == len % 256
  IN IF endian = 1 THEN <<hi, mid, lo>> ELSE <<lo, mid, hi>>

(* A message of `len' bytes, header included, that starts after byte `at'. *)
Message(len, at) ==
  <<VERSION>> \o LengthBytes(len, PEER_ENDIAN)
  \o [i \in 1..(MSG_HEADER_LEN - 4) |-> 0]
  \o [i \in 1..(len - MSG_HEADER_LEN) |-> BodyByte(at + MSG_HEADER_LEN + i)]

(* Operators named X_y are X with a slip y; no specification uses them:    *)
(* put in the place of X, each breaks one of the properties below.         *)

(* The header read one byte early.                                         *)
MsgLength_early(hdr, endian) == hdr[1] * 65536 + hdr[2] * 256 + hdr[3]

(* The length that lacks its own version byte.                             *)
MsgLength_short(hdr, endian) == hdr[2] * 65536 + hdr[3] * 256 + hdr[4] - 1

(* transc_get_msg_length: strlen of the buffer is 0 when its first byte is.*)
MsgLength(hdr, endian) ==
  CASE hdr[1] = 0                -> -1
    [] hdr[1] # 0 /\ endian = 1  -> hdr[2] * 65536 + hdr[3] * 256 + hdr[4]
    [] hdr[1] # 0 /\ endian = 0  -> hdr[4] * 65536 + hdr[3] * 256 + hdr[2]

Zeros == [i \in 1..MSG_HEADER_LEN |-> 0]

(* transc_clear_data                                                       *)
ClearedTransc ==
  [is_recv_header |-> FALSE, is_recv_body |-> FALSE,
   is_send_header |-> FALSE, is_send_body |-> FALSE,
   length |-> 0, recv_bytes |-> 0, send_bytes |-> 0, read_hdr_buf |-> Zeros]

(* What proxy_recv_data and proxy_send_data record after n bytes.          *)
BodyRead_early(t, n) == [t EXCEPT !.recv_bytes = @ + n, !.is_recv_body = TRUE]
BodyRead(t, n) ==
  [t EXCEPT !.recv_bytes = @ + n, !.is_recv_body = (t.recv_bytes + n = t.length)]

HeaderSent_uncounted(t, n) == [t EXCEPT !.send_bytes = @ + n, !.is_send_header = TRUE]
HeaderSent(t, n) ==
  IF t.send_bytes + n = MSG_HEADER_LEN
  THEN [t EXCEPT !.send_bytes = MSG_HEADER_LEN, !.is_send_header = TRUE,
                 !.recv_bytes = @ - n]
  ELSE [t EXCEPT !.send_bytes = @ + n]

BodySent_whole(t, n) == [t EXCEPT !.recv_bytes = 0, !.send_bytes = @ + n]
BodySent_uncounted(t, n) == [t EXCEPT !.send_bytes = @ + n]
BodySent_total(t, n) == [t EXCEPT !.recv_bytes = @ - t.send_bytes, !.send_bytes = @ + n]
BodySent(t, n) == [t EXCEPT !.recv_bytes = @ - n, !.send_bytes = @ + n]

(* Lines 229-235: zeros, then what is left of the header in its place.     *)
HeaderBuffer_zeros(t) == Zeros
HeaderBuffer(t) ==
  [i \in 1..MSG_HEADER_LEN |-> IF i > t.send_bytes THEN t.read_hdr_buf[i] ELSE 0]

PcStates == {"epoll", "recv_header", "recv_body", "send_header", "send_body",
             "resend_body", "closed", "killed"}

Init ==
  /\ sent = <<>>
  /\ bounds = <<>>
  /\ arrived = 0
  /\ consumed = 0
  /\ src = "open"
  /\ dst = "up"
  /\ pipe = <<>>
  /\ out = <<>>
  /\ drained = 0
  /\ transc = ClearedTransc
  /\ pc = "epoll"

-----------------------------------------------------------------------------
(* The peers and the network.                                              *)

SrcSends(len) ==
  /\ src = "open"
  /\ Len(bounds) < MaxMsgs
  /\ sent' = sent \o Message(len, Len(sent))
  /\ bounds' = Append(bounds, Len(sent) + len)
  /\ UNCHANGED <<arrived, src, dst, drained, consumed, pipe, out, transc, pc>>

Deliver ==
  /\ arrived < Len(sent)
  /\ arrived' = arrived + 1
  /\ UNCHANGED <<sent, bounds, src, dst, drained, consumed, pipe, out, transc, pc>>

SrcEnds(how) ==
  /\ PeersMayFail
  /\ src = "open"
  /\ src' = how
  /\ UNCHANGED <<sent, bounds, arrived, dst, drained, consumed, pipe, out, transc, pc>>

Drain ==
  /\ dst = "up"
  /\ drained < Len(out)
  /\ drained' = drained + 1
  /\ UNCHANGED <<sent, bounds, arrived, src, dst, consumed, pipe, out, transc, pc>>

DstResets ==
  /\ PeersMayFail
  /\ dst = "up"
  /\ dst' = "reset"
  /\ UNCHANGED <<sent, bounds, arrived, src, drained, consumed, pipe, out, transc, pc>>

-----------------------------------------------------------------------------
(* What the sockets offer to the worker.                                   *)

Available == arrived - consumed
AtEof == src = "fin" /\ consumed = Len(sent)
Readable == Available > 0 \/ AtEof \/ src = "rst"
SendRoom == SND_CAP - (Len(out) - drained)
PipeRoom == PIPE_CAP - Len(pipe)

BodyReceived(t) == t.is_recv_header /\ t.is_recv_body

FirstCall_resend(t) ==
  CASE ~t.is_recv_header                      -> "recv_header"
    [] t.is_recv_header /\ ~t.is_recv_body    -> "recv_body"
    [] BodyReceived(t)                        -> "send_header"

(* proxy_process_data from line 330: which call comes first.               *)
FirstCall(t) ==
  CASE ~t.is_recv_header                      -> "recv_header"
    [] t.is_recv_header /\ ~t.is_recv_body    -> "recv_body"
    [] BodyReceived(t) /\ ~t.is_send_header   -> "send_header"
    [] BodyReceived(t) /\ t.is_send_header    -> "send_body"

(* Line 591 passed, lines 614-617: epoll reports the source readable       *)
(* (level triggered).                                                      *)
Poll ==
  /\ pc = "epoll"
  /\ Readable /\ dst # "closed"
  /\ pc' = FirstCall(transc)
  /\ UNCHANGED <<net, consumed, pipe, out, transc>>

(* Line 604: another worker overwrote proxy->events between epoll_wait and *)
(* line 615, and this worker finds its own fd in it without new input, or  *)
(* in one more entry of the batch in which dst_fd was closed.              *)
StaleEvent ==
  /\ pc = "epoll"
  /\ ~Readable \/ dst = "closed"
  /\ pc' = FirstCall(transc)
  /\ UNCHANGED <<net, consumed, pipe, out, transc>>

(* Line 335, for an event of dst_fd, between any two calls of this         *)
(* direction when it is another worker's: the destination has gone, or has *)
(* ended its side, or answered with a header in pieces or without a body   *)
(* (BUF_ERR) while it is up and reading.                                   *)
CloseDst ==
  /\ DstFdMayClose
  /\ pc \notin {"closed", "killed"}
  /\ dst # "closed"
  /\ dst' = "closed"
  /\ UNCHANGED <<sent, bounds, arrived, src, drained, consumed, pipe, out, transc, pc>>

(* Line 591: dst_fd is closed, the connection is ended whatever it holds.  *)
EndConn ==
  /\ pc = "epoll"
  /\ dst = "closed"
  /\ pc' = "closed"
  /\ UNCHANGED <<net, consumed, pipe, out, transc>>

(* proxy_recv_data fails below ZERO_BYTE: close( fd), then line 591 ends.  *)
CloseSource ==
  /\ pc' = "closed"
  /\ UNCHANGED <<net, pipe, out>>

(* proxy_recv_data, lines 111-158.                                         *)
ReadHeader ==
  LET n    == Lesser(Available, MSG_HEADER_LEN - transc.recv_bytes)
      data == SubSeq(sent, consumed + 1, consumed + n)
      hdr  == [i \in 1..MSG_HEADER_LEN |->
                 IF i > transc.recv_bytes /\ i <= transc.recv_bytes + n
                 THEN data[i - transc.recv_bytes] ELSE 0]
      got  == transc.recv_bytes + n
      len  == MsgLength(hdr, ENDIAN)
  IN
  /\ pc = "recv_header"
  /\ \/ /\ src = "rst"                                     \* NEGATIVE_BYTE
        /\ CloseSource
        /\ transc' = [transc EXCEPT !.read_hdr_buf = Zeros]
        /\ UNCHANGED consumed
     \/ /\ src # "rst" /\ Available = 0 /\ AtEof           \* ZERO_BYTE
        /\ CloseSource
        /\ transc' = [transc EXCEPT !.read_hdr_buf = Zeros]
        /\ UNCHANGED consumed
     \/ /\ src # "rst" /\ Available = 0 /\ ~AtEof          \* ERRNO_EAGAIN
        /\ pc' = "epoll"
        /\ transc' = [transc EXCEPT !.read_hdr_buf = Zeros]
        /\ UNCHANGED <<net, consumed, pipe, out>>
     \/ /\ src # "rst" /\ Available > 0
        /\ consumed' = consumed + n
        /\ \/ /\ got # MSG_HEADER_LEN                      \* BUF_ERR
              /\ transc' = [transc EXCEPT !.read_hdr_buf = hdr, !.recv_bytes = got]
              /\ CloseSource
           \/ /\ got = MSG_HEADER_LEN
              /\ len - MSG_HEADER_LEN <= 0                 \* BUF_ERR
              /\ transc' = [transc EXCEPT !.read_hdr_buf = hdr, !.recv_bytes = got,
                                          !.length = len]
              /\ CloseSource
           \/ /\ got = MSG_HEADER_LEN
              /\ len - MSG_HEADER_LEN > 0
              /\ transc' = [transc EXCEPT !.read_hdr_buf = hdr, !.recv_bytes = got,
                                          !.length = len, !.is_recv_header = TRUE]
              /\ pc' = "recv_body"
              /\ UNCHANGED <<net, pipe, out>>

(* proxy_recv_data, lines 165-193: splice from the socket to the pipe.     *)
SpliceIn ==
  LET most == Lesser(Lesser(Available, PipeRoom), transc.length - transc.recv_bytes)
  IN
  /\ pc = "recv_body"
  /\ \/ /\ PipeRoom = 0 \/ (src # "rst" /\ Available = 0 /\ ~AtEof)   \* ERRNO_EAGAIN
        /\ pc' = "epoll"
        /\ UNCHANGED <<net, consumed, pipe, out, transc>>
     \/ /\ PipeRoom > 0
        /\ src = "rst" \/ (Available = 0 /\ AtEof)         \* NEGATIVE_, ZERO_BYTE
        /\ CloseSource
        /\ UNCHANGED <<consumed, transc>>
     \/ /\ PipeRoom > 0 /\ src # "rst"
        /\ \E n \in 1..most :
             /\ pipe' = pipe \o SubSeq(sent, consumed + 1, consumed + n)
             /\ consumed' = consumed + n
             /\ transc' = BodyRead(transc, n)
             /\ pc' = IF transc'.is_recv_body THEN "send_header" ELSE "epoll"
        /\ UNCHANGED <<net, out>>

(* NEGATIVE_BYTE, line 248 or 273, is logged and nothing else: on a closed *)
(* dst_fd, and on the first write after a reset unless getsockopt of line  *)
(* 591 has taken the error before.  Any other write after a reset raises   *)
(* SIGPIPE, which no line of the proxy handles or ignores.                 *)
WriteFails(resume) ==
  /\ \/ dst = "closed" /\ dst' = "closed" /\ pc' = resume    \* EBADF
     \/ dst = "reset" /\ dst' = "broken" /\ pc' = resume     \* ECONNRESET
     \/ dst \in {"reset", "broken"} /\ dst' = "broken" /\ pc' = "killed"
  /\ UNCHANGED <<sent, bounds, arrived, src, drained, consumed, pipe, out, transc>>

(* proxy_send_data, lines 227-260, in its call of line 341.                *)
WriteHeader ==
  LET left == MSG_HEADER_LEN - transc.send_bytes IN
  /\ pc = "send_header"
  /\ \/ WriteFails("epoll")
     \/ /\ dst = "up" /\ SendRoom = 0                      \* ERRNO_EAGAIN
        /\ pc' = "epoll"
        /\ UNCHANGED <<net, consumed, pipe, out, transc>>
     \/ /\ dst = "up" /\ SendRoom > 0
        /\ \E n \in 1..Lesser(left, SendRoom) :
             /\ ~ShortHeaderWrite => n = left
             /\ out' = out \o SubSeq(HeaderBuffer(transc), 1, n)
             /\ transc' = HeaderSent(transc, n)
             /\ pc' = IF transc'.is_send_header THEN "send_body" ELSE "epoll"
        /\ UNCHANGED <<net, consumed, pipe>>
     \/ /\ dst = "up" /\ SendRoom > 0 /\ SendRoom < left /\ ~ShortHeaderWrite
        /\ pc' = "epoll"                                   \* ERRNO_EAGAIN
        /\ UNCHANGED <<net, consumed, pipe, out, transc>>

(* After the body splice of line 268: the second call of line 347 when the *)
(* body has not gone out in the first, transc_clear_data when it has.      *)
AfterSplice == IF pc = "send_body" THEN "resend_body" ELSE "epoll"

(* proxy_send_data, lines 267-284, and lines 346-354 after it.             *)
SpliceOut ==
  LET most == Lesser(Lesser(Len(pipe), SendRoom), transc.recv_bytes) IN
  /\ pc \in {"send_body", "resend_body"}
  /\ \/ WriteFails(AfterSplice)
     \/ /\ dst = "up" /\ (SendRoom = 0 \/ pipe = <<>>)     \* ERRNO_EAGAIN
        /\ pc' = AfterSplice
        /\ UNCHANGED <<net, consumed, pipe, out, transc>>
     \/ /\ dst = "up"
        /\ \E n \in 1..most :
             /\ out' = out \o SubSeq(pipe, 1, n)
             /\ pipe' = SubSeq(pipe, n + 1, Len(pipe))
             /\ LET t == BodySent(transc, n) IN
                \/ /\ t.recv_bytes = 0
                   /\ transc' = ClearedTransc
                   /\ pc' = "epoll"
                \/ /\ t.recv_bytes # 0
                   /\ transc' = t
                   /\ pc' = AfterSplice
        /\ UNCHANGED <<net, consumed>>

(* The connection is over, or every message was carried and none is left.  *)
Over ==
  /\ \/ pc \in {"closed", "killed"}
     \/ pc = "epoll" /\ ~Readable /\ Len(bounds) = MaxMsgs
  /\ UNCHANGED vars

Worker == ReadHeader \/ SpliceIn \/ WriteHeader \/ SpliceOut

Next ==
  \/ \E len \in MsgLengths : SrcSends(len)
  \/ \E how \in {"fin", "rst"} : SrcEnds(how)
  \/ Deliver \/ Drain \/ DstResets
  \/ Poll \/ StaleEvent \/ CloseDst \/ EndConn
  \/ Worker
  \/ Over

Spec == Init /\ [][Next]_vars

(* The scheduler runs the worker, the network delivers, the destination    *)
(* reads.  The batch of lines 614-621 is finite and epoll_wait has a       *)
(* timeout, so line 591 is passed again and again: EndConn is taken, even  *)
(* when stale events keep disabling it.  Nothing is assumed of the source, *)
(* of resets, of stale events or of who closes dst_fd.                     *)
Fairness ==
  /\ WF_vars(Worker) /\ WF_vars(Poll) /\ WF_vars(Deliver) /\ WF_vars(Drain)
  /\ SF_vars(EndConn)
FairSpec == Spec /\ Fairness

-----------------------------------------------------------------------------
Byte == Nat
Transc ==
  [is_recv_header : BOOLEAN, is_recv_body : BOOLEAN,
   is_send_header : BOOLEAN, is_send_body : BOOLEAN,
   length : Int, recv_bytes : Nat, send_bytes : Nat,
   read_hdr_buf : [1..MSG_HEADER_LEN -> Byte]]

(* The type of every variable.                                             *)
TypeOK ==
  /\ sent \in Seq(Byte) /\ out \in Seq(Byte) /\ pipe \in Seq(Byte)
  /\ bounds \in Seq(Nat)
  /\ arrived \in 0..Len(sent)
  /\ consumed \in 0..arrived
  /\ drained \in 0..Len(out)
  /\ src \in {"open", "fin", "rst"}
  /\ dst \in {"up", "reset", "broken", "closed"}
  /\ pc \in PcStates
  /\ transc \in Transc

(* What proxy.c calls unknown errors (lines 159, 237, 242, 261) never      *)
(* happens: when a call of proxy_recv_data or proxy_send_data starts, the  *)
(* four flags were raised in order and send_bytes agrees with them.        *)
NoUnknownError ==
  /\ transc.is_recv_body => transc.is_recv_header
  /\ transc.is_send_header => transc.is_recv_body
  /\ ~transc.is_send_body
  /\ pc = "send_header" => transc.send_bytes < MSG_HEADER_LEN /\ ~transc.is_send_header
  /\ pc \in {"send_body", "resend_body"} => transc.is_send_header

(* recv_bytes, the count that proxy_send_data passes to splice and tests   *)
(* for the end of the message, is what the proxy holds of the message: the *)
(* header until it is sent and the bytes in the pipe.                      *)
BytesAccounted ==
  pc # "closed" =>
    transc.recv_bytes =
      Len(pipe) + (IF transc.is_recv_header /\ ~transc.is_send_header
                   THEN MSG_HEADER_LEN ELSE 0)

(* Nothing is lost, repeated or reordered between the sockets: what was    *)
(* sent on, the header held back and the pipe are the bytes read so far.   *)
HeldHeader ==
  IF transc.is_recv_header /\ ~transc.is_send_header
  THEN SubSeq(transc.read_hdr_buf, transc.send_bytes + 1, MSG_HEADER_LEN) ELSE <<>>
Conservation ==
  pc # "closed" => out \o HeldHeader \o pipe = SubSeq(sent, 1, consumed)

(* A message is forwarded as a whole: its first byte is written only after *)
(* its last was read, and when the connection ends every message that was  *)
(* completely read is out, unless the proxy itself has closed dst_fd (line *)
(* 335, in the other direction or by another worker, the destination up or *)
(* not): the end of the source, a header given up and a failed write leave *)
(* none behind.                                                            *)
StoreAndForward ==
  \A k \in DOMAIN bounds :
    LET first == IF k = 1 THEN 0 ELSE bounds[k - 1] IN
    /\ Len(out) > first => consumed >= bounds[k]
    /\ pc = "closed" /\ consumed >= bounds[k] /\ bounds[k] - first > MSG_HEADER_LEN
         => Len(out) >= bounds[k] \/ dst = "closed"

(* The length that drives the reception is the one the source encoded.     *)
DecodedLength ==
  transc.is_recv_header =>
    \E k \in DOMAIN bounds :
      /\ Len(out) - transc.send_bytes = (IF k = 1 THEN 0 ELSE bounds[k - 1])
      /\ transc.length = bounds[k] - (IF k = 1 THEN 0 ELSE bounds[k - 1])

(* While both peers are there and dst_fd is open, the proxy closes a       *)
(* source only over a header: one that came in pieces, which lines 153-156 *)
(* give up although comment 108 promises an index for it, or one that has  *)
(* no body.  Bodies may come in any pieces and the destination may be      *)
(* full.  Connections that end because dst_fd was closed are not meant.    *)
ClosedForReason ==
  pc = "closed" /\ src = "open" /\ dst = "up" =>
    \E k \in DOMAIN bounds :
      LET first == IF k = 1 THEN 0 ELSE bounds[k - 1] IN
      \/ first < consumed /\ consumed < first + MSG_HEADER_LEN
      \/ consumed = first + MSG_HEADER_LEN /\ consumed = bounds[k]

(* A received message that has input behind it is forwarded: the events of *)
(* that input keep the worker trying while the destination makes room.     *)
FlushedByInput ==
  (transc.is_recv_body /\ Readable) ~> (~transc.is_recv_body \/ pc \in {"closed", "killed"})

(* Step 2 of comments 325-326: a received message is forwarded.            *)
Forwarded ==
  transc.is_recv_body ~> (~transc.is_recv_body \/ pc \in {"closed", "killed"})
-----------------------------------------------------------------------------
(* The direction as a carrier of messages.                                 *)

FirstByte(k) == IF k = 1 THEN 1 ELSE bounds[k - 1] + 1

(* Messages of which the kernel has accepted every byte, unchanged.        *)
GivenMsgs ==
  {k \in DOMAIN bounds :
     bounds[k] <= Len(out) /\ \A i \in FirstByte(k)..bounds[k] : out[i] = sent[i]}

(* The message that was read to its end and not written to its end.        *)
HeldMsgs ==
  {k \in DOMAIN bounds :
     transc.is_recv_body /\ bounds[k] <= consumed /\ Len(out) < bounds[k]}

Receiver ==
  CASE dst = "up"                    -> "up"
    [] dst \in {"reset", "broken"}   -> "failed"
    [] dst = "closed"                -> "cut"
Link == IF pc \in {"closed", "killed"} THEN pc ELSE "up"

Carrier == INSTANCE MessageRelay WITH
  written <- Len(bounds), held <- HeldMsgs, given <- GivenMsgs,
  sender <- src, receiver <- Receiver, link <- Link

(* Every run of the worker, with its partial reads and splices, its        *)
(* resumed calls and its ends, is a run of a carrier of whole messages:    *)
(* each goes through in order, one at a time; a connection is closed over  *)
(* one that was taken only when the proxy itself has closed dst_fd, and    *)
(* killed only when the destination had failed.                            *)
ImplementsMessageRelay == Carrier!Spec
=============================================================================
