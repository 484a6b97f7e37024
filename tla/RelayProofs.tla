---------------------------- MODULE RelayProofs ----------------------------
(***************************************************************************)
(* Proofs about Relay for any lengths of header and messages, any sizes of *)
(* pipe and send buffer and any number of messages: that the counters and  *)
(* flags of transc_t say where the bytes of the current message are, and   *)
(* that no byte is lost, repeated or moved.  Both need that the kernel     *)
(* takes the header of a message whole (ShortHeaderWrite = FALSE); with    *)
(* partial writes of the header proxy_send_data does lose them.            *)
(***************************************************************************)
EXTENDS Relay, SequenceTheorems, TLAPS

(* The call to come fits the flags (proxy_process_data).                   *)
CallFits ==
  /\ pc = "recv_header" => ~transc.is_recv_header
  /\ pc = "recv_body" => transc.is_recv_header /\ ~transc.is_recv_body
  /\ pc = "send_header" => transc.is_recv_body /\ ~transc.is_send_header
  /\ pc \in {"send_body", "resend_body"} => transc.is_send_header

(* The counters fit the stage of the message.                              *)
CountersFit ==
  pc # "closed" =>
    /\ ~transc.is_recv_header => transc.recv_bytes = 0
    /\ transc.is_recv_header => transc.length > MSG_HEADER_LEN
    /\ transc.is_recv_header /\ ~transc.is_recv_body => transc.recv_bytes < transc.length
    /\ ~transc.is_send_header => transc.send_bytes = 0
    /\ transc.is_recv_body /\ ~transc.is_send_header => transc.recv_bytes = transc.length
    /\ transc.is_send_header => transc.recv_bytes > 0

RInv == TypeOK /\ NoUnknownError /\ BytesAccounted /\ CallFits /\ CountersFit

-----------------------------------------------------------------------------
(* What the helpers return.                                                *)

LEMMA LesserIs ==
  ASSUME NEW a \in Int, NEW b \in Int
  PROVE  /\ Lesser(a, b) \in Int
         /\ Lesser(a, b) <= a /\ Lesser(a, b) <= b
         /\ Lesser(a, b) \in {a, b}
  BY DEF Lesser

(* The fields of a message have the type of bytes.                         *)
LEMMA MessageType ==
  ASSUME NEW len \in MsgLengths, NEW at \in Nat
  PROVE  /\ Message(len, at) \in Seq(Byte)
         /\ Len(Message(len, at)) \in Nat
<1> DEFINE zeros == [i \in 1..(MSG_HEADER_LEN - 4) |-> 0]
           body == [i \in 1..(len - MSG_HEADER_LEN) |-> BodyByte(at + MSG_HEADER_LEN + i)]
<1>1. len \in Nat /\ MSG_HEADER_LEN \in Nat /\ len - MSG_HEADER_LEN \in Nat
      /\ MSG_HEADER_LEN - 4 \in Nat
  BY HeaderAssumption
<1>2. LengthBytes(len, PEER_ENDIAN) \in Seq(Byte)
  <2>1. len \div 65536 \in Nat /\ (len \div 256) % 256 \in Nat /\ len % 256 \in Nat
    BY <1>1, SMTT(30)
  <2> QED
    BY <2>1 DEF LengthBytes, Byte
<1>3. zeros \in Seq(Byte)
  BY <1>1 DEF Byte
<1>4. body \in Seq(Byte)
  <2>1. \A i \in 1..(len - MSG_HEADER_LEN) : BodyByte(at + MSG_HEADER_LEN + i) \in Byte
    BY <1>1 DEF BodyByte, Byte
  <2> QED
    BY <1>1, <2>1
<1>5. <<VERSION>> \in Seq(Byte)
  BY DEF VERSION, Byte
<1> HIDE DEF zeros, body
<1>6. <<VERSION>> \o LengthBytes(len, PEER_ENDIAN) \in Seq(Byte)
  BY <1>2, <1>5
<1>7. (<<VERSION>> \o LengthBytes(len, PEER_ENDIAN)) \o zeros \in Seq(Byte)
  BY <1>3, <1>6
<1>8. ((<<VERSION>> \o LengthBytes(len, PEER_ENDIAN)) \o zeros) \o body \in Seq(Byte)
  BY <1>4, <1>7
<1> QED
  BY <1>8, LenProperties DEF Message, zeros, body

(* A header buffer is a sequence of bytes.                                 *)
LEMMA BufferIsSeq ==
  ASSUME NEW b \in [1..MSG_HEADER_LEN -> Byte]
  PROVE  b \in Seq(Byte) /\ Len(b) = MSG_HEADER_LEN
  BY HeaderAssumption

LEMMA MsgLengthType ==
  ASSUME NEW hdr \in [1..MSG_HEADER_LEN -> Byte]
  PROVE  MsgLength(hdr, ENDIAN) \in Int
<1>1. hdr[1] \in Nat /\ hdr[2] \in Nat /\ hdr[3] \in Nat /\ hdr[4] \in Nat
  BY HeaderAssumption DEF Byte
<1>2. CASE hdr[1] = 0
  BY <1>2 DEF MsgLength
<1>3. CASE hdr[1] # 0 /\ ENDIAN = 1
  <2>1. MsgLength(hdr, ENDIAN) = hdr[2] * 65536 + hdr[3] * 256 + hdr[4]
    BY <1>3 DEF MsgLength
  <2> QED
    BY <1>1, <2>1, SMTT(30)
<1>4. CASE hdr[1] # 0 /\ ENDIAN = 0
  <2>1. MsgLength(hdr, ENDIAN) = hdr[4] * 65536 + hdr[3] * 256 + hdr[2]
    BY <1>4 DEF MsgLength
  <2> QED
    BY <1>1, <2>1
<1> QED
  BY <1>2, <1>3, <1>4, ModesAssumption

LEMMA ClearedType == ClearedTransc \in Transc
  BY HeaderAssumption DEF ClearedTransc, Transc, Zeros, Byte

(* The record after a read or write of n bytes.                            *)
LEMMA BodyReadIs ==
  ASSUME NEW t \in Transc, NEW n \in Nat
  PROVE  /\ BodyRead(t, n) \in Transc
         /\ BodyRead(t, n).is_recv_header <=> t.is_recv_header
         /\ BodyRead(t, n).is_recv_body <=> t.recv_bytes + n = t.length
         /\ BodyRead(t, n).is_send_header <=> t.is_send_header
         /\ BodyRead(t, n).is_send_body <=> t.is_send_body
         /\ BodyRead(t, n).length = t.length
         /\ BodyRead(t, n).recv_bytes = t.recv_bytes + n
         /\ BodyRead(t, n).send_bytes = t.send_bytes
         /\ BodyRead(t, n).read_hdr_buf = t.read_hdr_buf
<1>1. BodyRead(t, n) \in Transc
  <2>1. t.recv_bytes + n \in Nat
    BY DEF Transc
  <2>2. \A r \in Nat, b \in BOOLEAN :
          [t EXCEPT !.recv_bytes = r, !.is_recv_body = b] \in Transc
    BY Zenon DEF Transc
  <2> QED
    BY <2>1, <2>2, Zenon DEF BodyRead
<1>2. BodyRead(t, n).is_recv_header <=> t.is_recv_header
  BY DEF BodyRead, Transc
<1>3. BodyRead(t, n).is_recv_body <=> t.recv_bytes + n = t.length
  BY DEF BodyRead, Transc
<1>4. BodyRead(t, n).is_send_header <=> t.is_send_header
  BY DEF BodyRead, Transc
<1>5. BodyRead(t, n).is_send_body <=> t.is_send_body
  BY DEF BodyRead, Transc
<1>6. BodyRead(t, n).length = t.length
  BY DEF BodyRead, Transc
<1>7. BodyRead(t, n).recv_bytes = t.recv_bytes + n
  BY DEF BodyRead, Transc
<1>8. BodyRead(t, n).send_bytes = t.send_bytes
  BY DEF BodyRead, Transc
<1>9. BodyRead(t, n).read_hdr_buf = t.read_hdr_buf
  BY DEF BodyRead, Transc
<1> QED
  BY <1>1, <1>2, <1>3, <1>4, <1>5, <1>6, <1>7, <1>8, <1>9

LEMMA HeaderSentIs ==
  ASSUME NEW t \in Transc, t.send_bytes = 0, t.recv_bytes >= MSG_HEADER_LEN
  PROVE  /\ HeaderSent(t, MSG_HEADER_LEN) \in Transc
         /\ HeaderSent(t, MSG_HEADER_LEN).is_recv_header <=> t.is_recv_header
         /\ HeaderSent(t, MSG_HEADER_LEN).is_recv_body <=> t.is_recv_body
         /\ HeaderSent(t, MSG_HEADER_LEN).is_send_header
         /\ HeaderSent(t, MSG_HEADER_LEN).is_send_body <=> t.is_send_body
         /\ HeaderSent(t, MSG_HEADER_LEN).length = t.length
         /\ HeaderSent(t, MSG_HEADER_LEN).recv_bytes = t.recv_bytes - MSG_HEADER_LEN
         /\ HeaderSent(t, MSG_HEADER_LEN).send_bytes = MSG_HEADER_LEN
         /\ HeaderSent(t, MSG_HEADER_LEN).read_hdr_buf = t.read_hdr_buf
<1>1. HeaderSent(t, MSG_HEADER_LEN) \in Transc
  <2>1. /\ MSG_HEADER_LEN \in Nat
        /\ t.recv_bytes - MSG_HEADER_LEN \in Nat
        /\ t.send_bytes + MSG_HEADER_LEN = MSG_HEADER_LEN
    BY HeaderAssumption DEF Transc
  <2>2. \A s \in Nat, r \in Nat :
          [t EXCEPT !.send_bytes = s, !.is_send_header = TRUE, !.recv_bytes = r] \in Transc
    BY Zenon DEF Transc
  <2> QED
    BY <2>1, <2>2, Zenon DEF HeaderSent
<1>2. HeaderSent(t, MSG_HEADER_LEN).is_recv_header <=> t.is_recv_header
  BY HeaderAssumption DEF HeaderSent, Transc
<1>3. HeaderSent(t, MSG_HEADER_LEN).is_recv_body <=> t.is_recv_body
  BY HeaderAssumption DEF HeaderSent, Transc
<1>4. HeaderSent(t, MSG_HEADER_LEN).is_send_header
  BY HeaderAssumption DEF HeaderSent, Transc
<1>5. HeaderSent(t, MSG_HEADER_LEN).is_send_body <=> t.is_send_body
  BY HeaderAssumption DEF HeaderSent, Transc
<1>6. HeaderSent(t, MSG_HEADER_LEN).length = t.length
  BY HeaderAssumption DEF HeaderSent, Transc
<1>7. HeaderSent(t, MSG_HEADER_LEN).recv_bytes = t.recv_bytes - MSG_HEADER_LEN
  BY HeaderAssumption DEF HeaderSent, Transc
<1>8. HeaderSent(t, MSG_HEADER_LEN).send_bytes = MSG_HEADER_LEN
  BY HeaderAssumption DEF HeaderSent, Transc
<1>9. HeaderSent(t, MSG_HEADER_LEN).read_hdr_buf = t.read_hdr_buf
  BY HeaderAssumption DEF HeaderSent, Transc
<1> QED
  BY <1>1, <1>2, <1>3, <1>4, <1>5, <1>6, <1>7, <1>8, <1>9

LEMMA BodySentIs ==
  ASSUME NEW t \in Transc, NEW n \in Nat, n <= t.recv_bytes
  PROVE  /\ BodySent(t, n) \in Transc
         /\ BodySent(t, n).is_recv_header <=> t.is_recv_header
         /\ BodySent(t, n).is_recv_body <=> t.is_recv_body
         /\ BodySent(t, n).is_send_header <=> t.is_send_header
         /\ BodySent(t, n).is_send_body <=> t.is_send_body
         /\ BodySent(t, n).length = t.length
         /\ BodySent(t, n).recv_bytes = t.recv_bytes - n
         /\ BodySent(t, n).send_bytes = t.send_bytes + n
         /\ BodySent(t, n).read_hdr_buf = t.read_hdr_buf
<1>1. BodySent(t, n) \in Transc
  <2>1. t.recv_bytes - n \in Nat /\ t.send_bytes + n \in Nat
    BY DEF Transc
  <2>2. \A r \in Nat, s \in Nat :
          [t EXCEPT !.recv_bytes = r, !.send_bytes = s] \in Transc
    BY Zenon DEF Transc
  <2> QED
    BY <2>1, <2>2, Zenon DEF BodySent
<1>2. BodySent(t, n).is_recv_header <=> t.is_recv_header
  BY DEF BodySent, Transc
<1>3. BodySent(t, n).is_recv_body <=> t.is_recv_body
  BY DEF BodySent, Transc
<1>4. BodySent(t, n).is_send_header <=> t.is_send_header
  BY DEF BodySent, Transc
<1>5. BodySent(t, n).is_send_body <=> t.is_send_body
  BY DEF BodySent, Transc
<1>6. BodySent(t, n).length = t.length
  BY DEF BodySent, Transc
<1>7. BodySent(t, n).recv_bytes = t.recv_bytes - n
  BY DEF BodySent, Transc
<1>8. BodySent(t, n).send_bytes = t.send_bytes + n
  BY DEF BodySent, Transc
<1>9. BodySent(t, n).read_hdr_buf = t.read_hdr_buf
  BY DEF BodySent, Transc
<1> QED
  BY <1>1, <1>2, <1>3, <1>4, <1>5, <1>6, <1>7, <1>8, <1>9

-----------------------------------------------------------------------------
(* RInv is inductive.                                                      *)

LEMMA InitRInv == Init => RInv
<1> SUFFICES ASSUME Init PROVE RInv
  OBVIOUS
<1>1. TypeOK
  BY ClearedType DEF Init, TypeOK, PcStates, Byte
<1>2. NoUnknownError /\ CallFits
  BY DEF Init, NoUnknownError, CallFits, ClearedTransc
<1>3. BytesAccounted /\ CountersFit
  BY DEF Init, BytesAccounted, CountersFit, ClearedTransc
<1> QED
  BY <1>1, <1>2, <1>3 DEF RInv

(* A step that leaves transc, the pipe and the worker's place alone.       *)
LEMMA PeersKeep ==
  ASSUME RInv, TypeOK', UNCHANGED <<transc, pipe, pc>>
  PROVE  RInv'
  BY DEF RInv, NoUnknownError, BytesAccounted, CallFits, CountersFit

(* A step of the worker that changes its place alone.                      *)
LEMMA PlaceKeeps ==
  ASSUME RInv, UNCHANGED <<sent, arrived, bounds, src, drained, consumed, out, transc, pipe>>,
         dst' \in {"up", "reset", "broken", "closed"}, pc' \in PcStates, pc # "closed", CallFits'
  PROVE  RInv'
<1>1. TypeOK'
  BY DEF RInv, TypeOK
<1>2. NoUnknownError'
  BY HeaderAssumption DEF RInv, TypeOK, NoUnknownError, CountersFit, CallFits
<1>3. BytesAccounted' /\ CountersFit'
  BY DEF RInv, BytesAccounted, CountersFit
<1> QED
  BY <1>1, <1>2, <1>3 DEF RInv

LEMMA SrcSendsKeeps ==
  ASSUME RInv, NEW len \in MsgLengths, SrcSends(len)
  PROVE  RInv'
<1>1. /\ Message(len, Len(sent)) \in Seq(Byte)
      /\ Len(sent) \in Nat /\ Len(sent) + len \in Nat
      /\ Len(Message(len, Len(sent))) \in Nat
  <2>1. Len(sent) \in Nat
    BY DEF RInv, TypeOK
  <2>2. len \in Nat
    BY HeaderAssumption
  <2>3. /\ Message(len, Len(sent)) \in Seq(Byte)
        /\ Len(Message(len, Len(sent))) \in Nat
    BY <2>1, MessageType
  <2> QED
    BY <2>1, <2>2, <2>3
<1>2. sent' \in Seq(Byte) /\ Len(sent') >= Len(sent)
  BY <1>1, ConcatProperties DEF RInv, TypeOK, SrcSends
<1>3. TypeOK'
  BY <1>1, <1>2 DEF RInv, TypeOK, SrcSends
<1> QED
  BY <1>3, PeersKeep DEF SrcSends

LEMMA NetworkKeeps ==
  ASSUME RInv, Deliver \/ Drain \/ DstResets \/ CloseDst \/ Over \/ UNCHANGED vars
               \/ \E how \in {"fin", "rst"} : SrcEnds(how)
  PROVE  RInv'
<1>1. UNCHANGED <<transc, pipe, pc, sent, bounds, consumed, out>>
  BY DEF Deliver, Drain, DstResets, CloseDst, Over, SrcEnds, vars, net
<1>2. TypeOK'
  BY <1>1 DEF RInv, TypeOK, Deliver, Drain, DstResets, CloseDst, Over, SrcEnds, vars, net
<1> QED
  BY <1>1, <1>2, PeersKeep

LEMMA EventKeeps ==
  ASSUME RInv, Poll \/ StaleEvent \/ EndConn
  PROVE  RInv'
<1>1. CASE Poll \/ StaleEvent
  <2>1. pc = "epoll" /\ pc' = FirstCall(transc)
        /\ UNCHANGED <<sent, arrived, bounds, src, dst, drained, consumed, out, transc, pipe>>
    BY <1>1 DEF Poll, StaleEvent, net
  <2>2. /\ transc.is_recv_header \in BOOLEAN /\ transc.is_recv_body \in BOOLEAN
        /\ transc.is_send_header \in BOOLEAN
    BY DEF RInv, TypeOK, Transc
  <2>3. pc' \in PcStates /\ CallFits'
    BY <2>1, <2>2 DEF RInv, NoUnknownError, CallFits, FirstCall, BodyReceived, PcStates
  <2> QED
    BY <2>1, <2>3, PlaceKeeps DEF RInv, TypeOK
<1>2. CASE EndConn
  <2>1. CallFits'
    BY <1>2 DEF EndConn, CallFits
  <2> QED
    BY <1>2, <2>1, PlaceKeeps DEF EndConn, net, RInv, TypeOK, PcStates
<1> QED
  BY <1>1, <1>2

(* What read puts into the header buffer.                                  *)
LEMMA HeaderTyped ==
  ASSUME RInv, NEW n \in Nat, n <= Available
  PROVE  [i \in 1..MSG_HEADER_LEN |->
            IF i > transc.recv_bytes /\ i <= transc.recv_bytes + n
            THEN SubSeq(sent, consumed + 1, consumed + n)[i - transc.recv_bytes] ELSE 0]
         \in [1..MSG_HEADER_LEN -> Byte]
<1>1. /\ consumed \in Nat /\ arrived \in Nat /\ Len(sent) \in Nat /\ consumed + n <= Len(sent)
      /\ transc.recv_bytes \in Nat /\ MSG_HEADER_LEN \in Nat
  BY HeaderAssumption DEF RInv, TypeOK, Available, Transc
<1>2. \A j \in 1..Len(sent) : sent[j] \in Byte
  BY ElementOfSeq DEF RInv, TypeOK
<1>3. \A j \in 1..n : SubSeq(sent, consumed + 1, consumed + n)[j] = sent[consumed + j]
  BY <1>1, <1>2, SubSeqProperties
<1>4. ASSUME NEW i \in 1..MSG_HEADER_LEN, i > transc.recv_bytes, i <= transc.recv_bytes + n
      PROVE  SubSeq(sent, consumed + 1, consumed + n)[i - transc.recv_bytes] \in Byte
  <2>1. i - transc.recv_bytes \in 1..n /\ consumed + (i - transc.recv_bytes) \in 1..Len(sent)
    BY <1>1, <1>4
  <2> QED
    BY <1>2, <1>3, <2>1
<1> QED
  BY <1>4 DEF Byte

(* The branches of ReadHeader: nothing was read, the header is refused or  *)
(* it came in pieces, the header is complete.                              *)
LEMMA ReadHeaderKeeps ==
  ASSUME RInv, ReadHeader
  PROVE  RInv'
<1> DEFINE n == Lesser(Available, MSG_HEADER_LEN - transc.recv_bytes)
           hdr == [i \in 1..MSG_HEADER_LEN |->
                     IF i > transc.recv_bytes /\ i <= transc.recv_bytes + n
                     THEN SubSeq(sent, consumed + 1, consumed + n)[i - transc.recv_bytes] ELSE 0]
           got == transc.recv_bytes + n
           len == MsgLength(hdr, ENDIAN)
<1>1. /\ pc = "recv_header" /\ ~transc.is_recv_header /\ transc.recv_bytes = 0 /\ pipe = <<>>
      /\ ~transc.is_recv_body /\ ~transc.is_send_header /\ ~transc.is_send_body
      /\ transc.send_bytes = 0 /\ transc \in Transc /\ transc.is_recv_header = FALSE
  <2>1. pc = "recv_header" /\ ~transc.is_recv_header /\ transc.recv_bytes = 0
    BY DEF RInv, ReadHeader, CallFits, CountersFit
  <2>2. Len(pipe) = 0
    BY <2>1 DEF RInv, BytesAccounted, TypeOK
  <2> QED
    BY <2>1, <2>2, EmptySeq DEF RInv, TypeOK, NoUnknownError, CountersFit, Transc
<1>2. CASE pc' \in {"closed", "epoll"} /\ transc' = [transc EXCEPT !.read_hdr_buf = Zeros]
           /\ UNCHANGED <<net, consumed, pipe, out>>
  <2>1. Zeros \in [1..MSG_HEADER_LEN -> Byte]
    BY DEF Zeros, Byte
  <2>2. /\ transc' \in Transc
        /\ transc'.is_recv_header = transc.is_recv_header
        /\ transc'.is_recv_body = transc.is_recv_body
        /\ transc'.is_send_header = transc.is_send_header
        /\ transc'.is_send_body = transc.is_send_body
        /\ transc'.length = transc.length
        /\ transc'.recv_bytes = transc.recv_bytes
        /\ transc'.send_bytes = transc.send_bytes
    BY <1>1, <1>2, <2>1 DEF Transc
  <2>3. TypeOK'
    BY <1>2, <2>2 DEF RInv, TypeOK, net, PcStates
  <2>4. NoUnknownError' /\ CallFits'
    BY <1>1, <1>2, <2>2 DEF NoUnknownError, CallFits
  <2>5. BytesAccounted' /\ CountersFit'
    BY <1>1, <1>2, <2>2, EmptySeq DEF BytesAccounted, CountersFit
  <2> QED
    BY <2>3, <2>4, <2>5 DEF RInv
<1>3. CASE /\ Available > 0 /\ consumed' = consumed + n
           /\ UNCHANGED <<net, pipe, out>>
           /\ \/ /\ pc' = "closed"
                 /\ \/ transc' = [transc EXCEPT !.read_hdr_buf = hdr, !.recv_bytes = got]
                    \/ transc' = [transc EXCEPT !.read_hdr_buf = hdr, !.recv_bytes = got,
                                                !.length = len]
              \/ /\ got = MSG_HEADER_LEN /\ len - MSG_HEADER_LEN > 0
                 /\ transc' = [transc EXCEPT !.read_hdr_buf = hdr, !.recv_bytes = got,
                                             !.length = len, !.is_recv_header = TRUE]
                 /\ pc' = "recv_body"
  <2>1. /\ n \in Nat /\ n <= Available /\ got \in Nat /\ MSG_HEADER_LEN \in Nat
        /\ consumed + n \in 0..arrived
    <3>1. Available \in Nat /\ MSG_HEADER_LEN - transc.recv_bytes \in Nat
      BY <1>1, HeaderAssumption DEF Available, RInv, TypeOK
    <3>2. /\ n \in {Available, MSG_HEADER_LEN - transc.recv_bytes}
          /\ n <= Available
      <4>1. Available \in Int /\ MSG_HEADER_LEN - transc.recv_bytes \in Int
        BY <3>1
      <4> QED
        BY <4>1, LesserIs
    <3>3. consumed \in Nat /\ arrived \in Nat /\ Available = arrived - consumed
      BY DEF Available, RInv, TypeOK
    <3> HIDE DEF n
    <3> QED
      BY <1>1, <3>1, <3>2, <3>3, HeaderAssumption
  <2>2. hdr \in [1..MSG_HEADER_LEN -> Byte] /\ len \in Int
    BY <2>1, HeaderTyped, MsgLengthType
  <2> HIDE DEF n, hdr, got, len
  <2>3. /\ transc' \in Transc
        /\ transc'.is_recv_body = FALSE
        /\ transc'.is_send_header = FALSE
        /\ transc'.is_send_body = FALSE
        /\ transc'.send_bytes = 0
        /\ pc' # "closed" => /\ transc'.is_recv_header /\ transc'.length = len
                             /\ transc'.recv_bytes = got
    <3>1. CASE transc' = [transc EXCEPT !.read_hdr_buf = hdr, !.recv_bytes = got]
               /\ pc' = "closed"
      BY <1>1, <2>1, <2>2, <3>1 DEF Transc
    <3>2. CASE transc' = [transc EXCEPT !.read_hdr_buf = hdr, !.recv_bytes = got,
                                        !.length = len] /\ pc' = "closed"
      BY <1>1, <2>1, <2>2, <3>2 DEF Transc
    <3>3. CASE transc' = [transc EXCEPT !.read_hdr_buf = hdr, !.recv_bytes = got,
                                        !.length = len, !.is_recv_header = TRUE]
      BY <1>1, <2>1, <2>2, <3>3 DEF Transc
    <3> QED
      BY <1>3, <3>1, <3>2, <3>3
  <2>4. TypeOK'
    BY <1>3, <2>1, <2>3 DEF RInv, TypeOK, net, PcStates
  <2>5. NoUnknownError' /\ CallFits'
    BY <1>3, <2>3 DEF NoUnknownError, CallFits
  <2>6. BytesAccounted' /\ CountersFit'
    BY <1>1, <1>3, <2>1, <2>2, <2>3, EmptySeq DEF BytesAccounted, CountersFit
  <2> QED
    BY <2>4, <2>5, <2>6 DEF RInv
<1> QED
  BY <1>2, <1>3 DEF ReadHeader, CloseSource, net

LEMMA SpliceInKeeps ==
  ASSUME RInv, SpliceIn
  PROVE  RInv'
<1> DEFINE most == Lesser(Lesser(Available, PipeRoom), transc.length - transc.recv_bytes)
<1>1. /\ pc = "recv_body" /\ transc \in Transc /\ pipe \in Seq(Byte)
      /\ transc.is_recv_header /\ ~transc.is_recv_body /\ ~transc.is_send_header
      /\ ~transc.is_send_body /\ transc.send_bytes = 0
      /\ transc.length > MSG_HEADER_LEN /\ transc.recv_bytes < transc.length
      /\ transc.recv_bytes = Len(pipe) + MSG_HEADER_LEN
      /\ MSG_HEADER_LEN \in Nat /\ transc.length \in Int /\ transc.recv_bytes \in Nat
  BY HeaderAssumption DEF RInv, TypeOK, NoUnknownError, CallFits, CountersFit, BytesAccounted,
                          SpliceIn, Transc
<1>2. CASE pc' \in {"epoll", "closed"} /\ UNCHANGED <<net, consumed, pipe, out, transc>>
  <2>1. CallFits' /\ BytesAccounted' /\ CountersFit'
    BY <1>1, <1>2 DEF RInv, CallFits, BytesAccounted, CountersFit
  <2>2. TypeOK' /\ NoUnknownError'
    BY <1>1, <1>2 DEF RInv, TypeOK, NoUnknownError, net, PcStates
  <2> QED
    BY <2>1, <2>2 DEF RInv
<1>3. ASSUME NEW n \in 1..most,
             pipe' = pipe \o SubSeq(sent, consumed + 1, consumed + n),
             consumed' = consumed + n, transc' = BodyRead(transc, n),
             pc' = IF transc'.is_recv_body THEN "send_header" ELSE "epoll",
             UNCHANGED <<net, out>>
      PROVE  RInv'
  <2>1. /\ n \in Nat /\ n >= 1 /\ n <= Available /\ n <= transc.length - transc.recv_bytes
    <3>1. Available \in Int /\ PipeRoom \in Int /\ transc.length - transc.recv_bytes \in Int
      BY <1>1, BoundsAssumption, LenProperties DEF Available, PipeRoom, RInv, TypeOK
    <3>2. /\ Lesser(Available, PipeRoom) \in Int /\ Lesser(Available, PipeRoom) <= Available
      BY <3>1, LesserIs
    <3>3. most \in Int /\ most <= Lesser(Available, PipeRoom)
          /\ most <= transc.length - transc.recv_bytes
      BY <3>1, <3>2, LesserIs
    <3> HIDE DEF most
    <3> QED
      BY <3>1, <3>2, <3>3
  <2>2. /\ consumed \in Nat /\ arrived \in Nat /\ consumed + n <= arrived
        /\ arrived <= Len(sent) /\ Len(sent) \in Nat
    BY <2>1 DEF Available, RInv, TypeOK
  <2>3. /\ SubSeq(sent, consumed + 1, consumed + n) \in Seq(Byte)
        /\ Len(SubSeq(sent, consumed + 1, consumed + n)) = n
    <3>1. \A i \in consumed + 1 .. consumed + n : sent[i] \in Byte
      BY <2>1, <2>2, ElementOfSeq DEF RInv, TypeOK
    <3> QED
      BY <2>1, <2>2, <3>1, SubSeqProperties
  <2>4. pipe' \in Seq(Byte) /\ Len(pipe') = Len(pipe) + n
    BY <1>1, <1>3, <2>3, ConcatProperties
  <2>5. /\ transc' \in Transc
        /\ transc'.is_recv_header
        /\ transc'.is_recv_body <=> transc.recv_bytes + n = transc.length
        /\ ~transc'.is_send_header /\ ~transc'.is_send_body
        /\ transc'.length = transc.length
        /\ transc'.recv_bytes = transc.recv_bytes + n
        /\ transc'.send_bytes = 0
    <3>1. transc \in Transc /\ n \in Nat
      BY <1>1, <2>1
    <3> DEFINE u == BodyRead(transc, n)
    <3>2. /\ u \in Transc
          /\ u.is_recv_header <=> transc.is_recv_header
          /\ u.is_recv_body <=> transc.recv_bytes + n = transc.length
          /\ u.is_send_header <=> transc.is_send_header
          /\ u.is_send_body <=> transc.is_send_body
          /\ u.length = transc.length
          /\ u.recv_bytes = transc.recv_bytes + n /\ u.send_bytes = transc.send_bytes
      BY <3>1, BodyReadIs
    <3>3. transc' = u
      BY <1>3
    <3> HIDE DEF u
    <3> QED
      BY <1>1, <3>2, <3>3
  <2>6. TypeOK'
    BY <1>3, <2>2, <2>4, <2>5 DEF RInv, TypeOK, net, PcStates
  <2>7. NoUnknownError' /\ CallFits'
    BY <1>3, <2>5, HeaderAssumption DEF NoUnknownError, CallFits
  <2>8. BytesAccounted'
    BY <1>1, <2>1, <2>4, <2>5, LenProperties DEF BytesAccounted
  <2>9. CountersFit'
    BY <1>1, <2>1, <2>5 DEF CountersFit
  <2> QED
    BY <2>6, <2>7, <2>8, <2>9 DEF RInv
<1> QED
  BY <1>2, <1>3 DEF SpliceIn, CloseSource, net

LEMMA WriteHeaderKeeps ==
  ASSUME RInv, WriteHeader, ShortHeaderWrite = FALSE
  PROVE  RInv'
<1>1. /\ pc = "send_header" /\ transc \in Transc
      /\ transc.is_recv_header /\ transc.is_recv_body /\ ~transc.is_send_header
      /\ ~transc.is_send_body /\ transc.send_bytes = 0
      /\ transc.length > MSG_HEADER_LEN /\ transc.recv_bytes = transc.length
      /\ transc.recv_bytes = Len(pipe) + MSG_HEADER_LEN
      /\ MSG_HEADER_LEN \in Nat /\ MSG_HEADER_LEN >= 4 /\ transc.recv_bytes \in Nat
      /\ transc.length \in Int /\ Len(pipe) \in Nat
  BY HeaderAssumption, LenProperties
     DEF RInv, TypeOK, NoUnknownError, CallFits, CountersFit, BytesAccounted,
         WriteHeader, Transc
<1>2. CASE /\ pc' \in {"epoll", "killed"} /\ dst' \in {"up", "reset", "broken", "closed"}
           /\ UNCHANGED <<sent, arrived, bounds, src, drained, consumed, out, transc, pipe>>
  <2>1. CallFits' /\ pc' \in PcStates
    BY <1>2 DEF CallFits, PcStates
  <2> QED
    BY <1>1, <1>2, <2>1, PlaceKeeps
<1>3. CASE /\ out' = out \o SubSeq(HeaderBuffer(transc), 1, MSG_HEADER_LEN)
           /\ transc' = HeaderSent(transc, MSG_HEADER_LEN)
           /\ pc' = IF transc'.is_send_header THEN "send_body" ELSE "epoll"
           /\ UNCHANGED <<net, consumed, pipe>>
  <2>1. HeaderBuffer(transc) \in [1..MSG_HEADER_LEN -> Byte]
    BY <1>1 DEF HeaderBuffer, Transc, Byte
  <2>2. /\ SubSeq(HeaderBuffer(transc), 1, MSG_HEADER_LEN) \in Seq(Byte)
    BY <1>1, <2>1, SubSeqProperties
  <2>3. out' \in Seq(Byte) /\ Len(out') >= Len(out) /\ Len(out') \in Nat /\ Len(out) \in Nat
    BY <1>3, <2>2, ConcatProperties, LenProperties DEF RInv, TypeOK
  <2>4. /\ transc' \in Transc
        /\ transc'.is_recv_header /\ transc'.is_recv_body /\ transc'.is_send_header
        /\ ~transc'.is_send_body
        /\ transc'.length = transc.length
        /\ transc'.recv_bytes = transc.recv_bytes - MSG_HEADER_LEN
        /\ transc'.send_bytes = MSG_HEADER_LEN
    <3>1. transc.recv_bytes >= MSG_HEADER_LEN
      BY <1>1
    <3> QED
      BY <1>1, <1>3, <3>1, HeaderSentIs
  <2>5. TypeOK'
    BY <1>3, <2>3, <2>4 DEF RInv, TypeOK, net, PcStates
  <2>6. NoUnknownError' /\ CallFits'
    BY <1>3, <2>4 DEF NoUnknownError, CallFits
  <2>7. transc'.recv_bytes = Len(pipe') /\ transc'.recv_bytes > 0
    BY <1>1, <1>3, <2>4
  <2>8. BytesAccounted'
    BY <1>3, <2>4, <2>7 DEF BytesAccounted
  <2>9. CountersFit'
    BY <1>1, <2>4, <2>7 DEF CountersFit
  <2> QED
    BY <2>5, <2>6, <2>8, <2>9 DEF RInv
<1>4. MSG_HEADER_LEN - transc.send_bytes = MSG_HEADER_LEN
  BY <1>1
<1> QED
  BY <1>2, <1>3, <1>4 DEF WriteHeader, WriteFails, net, RInv, TypeOK

(* The n bytes that a splice takes from the pipe.                          *)
LEMMA PipeSplit ==
  ASSUME RInv, NEW n \in 1..Lesser(Lesser(Len(pipe), SendRoom), transc.recv_bytes)
  PROVE  /\ n \in Nat /\ n >= 1 /\ n <= Len(pipe) /\ n <= transc.recv_bytes
         /\ SubSeq(pipe, 1, n) \in Seq(Byte)
         /\ SubSeq(pipe, n + 1, Len(pipe)) \in Seq(Byte)
         /\ Len(SubSeq(pipe, n + 1, Len(pipe))) = Len(pipe) - n
<1> DEFINE most == Lesser(Lesser(Len(pipe), SendRoom), transc.recv_bytes)
<1>1. pipe \in Seq(Byte) /\ Len(pipe) \in Nat /\ SendRoom \in Int /\ transc.recv_bytes \in Int
  BY BoundsAssumption, LenProperties DEF RInv, TypeOK, Transc, SendRoom
<1>2. Lesser(Len(pipe), SendRoom) \in Int /\ Lesser(Len(pipe), SendRoom) <= Len(pipe)
  BY <1>1, LesserIs
<1>3. /\ most \in Int /\ most <= Lesser(Len(pipe), SendRoom)
      /\ most <= transc.recv_bytes
  BY <1>1, <1>2, LesserIs
<1>4. n \in 1..most
  OBVIOUS
<1> HIDE DEF most
<1>5. n \in Nat /\ n >= 1 /\ n <= Len(pipe) /\ n <= transc.recv_bytes
  BY <1>1, <1>2, <1>3, <1>4
<1>6. \A i \in 1..Len(pipe) : pipe[i] \in Byte
  BY <1>1, ElementOfSeq
<1>7. SubSeq(pipe, 1, n) \in Seq(Byte)
  <2>1. \A i \in 1..n : pipe[i] \in Byte
    BY <1>1, <1>5, <1>6
  <2> QED
    BY <1>5, <2>1, SubSeqProperties
<1>8. /\ SubSeq(pipe, n + 1, Len(pipe)) \in Seq(Byte)
      /\ Len(SubSeq(pipe, n + 1, Len(pipe))) = Len(pipe) - n
  <2>1. \A i \in n + 1 .. Len(pipe) : pipe[i] \in Byte
    BY <1>1, <1>5, <1>6
  <2> QED
    BY <1>1, <1>5, <2>1, SubSeqProperties
<1> QED
  BY <1>5, <1>7, <1>8

LEMMA SpliceOutKeeps ==
  ASSUME RInv, SpliceOut
  PROVE  RInv'
<1>1. /\ pc \in {"send_body", "resend_body"} /\ transc \in Transc
      /\ transc.is_recv_header /\ transc.is_recv_body /\ transc.is_send_header
      /\ ~transc.is_send_body
      /\ transc.length > MSG_HEADER_LEN
      /\ transc.recv_bytes = Len(pipe)
      /\ Len(pipe) \in Nat
  BY LenProperties
     DEF RInv, TypeOK, NoUnknownError, CallFits, CountersFit, BytesAccounted, SpliceOut
<1>2. AfterSplice \in {"resend_body", "epoll"}
  BY DEF AfterSplice
<1>3. CASE /\ pc' \in {"epoll", "resend_body", "killed"} /\ dst' \in {"up", "reset", "broken", "closed"}
           /\ UNCHANGED <<sent, arrived, bounds, src, drained, consumed, out, transc, pipe>>
  <2>1. CallFits' /\ pc' \in PcStates
    BY <1>1, <1>3 DEF CallFits, PcStates
  <2> QED
    BY <1>1, <1>3, <2>1, PlaceKeeps
<1>4. ASSUME NEW n \in 1..Lesser(Lesser(Len(pipe), SendRoom), transc.recv_bytes),
             out' = out \o SubSeq(pipe, 1, n),
             pipe' = SubSeq(pipe, n + 1, Len(pipe)),
             \/ /\ BodySent(transc, n).recv_bytes = 0
                /\ transc' = ClearedTransc
                /\ pc' = "epoll"
             \/ /\ BodySent(transc, n).recv_bytes # 0
                /\ transc' = BodySent(transc, n)
                /\ pc' = AfterSplice,
             UNCHANGED <<net, consumed>>
      PROVE  RInv'
  <2>1. /\ n \in Nat /\ n >= 1 /\ n <= Len(pipe) /\ n <= transc.recv_bytes
        /\ SubSeq(pipe, 1, n) \in Seq(Byte)
        /\ pipe' \in Seq(Byte) /\ Len(pipe') = Len(pipe) - n
    BY <1>4, PipeSplit
  <2>2. out' \in Seq(Byte) /\ Len(out') >= Len(out) /\ Len(out') \in Nat /\ Len(out) \in Nat
    BY <1>4, <2>1, ConcatProperties, LenProperties, SMTT(30) DEF RInv, TypeOK
  <2>3. /\ BodySent(transc, n) \in Transc
        /\ BodySent(transc, n).is_recv_header /\ BodySent(transc, n).is_recv_body
        /\ BodySent(transc, n).is_send_header /\ ~BodySent(transc, n).is_send_body
        /\ BodySent(transc, n).length = transc.length
        /\ BodySent(transc, n).recv_bytes = transc.recv_bytes - n
        /\ BodySent(transc, n).recv_bytes \in Nat
    <3>1. transc.recv_bytes - n \in Nat
      BY <2>1, <1>1
    <3> QED
      BY <1>1, <2>1, <3>1, BodySentIs
  <2>4. TypeOK'
    <3>1. transc' \in Transc /\ pc' \in PcStates
      BY <1>2, <1>4, <2>3, ClearedType DEF PcStates
    <3> QED
      BY <1>4, <2>1, <2>2, <3>1, SMTT(30) DEF RInv, TypeOK, net
  <2>5. CASE transc' = ClearedTransc /\ pc' = "epoll" /\ BodySent(transc, n).recv_bytes = 0
    <3>1. Len(pipe') = 0
      BY <1>1, <2>1, <2>3, <2>5
    <3>2. NoUnknownError' /\ CallFits'
      BY <2>5 DEF ClearedTransc, NoUnknownError, CallFits
    <3>3. BytesAccounted' /\ CountersFit'
      BY <2>5, <3>1 DEF ClearedTransc, BytesAccounted, CountersFit
    <3> QED
      BY <2>4, <3>2, <3>3 DEF RInv
  <2>6. CASE transc' = BodySent(transc, n) /\ pc' = AfterSplice
             /\ BodySent(transc, n).recv_bytes # 0
    <3>1. NoUnknownError' /\ CallFits'
      BY <1>2, <2>3, <2>6 DEF NoUnknownError, CallFits
    <3>2. BytesAccounted'
      BY <1>1, <2>1, <2>3, <2>6 DEF BytesAccounted
    <3>3. CountersFit'
      BY <1>1, <2>3, <2>6 DEF CountersFit
    <3> QED
      BY <2>4, <3>1, <3>2, <3>3 DEF RInv
  <2> QED
    BY <1>4, <2>5, <2>6
<1> QED
  BY <1>2, <1>3, <1>4 DEF SpliceOut, WriteFails, net, RInv, TypeOK

LEMMA NextRInv ==
  ASSUME ShortHeaderWrite = FALSE, RInv, [Next]_vars
  PROVE  RInv'
<1>1. CASE \E len \in MsgLengths : SrcSends(len)
  BY <1>1, SrcSendsKeeps
<1>2. CASE Deliver \/ Drain \/ DstResets \/ CloseDst \/ Over \/ UNCHANGED vars
           \/ \E how \in {"fin", "rst"} : SrcEnds(how)
  BY <1>2, NetworkKeeps
<1>3. CASE Poll \/ StaleEvent \/ EndConn
  BY <1>3, EventKeeps
<1>4. CASE Worker
  BY <1>4, ReadHeaderKeeps, SpliceInKeeps, WriteHeaderKeeps, SpliceOutKeeps DEF Worker
<1> QED
  BY <1>1, <1>2, <1>3, <1>4 DEF Next

(* The counters and flags of transc_t agree with the place of the worker   *)
(* and with the bytes in the pipe in every reachable state.                *)
THEOREM CountersInvariant ==
  ASSUME ShortHeaderWrite = FALSE
  PROVE  Spec => []RInv
<1>1. RInv /\ [Next]_vars => RInv'
  BY NextRInv
<1> QED
  BY <1>1, InitRInv, PTL DEF Spec

-----------------------------------------------------------------------------
(* No byte is lost, repeated or moved.                                     *)

LEMMA Associative ==
  \A s, t, u \in Seq(Byte) : (s \o t) \o u = s \o (t \o u)
  BY ConcatAssociative

(* A step that moves no byte.                                              *)
LEMMA NothingMoves ==
  ASSUME Conservation, pc # "closed", UNCHANGED <<out, pipe, consumed>>,
         SubSeq(sent', 1, consumed) = SubSeq(sent, 1, consumed), HeldHeader' = HeldHeader
  PROVE  Conservation'
  BY DEF Conservation

LEMMA SrcSendsConserves ==
  ASSUME RInv, Conservation, NEW len \in MsgLengths, SrcSends(len)
  PROVE  Conservation'
<1>1. Message(len, Len(sent)) \in Seq(Byte)
  BY MessageType, LenProperties DEF RInv, TypeOK
<1>2. /\ sent \in Seq(Byte) /\ consumed \in 0..Len(sent) /\ Len(sent) \in Nat
      /\ sent' = sent \o Message(len, Len(sent))
      /\ UNCHANGED <<out, pipe, consumed, transc, pc>>
  BY LenProperties DEF RInv, TypeOK, SrcSends
<1>3. SubSeq(sent', 1, consumed) = SubSeq(sent, 1, consumed)
  <2>1. CASE consumed = 0
    BY <2>1, SubSeqEmpty
  <2>2. CASE consumed # 0
    <3>1. 1 \in 1..Len(sent) /\ consumed \in 1..Len(sent)
      BY <1>2, <2>2
    <3> QED
      BY <1>1, <1>2, <3>1, SubSeqOfConcat1
  <2> QED
    BY <2>1, <2>2
<1> QED
  BY <1>2, <1>3 DEF Conservation, HeldHeader

(* The bytes read so far, n more of them.                                  *)
LEMMA ReadMore ==
  ASSUME RInv, NEW n \in Nat, n <= Available
  PROVE  /\ SubSeq(sent, 1, consumed) \in Seq(Byte)
         /\ SubSeq(sent, consumed + 1, consumed + n) \in Seq(Byte)
         /\ Len(SubSeq(sent, consumed + 1, consumed + n)) = n
         /\ \A i \in 1..n : SubSeq(sent, consumed + 1, consumed + n)[i] = sent[consumed + i]
         /\ SubSeq(sent, 1, consumed) \o SubSeq(sent, consumed + 1, consumed + n)
              = SubSeq(sent, 1, consumed + n)
<1>1. /\ sent \in Seq(Byte) /\ Len(sent) \in Nat /\ consumed \in Nat
      /\ consumed + n \in Nat /\ consumed + n <= Len(sent)
  BY LenProperties DEF RInv, TypeOK, Available
<1>2. \A i \in 1..Len(sent) : sent[i] \in Byte
  BY <1>1, ElementOfSeq
<1>3. SubSeq(sent, 1, consumed) \in Seq(Byte)
  <2>1. \A i \in 1..consumed : sent[i] \in Byte
    BY <1>1, <1>2
  <2> QED
    BY <1>1, <2>1, SubSeqProperties
<1>4. /\ SubSeq(sent, consumed + 1, consumed + n) \in Seq(Byte)
      /\ Len(SubSeq(sent, consumed + 1, consumed + n)) = n
      /\ \A i \in 1..n : SubSeq(sent, consumed + 1, consumed + n)[i] = sent[consumed + i]
  <2>1. \A i \in consumed + 1 .. consumed + n : sent[i] \in Byte
    BY <1>1, <1>2
  <2> QED
    BY <1>1, <2>1, SubSeqProperties
<1>5. SubSeq(sent, 1, consumed) \o SubSeq(sent, consumed + 1, consumed + n)
        = SubSeq(sent, 1, consumed + n)
  <2>1. 1 \in 1..Len(sent) + 1 /\ consumed \in 1 - 1 .. Len(sent)
        /\ consumed + n \in consumed .. Len(sent)
    BY <1>1
  <2> QED
    BY <1>1, <2>1, ConcatAdjacentSubSeq
<1> QED
  BY <1>3, <1>4, <1>5

LEMMA ReadHeaderConserves ==
  ASSUME RInv, Conservation, ReadHeader, pc' # "closed"
  PROVE  Conservation'
<1> DEFINE n == Lesser(Available, MSG_HEADER_LEN - transc.recv_bytes)
           hdr == [i \in 1..MSG_HEADER_LEN |->
                     IF i > transc.recv_bytes /\ i <= transc.recv_bytes + n
                     THEN SubSeq(sent, consumed + 1, consumed + n)[i - transc.recv_bytes] ELSE 0]
           got == transc.recv_bytes + n
           len == MsgLength(hdr, ENDIAN)
<1>1. /\ pc = "recv_header" /\ ~transc.is_recv_header /\ transc.recv_bytes = 0 /\ pipe = <<>>
      /\ transc.send_bytes = 0 /\ transc \in Transc /\ ~transc.is_send_header
      /\ MSG_HEADER_LEN \in Nat /\ out \in Seq(Byte)
  <2>1. pc = "recv_header" /\ ~transc.is_recv_header /\ transc.recv_bytes = 0
    BY DEF RInv, ReadHeader, CallFits, CountersFit
  <2>2. Len(pipe) = 0
    BY <2>1 DEF RInv, BytesAccounted, TypeOK
  <2> QED
    BY <2>1, <2>2, EmptySeq, HeaderAssumption DEF RInv, TypeOK, NoUnknownError, CountersFit
<1>2. CASE transc' = [transc EXCEPT !.read_hdr_buf = Zeros]
           /\ UNCHANGED <<net, consumed, pipe, out>>
  <2>1. ~transc'.is_recv_header
    BY <1>1, <1>2 DEF Transc
  <2>2. HeldHeader = <<>> /\ HeldHeader' = <<>>
    BY <1>1, <2>1 DEF HeldHeader
  <2> QED
    BY <1>1, <1>2, <2>2, NothingMoves DEF net
<1>3. CASE /\ Available > 0 /\ consumed' = consumed + n
           /\ UNCHANGED <<net, pipe, out>>
           /\ got = MSG_HEADER_LEN
           /\ transc' = [transc EXCEPT !.read_hdr_buf = hdr, !.recv_bytes = got,
                                       !.length = len, !.is_recv_header = TRUE]
  <2>1. n = MSG_HEADER_LEN /\ n <= Available
    <3>1. Available \in Int /\ MSG_HEADER_LEN - transc.recv_bytes \in Int
      BY <1>1 DEF Available, RInv, TypeOK
    <3>2. n \in Int /\ n <= Available
      BY <3>1, LesserIs
    <3> HIDE DEF n
    <3> QED
      BY <1>1, <1>3, <3>2
  <2> HIDE DEF n, len
  <2>2. /\ transc'.is_recv_header /\ ~transc'.is_send_header
        /\ transc'.send_bytes = 0 /\ transc'.read_hdr_buf = hdr
    BY <1>1, <1>3 DEF Transc
  <2> DEFINE data == SubSeq(sent, consumed + 1, consumed + n)
  <2>3. /\ data \in Seq(Byte) /\ Len(data) = n
        /\ SubSeq(sent, 1, consumed) \o data = SubSeq(sent, 1, consumed + n)
    BY <1>1, <2>1, ReadMore
  <2>4. ASSUME NEW i \in 1..MSG_HEADER_LEN PROVE hdr[i] = data[i]
    <3>1. /\ i > transc.recv_bytes /\ i <= transc.recv_bytes + n
          /\ i - transc.recv_bytes = i
      BY <1>1, <2>1
    <3> HIDE DEF data
    <3>2. hdr[i] = SubSeq(sent, consumed + 1, consumed + n)[i - transc.recv_bytes]
      BY <3>1
    <3> QED
      BY <3>1, <3>2 DEF data
  <2>5. hdr = data /\ SubSeq(hdr, 1, MSG_HEADER_LEN) = data
    <3>1. hdr \in [1..MSG_HEADER_LEN -> Byte]
      BY <1>1, <2>1, HeaderTyped
    <3> HIDE DEF hdr, data
    <3>2. hdr \in Seq(Byte) /\ Len(hdr) = MSG_HEADER_LEN
      BY <1>1, <3>1, BufferIsSeq
    <3>3. hdr = data
      BY <2>1, <2>3, <2>4, <3>2, SeqEqual
    <3> QED
      BY <2>1, <2>3, <3>2, <3>3, SubSeqFull
  <2>6. HeldHeader = <<>>
    BY <1>1 DEF HeldHeader
  <2> HIDE DEF hdr, data
  <2>7. HeldHeader' = data
    <3>1. transc'.send_bytes + 1 = 1
      BY <2>2
    <3>2. HeldHeader' = SubSeq(hdr, 1, MSG_HEADER_LEN)
      BY <2>2, <3>1 DEF HeldHeader
    <3> QED
      BY <2>5, <3>2
  <2>8. out = SubSeq(sent, 1, consumed)
    BY <1>1, <2>6, ConcatEmptySeq, EmptySeq DEF Conservation
  <2>9. out' \o HeldHeader' \o pipe' = SubSeq(sent', 1, consumed')
    BY <1>1, <1>3, <2>3, <2>7, <2>8, ConcatEmptySeq, ConcatProperties DEF net
  <2> QED
    BY <2>9 DEF Conservation
<1> QED
  BY <1>2, <1>3 DEF ReadHeader, CloseSource, net

LEMMA SpliceInConserves ==
  ASSUME RInv, Conservation, SpliceIn, pc' # "closed"
  PROVE  Conservation'
<1> DEFINE most == Lesser(Lesser(Available, PipeRoom), transc.length - transc.recv_bytes)
<1>1. /\ pc = "recv_body" /\ transc \in Transc /\ pipe \in Seq(Byte) /\ out \in Seq(Byte)
      /\ transc.is_recv_header /\ ~transc.is_send_header /\ transc.send_bytes = 0
      /\ transc.read_hdr_buf \in [1..MSG_HEADER_LEN -> Byte]
  BY DEF RInv, TypeOK, NoUnknownError, CallFits, CountersFit, SpliceIn, Transc
<1>2. CASE UNCHANGED <<net, consumed, pipe, out, transc>>
  BY <1>1, <1>2 DEF Conservation, HeldHeader, net
<1>3. ASSUME NEW n \in 1..most,
             pipe' = pipe \o SubSeq(sent, consumed + 1, consumed + n),
             consumed' = consumed + n, transc' = BodyRead(transc, n),
             UNCHANGED <<net, out>>
      PROVE  Conservation'
  <2> DEFINE data == SubSeq(sent, consumed + 1, consumed + n)
  <2>1. n \in Nat /\ n <= Available
    <3>1. Available \in Int /\ PipeRoom \in Int /\ transc.length - transc.recv_bytes \in Int
      BY <1>1, BoundsAssumption, LenProperties DEF Available, PipeRoom, RInv, TypeOK, Transc
    <3>2. Lesser(Available, PipeRoom) \in Int /\ Lesser(Available, PipeRoom) <= Available
      BY <3>1, LesserIs
    <3>3. most \in Int /\ most <= Lesser(Available, PipeRoom)
      BY <3>1, <3>2, LesserIs
    <3> HIDE DEF most
    <3> QED
      BY <3>1, <3>2, <3>3
  <2>2. /\ data \in Seq(Byte)
        /\ SubSeq(sent, 1, consumed) \o data = SubSeq(sent, 1, consumed + n)
    BY <2>1, ReadMore
  <2>3. /\ transc'.is_recv_header /\ ~transc'.is_send_header
        /\ transc'.send_bytes = transc.send_bytes
        /\ transc'.read_hdr_buf = transc.read_hdr_buf
    BY <1>1, <1>3, <2>1, BodyReadIs
  <2>4. HeldHeader' = HeldHeader
    BY <1>1, <2>3 DEF HeldHeader
  <2>5. HeldHeader \in Seq(Byte)
    <3>0. transc.send_bytes + 1 = 1
      BY <1>1
    <3>1. HeldHeader = SubSeq(transc.read_hdr_buf, 1, MSG_HEADER_LEN)
      BY <1>1, <3>0, Zenon DEF HeldHeader
    <3>2. transc.read_hdr_buf \in Seq(Byte) /\ Len(transc.read_hdr_buf) = MSG_HEADER_LEN
      BY <1>1, BufferIsSeq
    <3> QED
      BY <3>1, <3>2, SubSeqFull
  <2>6. out \o HeldHeader \o pipe = SubSeq(sent, 1, consumed)
    BY <1>1 DEF Conservation
  <2> HIDE DEF data
  <2>7. out \o HeldHeader \o (pipe \o data) = (out \o HeldHeader \o pipe) \o data
    <3>1. out \o HeldHeader \in Seq(Byte)
      BY <1>1, <2>5, ConcatProperties, Zenon
    <3> QED
      BY <1>1, <2>2, <3>1, Associative, Zenon
  <2>8. pipe' = pipe \o data
    BY <1>3 DEF data
  <2> QED
    BY <1>3, <2>2, <2>4, <2>6, <2>7, <2>8 DEF Conservation, net
<1> QED
  BY <1>2, <1>3 DEF SpliceIn, CloseSource, net

LEMMA WriteHeaderConserves ==
  ASSUME RInv, Conservation, WriteHeader, ShortHeaderWrite = FALSE
  PROVE  Conservation'
<1>1. /\ pc = "send_header" /\ transc \in Transc /\ out \in Seq(Byte) /\ pipe \in Seq(Byte)
      /\ transc.is_recv_header /\ ~transc.is_send_header /\ transc.send_bytes = 0
      /\ transc.recv_bytes = Len(pipe) + MSG_HEADER_LEN
      /\ transc.read_hdr_buf \in [1..MSG_HEADER_LEN -> Byte]
      /\ MSG_HEADER_LEN \in Nat
  BY HeaderAssumption
     DEF RInv, TypeOK, NoUnknownError, CallFits, CountersFit, BytesAccounted,
         WriteHeader, Transc
<1>2. CASE UNCHANGED <<sent, out, transc, pipe, consumed>>
  BY <1>1, <1>2 DEF Conservation, HeldHeader
<1>3. CASE /\ out' = out \o SubSeq(HeaderBuffer(transc), 1, MSG_HEADER_LEN)
           /\ transc' = HeaderSent(transc, MSG_HEADER_LEN)
           /\ UNCHANGED <<net, consumed, pipe>>
  <2>1. HeaderBuffer(transc) = transc.read_hdr_buf
    BY <1>1 DEF HeaderBuffer
  <2>2. /\ transc.read_hdr_buf \in Seq(Byte)
        /\ SubSeq(transc.read_hdr_buf, 1, MSG_HEADER_LEN) = transc.read_hdr_buf
    BY <1>1, BufferIsSeq, SubSeqFull
  <2>3. HeldHeader = transc.read_hdr_buf
    <3>1. transc.send_bytes + 1 = 1
      BY <1>1
    <3> QED
      BY <1>1, <2>2, <3>1 DEF HeldHeader
  <2>4. transc'.is_send_header
    <3>1. Len(pipe) \in Nat
      BY <1>1, LenProperties
    <3>2. transc.recv_bytes >= MSG_HEADER_LEN
      BY <1>1, <3>1
    <3> QED
      BY <1>1, <1>3, <3>2, HeaderSentIs
  <2>5. HeldHeader' = <<>>
    BY <2>4 DEF HeldHeader
  <2>6. out' = out \o HeldHeader /\ out' \in Seq(Byte)
    <3>1. out' = out \o transc.read_hdr_buf
      BY <1>3, <2>1, <2>2, Zenon
    <3>2. out \o transc.read_hdr_buf \in Seq(Byte)
      BY <1>1, <2>2, ConcatProperties, Zenon
    <3> QED
      BY <2>3, <3>1, <3>2, Zenon
  <2>7. out' \o <<>> = out'
    BY <2>6, ConcatEmptySeq
  <2>8. pc # "closed" /\ UNCHANGED <<pipe, sent, consumed>>
    BY <1>1, <1>3 DEF net
  <2>9. out' \o HeldHeader' \o pipe' = out \o HeldHeader \o pipe
    BY <2>5, <2>6, <2>7, <2>8
  <2> QED
    BY <2>8, <2>9 DEF Conservation
<1>4. MSG_HEADER_LEN - transc.send_bytes = MSG_HEADER_LEN
  BY <1>1
<1> QED
  BY <1>2, <1>3, <1>4 DEF WriteHeader, WriteFails, net

LEMMA SpliceOutConserves ==
  ASSUME RInv, Conservation, SpliceOut
  PROVE  Conservation'
<1>1. /\ pc \in {"send_body", "resend_body"} /\ transc \in Transc
      /\ transc.is_send_header
      /\ out \in Seq(Byte) /\ pipe \in Seq(Byte) /\ Len(pipe) \in Nat
  BY LenProperties DEF RInv, TypeOK, CallFits, SpliceOut
<1>2. CASE UNCHANGED <<sent, out, transc, pipe, consumed>>
  BY <1>1, <1>2 DEF Conservation, HeldHeader
<1>3. ASSUME NEW n \in 1..Lesser(Lesser(Len(pipe), SendRoom), transc.recv_bytes),
             out' = out \o SubSeq(pipe, 1, n),
             pipe' = SubSeq(pipe, n + 1, Len(pipe)),
             transc' \in {ClearedTransc, BodySent(transc, n)},
             UNCHANGED <<net, consumed>>
      PROVE  Conservation'
  <2>1. /\ n \in Nat /\ n <= Len(pipe) /\ n <= transc.recv_bytes
        /\ SubSeq(pipe, 1, n) \in Seq(Byte) /\ pipe' \in Seq(Byte)
    BY <1>3, PipeSplit
  <2>2. SubSeq(pipe, 1, n) \o pipe' = pipe
    <3>1. 1 \in 1..Len(pipe) + 1 /\ n \in 1 - 1 .. Len(pipe) /\ Len(pipe) \in n .. Len(pipe)
      BY <1>1, <2>1
    <3>2. SubSeq(pipe, 1, n) \o SubSeq(pipe, n + 1, Len(pipe)) = SubSeq(pipe, 1, Len(pipe))
      BY <1>1, <3>1, ConcatAdjacentSubSeq
    <3> QED
      BY <1>1, <1>3, <3>2, SubSeqFull
  <2>3. ClearedTransc.is_recv_header = FALSE
    BY DEF ClearedTransc
  <2>4. BodySent(transc, n).is_send_header
    BY <1>1, <2>1, BodySentIs
  <2>5. HeldHeader = <<>> /\ HeldHeader' = <<>>
    BY <1>1, <1>3, <2>3, <2>4 DEF HeldHeader
  <2>6. out \o pipe = SubSeq(sent, 1, consumed)
    BY <1>1, <2>5, ConcatEmptySeq DEF Conservation
  <2>7. (out \o SubSeq(pipe, 1, n)) \o pipe' = out \o pipe
    <3>1. (out \o SubSeq(pipe, 1, n)) \o pipe' = out \o (SubSeq(pipe, 1, n) \o pipe')
      BY <1>1, <2>1, Associative, Zenon
    <3> QED
      BY <2>2, <3>1, Zenon
  <2>8. out' \in Seq(Byte)
    BY <1>1, <1>3, <2>1, ConcatProperties
  <2>9. out' \o HeldHeader' \o pipe' = SubSeq(sent', 1, consumed')
    BY <1>3, <2>5, <2>6, <2>7, <2>8, ConcatEmptySeq DEF net
  <2> QED
    BY <2>9 DEF Conservation
<1> QED
  BY <1>2, <1>3 DEF SpliceOut, WriteFails, net

LEMMA NextConserves ==
  ASSUME ShortHeaderWrite = FALSE, RInv, Conservation, [Next]_vars
  PROVE  Conservation'
<1>0. SUFFICES ASSUME pc' # "closed" PROVE Conservation'
  BY DEF Conservation
<1>1. CASE \E len \in MsgLengths : SrcSends(len)
  BY <1>1, SrcSendsConserves
<1>2. CASE \/ Deliver \/ Drain \/ DstResets \/ CloseDst \/ Over \/ UNCHANGED vars
           \/ \E how \in {"fin", "rst"} : SrcEnds(how)
           \/ Poll \/ StaleEvent
  <2>1. UNCHANGED <<transc, pipe, sent, consumed, out>>
    BY <1>2 DEF Deliver, Drain, DstResets, CloseDst, Over, SrcEnds, Poll, StaleEvent, vars, net
  <2>2. pc # "closed"
    BY <1>0, <1>2
       DEF Deliver, Drain, DstResets, CloseDst, Over, SrcEnds, Poll, StaleEvent, vars
  <2> QED
    BY <2>1, <2>2 DEF Conservation, HeldHeader
<1>3. CASE EndConn
  BY <1>3 DEF EndConn, Conservation
<1>4. CASE Worker
  BY <1>0, <1>4, ReadHeaderConserves, SpliceInConserves, WriteHeaderConserves,
     SpliceOutConserves DEF Worker
<1> QED
  BY <1>1, <1>2, <1>3, <1>4 DEF Next

(* The flags of transc_t are raised in order, whatever the segmentation,   *)
(* the back pressure, the failures of the peers and the stale events.      *)
THEOREM FlagsInOrder ==
  ASSUME ShortHeaderWrite = FALSE
  PROVE  Spec => []NoUnknownError
<1>1. RInv => NoUnknownError
  BY DEF RInv
<1> QED
  BY <1>1, CountersInvariant, PTL

(* recv_bytes is what the proxy holds of the message.                      *)
THEOREM RecvBytesExact ==
  ASSUME ShortHeaderWrite = FALSE
  PROVE  Spec => []BytesAccounted
<1>1. RInv => BytesAccounted
  BY DEF RInv
<1> QED
  BY <1>1, CountersInvariant, PTL

(* What was sent on, the header held back and the pipe are together the    *)
(* bytes read from the source, in order.                                   *)
THEOREM BytesConserved ==
  ASSUME ShortHeaderWrite = FALSE
  PROVE  Spec => []Conservation
<1>1. Init => Conservation
  <2> SUFFICES ASSUME Init PROVE Conservation
    OBVIOUS
  <2>1. HeldHeader = <<>> /\ out = <<>> /\ pipe = <<>>
    BY DEF Init, HeldHeader, ClearedTransc
  <2>2. SubSeq(sent, 1, consumed) = <<>>
    BY SubSeqEmpty DEF Init
  <2> QED
    BY <2>1, <2>2, ConcatEmptySeq, EmptySeq DEF Conservation
<1>2. RInv /\ Conservation /\ [Next]_vars => Conservation'
  BY NextConserves
<1> QED
  BY <1>1, <1>2, CountersInvariant, PTL DEF Spec

(* The variables keep their types: no counter goes below zero.             *)
THEOREM RelayTyped ==
  ASSUME ShortHeaderWrite = FALSE
  PROVE  Spec => []TypeOK
<1>1. RInv => TypeOK
  BY DEF RInv
<1> QED
  BY <1>1, CountersInvariant, PTL
=============================================================================
