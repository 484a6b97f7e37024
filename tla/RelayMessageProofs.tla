------------------------ MODULE RelayMessageProofs ------------------------
(***************************************************************************)
(* Proofs about Relay that speak of whole messages: the length read from a *)
(* header is the one the source encoded, a message is forwarded only after *)
(* its last byte was read, and while both peers are there the connection   *)
(* is closed only over a header.  They hold for any lengths of header and  *)
(* messages, when the kernel takes a header whole (ShortHeaderWrite is     *)
(* FALSE) and the source encodes lengths the way the proxy decodes them    *)
(* (ENDIAN = PEER_ENDIAN).                                                 *)
(***************************************************************************)
EXTENDS RelayProofs

(* How many bytes the source had sent before message k.                    *)
First(k) == IF k = 1 THEN 0 ELSE bounds[k - 1]

(* What the source has sent is whole messages, each with its length in     *)
(* its header.                                                             *)
Layout ==
  /\ Len(sent) = First(Len(bounds) + 1)
  /\ \A j \in 1..Len(bounds) :
       /\ bounds[j] - First(j) \in MsgLengths
       /\ sent[First(j) + 1] = VERSION
       /\ <<sent[First(j) + 2], sent[First(j) + 3], sent[First(j) + 4]>>
            = LengthBytes(bounds[j] - First(j), PEER_ENDIAN)
  /\ \A i, j \in 1..Len(bounds) : i <= j => bounds[i] <= bounds[j]

(* Where the source of a connection stands that was closed over it: its    *)
(* end was read, or a part of a header, or a header without a body.        *)
ClosedAt(k) ==
  pc = "closed" /\ dst # "closed" =>
    /\ Len(out) = First(k)
    /\ \/ /\ src # "open"
          /\ consumed = First(k) \/ (k <= Len(bounds) /\ consumed < bounds[k])
       \/ k <= Len(bounds) /\ First(k) < consumed /\ consumed < First(k) + MSG_HEADER_LEN
       \/ k <= Len(bounds) /\ consumed = First(k) + MSG_HEADER_LEN /\ consumed = bounds[k]

(* Message k is the one that the worker carries, or the next one.          *)
At(k) ==
  /\ Len(out) = First(k) + transc.send_bytes
  /\ Len(out) <= consumed
  /\ k <= Len(bounds) => consumed <= bounds[k]
  /\ pc # "closed" => Len(out) + transc.recv_bytes = consumed
  /\ transc.is_recv_header => k <= Len(bounds) /\ transc.length = bounds[k] - First(k)
  /\ transc.is_recv_body => consumed = bounds[k]
  /\ transc.send_bytes > 0 => transc.is_recv_body
  /\ ClosedAt(k)

MInv == Layout /\ \E k \in 1..(Len(bounds) + 1) : At(k)

-----------------------------------------------------------------------------
(* Encoding and decoding.                                                  *)

LEMMA MessageHeader ==
  ASSUME NEW len \in MsgLengths, NEW at \in Nat
  PROVE  /\ Message(len, at) \in Seq(Byte)
         /\ Len(Message(len, at)) = len
         /\ Message(len, at)[1] = VERSION
         /\ <<Message(len, at)[2], Message(len, at)[3], Message(len, at)[4]>>
              = LengthBytes(len, PEER_ENDIAN)
<1> DEFINE lb == LengthBytes(len, PEER_ENDIAN)
           zeros == [i \in 1..(MSG_HEADER_LEN - 4) |-> 0]
           body == [i \in 1..(len - MSG_HEADER_LEN) |-> BodyByte(at + MSG_HEADER_LEN + i)]
           m1 == <<VERSION>> \o lb
           m2 == m1 \o zeros
<1>1. /\ len \in Nat /\ MSG_HEADER_LEN \in Nat /\ len - MSG_HEADER_LEN \in Nat
      /\ MSG_HEADER_LEN - 4 \in Nat
  BY HeaderAssumption
<1>2. PICK a \in Byte, b \in Byte, c \in Byte : lb = <<a, b, c>>
  <2>1. len \div 65536 \in Nat /\ (len \div 256) % 256 \in Nat /\ len % 256 \in Nat
    BY <1>1, SMTT(30)
  <2> QED
    BY <2>1 DEF LengthBytes, Byte
<1> HIDE DEF lb
<1>3. zeros \in Seq(Byte) /\ Len(zeros) = MSG_HEADER_LEN - 4
  BY <1>1 DEF Byte
<1>4. body \in Seq(Byte) /\ Len(body) = len - MSG_HEADER_LEN
  <2>1. \A i \in 1..(len - MSG_HEADER_LEN) : BodyByte(at + MSG_HEADER_LEN + i) \in Byte
    BY <1>1 DEF BodyByte, Byte
  <2> QED
    BY <1>1, <2>1
<1> HIDE DEF zeros, body
<1>5. /\ m1 \in Seq(Byte) /\ Len(m1) = 4
      /\ m1[1] = VERSION /\ m1[2] = a /\ m1[3] = b /\ m1[4] = c
  <2>1. /\ lb \in Seq(Byte) /\ Len(lb) = 3 /\ lb[1] = a /\ lb[2] = b /\ lb[3] = c
    BY <1>2
  <2>2. <<VERSION>> \in Seq(Byte) /\ Len(<<VERSION>>) = 1 /\ <<VERSION>>[1] = VERSION
    BY DEF VERSION, Byte
  <2>3. /\ m1 \in Seq(Byte) /\ Len(m1) = 4
        /\ \A i \in 1..4 : m1[i] = IF i <= 1 THEN <<VERSION>>[i] ELSE lb[i - 1]
    <3> DEFINE v == <<VERSION>>
    <3>1. v \in Seq(Byte) /\ Len(v) = 1 /\ m1 = v \o lb
      BY <2>2
    <3> HIDE DEF v, m1
    <3>2. /\ m1 \in Seq(Byte) /\ Len(m1) = Len(v) + Len(lb)
          /\ \A i \in 1..(Len(v) + Len(lb)) :
               m1[i] = IF i <= Len(v) THEN v[i] ELSE lb[i - Len(v)]
      BY <2>1, <3>1, ConcatProperties
    <3> QED
      BY <2>1, <3>1, <3>2 DEF v
  <2> QED
    BY <2>1, <2>2, <2>3
<1> HIDE DEF m1
<1>6. /\ m2 \in Seq(Byte) /\ Len(m2) = MSG_HEADER_LEN
      /\ \A i \in 1..4 : m2[i] = m1[i]
  <2>1. /\ m2 \in Seq(Byte) /\ Len(m2) = Len(m1) + Len(zeros)
        /\ \A i \in 1..(Len(m1) + Len(zeros)) :
             m2[i] = IF i <= Len(m1) THEN m1[i] ELSE zeros[i - Len(m1)]
    BY <1>3, <1>5, ConcatProperties
  <2>2. \A i \in 1..4 : i \in 1..(Len(m1) + Len(zeros)) /\ i <= Len(m1)
    BY <1>1, <1>3, <1>5
  <2> QED
    BY <1>1, <1>3, <1>5, <2>1, <2>2
<1> HIDE DEF m2
<1>7. /\ m2 \o body \in Seq(Byte) /\ Len(m2 \o body) = len
      /\ \A i \in 1..4 : (m2 \o body)[i] = m2[i]
  <2>1. /\ m2 \o body \in Seq(Byte) /\ Len(m2 \o body) = Len(m2) + Len(body)
        /\ \A i \in 1..(Len(m2) + Len(body)) :
             (m2 \o body)[i] = IF i <= Len(m2) THEN m2[i] ELSE body[i - Len(m2)]
    BY <1>4, <1>6, ConcatProperties
  <2>2. \A i \in 1..4 : i \in 1..(Len(m2) + Len(body)) /\ i <= Len(m2)
    BY <1>1, <1>4, <1>6
  <2> QED
    BY <1>1, <1>4, <1>6, <2>1, <2>2
<1>8. Message(len, at) = m2 \o body
  BY DEF Message, m2, m1, lb, zeros, body
<1>9. \A i \in 1..4 : Message(len, at)[i] = m1[i]
  BY <1>6, <1>7, <1>8
<1>10. /\ Message(len, at)[1] = VERSION /\ Message(len, at)[2] = a
       /\ Message(len, at)[3] = b /\ Message(len, at)[4] = c
  BY <1>5, <1>9
<1>11. <<a, b, c>> = LengthBytes(len, PEER_ENDIAN)
  BY <1>2 DEF lb
<1> QED
  BY <1>7, <1>8, <1>10, <1>11

(* transc_get_msg_length undoes the encoding.                              *)
LEMMA Decodes ==
  ASSUME NEW len \in MsgLengths, NEW hdr, hdr[1] = VERSION, ENDIAN = PEER_ENDIAN,
         <<hdr[2], hdr[3], hdr[4]>> = LengthBytes(len, PEER_ENDIAN)
  PROVE  MsgLength(hdr, ENDIAN) = len
<1> DEFINE hi == len \div 65536
           mid == (len \div 256) % 256
           lo == len % 256
<1>1. len \in Nat
  BY HeaderAssumption
<1>2. hi \in Nat /\ mid \in Nat /\ lo \in Nat /\ hi * 65536 + mid * 256 + lo = len
  BY <1>1, SMTT(30)
<1>3. hdr[1] # 0
  BY DEF VERSION
<1>4. CASE ENDIAN = 1
  <2>1. <<hdr[2], hdr[3], hdr[4]>> = <<hi, mid, lo>>
    BY <1>4 DEF LengthBytes
  <2> HIDE DEF hi, mid, lo
  <2>2. hdr[2] = hi /\ hdr[3] = mid /\ hdr[4] = lo
    BY <2>1
  <2> QED
    BY <1>2, <1>3, <1>4, <2>2 DEF MsgLength
<1>5. CASE ENDIAN = 0
  <2>1. <<hdr[2], hdr[3], hdr[4]>> = <<lo, mid, hi>>
    BY <1>5 DEF LengthBytes
  <2> HIDE DEF hi, mid, lo
  <2>2. hdr[2] = lo /\ hdr[3] = mid /\ hdr[4] = hi
    BY <2>1
  <2> QED
    BY <1>2, <1>3, <1>5, <2>2 DEF MsgLength
<1> QED
  BY <1>4, <1>5, ModesAssumption

-----------------------------------------------------------------------------
(* The places of the messages.                                             *)

LEMMA Places ==
  ASSUME RInv, Layout
  PROVE  /\ Len(bounds) \in Nat /\ Len(sent) \in Nat
         /\ consumed \in Nat /\ arrived \in Nat /\ consumed <= arrived /\ arrived <= Len(sent)
         /\ MSG_HEADER_LEN \in Nat /\ MSG_HEADER_LEN >= 4 /\ Len(out) \in Nat
         /\ \A k \in 1..(Len(bounds) + 1) : First(k) \in Nat
         /\ \A j \in 1..Len(bounds) :
              /\ bounds[j] \in Nat /\ First(j) + MSG_HEADER_LEN <= bounds[j]
              /\ First(j + 1) = bounds[j] /\ bounds[j] <= Len(sent)
<1>1. /\ Len(bounds) \in Nat /\ Len(sent) \in Nat
      /\ consumed \in Nat /\ arrived \in Nat /\ consumed <= arrived /\ arrived <= Len(sent)
      /\ MSG_HEADER_LEN \in Nat /\ MSG_HEADER_LEN >= 4 /\ Len(out) \in Nat
  BY HeaderAssumption, LenProperties DEF RInv, TypeOK
<1>2. \A j \in 1..Len(bounds) : bounds[j] \in Nat
  BY ElementOfSeq DEF RInv, TypeOK
<1>3. ASSUME NEW k \in 1..(Len(bounds) + 1) PROVE First(k) \in Nat
  BY <1>1, <1>2 DEF First
<1>4. ASSUME NEW j \in 1..Len(bounds)
      PROVE  /\ First(j) + MSG_HEADER_LEN <= bounds[j]
             /\ First(j + 1) = bounds[j] /\ bounds[j] <= Len(sent)
  <2>1. First(j) \in Nat
    BY <1>1, <1>3
  <2>2. bounds[j] - First(j) >= MSG_HEADER_LEN
    <3>1. bounds[j] - First(j) \in MsgLengths
      BY DEF Layout
    <3>2. \A len \in MsgLengths : len >= MSG_HEADER_LEN
      BY HeaderAssumption
    <3> QED
      BY <3>1, <3>2
  <2>3. First(j + 1) = bounds[j]
    BY <1>1 DEF First
  <2>4. First(Len(bounds) + 1) = bounds[Len(bounds)]
    BY <1>1 DEF First
  <2>5. bounds[j] <= bounds[Len(bounds)]
    BY <1>1 DEF Layout
  <2> QED
    BY <1>1, <1>2, <2>1, <2>2, <2>3, <2>4, <2>5 DEF Layout
<1> QED
  BY <1>1, <1>2, <1>3, <1>4

(* A new message is laid behind the others.                                *)
LEMMA SrcSendsLays ==
  ASSUME RInv, Layout, NEW len \in MsgLengths, SrcSends(len)
  PROVE  /\ Layout'
         /\ Len(bounds') = Len(bounds) + 1
         /\ \A k \in 1..(Len(bounds) + 1) : First(k)' = First(k)
         /\ \A j \in 1..Len(bounds) : bounds'[j] = bounds[j]
         /\ bounds'[Len(bounds) + 1] = Len(sent) + len /\ len \in Nat
<1> DEFINE n == Len(bounds) + 1
           m == Message(len, Len(sent))
<1>0. /\ Len(bounds) \in Nat /\ Len(sent) \in Nat /\ n \in Nat /\ n \in 1..n
      /\ \A k \in 1..n : First(k) \in Nat
      /\ \A j \in 1..Len(bounds) :
           /\ bounds[j] \in Nat /\ First(j) + MSG_HEADER_LEN <= bounds[j]
           /\ bounds[j] <= Len(sent)
      /\ MSG_HEADER_LEN \in Nat /\ MSG_HEADER_LEN >= 4
  BY Places
<1>1. /\ bounds' = Append(bounds, Len(sent) + len) /\ sent' = sent \o m
      /\ bounds \in Seq(Nat) /\ sent \in Seq(Byte) /\ len \in Nat /\ len >= MSG_HEADER_LEN
  BY HeaderAssumption DEF SrcSends, RInv, TypeOK
<1>2. /\ m \in Seq(Byte) /\ Len(m) = len /\ m[1] = VERSION
      /\ <<m[2], m[3], m[4]>> = LengthBytes(len, PEER_ENDIAN)
  BY Places, MessageHeader
<1>3. /\ Len(bounds') = n /\ bounds'[n] = Len(sent) + len
      /\ \A j \in 1..Len(bounds) : bounds'[j] = bounds[j]
  BY <1>1, Places, AppendProperties
<1>4. ASSUME NEW k \in 1..n PROVE First(k)' = First(k)
  BY <1>1, <1>3, Places DEF First
<1> HIDE DEF m
<1>5. /\ Len(sent') = Len(sent) + len
      /\ \A i \in 1..Len(sent) : sent'[i] = sent[i]
      /\ \A i \in 1..4 : sent'[Len(sent) + i] = m[i]
  <2>1. /\ Len(sent \o m) = Len(sent) + Len(m)
        /\ \A i \in 1..(Len(sent) + Len(m)) :
             (sent \o m)[i] = IF i <= Len(sent) THEN sent[i] ELSE m[i - Len(sent)]
    BY <1>1, <1>2, ConcatProperties
  <2>2. \A i \in 1..4 : /\ Len(sent) + i \in 1..(Len(sent) + Len(m))
                        /\ ~(Len(sent) + i <= Len(sent)) /\ (Len(sent) + i) - Len(sent) = i
    BY <1>1, <1>2, Places
  <2>3. \A i \in 1..Len(sent) : i \in 1..(Len(sent) + Len(m)) /\ i <= Len(sent)
    BY <1>1, <1>2, Places
  <2> QED
    BY <1>1, <1>2, <2>1, <2>2, <2>3
<1>6. ASSUME NEW k \in 1..n, k = n PROVE First(k)' = Len(sent)
  BY <1>0, <1>4, <1>6 DEF Layout
<1>7. ASSUME NEW j \in 1..n
      PROVE  /\ bounds'[j] - First(j)' \in MsgLengths
             /\ sent'[First(j)' + 1] = VERSION
             /\ <<sent'[First(j)' + 2], sent'[First(j)' + 3], sent'[First(j)' + 4]>>
                  = LengthBytes(bounds'[j] - First(j)', PEER_ENDIAN)
  <2>1. CASE j = n
    <3>1. bounds'[j] - First(j)' = len
      <4>1. bounds'[j] = Len(sent) + len /\ First(j)' = Len(sent)
        BY <1>3, <1>6, <2>1
      <4>2. Len(sent) \in Nat /\ len \in Nat
        BY <1>0, <1>1
      <4>3. (Len(sent) + len) - Len(sent) = len
        BY <4>2
      <4> QED
        BY <4>1, <4>3
    <3>2. \A i \in 1..4 : sent'[First(j)' + i] = m[i]
      BY <1>5, <1>6, <2>1
    <3> QED
      BY <1>2, <3>1, <3>2
  <2>2. CASE j # n
    <3>1. j \in 1..Len(bounds)
      BY <2>2, <1>0
    <3>2. bounds'[j] = bounds[j] /\ First(j)' = First(j)
      BY <1>3, <1>4, <3>1
    <3>3. \A i \in 1..4 : sent'[First(j) + i] = sent[First(j) + i]
      <4>1. ASSUME NEW i \in 1..4 PROVE First(j) + i \in 1..Len(sent)
        <5>1. /\ First(j) \in Nat /\ bounds[j] \in Nat
              /\ First(j) + MSG_HEADER_LEN <= bounds[j] /\ bounds[j] <= Len(sent)
          BY <1>0, <3>1
        <5> QED
          BY <1>0, <5>1, SMTT(30)
      <4> QED
        BY <1>5, <4>1
    <3> QED
      BY <3>1, <3>2, <3>3 DEF Layout
  <2> QED
    BY <2>1, <2>2
<1>8. ASSUME NEW i \in 1..n, NEW j \in 1..n, i <= j PROVE bounds'[i] <= bounds'[j]
  <2>1. CASE j = n
    <3>1. i \in 1..Len(bounds) => bounds[i] <= Len(sent) /\ bounds[i] \in Nat
      BY <1>0
    <3> QED
      BY <1>1, <1>3, <2>1, <3>1, <1>0
  <2>2. CASE j # n
    <3>1. i \in 1..Len(bounds) /\ j \in 1..Len(bounds)
      BY <1>8, <2>2, <1>0
    <3> QED
      BY <1>3, <1>8, <3>1 DEF Layout
  <2> QED
    BY <2>1, <2>2
<1>9. (Len(sent) = First(Len(bounds) + 1))'
  BY <1>1, <1>3, <1>5, Places DEF First
<1>10. Layout'
  BY <1>3, <1>7, <1>8, <1>9 DEF Layout
<1> QED
  BY <1>1, <1>3, <1>4, <1>10

(* Steps of the peers, and of the worker where nothing moves.              *)
LEMMA LayoutStays ==
  ASSUME Layout, UNCHANGED <<sent, bounds>>
  PROVE  Layout' /\ \A k : First(k)' = First(k)
  BY DEF Layout, First

LEMMA NothingMovesAt ==
  ASSUME NEW k, At(k), UNCHANGED <<sent, bounds, out, transc, consumed>>,
         pc' # "closed" => pc # "closed",
         pc' = "closed" /\ dst' # "closed"
           => pc = "closed" /\ dst # "closed" /\ (src' = "open" => src = "open")
  PROVE  At(k)'
  BY DEF At, ClosedAt, First

LEMMA SrcSendsAt ==
  ASSUME RInv, MInv, NEW len \in MsgLengths, SrcSends(len)
  PROVE  MInv'
<1>1. PICK k \in 1..(Len(bounds) + 1) : At(k)
  BY DEF MInv
<1>2. /\ Layout /\ Layout' /\ Len(bounds') = Len(bounds) + 1
      /\ First(k)' = First(k) /\ len \in Nat
      /\ \A j \in 1..Len(bounds) : bounds'[j] = bounds[j]
      /\ bounds'[Len(bounds) + 1] = Len(sent) + len
  BY SrcSendsLays DEF MInv
<1>3. src = "open" /\ UNCHANGED <<arrived, src, dst, drained, consumed, pipe, out, transc, pc>>
  BY DEF SrcSends
<1>4. k <= Len(bounds') => consumed <= bounds'[k]
  BY <1>1, <1>2, Places DEF At
<1>5. k <= Len(bounds) => bounds'[k] = bounds[k] /\ k <= Len(bounds')
  BY <1>2, Places
<1>6. ClosedAt(k)'
  BY <1>1, <1>2, <1>3, <1>5 DEF At, ClosedAt
<1>7. transc.is_recv_body => transc.is_recv_header
  BY DEF RInv, NoUnknownError
<1>8. At(k)'
  BY <1>1, <1>2, <1>3, <1>4, <1>5, <1>6, <1>7 DEF At
<1>9. k \in 1..(Len(bounds') + 1)
  BY <1>2, Places
<1> QED
  BY <1>2, <1>8, <1>9 DEF MInv

LEMMA QuietAt ==
  ASSUME RInv, MInv,
         \/ Deliver \/ Drain \/ DstResets \/ CloseDst \/ Over \/ UNCHANGED vars
         \/ \E how \in {"fin", "rst"} : SrcEnds(how)
         \/ Poll \/ StaleEvent \/ EndConn
  PROVE  MInv'
<1>1. PICK k \in 1..(Len(bounds) + 1) : At(k)
  BY DEF MInv
<1>2. /\ UNCHANGED <<sent, bounds, out, transc, consumed>>
      /\ pc' # "closed" => pc # "closed"
      /\ pc' = "closed" /\ dst' # "closed" => pc = "closed" /\ dst # "closed"
      /\ pc' = "closed" /\ src' = "open" => src = "open"
  <2>1. CASE Poll \/ StaleEvent
    <3>1. FirstCall(transc) # "closed"
      BY DEF FirstCall, RInv, NoUnknownError, BodyReceived, TypeOK, Transc
    <3> QED
      BY <2>1, <3>1 DEF Poll, StaleEvent, net
  <2>2. CASE ~(Poll \/ StaleEvent)
    BY <2>2 DEF Deliver, Drain, DstResets, CloseDst, Over, SrcEnds, EndConn, vars, net
  <2> QED
    BY <2>1, <2>2
<1>3. At(k)' /\ Layout'
  BY <1>1, <1>2, NothingMovesAt, LayoutStays DEF MInv
<1> QED
  BY <1>2, <1>3 DEF MInv

(* What the worker knows before it reads a header: it is between messages. *)
LEMMA ReadHeaderAt ==
  ASSUME RInv, MInv, ReadHeader, ENDIAN = PEER_ENDIAN
  PROVE  MInv'
<1> DEFINE n == Lesser(Available, MSG_HEADER_LEN - transc.recv_bytes)
           hdr == [i \in 1..MSG_HEADER_LEN |->
                     IF i > transc.recv_bytes /\ i <= transc.recv_bytes + n
                     THEN SubSeq(sent, consumed + 1, consumed + n)[i - transc.recv_bytes] ELSE 0]
           got == transc.recv_bytes + n
           len == MsgLength(hdr, ENDIAN)
<1>1. PICK k \in 1..(Len(bounds) + 1) : At(k)
  BY DEF MInv
<1>2. /\ pc = "recv_header" /\ transc \in Transc /\ transc.recv_bytes = 0
      /\ transc.is_recv_header = FALSE /\ transc.is_recv_body = FALSE
      /\ transc.send_bytes = 0
  BY DEF RInv, TypeOK, ReadHeader, CallFits, CountersFit, NoUnknownError, Transc
<1>3. /\ Len(bounds) \in Nat /\ Len(sent) \in Nat /\ consumed \in Nat /\ arrived \in Nat
      /\ arrived <= Len(sent) /\ MSG_HEADER_LEN \in Nat /\ MSG_HEADER_LEN >= 4
      /\ First(k) \in Nat /\ Len(out) \in Nat
      /\ Layout /\ consumed = First(k) /\ Len(out) = First(k)
  BY <1>1, <1>2, Places DEF MInv, At
<1>4. UNCHANGED <<net, out, pipe>> /\ Layout' /\ First(k)' = First(k)
  <2>1. UNCHANGED <<net, out, pipe>>
    BY DEF ReadHeader, CloseSource
  <2> QED
    BY <1>3, <2>1, LayoutStays DEF net
<1>5. CASE /\ transc' = [transc EXCEPT !.read_hdr_buf = Zeros] /\ consumed' = consumed
           /\ pc' = "epoll" \/ (pc' = "closed" /\ src # "open")
  <2>1. /\ transc'.recv_bytes = 0 /\ transc'.send_bytes = 0
        /\ transc'.is_recv_header = FALSE /\ transc'.is_recv_body = FALSE
    BY <1>2, <1>5 DEF Transc
  <2>2. ClosedAt(k)'
    BY <1>3, <1>4, <1>5 DEF ClosedAt, net
  <2>3. At(k)'
    BY <1>1, <1>3, <1>4, <1>5, <2>1, <2>2 DEF At, net
  <2> QED
    BY <1>4, <2>3 DEF MInv, net
<1>6. ASSUME Available > 0
      PROVE  /\ n \in Nat /\ n > 0 /\ n <= MSG_HEADER_LEN /\ n <= Available /\ got = n
             /\ k <= Len(bounds) /\ k \in 1..Len(bounds)
  <2>1. Available \in Int /\ Available = arrived - consumed /\ consumed < Len(sent)
    BY <1>3, <1>6 DEF Available
  <2>2. MSG_HEADER_LEN - transc.recv_bytes = MSG_HEADER_LEN
    BY <1>2, <1>3
  <2>3. n \in Int /\ n <= Available /\ n <= MSG_HEADER_LEN /\ n \in {Available, MSG_HEADER_LEN}
    <3>1. n = Lesser(Available, MSG_HEADER_LEN)
      BY <2>2
    <3> HIDE DEF n
    <3> QED
      BY <1>3, <2>1, <3>1, LesserIs
  <2> HIDE DEF n
  <2>4. k # Len(bounds) + 1
    BY <1>3, <2>1 DEF Layout
  <2> QED
    BY <1>2, <1>3, <1>6, <2>3, <2>4
<1>7. CASE /\ Available > 0 /\ consumed' = consumed + n
           /\ got # MSG_HEADER_LEN /\ pc' = "closed"
           /\ transc' = [transc EXCEPT !.read_hdr_buf = hdr, !.recv_bytes = got]
  <2>1. /\ n \in Nat /\ n > 0 /\ n < MSG_HEADER_LEN /\ k <= Len(bounds) /\ k \in 1..Len(bounds)
    BY <1>3, <1>6, <1>7
  <2> HIDE DEF n, hdr, got
  <2>2. /\ transc'.send_bytes = 0
        /\ transc'.is_recv_header = FALSE /\ transc'.is_recv_body = FALSE
    BY <1>2, <1>7 DEF Transc
  <2>3. /\ First(k) < consumed' /\ consumed' < First(k) + MSG_HEADER_LEN
        /\ bounds[k] \in Nat /\ First(k) + MSG_HEADER_LEN <= bounds[k]
    BY <1>3, <1>7, <2>1, Places
  <2>4. ClosedAt(k)'
    BY <1>3, <1>4, <2>1, <2>3 DEF ClosedAt, net
  <2>5. At(k)'
    BY <1>3, <1>4, <1>7, <2>1, <2>2, <2>3, <2>4 DEF At, net
  <2> QED
    BY <1>4, <2>5 DEF MInv, net
<1>8. ASSUME Available > 0, got = MSG_HEADER_LEN
      PROVE  len = bounds[k] - First(k) /\ n = MSG_HEADER_LEN
  <2>1. n = MSG_HEADER_LEN /\ n <= Available /\ k \in 1..Len(bounds)
    BY <1>6, <1>8
  <2>2. \A i \in 1..n : SubSeq(sent, consumed + 1, consumed + n)[i] = sent[consumed + i]
    BY <1>3, <2>1, ReadMore
  <2> HIDE DEF n
  <2>3. ASSUME NEW i \in 1..4 PROVE hdr[i] = sent[First(k) + i]
    <3>1. i \in 1..MSG_HEADER_LEN /\ i > transc.recv_bytes /\ i <= transc.recv_bytes + n
          /\ i - transc.recv_bytes = i
      BY <1>2, <1>3, <2>1
    <3>2. hdr[i] = SubSeq(sent, consumed + 1, consumed + n)[i]
      BY <3>1
    <3> QED
      BY <1>3, <2>1, <2>2, <3>1, <3>2
  <2> HIDE DEF hdr
  <2>4. /\ bounds[k] - First(k) \in MsgLengths /\ hdr[1] = VERSION
        /\ <<hdr[2], hdr[3], hdr[4]>> = LengthBytes(bounds[k] - First(k), PEER_ENDIAN)
    BY <1>3, <2>1, <2>3, SMTT(30) DEF Layout
  <2> QED
    BY <2>1, <2>4, Decodes
<1>9. CASE /\ Available > 0 /\ consumed' = consumed + n
           /\ got = MSG_HEADER_LEN /\ len - MSG_HEADER_LEN <= 0 /\ pc' = "closed"
           /\ transc' = [transc EXCEPT !.read_hdr_buf = hdr, !.recv_bytes = got, !.length = len]
  <2>1. /\ n = MSG_HEADER_LEN /\ k <= Len(bounds) /\ k \in 1..Len(bounds)
        /\ len = bounds[k] - First(k)
    BY <1>6, <1>8, <1>9
  <2> HIDE DEF n, hdr, got, len
  <2>2. /\ transc'.send_bytes = 0
        /\ transc'.is_recv_header = FALSE /\ transc'.is_recv_body = FALSE
    BY <1>2, <1>9 DEF Transc
  <2>3. /\ bounds[k] \in Nat /\ First(k) + MSG_HEADER_LEN <= bounds[k]
    BY <1>3, <2>1, Places
  <2>4. consumed' = First(k) + MSG_HEADER_LEN /\ consumed' = bounds[k]
    BY <1>3, <1>9, <2>1, <2>3
  <2>5. ClosedAt(k)'
    BY <1>3, <1>4, <2>1, <2>4 DEF ClosedAt, net
  <2>6. At(k)'
    BY <1>3, <1>4, <1>9, <2>1, <2>2, <2>3, <2>4, <2>5 DEF At, net
  <2> QED
    BY <1>4, <2>6 DEF MInv, net
<1>10. CASE /\ Available > 0 /\ consumed' = consumed + n
            /\ got = MSG_HEADER_LEN /\ len - MSG_HEADER_LEN > 0 /\ pc' = "recv_body"
            /\ transc' = [transc EXCEPT !.read_hdr_buf = hdr, !.recv_bytes = got,
                                        !.length = len, !.is_recv_header = TRUE]
  <2>1. /\ n = MSG_HEADER_LEN /\ k <= Len(bounds) /\ k \in 1..Len(bounds)
        /\ len = bounds[k] - First(k)
    BY <1>6, <1>8, <1>10
  <2> HIDE DEF n, hdr, got, len
  <2>2. /\ transc'.send_bytes = 0 /\ transc'.recv_bytes = MSG_HEADER_LEN
        /\ transc'.length = len /\ transc'.is_recv_body = FALSE
    BY <1>2, <1>10 DEF Transc
  <2>3. /\ bounds[k] \in Nat /\ First(k) + MSG_HEADER_LEN <= bounds[k]
    BY <1>3, <2>1, Places
  <2>4. consumed' = First(k) + MSG_HEADER_LEN
    BY <1>3, <1>10, <2>1
  <2>5. At(k)'
    BY <1>3, <1>4, <1>10, <2>1, <2>2, <2>3, <2>4 DEF At, ClosedAt, net
  <2> QED
    BY <1>4, <2>5 DEF MInv, net
<1>11. Available \in Int
  BY <1>3 DEF Available
<1>12. AtEof => src # "open"
  BY DEF AtEof
<1> QED
  BY <1>5, <1>7, <1>9, <1>10, <1>12 DEF ReadHeader, CloseSource, net

(* A splice into the pipe ends at the latest with the message.             *)
LEMMA SpliceInAt ==
  ASSUME RInv, MInv, SpliceIn
  PROVE  MInv'
<1> DEFINE most == Lesser(Lesser(Available, PipeRoom), transc.length - transc.recv_bytes)
<1>1. PICK k \in 1..(Len(bounds) + 1) : At(k)
  BY DEF MInv
<1>2. /\ pc = "recv_body" /\ transc \in Transc /\ transc.is_recv_header
      /\ ~transc.is_recv_body /\ ~transc.is_send_header /\ transc.send_bytes = 0
      /\ transc.recv_bytes < transc.length /\ transc.length \in Int /\ transc.recv_bytes \in Nat
  BY DEF RInv, TypeOK, SpliceIn, CallFits, CountersFit, NoUnknownError, Transc
<1>3. /\ k \in 1..Len(bounds) /\ First(k) \in Nat /\ bounds[k] \in Nat
      /\ consumed \in Nat /\ arrived \in Nat /\ Layout
      /\ transc.length = bounds[k] - First(k) /\ Len(out) = First(k)
      /\ Len(out) + transc.recv_bytes = consumed
  BY <1>1, <1>2, Places, SMTT(30) DEF MInv, At
<1>4. UNCHANGED <<net, out>> /\ Layout' /\ First(k)' = First(k)
  <2>1. UNCHANGED <<net, out>>
    BY DEF SpliceIn, CloseSource
  <2> QED
    BY <1>3, <2>1, LayoutStays DEF net
<1>5. CASE UNCHANGED <<consumed, transc>> /\ (pc' = "epoll" \/ (pc' = "closed" /\ src # "open"))
  <2>1. consumed < bounds[k]
    BY <1>2, <1>3
  <2>2. ClosedAt(k)'
    BY <1>3, <1>4, <1>5, <2>1 DEF ClosedAt, net
  <2>3. At(k)'
    BY <1>1, <1>2, <1>3, <1>4, <1>5, <2>2 DEF At, net
  <2> QED
    BY <1>4, <2>3 DEF MInv, net
<1>6. ASSUME NEW n \in 1..most, consumed' = consumed + n, transc' = BodyRead(transc, n),
             pc' \in {"send_header", "epoll"}
      PROVE  MInv'
  <2>1. n \in Nat /\ n <= transc.length - transc.recv_bytes
    <3>1. Available \in Int /\ PipeRoom \in Int /\ transc.length - transc.recv_bytes \in Int
      <4>1. Available \in Int
        BY <1>3 DEF Available
      <4>2. Len(pipe) \in Nat
        BY LenProperties DEF RInv, TypeOK
      <4>3. PipeRoom \in Int
        BY <4>2, BoundsAssumption DEF PipeRoom
      <4>4. transc.length - transc.recv_bytes \in Int
        BY <1>2
      <4> QED
        BY <4>1, <4>3, <4>4
    <3>2. Lesser(Available, PipeRoom) \in Int
      BY <3>1, LesserIs
    <3>3. most \in Int /\ most <= transc.length - transc.recv_bytes
      BY <3>1, <3>2, LesserIs
    <3> HIDE DEF most
    <3> QED
      BY <3>1, <3>3
  <2>2. /\ transc'.is_recv_body <=> transc.recv_bytes + n = transc.length
        /\ transc'.length = transc.length /\ transc'.recv_bytes = transc.recv_bytes + n
        /\ transc'.send_bytes = 0
    BY <1>2, <1>6, <2>1, BodyReadIs
  <2>3. /\ consumed' <= bounds[k] /\ Len(out) <= consumed'
        /\ Len(out) + transc'.recv_bytes = consumed'
        /\ transc'.is_recv_body => consumed' = bounds[k]
    <3>1. consumed' = consumed + n /\ transc'.recv_bytes = transc.recv_bytes + n
      BY <1>6, <2>2
    <3>2. Len(out) \in Nat
      BY <1>3
    <3>3. consumed' = Len(out) + (transc.recv_bytes + n)
      <4>1. transc.recv_bytes \in Nat /\ n \in Nat /\ Len(out) + transc.recv_bytes = consumed
        BY <1>2, <1>3, <2>1
      <4> QED
        BY <3>1, <3>2, <4>1
    <3>4. bounds[k] = Len(out) + transc.length
      BY <1>2, <1>3, <3>2
    <3> QED
      BY <1>2, <1>3, <2>1, <2>2, <3>1, <3>2, <3>3, <3>4, SMTT(30)
  <2>4. At(k)'
    BY <1>3, <1>4, <1>6, <2>2, <2>3 DEF At, ClosedAt, net
  <2> QED
    BY <1>4, <2>4 DEF MInv, net
<1>7. AtEof => src # "open"
  BY DEF AtEof
<1> QED
  BY <1>5, <1>6, <1>7 DEF SpliceIn, CloseSource

LEMMA WriteHeaderAt ==
  ASSUME RInv, MInv, WriteHeader, ShortHeaderWrite = FALSE
  PROVE  MInv'
<1>1. PICK k \in 1..(Len(bounds) + 1) : At(k)
  BY DEF MInv
<1>2. /\ pc = "send_header" /\ transc \in Transc /\ transc.is_recv_header
      /\ transc.is_recv_body /\ ~transc.is_send_header /\ transc.send_bytes = 0
      /\ transc.recv_bytes \in Nat /\ transc.recv_bytes = transc.length
      /\ transc.length > MSG_HEADER_LEN /\ transc.length \in Int
  BY DEF RInv, TypeOK, WriteHeader, CallFits, CountersFit, NoUnknownError, Transc
<1>3. /\ Len(bounds) \in Nat /\ First(k) \in Nat /\ consumed \in Nat /\ Len(out) \in Nat
      /\ MSG_HEADER_LEN \in Nat /\ MSG_HEADER_LEN >= 4 /\ Layout
      /\ Len(out) = First(k) /\ Len(out) + transc.recv_bytes = consumed
      /\ k <= Len(bounds) /\ transc.length = bounds[k] - First(k) /\ consumed = bounds[k]
      /\ out \in Seq(Byte)
  BY <1>1, <1>2, Places, SMTT(30) DEF MInv, At, RInv, TypeOK
<1>4. UNCHANGED <<sent, bounds, consumed>> /\ Layout' /\ First(k)' = First(k)
  <2>1. UNCHANGED <<sent, bounds, consumed>>
    BY DEF WriteHeader, WriteFails, net
  <2> QED
    BY <1>3, <2>1, LayoutStays
<1>5. CASE UNCHANGED <<out, transc>> /\ pc' # "closed"
  BY <1>1, <1>2, <1>4, <1>5, NothingMovesAt DEF MInv
<1>6. CASE /\ out' = out \o SubSeq(HeaderBuffer(transc), 1, MSG_HEADER_LEN)
           /\ transc' = HeaderSent(transc, MSG_HEADER_LEN)
           /\ pc' = IF transc'.is_send_header THEN "send_body" ELSE "epoll"
  <2>1. /\ SubSeq(HeaderBuffer(transc), 1, MSG_HEADER_LEN) \in Seq(Byte)
        /\ Len(SubSeq(HeaderBuffer(transc), 1, MSG_HEADER_LEN)) = MSG_HEADER_LEN
    <3>1. HeaderBuffer(transc) \in [1..MSG_HEADER_LEN -> Byte]
      BY <1>2, <1>3 DEF HeaderBuffer, Transc, Byte
    <3>2. HeaderBuffer(transc) \in Seq(Byte) /\ Len(HeaderBuffer(transc)) = MSG_HEADER_LEN
      BY <3>1, BufferIsSeq
    <3> QED
      BY <3>2, SubSeqFull
  <2>2. Len(out') = First(k) + MSG_HEADER_LEN
    <3> DEFINE part == SubSeq(HeaderBuffer(transc), 1, MSG_HEADER_LEN)
    <3>1. part \in Seq(Byte) /\ Len(part) = MSG_HEADER_LEN /\ out' = out \o part
      BY <1>6, <2>1
    <3> HIDE DEF part
    <3>2. Len(out \o part) = Len(out) + Len(part)
      BY <1>3, <3>1, ConcatProperties
    <3> QED
      BY <1>3, <3>1, <3>2
  <2>3. /\ transc'.is_recv_header <=> transc.is_recv_header
        /\ transc'.is_recv_body <=> transc.is_recv_body
        /\ transc'.length = transc.length
        /\ transc'.recv_bytes = transc.recv_bytes - MSG_HEADER_LEN
        /\ transc'.send_bytes = MSG_HEADER_LEN
    BY <1>2, <1>3, <1>6, HeaderSentIs, SMTT(30)
  <2>4. pc' # "closed" /\ Len(out') <= consumed /\ Len(out') + transc'.recv_bytes = consumed
    BY <1>2, <1>3, <1>6, <2>2, <2>3, SMTT(30)
  <2>5. At(k)'
    BY <1>2, <1>3, <1>4, <2>2, <2>3, <2>4 DEF At, ClosedAt
  <2> QED
    BY <1>4, <2>5 DEF MInv
<1>7. MSG_HEADER_LEN - transc.send_bytes = MSG_HEADER_LEN
  BY <1>2, <1>3
<1> QED
  BY <1>5, <1>6, <1>7 DEF WriteHeader, WriteFails

(* With the last byte of a message the worker is at the next one.          *)
LEMMA SpliceOutAt ==
  ASSUME RInv, MInv, SpliceOut
  PROVE  MInv'
<1>1. PICK k \in 1..(Len(bounds) + 1) : At(k)
  BY DEF MInv
<1>2. /\ pc \in {"send_body", "resend_body"} /\ transc \in Transc /\ transc.is_recv_header
      /\ transc.is_recv_body /\ transc.is_send_header
      /\ transc.recv_bytes \in Nat /\ transc.send_bytes \in Nat
  BY DEF RInv, TypeOK, SpliceOut, CallFits, NoUnknownError, Transc
<1>3. /\ Len(bounds) \in Nat /\ First(k) \in Nat /\ consumed \in Nat /\ Len(out) \in Nat
      /\ Layout /\ Len(out) = First(k) + transc.send_bytes
      /\ Len(out) + transc.recv_bytes = consumed
      /\ k <= Len(bounds) /\ k \in 1..Len(bounds)
      /\ transc.length = bounds[k] - First(k) /\ consumed = bounds[k]
      /\ out \in Seq(Byte)
  <2>1. /\ Len(bounds) \in Nat /\ First(k) \in Nat /\ consumed \in Nat /\ Len(out) \in Nat
        /\ Layout /\ out \in Seq(Byte)
    BY Places DEF MInv, RInv, TypeOK
  <2>2. /\ Len(out) = First(k) + transc.send_bytes
        /\ Len(out) + transc.recv_bytes = consumed
        /\ k <= Len(bounds)
        /\ transc.length = bounds[k] - First(k) /\ consumed = bounds[k]
    BY <1>1, <1>2 DEF At
  <2>3. k \in 1..Len(bounds)
    BY <2>1, <2>2
  <2> QED
    BY <2>1, <2>2, <2>3
<1>4. UNCHANGED <<sent, bounds, consumed>> /\ Layout' /\ \A j : First(j)' = First(j)
  <2>1. UNCHANGED <<sent, bounds, consumed>>
    BY DEF SpliceOut, WriteFails, net
  <2> QED
    BY <1>3, <2>1, LayoutStays
<1>5. AfterSplice # "closed"
  BY DEF AfterSplice
<1>6. CASE UNCHANGED <<out, transc>> /\ pc' # "closed"
  BY <1>1, <1>2, <1>4, <1>6, NothingMovesAt DEF MInv
<1>7. ASSUME NEW n \in 1..Lesser(Lesser(Len(pipe), SendRoom), transc.recv_bytes),
             out' = out \o SubSeq(pipe, 1, n),
             \/ /\ BodySent(transc, n).recv_bytes = 0
                /\ transc' = ClearedTransc
                /\ pc' = "epoll"
             \/ /\ BodySent(transc, n).recv_bytes # 0
                /\ transc' = BodySent(transc, n)
                /\ pc' = AfterSplice
      PROVE  MInv'
  <2>1. /\ n \in Nat /\ n >= 1 /\ n <= Len(pipe) /\ n <= transc.recv_bytes
        /\ SubSeq(pipe, 1, n) \in Seq(Byte)
    BY <1>7, PipeSplit
  <2>2. Len(SubSeq(pipe, 1, n)) = n
    <3>1. pipe \in Seq(Byte) /\ Len(pipe) \in Nat
      BY LenProperties DEF RInv, TypeOK
    <3>2. \A i \in 1..n : pipe[i] \in Byte
      BY <2>1, <3>1, ElementOfSeq
    <3> QED
      BY <2>1, <3>1, <3>2, SubSeqProperties
  <2>3. Len(out') = Len(out) + n
    <3> DEFINE part == SubSeq(pipe, 1, n)
    <3>1. part \in Seq(Byte) /\ Len(part) = n /\ out' = out \o part
      BY <1>7, <2>1, <2>2
    <3> HIDE DEF part
    <3>2. Len(out \o part) = Len(out) + Len(part)
      BY <1>3, <3>1, ConcatProperties
    <3> QED
      BY <3>1, <3>2
  <2>4. /\ BodySent(transc, n).is_recv_header <=> transc.is_recv_header
        /\ BodySent(transc, n).is_recv_body <=> transc.is_recv_body
        /\ BodySent(transc, n).length = transc.length
        /\ BodySent(transc, n).recv_bytes = transc.recv_bytes - n
        /\ BodySent(transc, n).send_bytes = transc.send_bytes + n
    BY <1>2, <2>1, BodySentIs
  <2>5. CASE transc' = BodySent(transc, n) /\ pc' = AfterSplice
    <3>1. /\ Len(out') = First(k) + transc'.send_bytes
          /\ Len(out') <= consumed /\ Len(out') + transc'.recv_bytes = consumed
      <4>1. /\ transc'.send_bytes = transc.send_bytes + n
            /\ transc'.recv_bytes = transc.recv_bytes - n
        BY <2>4, <2>5
      <4>2. /\ transc.recv_bytes \in Nat /\ transc.send_bytes \in Nat /\ n \in Nat
            /\ Len(out) \in Nat /\ First(k) \in Nat /\ n <= transc.recv_bytes
            /\ Len(out) = First(k) + transc.send_bytes
            /\ Len(out) + transc.recv_bytes = consumed
        BY <1>2, <1>3, <2>1
      <4>3. Len(out') = First(k) + transc'.send_bytes
        BY <2>3, <4>1, <4>2
      <4>4. Len(out') + transc'.recv_bytes = consumed
        BY <2>3, <4>1, <4>2
      <4>5. Len(out') <= consumed
        BY <2>3, <4>1, <4>2, SMTT(30)
      <4> QED
        BY <4>3, <4>4, <4>5
    <3>2. /\ pc' # "closed" /\ First(k)' = First(k) /\ consumed' = consumed /\ bounds' = bounds
          /\ transc'.length = transc.length
          /\ transc'.is_recv_header <=> transc.is_recv_header
          /\ transc'.is_recv_body
      BY <1>2, <1>4, <1>5, <2>4, <2>5
    <3>3. At(k)'
      <4>1. ClosedAt(k)'
        BY <3>2 DEF ClosedAt
      <4>2. /\ k <= Len(bounds) /\ consumed = bounds[k]
            /\ transc.length = bounds[k] - First(k) /\ consumed \in Nat
        BY <1>3
      <4> QED
        BY <3>1, <3>2, <4>1, <4>2 DEF At
    <3> QED
      BY <1>4, <3>3 DEF MInv
  <2>6. CASE transc' = ClearedTransc /\ pc' = "epoll" /\ BodySent(transc, n).recv_bytes = 0
    <3>1. /\ transc'.is_recv_header = FALSE /\ transc'.is_recv_body = FALSE
          /\ transc'.recv_bytes = 0 /\ transc'.send_bytes = 0
      BY <2>6 DEF ClearedTransc
    <3>2. Len(out') = consumed /\ First(k + 1) = consumed
      <4>1. transc.recv_bytes = n
        BY <1>2, <2>1, <2>4, <2>6
      <4>2. First(k + 1) = bounds[k]
        BY <1>3, Places
      <4> QED
        BY <1>2, <1>3, <2>1, <2>3, <4>1, <4>2
    <3>3. k + 1 <= Len(bounds) => consumed <= bounds[k + 1]
      <4>1. k + 1 <= Len(bounds) => k + 1 \in 1..Len(bounds) /\ k <= k + 1
        BY <1>3
      <4> QED
        BY <1>3, <4>1 DEF Layout
    <3>4. First(k + 1)' = First(k + 1) /\ k + 1 \in 1..(Len(bounds') + 1)
      BY <1>3, <1>4
    <3>5. At(k + 1)'
      BY <1>3, <1>4, <2>6, <3>1, <3>2, <3>3, <3>4 DEF At, ClosedAt
    <3> QED
      BY <1>4, <3>4, <3>5 DEF MInv
  <2> QED
    BY <1>7, <2>5, <2>6
<1> QED
  BY <1>2, <1>5, <1>6, <1>7 DEF SpliceOut, WriteFails

LEMMA NextMInv ==
  ASSUME ShortHeaderWrite = FALSE, ENDIAN = PEER_ENDIAN, RInv, MInv, [Next]_vars
  PROVE  MInv'
<1>1. CASE \E len \in MsgLengths : SrcSends(len)
  BY <1>1, SrcSendsAt
<1>2. CASE \/ Deliver \/ Drain \/ DstResets \/ CloseDst \/ Over \/ UNCHANGED vars
           \/ \E how \in {"fin", "rst"} : SrcEnds(how)
           \/ Poll \/ StaleEvent \/ EndConn
  BY <1>2, QuietAt
<1>3. CASE Worker
  BY <1>3, ReadHeaderAt, SpliceInAt, WriteHeaderAt, SpliceOutAt DEF Worker
<1> QED
  BY <1>1, <1>2, <1>3 DEF Next

LEMMA InitMInv == Init => MInv
<1> SUFFICES ASSUME Init PROVE MInv
  OBVIOUS
<1>1. Len(bounds) = 0 /\ Len(sent) = 0 /\ Len(out) = 0 /\ First(1) = 0
  BY DEF Init, First
<1>2. Layout
  BY <1>1 DEF Layout
<1>3. At(1)
  BY <1>1 DEF Init, At, ClosedAt, ClearedTransc
<1> QED
  BY <1>1, <1>2, <1>3 DEF MInv

(* The invariant of messages: what was sent is whole messages with their   *)
(* lengths in their headers, and there is one message, the k-th, such that *)
(* all earlier ones are out and the worker's counters, its transc_t and    *)
(* the end of a connection are about that one.                             *)
THEOREM MessagesInvariant ==
  ASSUME ShortHeaderWrite = FALSE, ENDIAN = PEER_ENDIAN
  PROVE  Spec => [](RInv /\ MInv)
<1>1. RInv /\ MInv /\ [Next]_vars => MInv'
  BY NextMInv
<1> QED
  BY <1>1, InitMInv, CountersInvariant, PTL DEF Spec

-----------------------------------------------------------------------------
(* What the runs check.                                                    *)

(* The length that drives the reception of a body is the one that the      *)
(* source put into the header (transc_get_msg_length).                     *)
THEOREM LengthsDecoded ==
  ASSUME ShortHeaderWrite = FALSE, ENDIAN = PEER_ENDIAN
  PROVE  Spec => []DecodedLength
<1>1. RInv /\ MInv => DecodedLength
  <2> SUFFICES ASSUME RInv, MInv, transc.is_recv_header PROVE DecodedLength
    BY DEF DecodedLength
  <2>1. PICK k \in 1..(Len(bounds) + 1) : At(k)
    BY DEF MInv
  <2>2. /\ k <= Len(bounds) /\ transc.length = bounds[k] - First(k)
        /\ Len(out) = First(k) + transc.send_bytes
    BY <2>1 DEF At
  <2>3. /\ k \in DOMAIN bounds /\ First(k) \in Nat /\ transc.send_bytes \in Nat
    BY <2>2, Places, LenProperties, SMTT(30) DEF MInv, RInv, TypeOK, Transc
  <2>4. Len(out) - transc.send_bytes = First(k)
    BY <2>2, <2>3
  <2> QED
    BY <2>2, <2>3, <2>4 DEF DecodedLength, First
<1> QED
  BY <1>1, MessagesInvariant, PTL

(* Message j and the message k that the worker is at.                      *)
LEMMA MessageOrder ==
  ASSUME RInv, Layout, NEW k \in 1..(Len(bounds) + 1), NEW j \in 1..Len(bounds)
  PROVE  /\ j < k => bounds[j] <= First(k)
         /\ j > k => k \in 1..Len(bounds) /\ bounds[k] <= First(j)
<1>1. Len(bounds) \in Nat /\ k \in Nat /\ j \in Nat
  BY Places
<1>2. ASSUME j < k PROVE bounds[j] <= First(k)
  <2>1. k - 1 \in 1..Len(bounds) /\ j <= k - 1 /\ k # 1
    BY <1>1, <1>2
  <2> QED
    BY <2>1 DEF Layout, First
<1>3. ASSUME j > k PROVE k \in 1..Len(bounds) /\ bounds[k] <= First(j)
  <2>1. k \in 1..Len(bounds) /\ j - 1 \in 1..Len(bounds) /\ k <= j - 1 /\ j # 1
    BY <1>1, <1>3
  <2> QED
    BY <2>1 DEF Layout, First
<1> QED
  BY <1>2, <1>3

(* The first byte of a message is written only after its last was read,    *)
(* and no message that was completely read is left behind when the         *)
(* connection ends, unless it ends because the proxy has closed dst_fd, in *)
(* the other direction or by another worker (lines 335 and 591).           *)
THEOREM ForwardedWhole ==
  ASSUME ShortHeaderWrite = FALSE, ENDIAN = PEER_ENDIAN
  PROVE  Spec => []StoreAndForward
<1>1. RInv /\ MInv => StoreAndForward
  <2> SUFFICES ASSUME RInv, MInv, NEW j \in DOMAIN bounds
               PROVE  /\ Len(out) > First(j) => consumed >= bounds[j]
                      /\ pc = "closed" /\ consumed >= bounds[j]
                           /\ bounds[j] - First(j) > MSG_HEADER_LEN
                           => Len(out) >= bounds[j] \/ dst = "closed"
    BY DEF StoreAndForward, First
  <2>1. PICK k \in 1..(Len(bounds) + 1) : At(k)
    BY DEF MInv
  <2>2. j \in 1..Len(bounds) /\ Layout
    BY LenProperties DEF MInv, RInv, TypeOK
  <2>3. /\ Len(bounds) \in Nat /\ consumed \in Nat /\ Len(out) \in Nat /\ MSG_HEADER_LEN \in Nat
        /\ MSG_HEADER_LEN >= 4
        /\ First(k) \in Nat /\ First(j) \in Nat /\ bounds[j] \in Nat
        /\ First(j) + MSG_HEADER_LEN <= bounds[j] /\ transc.send_bytes \in Nat
        /\ k \in Nat /\ j \in Nat
    <3>1. transc.send_bytes \in Nat
      BY DEF RInv, TypeOK, Transc
    <3>2. k \in Nat /\ j \in Nat
      BY <2>2, Places
    <3> QED
      BY <2>2, <3>1, <3>2, Places, SMTT(30)
  <2>4. Len(out) <= consumed /\ Len(out) = First(k) + transc.send_bytes
    BY <2>1 DEF At
  <2>5. CASE j < k
    <3>1. bounds[j] <= First(k)
      BY <2>2, <2>5, MessageOrder
    <3> QED
      BY <2>3, <2>4, <3>1
  <2>6. CASE j = k
    <3>1. transc.send_bytes > 0 => consumed = bounds[j]
      BY <2>1, <2>6 DEF At
    <3>2. pc = "closed" /\ dst # "closed" =>
            \/ consumed = First(j) \/ consumed < bounds[j]
            \/ consumed < First(j) + MSG_HEADER_LEN
            \/ consumed = First(j) + MSG_HEADER_LEN /\ consumed = bounds[j]
      BY <2>1, <2>6 DEF At, ClosedAt
    <3> QED
      BY <2>3, <2>4, <2>6, <3>1, <3>2, SMTT(30)
  <2>7. CASE j > k
    <3>1. k \in 1..Len(bounds) /\ bounds[k] <= First(j)
      BY <2>2, <2>7, MessageOrder
    <3>2. consumed <= bounds[k] /\ bounds[k] \in Nat
      BY <2>1, <2>2, <3>1, Places, SMTT(30) DEF At
    <3> QED
      BY <2>3, <2>4, <3>1, <3>2, SMTT(30)
  <2> QED
    BY <2>3, <2>5, <2>6, <2>7
<1> QED
  BY <1>1, MessagesInvariant, PTL

(* While both peers are there and dst_fd is open, only a header ends a     *)
(* connection: one that came in pieces or one without a body (lines        *)
(* 153-156 of proxy.c).  No segmentation of bodies, no lack of room and no *)
(* stale event does.                                                       *)
THEOREM ClosedOverHeader ==
  ASSUME ShortHeaderWrite = FALSE, ENDIAN = PEER_ENDIAN
  PROVE  Spec => []ClosedForReason
<1>1. RInv /\ MInv => ClosedForReason
  <2> SUFFICES ASSUME RInv, MInv, pc = "closed", src = "open", dst = "up"
               PROVE  ClosedForReason
    BY DEF ClosedForReason
  <2>1. PICK k \in 1..(Len(bounds) + 1) : At(k)
    BY DEF MInv
  <2>2. /\ k <= Len(bounds)
        /\ \/ First(k) < consumed /\ consumed < First(k) + MSG_HEADER_LEN
           \/ consumed = First(k) + MSG_HEADER_LEN /\ consumed = bounds[k]
    BY <2>1 DEF At, ClosedAt
  <2>3. k \in DOMAIN bounds
    BY <2>2, LenProperties DEF RInv, TypeOK
  <2> QED
    BY <2>2, <2>3 DEF ClosedForReason, First
<1> QED
  BY <1>1, MessagesInvariant, PTL

-----------------------------------------------------------------------------
(* Relay implements MessageRelay.                                          *)

(* What the kernel has accepted is what the source sent, byte by byte.     *)
LEMMA OutIsPrefix ==
  ASSUME RInv, Conservation, pc # "closed"
  PROVE  \A i \in 1..Len(out) : out[i] = sent[i]
<1> DEFINE rest == HeldHeader \o pipe
<1>1. /\ out \in Seq(Byte) /\ pipe \in Seq(Byte) /\ sent \in Seq(Byte)
      /\ consumed \in Nat /\ consumed <= Len(sent) /\ Len(out) \in Nat /\ Len(sent) \in Nat
      /\ transc \in Transc
  BY LenProperties DEF RInv, TypeOK
<1>2. HeldHeader \in Seq(Byte)
  <2>1. CASE transc.is_recv_header /\ ~transc.is_send_header
    <3>1. /\ transc.read_hdr_buf \in Seq(Byte) /\ Len(transc.read_hdr_buf) = MSG_HEADER_LEN
          /\ transc.send_bytes \in Nat /\ MSG_HEADER_LEN \in Nat
      BY <1>1, BufferIsSeq, HeaderAssumption DEF Transc
    <3>2. \A i \in (transc.send_bytes + 1)..MSG_HEADER_LEN : transc.read_hdr_buf[i] \in Byte
      BY <1>1, <3>1 DEF Transc
    <3>3. SubSeq(transc.read_hdr_buf, transc.send_bytes + 1, MSG_HEADER_LEN) \in Seq(Byte)
      BY <3>1, <3>2, SubSeqProperties
    <3> QED
      BY <2>1, <3>3 DEF HeldHeader
  <2>2. CASE ~(transc.is_recv_header /\ ~transc.is_send_header)
    BY <2>2, EmptySeq DEF HeldHeader
  <2> QED
    BY <2>1, <2>2
<1>3. rest \in Seq(Byte) /\ Len(rest) \in Nat
  BY <1>1, <1>2, ConcatProperties, LenProperties
<1>4. out \o rest = SubSeq(sent, 1, consumed)
  <2>1. (out \o HeldHeader) \o pipe = out \o rest
    BY <1>1, <1>2, Associative, Zenon
  <2> QED
    BY <2>1 DEF Conservation
<1> HIDE DEF rest
<1>5. /\ Len(out \o rest) = Len(out) + Len(rest)
      /\ \A i \in 1..(Len(out) + Len(rest)) :
           (out \o rest)[i] = IF i <= Len(out) THEN out[i] ELSE rest[i - Len(out)]
  BY <1>1, <1>3, ConcatProperties
<1>6. /\ Len(SubSeq(sent, 1, consumed)) = consumed
      /\ \A i \in 1..consumed : SubSeq(sent, 1, consumed)[i] = sent[i]
  <2>1. \A i \in 1..consumed : sent[i] \in Byte
    BY <1>1, ElementOfSeq
  <2>2. /\ Len(SubSeq(sent, 1, consumed)) = IF 1 <= consumed THEN consumed - 1 + 1 ELSE 0
        /\ \A i \in 1..(consumed - 1 + 1) : SubSeq(sent, 1, consumed)[i] = sent[1 + i - 1]
    BY <1>1, <2>1, SubSeqProperties
  <2> QED
    BY <1>1, <2>2
<1>7. Len(out) + Len(rest) = consumed
  BY <1>4, <1>5, <1>6
<1> QED
  BY <1>1, <1>3, <1>4, <1>5, <1>6, <1>7

(* Before the end of the connection the worker is at one message: the ones *)
(* before it were given, and it is held from its last byte read to its     *)
(* last byte written.                                                      *)
CarriedAt(k) ==
  /\ GivenMsgs = 1..(k - 1)
  /\ HeldMsgs = IF transc.is_recv_body THEN {k} ELSE {}
  /\ transc.is_recv_body => k <= Len(bounds) /\ consumed = bounds[k]
  /\ ~transc.is_recv_header => consumed = First(k)

LEMMA CarriedIs ==
  RInv /\ MInv /\ Conservation /\ pc # "closed"
    => \E k \in 1..(Len(bounds) + 1) : CarriedAt(k)
<1> SUFFICES ASSUME RInv, MInv, Conservation, pc # "closed"
             PROVE  \E k \in 1..(Len(bounds) + 1) : CarriedAt(k)
  OBVIOUS
<1>1. PICK k \in 1..(Len(bounds) + 1) : At(k)
  BY DEF MInv
<1>2. /\ Layout /\ Len(bounds) \in Nat /\ First(k) \in Nat /\ Len(out) \in Nat
      /\ consumed \in Nat /\ DOMAIN bounds = 1..Len(bounds) /\ k \in Nat
      /\ \A j \in 1..Len(bounds) : bounds[j] \in Nat /\ First(j) \in Nat /\ First(j) < bounds[j]
  <2>1. Layout /\ Len(bounds) \in Nat /\ DOMAIN bounds = 1..Len(bounds)
    BY Places, LenProperties DEF MInv, RInv, TypeOK
  <2>2. ASSUME NEW j \in 1..Len(bounds)
        PROVE  bounds[j] \in Nat /\ First(j) \in Nat /\ First(j) < bounds[j]
    <3>1. /\ bounds[j] \in Nat /\ First(j) \in Nat /\ First(j) + MSG_HEADER_LEN <= bounds[j]
          /\ MSG_HEADER_LEN \in Nat /\ MSG_HEADER_LEN >= 4
      <4>1. j \in 1..(Len(bounds) + 1)
        BY <2>1
      <4> QED
        BY <2>1, <4>1, Places
    <3> QED
      BY <3>1
  <2> QED
    BY <2>1, <2>2, Places
<1>3. /\ transc.send_bytes \in Nat /\ transc.recv_bytes \in Nat
      /\ transc.is_recv_body \in BOOLEAN /\ transc.is_recv_header \in BOOLEAN
      /\ transc.is_send_header \in BOOLEAN /\ transc.length \in Int
  BY DEF RInv, TypeOK, Transc
<1>4. /\ Len(out) = First(k) + transc.send_bytes
      /\ Len(out) + transc.recv_bytes = consumed
      /\ transc.is_recv_body => k <= Len(bounds) /\ consumed = bounds[k]
      /\ ~transc.is_recv_body => transc.send_bytes = 0
      /\ transc.is_recv_body => transc.recv_bytes > 0
  <2>1. transc.is_recv_body => transc.is_recv_header
    BY DEF RInv, NoUnknownError
  <2>2. transc.is_recv_body => transc.recv_bytes > 0
    BY <1>3, <2>1, HeaderAssumption DEF RInv, CountersFit
  <2>3. ~transc.is_recv_body => transc.send_bytes = 0
    BY <1>1, <1>3 DEF At
  <2> QED
    BY <1>1, <2>1, <2>2, <2>3 DEF At
<1>5. First(k) <= Len(out) /\ (~transc.is_recv_body => Len(out) = First(k))
  <2>1. First(k) <= Len(out)
    <3>1. Len(out) = First(k) + transc.send_bytes
      BY <1>4
    <3> QED
      BY <1>2, <1>3, <3>1
  <2>2. ASSUME ~transc.is_recv_body PROVE Len(out) = First(k)
    <3>1. Len(out) = First(k) + transc.send_bytes /\ transc.send_bytes = 0
      BY <1>4, <2>2
    <3> QED
      BY <1>2, <3>1
  <2> QED
    BY <2>1, <2>2
<1>6. k <= Len(bounds) => k \in 1..Len(bounds) /\ Len(out) < bounds[k]
  <2>1. k <= Len(bounds) => k \in 1..Len(bounds)
    BY <1>2
  <2>2. ASSUME k <= Len(bounds), transc.is_recv_body PROVE Len(out) < bounds[k]
    <3>1. /\ Len(out) + transc.recv_bytes = bounds[k] /\ transc.recv_bytes > 0
      BY <1>4, <2>2
    <3> QED
      BY <1>2, <1>3, <3>1
  <2>3. ASSUME k <= Len(bounds), ~transc.is_recv_body PROVE Len(out) < bounds[k]
    <3>1. Len(out) = First(k) /\ First(k) < bounds[k]
      BY <1>2, <1>5, <2>1, <2>3
    <3> QED
      BY <3>1
  <2> QED
    BY <2>1, <2>2, <2>3
<1>7. ASSUME NEW j \in 1..Len(bounds) PROVE bounds[j] <= Len(out) <=> j < k
  <2>1. /\ j < k => bounds[j] <= First(k)
        /\ j > k => k \in 1..Len(bounds) /\ bounds[k] <= First(j)
    BY <1>2, MessageOrder
  <2>2. bounds[j] \in Nat /\ First(j) < bounds[j] /\ First(j) \in Nat /\ j \in Nat
    BY <1>2
  <2>3. CASE j < k
    BY <1>2, <1>5, <2>1, <2>2, <2>3
  <2>4. CASE j = k
    BY <1>2, <1>6, <2>2, <2>4
  <2>5. CASE j > k
    <3>1. bounds[k] \in Nat /\ bounds[k] <= First(j) /\ Len(out) < bounds[k]
      BY <1>2, <1>6, <2>1, <2>5
    <3> QED
      BY <1>2, <2>2, <2>5, <3>1
  <2> QED
    BY <1>2, <2>2, <2>3, <2>4, <2>5
<1>8. GivenMsgs = 1..(k - 1)
  <2>1. ASSUME NEW j \in 1..Len(bounds), j < k, NEW i \in FirstByte(j)..bounds[j]
        PROVE  out[i] = sent[i]
    <3>1. FirstByte(j) = First(j) + 1
      BY <1>2 DEF FirstByte, First
    <3>2. i \in 1..Len(out)
      BY <1>2, <1>7, <2>1, <3>1
    <3> QED
      BY <3>2, OutIsPrefix
  <2>2. \A j \in 1..(k - 1) : j \in 1..Len(bounds) /\ j < k
    BY <1>2
  <2>3. \A j \in 1..Len(bounds) : j < k => j \in 1..(k - 1)
    BY <1>2
  <2> QED
    BY <1>2, <1>7, <2>1, <2>2, <2>3 DEF GivenMsgs
<1>9. HeldMsgs = IF transc.is_recv_body THEN {k} ELSE {}
  <2>1. CASE ~transc.is_recv_body
    BY <2>1 DEF HeldMsgs
  <2>2. CASE transc.is_recv_body
    <3>1. k \in 1..Len(bounds) /\ consumed = bounds[k] /\ Len(out) < bounds[k]
      BY <1>4, <1>6, <2>2
    <3>2. ASSUME NEW j \in 1..Len(bounds), bounds[j] <= consumed, Len(out) < bounds[j]
          PROVE  j = k
      <4>1. ~(j < k)
        BY <1>2, <1>7, <3>2
      <4>2. j > k => bounds[k] <= First(j) /\ First(j) < bounds[j]
        BY <1>2, MessageOrder
      <4>3. bounds[k] \in Nat /\ bounds[j] \in Nat /\ First(j) \in Nat /\ j \in Nat
        BY <1>2, <3>1
      <4> QED
        BY <1>2, <3>1, <3>2, <4>1, <4>2, <4>3
    <3>3. k \in HeldMsgs
      BY <1>2, <2>2, <3>1 DEF HeldMsgs
    <3>4. \A j \in HeldMsgs : j = k
      BY <1>2, <3>2 DEF HeldMsgs
    <3> QED
      BY <2>2, <3>3, <3>4
  <2> QED
    BY <2>1, <2>2
<1>10. ASSUME ~transc.is_recv_header PROVE consumed = First(k)
  <2>1. ~transc.is_recv_body /\ transc.recv_bytes = 0
    BY <1>10 DEF RInv, NoUnknownError, CountersFit
  <2>2. Len(out) = First(k) /\ Len(out) + transc.recv_bytes = consumed
    BY <1>4, <1>5, <2>1
  <2> QED
    BY <1>2, <2>1, <2>2
<1> QED
  BY <1>4, <1>8, <1>9, <1>10 DEF CarriedAt


(* What the carrier sees of a step that writes nothing.                    *)
LEMMA SameGiven ==
  ASSUME UNCHANGED <<sent, bounds, out>>
  PROVE  /\ Len(bounds)' = Len(bounds) /\ GivenMsgs' = GivenMsgs
         /\ UNCHANGED consumed /\ (transc'.is_recv_body <=> transc.is_recv_body)
              => HeldMsgs' = HeldMsgs
  BY DEF GivenMsgs, HeldMsgs, FirstByte

LEMMA NoneHeld ==
  /\ ~transc.is_recv_body => HeldMsgs = {}
  /\ ~transc'.is_recv_body => HeldMsgs' = {}
  BY DEF HeldMsgs

LEMMA HeaderBetween ==
  \A x, y, z \in Nat : x + MSG_HEADER_LEN <= y /\ y <= z => x < z
  BY HeaderAssumption

(* A place in the stream belongs to one message.                           *)
LEMMA SamePlace ==
  ASSUME RInv, Layout, NEW j \in 1..(Len(bounds) + 1), NEW k \in 1..(Len(bounds) + 1),
         \/ First(j) = First(k)
         \/ j \in 1..Len(bounds) /\ k \in 1..Len(bounds) /\ bounds[j] = bounds[k]
  PROVE  j = k
<1>1. Len(bounds) \in Nat /\ j \in Nat /\ k \in Nat
  BY Places
<1>2. ASSUME NEW a \in 1..Len(bounds), NEW b \in 1..(Len(bounds) + 1), a < b
      PROVE  First(a) < First(b) /\ (b \in 1..Len(bounds) => bounds[a] < bounds[b])
  <2>1. /\ bounds[a] \in Nat /\ First(a) + MSG_HEADER_LEN <= bounds[a]
        /\ First(a) \in Nat /\ First(b) \in Nat /\ MSG_HEADER_LEN \in Nat /\ MSG_HEADER_LEN >= 4
    <3>1. a \in 1..(Len(bounds) + 1)
      BY <1>1
    <3> QED
      BY <3>1, Places
  <2>2. bounds[a] <= First(b)
    BY <1>2, MessageOrder
  <2>3. First(a) < First(b)
    BY <2>1, <2>2, HeaderBetween, Zenon
  <2>4. ASSUME b \in 1..Len(bounds) PROVE bounds[a] < bounds[b]
    <3>1. bounds[b] \in Nat /\ First(b) + MSG_HEADER_LEN <= bounds[b]
      BY <2>4, Places
    <3>2. bounds[b] <= bounds[b]
      BY <3>1
    <3>3. First(b) < bounds[b]
      BY <2>1, <3>1, <3>2, HeaderBetween, Zenon
    <3>4. \A x, y, z \in Nat : x <= y /\ y < z => x < z
      OBVIOUS
    <3> QED
      BY <2>1, <2>2, <3>1, <3>3, <3>4, Zenon
  <2> QED
    BY <2>3, <2>4
<1>3. ~(j < k)
  <2> SUFFICES ASSUME j < k PROVE FALSE
    OBVIOUS
  <2>1. j \in 1..Len(bounds)
    BY <1>1
  <2>2. First(j) < First(k) /\ (k \in 1..Len(bounds) => bounds[j] < bounds[k])
    BY <1>2, <2>1
  <2>3. First(j) \in Nat /\ First(k) \in Nat
        /\ \A i \in 1..Len(bounds) : bounds[i] \in Nat
    BY Places
  <2> QED
    BY <2>2, <2>3
<1>4. ~(k < j)
  <2> SUFFICES ASSUME k < j PROVE FALSE
    OBVIOUS
  <2>1. k \in 1..Len(bounds)
    BY <1>1
  <2>2. First(k) < First(j) /\ (j \in 1..Len(bounds) => bounds[k] < bounds[j])
    BY <1>2, <2>1
  <2>3. First(j) \in Nat /\ First(k) \in Nat
        /\ \A i \in 1..Len(bounds) : bounds[i] \in Nat
    BY Places
  <2> QED
    BY <2>2, <2>3
<1> QED
  BY <1>1, <1>3, <1>4

(* A new message is neither taken nor given.                               *)
LEMMA SrcSendsCarries ==
  ASSUME RInv, MInv, NEW len \in MsgLengths, SrcSends(len)
  PROVE  Carrier!Write
<1> DEFINE n == Len(bounds) + 1
<1>1. /\ src = "open" /\ UNCHANGED <<src, dst, consumed, out, transc, pc>>
      /\ sent' = sent \o Message(len, Len(sent))
  BY DEF SrcSends
<1>2. /\ Len(bounds') = n /\ n \in Nat
      /\ \A j \in 1..Len(bounds) : bounds'[j] = bounds[j] /\ bounds[j] \in Nat
      /\ bounds'[n] = Len(sent) + len /\ len \in Nat /\ len > 0
      /\ Len(bounds) \in Nat /\ Len(sent) \in Nat /\ consumed \in Nat /\ consumed <= Len(sent)
      /\ Len(out) \in Nat
  <2>1. len \in Nat /\ len > 0
    BY HeaderAssumption
  <2> QED
    BY <2>1, SrcSendsLays, Places DEF MInv
<1>3. Len(out) <= Len(sent)
  <2>1. PICK k \in 1..(Len(bounds) + 1) : At(k)
    BY DEF MInv
  <2>2. Len(out) <= consumed
    BY <2>1 DEF At
  <2> QED
    BY <1>2, <2>2
<1>4. DOMAIN bounds = 1..Len(bounds) /\ DOMAIN bounds' = 1..n
  <2>1. bounds \in Seq(Nat) /\ bounds' \in Seq(Nat)
    BY <1>2, AppendProperties DEF RInv, TypeOK, SrcSends
  <2> QED
    BY <1>2, <2>1, LenProperties
<1>5. \A i \in 1..Len(sent) : sent'[i] = sent[i]
  <2> DEFINE m == Message(len, Len(sent))
  <2>1. m \in Seq(Byte) /\ sent \in Seq(Byte) /\ Len(m) \in Nat
    BY <1>2, MessageHeader, LenProperties DEF RInv, TypeOK
  <2> HIDE DEF m
  <2>2. \A i \in 1..(Len(sent) + Len(m)) :
          (sent \o m)[i] = IF i <= Len(sent) THEN sent[i] ELSE m[i - Len(sent)]
    BY <2>1, ConcatProperties
  <2>3. \A i \in 1..Len(sent) : i \in 1..(Len(sent) + Len(m)) /\ i <= Len(sent)
    BY <1>2, <2>1
  <2>4. sent' = sent \o m
    BY <1>1 DEF m
  <2> QED
    BY <2>2, <2>3, <2>4
<1>6. ASSUME NEW j \in 1..Len(bounds)
      PROVE  FirstByte(j)' = FirstByte(j) /\ FirstByte(j) \in Nat /\ FirstByte(j) >= 1
  <2>1. CASE j = 1
    BY <2>1 DEF FirstByte
  <2>2. CASE j # 1
    <3>1. j - 1 \in 1..Len(bounds)
      BY <1>2, <2>2
    <3>2. bounds'[j - 1] = bounds[j - 1] /\ bounds[j - 1] \in Nat
      BY <1>2, <3>1
    <3> QED
      BY <2>2, <3>2 DEF FirstByte
  <2> QED
    BY <2>1, <2>2
<1>7. \A j \in 1..n : j \in 1..Len(bounds) \/ j = n
  BY <1>2
<1>8. \A j \in 1..Len(bounds) : j \in 1..n
  BY <1>2
<1>9. ~(bounds'[n] <= consumed) /\ ~(bounds'[n] <= Len(out))
  BY <1>2, <1>3
<1> HIDE DEF n
<1>10. GivenMsgs' = GivenMsgs
  <2>1. ASSUME NEW j \in 1..Len(bounds), bounds[j] <= Len(out),
               NEW i \in FirstByte(j)..bounds[j]
        PROVE  sent'[i] = sent[i]
    <3>1. FirstByte(j) \in Nat /\ FirstByte(j) >= 1 /\ bounds[j] \in Nat
      BY <1>2, <1>6
    <3>2. \A f, b, o, s \in Nat :
            f >= 1 /\ b <= o /\ o <= s => f..b \subseteq 1..s
      OBVIOUS
    <3>3. i \in 1..Len(sent)
      BY <1>2, <1>3, <2>1, <3>1, <3>2, Zenon
    <3> QED
      BY <1>5, <3>3
  <2>2. \A j \in 1..Len(bounds) : j \in GivenMsgs' <=> j \in GivenMsgs
    BY <1>1, <1>2, <1>4, <1>6, <1>8, <2>1 DEF GivenMsgs
  <2>3. n \notin GivenMsgs'
    BY <1>1, <1>9 DEF GivenMsgs
  <2>4. GivenMsgs \subseteq 1..Len(bounds) /\ GivenMsgs' \subseteq 1..n
    BY <1>4 DEF GivenMsgs
  <2> QED
    BY <1>7, <2>2, <2>3, <2>4
<1>11. HeldMsgs' = HeldMsgs
  <2>1. \A j \in 1..Len(bounds) : j \in HeldMsgs' <=> j \in HeldMsgs
    BY <1>1, <1>2, <1>4, <1>8 DEF HeldMsgs
  <2>2. n \notin HeldMsgs'
    BY <1>1, <1>9 DEF HeldMsgs
  <2>3. HeldMsgs \subseteq 1..Len(bounds) /\ HeldMsgs' \subseteq 1..n
    BY <1>4 DEF HeldMsgs
  <2> QED
    BY <1>7, <2>1, <2>2, <2>3
<1>12. Receiver' = Receiver /\ Link' = Link
  BY <1>1 DEF Receiver, Link
<1> QED
  BY <1>1, <1>2, <1>10, <1>11, <1>12 DEF Carrier!Write, n


CarrierVars == <<Len(bounds), HeldMsgs, GivenMsgs, src, Receiver, Link>>

(* An end of the connection, and a step that the carrier does not see.     *)
LEMMA EndsCarried ==
  ASSUME UNCHANGED <<sent, bounds, out, src>>, HeldMsgs' = HeldMsgs, Receiver' = Receiver,
         pc \notin {"closed", "killed"}, pc' = "closed",
         HeldMsgs = {} \/ dst = "closed"
  PROVE  Carrier!Close
<1>1. Link = "up" /\ Link' = "closed"
  BY DEF Link
<1>2. HeldMsgs = {} \/ Receiver = "cut"
  BY DEF Receiver
<1> QED
  BY <1>1, <1>2, SameGiven DEF Carrier!Close

LEMMA UnseenByCarrier ==
  ASSUME UNCHANGED <<sent, bounds, out, src>>, HeldMsgs' = HeldMsgs, Receiver' = Receiver,
         pc \notin {"closed", "killed"}, pc' \notin {"closed", "killed"}
  PROVE  UNCHANGED CarrierVars
<1>1. Link' = Link
  BY DEF Link
<1> QED
  BY <1>1, SameGiven DEF CarrierVars

(* A write that fails, and one that writes nothing.                        *)
LEMMA FailedWriteCarries ==
  ASSUME NEW resume, resume \notin {"closed", "killed"}, WriteFails(resume),
         pc \notin {"closed", "killed"}
  PROVE  Carrier!Kill \/ UNCHANGED CarrierVars
<1>1. /\ UNCHANGED <<sent, bounds, out, src, consumed, transc>>
      /\ \/ dst = "closed" /\ dst' = "closed" /\ pc' = resume
         \/ dst \in {"reset", "broken"} /\ dst' = "broken" /\ pc' \in {resume, "killed"}
  BY DEF WriteFails
<1>2. HeldMsgs' = HeldMsgs /\ Receiver' = Receiver
  BY <1>1, SameGiven DEF Receiver
<1>3. CASE pc' = "killed" /\ pc' # resume
  <2>1. Receiver = "failed" /\ Link = "up" /\ Link' = "killed"
    BY <1>1, <1>3 DEF Receiver, Link
  <2> QED
    BY <1>1, <1>2, <2>1, SameGiven DEF Carrier!Kill
<1>4. CASE pc' = resume
  BY <1>1, <1>2, <1>4, UnseenByCarrier
<1> QED
  BY <1>1, <1>3, <1>4

LEMMA ReadHeaderCarries ==
  ASSUME RInv, ReadHeader
  PROVE  Carrier!Close \/ UNCHANGED CarrierVars
<1>1. /\ UNCHANGED <<sent, bounds, out, src, dst>> /\ pc = "recv_header"
      /\ pc' \in {"closed", "epoll", "recv_body"}
  BY DEF ReadHeader, CloseSource, net
<1>2. ~transc.is_recv_body /\ ~transc'.is_recv_body
  <2>1. transc.is_recv_body = FALSE /\ transc \in Transc
    BY DEF RInv, TypeOK, ReadHeader, CallFits, NoUnknownError, Transc
  <2>2. transc'.is_recv_body = transc.is_recv_body
    BY <2>1 DEF ReadHeader, Transc
  <2> QED
    BY <2>1, <2>2
<1>3. HeldMsgs = {} /\ HeldMsgs' = {} /\ Receiver' = Receiver
  BY <1>1, <1>2, NoneHeld DEF Receiver
<1> QED
  BY <1>1, <1>3, EndsCarried, UnseenByCarrier

(* With the last byte of a message the splice into the pipe takes it.      *)
LEMMA SpliceInCarries ==
  ASSUME RInv, MInv, SpliceIn,
         NEW j \in 1..(Len(bounds) + 1), CarriedAt(j),
         pc' # "closed" => \E k \in 1..(Len(bounds) + 1)' : CarriedAt(k)'
  PROVE  Carrier!Take \/ Carrier!Close \/ UNCHANGED CarrierVars
<1>1. /\ UNCHANGED <<sent, bounds, out, src, dst>> /\ pc = "recv_body"
      /\ Len(bounds)' = Len(bounds) /\ Receiver' = Receiver
  BY DEF SpliceIn, CloseSource, net, Receiver
<1>2. HeldMsgs = {} /\ ~transc.is_recv_body
  <2>1. ~transc.is_recv_body
    BY DEF RInv, SpliceIn, CallFits
  <2> QED
    BY <2>1, NoneHeld
<1>3. CASE transc' = transc
  <2>1. HeldMsgs' = HeldMsgs
    BY <1>2, <1>3, NoneHeld
  <2>2. pc' \in {"closed", "epoll", "send_header"}
    BY DEF SpliceIn, CloseSource
  <2> QED
    BY <1>1, <1>2, <2>1, <2>2, EndsCarried, UnseenByCarrier
<1>4. CASE /\ src # "rst" /\ pc' = IF transc'.is_recv_body THEN "send_header" ELSE "epoll"
  <2>1. pc' \notin {"closed", "killed"}
    BY <1>4
  <2>2. CASE ~transc'.is_recv_body
    <3>1. HeldMsgs' = HeldMsgs
      BY <1>2, <2>2, NoneHeld
    <3> QED
      BY <1>1, <2>1, <3>1, UnseenByCarrier
  <2>3. CASE transc'.is_recv_body
    <3>1. PICK k \in 1..(Len(bounds) + 1) : CarriedAt(k)'
      BY <1>1, <2>1
    <3>2. /\ GivenMsgs = 1..(j - 1) /\ GivenMsgs' = 1..(k - 1)
          /\ HeldMsgs' = {k} /\ k <= Len(bounds)
      BY <1>1, <2>3, <3>1 DEF CarriedAt
    <3>3. GivenMsgs' = GivenMsgs
      BY <1>1, SameGiven
    <3>4. k \in 1..Len(bounds) /\ j \in Nat /\ k \in Nat
      BY <3>2, Places DEF MInv
    <3>5. k \in (1..Len(bounds)) \ GivenMsgs /\ 1..(k - 1) \subseteq GivenMsgs
      BY <3>2, <3>3, <3>4
    <3>6. Link = "up" /\ Link' = "up"
      BY <1>1, <2>1 DEF Link
    <3> QED
      BY <1>1, <1>2, <1>4, <3>2, <3>3, <3>5, <3>6 DEF Carrier!Take
  <2> QED
    BY <2>2, <2>3
<1> QED
  BY <1>3, <1>4 DEF SpliceIn, CloseSource

(* While a message is written it stays the one that is held.               *)
LEMMA PartCarries ==
  ASSUME RInv, MInv, UNCHANGED <<sent, bounds, consumed, src, dst>>,
         transc.is_recv_body, transc'.is_recv_body,
         pc \notin {"closed", "killed"}, pc' \notin {"closed", "killed"},
         NEW j \in 1..(Len(bounds) + 1), CarriedAt(j),
         NEW k \in 1..(Len(bounds) + 1), CarriedAt(k)'
  PROVE  UNCHANGED CarrierVars
<1>1. /\ GivenMsgs = 1..(j - 1) /\ GivenMsgs' = 1..(k - 1)
      /\ HeldMsgs = {j} /\ HeldMsgs' = {k}
      /\ j <= Len(bounds) /\ k <= Len(bounds) /\ bounds[j] = bounds[k]
  BY DEF CarriedAt
<1>2. j \in 1..Len(bounds) /\ k \in 1..Len(bounds)
  BY <1>1, Places DEF MInv
<1>3. j = k
  BY <1>1, <1>2, SamePlace DEF MInv
<1>4. Receiver' = Receiver /\ Link' = Link
  BY DEF Receiver, Link
<1> QED
  BY <1>1, <1>3, <1>4 DEF CarrierVars


LEMMA WriteHeaderCarries ==
  ASSUME RInv, MInv, WriteHeader, ShortHeaderWrite = FALSE,
         NEW j \in 1..(Len(bounds) + 1), CarriedAt(j),
         \E k \in 1..(Len(bounds) + 1)' : CarriedAt(k)'
  PROVE  Carrier!Kill \/ UNCHANGED CarrierVars
<1>1. /\ pc = "send_header" /\ transc \in Transc /\ transc.is_recv_body
      /\ transc.send_bytes = 0 /\ transc.recv_bytes >= MSG_HEADER_LEN
      /\ MSG_HEADER_LEN \in Nat
  <2>1. /\ pc = "send_header" /\ transc \in Transc /\ transc.is_recv_body
        /\ transc.is_recv_header /\ ~transc.is_send_header
        /\ transc.send_bytes = 0 /\ transc.recv_bytes = transc.length
        /\ transc.length > MSG_HEADER_LEN
    BY DEF RInv, TypeOK, NoUnknownError, CallFits, CountersFit, WriteHeader
  <2>2. transc.length \in Int /\ MSG_HEADER_LEN \in Nat
    BY <2>1, HeaderAssumption DEF Transc
  <2> QED
    BY <2>1, <2>2
<1>2. CASE WriteFails("epoll")
  BY <1>1, <1>2, FailedWriteCarries
<1>3. CASE UNCHANGED <<net, consumed, out, transc>> /\ pc' = "epoll"
  <2>1. UNCHANGED <<sent, bounds, out, src>> /\ Receiver' = Receiver
    BY <1>3 DEF net, Receiver
  <2>2. HeldMsgs' = HeldMsgs
    BY <1>3, <2>1, SameGiven
  <2> QED
    BY <1>1, <1>3, <2>1, <2>2, UnseenByCarrier
<1>4. CASE /\ UNCHANGED <<net, consumed>> /\ transc' = HeaderSent(transc, MSG_HEADER_LEN)
           /\ pc' = IF transc'.is_send_header THEN "send_body" ELSE "epoll"
  <2>1. transc'.is_recv_body
    BY <1>1, <1>4, HeaderSentIs
  <2>2. UNCHANGED <<sent, bounds, consumed, src, dst>> /\ Len(bounds)' = Len(bounds)
    BY <1>4 DEF net
  <2>3. PICK k \in 1..(Len(bounds) + 1) : CarriedAt(k)'
    BY <2>2
  <2>4. pc \notin {"closed", "killed"} /\ pc' \notin {"closed", "killed"}
    BY <1>1, <1>4
  <2> QED
    BY <1>1, <2>1, <2>2, <2>3, <2>4, PartCarries
<1>5. MSG_HEADER_LEN - transc.send_bytes = MSG_HEADER_LEN
  BY <1>1
<1> QED
  BY <1>2, <1>3, <1>4, <1>5 DEF WriteHeader

(* With the last byte of a message the splice out of the pipe gives it.    *)
LEMMA SpliceOutCarries ==
  ASSUME RInv, MInv, SpliceOut,
         NEW j \in 1..(Len(bounds) + 1), CarriedAt(j),
         \E k \in 1..(Len(bounds) + 1)' : CarriedAt(k)'
  PROVE  Carrier!Give \/ Carrier!Kill \/ UNCHANGED CarrierVars
<1>1. pc \in {"send_body", "resend_body"} /\ transc \in Transc /\ transc.is_recv_body
  BY DEF RInv, TypeOK, NoUnknownError, CallFits, SpliceOut
<1>2. AfterSplice \notin {"closed", "killed"} /\ pc \notin {"closed", "killed"}
  BY <1>1 DEF AfterSplice
<1>3. CASE WriteFails(AfterSplice)
  BY <1>2, <1>3, FailedWriteCarries
<1>4. CASE UNCHANGED <<net, consumed, out, transc>> /\ pc' = AfterSplice
  <2>1. UNCHANGED <<sent, bounds, out, src>> /\ Receiver' = Receiver
    BY <1>4 DEF net, Receiver
  <2>2. HeldMsgs' = HeldMsgs
    BY <1>4, <2>1, SameGiven
  <2> QED
    BY <1>2, <1>4, <2>1, <2>2, UnseenByCarrier
<1>5. ASSUME dst = "up", UNCHANGED <<net, consumed>>,
             NEW n \in 1..Lesser(Lesser(Len(pipe), SendRoom), transc.recv_bytes),
             \/ transc' = ClearedTransc /\ pc' = "epoll"
             \/ transc' = BodySent(transc, n) /\ pc' = AfterSplice
      PROVE  Carrier!Give \/ UNCHANGED CarrierVars
  <2>1. UNCHANGED <<sent, bounds, consumed, src, dst>> /\ Len(bounds)' = Len(bounds)
    BY <1>5 DEF net
  <2>2. PICK k \in 1..(Len(bounds) + 1) : CarriedAt(k)'
    BY <2>1
  <2>3. pc' \notin {"closed", "killed"}
    BY <1>2, <1>5
  <2>4. CASE transc' = BodySent(transc, n)
    <3>1. n \in Nat /\ n <= transc.recv_bytes
      BY <1>5, PipeSplit
    <3>2. transc'.is_recv_body
      BY <1>1, <2>4, <3>1, BodySentIs
    <3> QED
      BY <1>1, <1>2, <2>1, <2>2, <2>3, <3>2, PartCarries
  <2>5. CASE transc' = ClearedTransc
    <3>1. ~transc'.is_recv_body /\ ~transc'.is_recv_header
      BY <2>5 DEF ClearedTransc
    <3>2. /\ GivenMsgs = 1..(j - 1) /\ GivenMsgs' = 1..(k - 1)
          /\ HeldMsgs = {j} /\ HeldMsgs' = {}
          /\ j <= Len(bounds) /\ consumed = bounds[j]
          /\ consumed' = First(k)'
      BY <1>1, <2>2, <3>1 DEF CarriedAt
    <3>3. /\ j \in 1..Len(bounds) /\ j \in Nat /\ j + 1 \in 1..(Len(bounds) + 1)
          /\ First(j + 1) = bounds[j] /\ First(k)' = First(k)
      <4>1. j \in 1..Len(bounds) /\ j \in Nat /\ j + 1 \in 1..(Len(bounds) + 1)
        BY <3>2, Places DEF MInv
      <4>2. First(j + 1) = bounds[j]
        BY <4>1, Places DEF MInv
      <4> QED
        BY <2>1, <4>1, <4>2 DEF First
    <3>4. k = j + 1
      <4>1. First(k) = First(j + 1)
        BY <2>1, <3>2, <3>3
      <4> QED
        BY <3>3, <4>1, SamePlace DEF MInv
    <3>5. GivenMsgs' = GivenMsgs \cup HeldMsgs
      BY <3>2, <3>3, <3>4
    <3>6. Link = "up" /\ Link' = "up" /\ Receiver = "up" /\ Receiver' = "up"
      BY <1>2, <1>5, <2>1, <2>3 DEF Link, Receiver
    <3>7. HeldMsgs # {}
      BY <3>2
    <3> QED
      BY <2>1, <3>2, <3>5, <3>6, <3>7 DEF Carrier!Give
  <2> QED
    BY <1>5, <2>4, <2>5
<1> QED
  BY <1>3, <1>4, <1>5 DEF SpliceOut, WriteFails


LEMMA StepCarrier ==
  ASSUME ShortHeaderWrite = FALSE, RInv, MInv, Conservation, [Next]_vars,
         RInv', MInv', Conservation'
  PROVE  Carrier!Next \/ UNCHANGED CarrierVars
<1>1. pc # "closed" => \E k \in 1..(Len(bounds) + 1) : CarriedAt(k)
  BY CarriedIs
<1>2. pc' # "closed" => \E k \in 1..(Len(bounds) + 1)' : CarriedAt(k)'
  <2>1. (RInv /\ MInv /\ Conservation /\ pc # "closed"
          => \E k \in 1..(Len(bounds) + 1) : CarriedAt(k))'
    BY CarriedIs, PTL
  <2> QED
    BY <2>1
<1>3. CASE \E len \in MsgLengths : SrcSends(len)
  BY <1>3, SrcSendsCarries DEF Carrier!Next
<1>4. CASE Deliver \/ Drain \/ Over \/ UNCHANGED vars
  <2>1. UNCHANGED <<sent, bounds, out, consumed, src, dst, transc, pc>>
    BY <1>4 DEF Deliver, Drain, Over, vars, net
  <2> QED
    BY <2>1, SameGiven DEF CarrierVars, Receiver, Link
<1>5. CASE \E how \in {"fin", "rst"} : SrcEnds(how)
  <2>1. PICK how \in {"fin", "rst"} : SrcEnds(how)
    BY <1>5
  <2>2. /\ UNCHANGED <<sent, bounds, out, consumed, dst, transc, pc>>
        /\ src = "open" /\ src' = how
    BY <2>1 DEF SrcEnds
  <2>3. Receiver' = Receiver /\ Link' = Link
    BY <2>2 DEF Receiver, Link
  <2>4. Carrier!SenderEnds(how)
    BY <2>2, <2>3, SameGiven DEF Carrier!SenderEnds
  <2> QED
    BY <2>4 DEF Carrier!Next
<1>6. CASE DstResets
  <2>1. /\ UNCHANGED <<sent, bounds, out, consumed, src, transc, pc>>
        /\ dst = "up" /\ dst' = "reset"
    BY <1>6 DEF DstResets
  <2>2. Receiver = "up" /\ Receiver' = "failed" /\ Link' = Link
    BY <2>1 DEF Receiver, Link
  <2>3. Carrier!ReceiverFails
    BY <2>1, <2>2, SameGiven DEF Carrier!ReceiverFails
  <2> QED
    BY <2>3 DEF Carrier!Next
<1>7. CASE Poll \/ StaleEvent \/ EndConn
  <2>1. /\ UNCHANGED <<sent, bounds, out, consumed, src, dst, transc>> /\ pc = "epoll"
    BY <1>7 DEF Poll, StaleEvent, EndConn, net
  <2>2. HeldMsgs' = HeldMsgs /\ Receiver' = Receiver
    BY <2>1, SameGiven DEF Receiver
  <2>3. CASE EndConn
    <3>1. dst = "closed" /\ pc' = "closed"
      BY <2>3 DEF EndConn
    <3>2. Carrier!Close
      BY <2>1, <2>2, <3>1, EndsCarried
    <3> QED
      BY <3>2 DEF Carrier!Next
  <2>4. CASE Poll \/ StaleEvent
    <3>1. FirstCall(transc) \notin {"closed", "killed"}
      BY DEF FirstCall, RInv, NoUnknownError, BodyReceived, TypeOK, Transc
    <3>2. pc' \notin {"closed", "killed"}
      BY <2>4, <3>1 DEF Poll, StaleEvent
    <3> QED
      BY <2>1, <2>2, <3>2, UnseenByCarrier
  <2> QED
    BY <1>7, <2>3, <2>4
<1>8. CASE Worker
  <2>1. pc # "closed"
    BY <1>8 DEF Worker, ReadHeader, SpliceIn, WriteHeader, SpliceOut
  <2>2. PICK j \in 1..(Len(bounds) + 1) : CarriedAt(j)
    BY <1>1, <2>1
  <2>3. WriteHeader \/ SpliceOut => pc' # "closed"
    BY DEF WriteHeader, SpliceOut, WriteFails, AfterSplice
  <2>4. \/ Carrier!Take \/ Carrier!Give \/ Carrier!Close \/ Carrier!Kill
        \/ UNCHANGED CarrierVars
    BY <1>2, <1>8, <2>2, <2>3, ReadHeaderCarries, SpliceInCarries, WriteHeaderCarries,
       SpliceOutCarries DEF Worker
  <2> QED
    BY <2>4 DEF Carrier!Next
<1>9. CASE CloseDst
  <2>1. /\ UNCHANGED <<sent, bounds, out, consumed, src, transc, pc>>
        /\ pc \notin {"closed", "killed"} /\ dst # "closed" /\ dst' = "closed"
    BY <1>9 DEF CloseDst
  <2>2. dst \in {"up", "reset", "broken"}
    BY <2>1 DEF RInv, TypeOK
  <2>3. Receiver # "cut" /\ Receiver' = "cut" /\ Link = "up" /\ Link' = "up"
    BY <2>1, <2>2 DEF Receiver, Link
  <2>4. Carrier!CutOff
    BY <2>1, <2>3, SameGiven DEF Carrier!CutOff
  <2> QED
    BY <2>4 DEF Carrier!Next
<1> QED
  BY <1>3, <1>4, <1>5, <1>6, <1>7, <1>8, <1>9 DEF Next

LEMMA InitCarrier == Init => Carrier!Init
<1> SUFFICES ASSUME Init PROVE Carrier!Init
  OBVIOUS
<1>1. Len(bounds) = 0 /\ src = "open" /\ Receiver = "up" /\ Link = "up"
  BY DEF Init, Receiver, Link
<1>2. DOMAIN bounds = {}
  BY DEF Init
<1>3. HeldMsgs = {} /\ GivenMsgs = {}
  BY <1>2 DEF HeldMsgs, GivenMsgs
<1> QED
  BY <1>1, <1>3 DEF Carrier!Init

(* The relay is a carrier of whole messages.  A message is taken with the  *)
(* splice that reads its last byte and given with the splice that writes   *)
(* its last byte; the partial reads and writes, the calls that find no     *)
(* room or no input and the stale events between the two change nothing    *)
(* that the peers could tell.                                              *)
THEOREM RelayImplements ==
  ASSUME ShortHeaderWrite = FALSE, ENDIAN = PEER_ENDIAN
  PROVE  Spec => ImplementsMessageRelay
<1>1. /\ RInv /\ MInv /\ Conservation
      /\ [Next]_vars
      /\ RInv' /\ MInv' /\ Conservation'
      => [Carrier!Next]_<<Len(bounds), HeldMsgs, GivenMsgs, src, Receiver, Link>>
  BY StepCarrier DEF CarrierVars
<1> QED
  BY <1>1, InitCarrier, MessagesInvariant, BytesConserved,
     PTL DEF Spec, ImplementsMessageRelay, Carrier!Spec

=============================================================================
