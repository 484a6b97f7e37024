-------------------------------- MODULE Wire --------------------------------
(***************************************************************************)
(* Two workers of the proxy on the one connection to the destination:      *)
(* each is a Relay of its own source, with its own pipe and transc_t, and  *)
(* both write to the same dst_fd (src/src/proxy/proxy.c, line 341 of       *)
(* either's proxy_process_data), with no lock around header and body.      *)
(***************************************************************************)
EXTENDS Integers, Sequences, FiniteSets

CONSTANTS
  MSG_HEADER_LEN, ENDIAN, PEER_ENDIAN, MsgLengths, MaxMsgs, PIPE_CAP, SND_CAP,
  ShortHeaderWrite, PeersMayFail, DstFdMayClose

VARIABLES
  sent1, bounds1, arrived1, consumed1, src1, pipe1, transc1, pc1,
  sent2, bounds2, arrived2, consumed2, src2, pipe2, transc2, pc2,
  dst, out, drained,   \* the destination, shared
  who                  \* history: who[i] is the worker that wrote out[i]

own1 == <<sent1, bounds1, arrived1, consumed1, src1, pipe1, transc1, pc1>>
own2 == <<sent2, bounds2, arrived2, consumed2, src2, pipe2, transc2, pc2>>
vars == <<own1, own2, dst, out, drained, who>>

Worker1 == INSTANCE Relay WITH
  sent <- sent1, bounds <- bounds1, arrived <- arrived1, consumed <- consumed1,
  src <- src1, pipe <- pipe1, transc <- transc1, pc <- pc1
Worker2 == INSTANCE Relay WITH
  sent <- sent2, bounds <- bounds2, arrived <- arrived2, consumed <- consumed2,
  src <- src2, pipe <- pipe2, transc <- transc2, pc <- pc2

Init == Worker1!Init /\ Worker2!Init /\ who = <<>>

(* Worker w has written what `out' has gained.                             *)
Signed(w) == who' = who \o [i \in 1..(Len(out') - Len(out)) |-> w]

Next ==
  \/ Worker1!Next /\ Signed(1) /\ UNCHANGED own2
  \/ Worker2!Next /\ Signed(2) /\ UNCHANGED own1

Spec == Init /\ [][Next]_vars

-----------------------------------------------------------------------------
(* Messages do not mix on the wire: another worker's bytes follow only     *)
(* where a message of the first is complete.  Comments 325-328 speak of    *)
(* forwarding "the message read".                                          *)
WrittenBy(w, i) == Cardinality({j \in 1..i : who[j] = w})
EndsAt(w, n) == \E k \in DOMAIN (IF w = 1 THEN bounds1 ELSE bounds2) :
                  n = (IF w = 1 THEN bounds1 ELSE bounds2)[k]
MessagesWhole ==
  \A i \in 1..(Len(who) - 1) : who[i] # who[i + 1] => EndsAt(who[i], WrittenBy(who[i], i))
=============================================================================
