---------------------------- MODULE MessageRelay ----------------------------
(***************************************************************************)
(* What the relay of proxy.c promises for one direction of a connection:   *)
(* messages are carried one at a time, in the order they were written; the *)
(* next is taken, as a whole, only when the one before was given to the    *)
(* receiver, as a whole; nothing is taken from a sender that reset and     *)
(* nothing given to a receiver that failed or was cut off.  A held message *)
(* is dropped in two ways only: the link is closed after the receiver was  *)
(* cut off, which is the proxy's own doing and may hit a receiver that is  *)
(* up, or the process is killed after the receiver failed.                 *)
(***************************************************************************)
EXTENDS Naturals

VARIABLES written,  \* how many messages the sender has written
          held,     \* the message that was taken and not given, if there is one
          given,    \* messages the receiver was given, every byte of them
          sender,   \* "open", "fin" or "rst"
          receiver, \* "up", "failed", or "cut" off by the proxy
          link      \* "up", "closed" or "killed"

Init ==
  /\ written = 0
  /\ held = {}
  /\ given = {}
  /\ sender = "open"
  /\ receiver = "up"
  /\ link = "up"

Write ==
  /\ sender = "open"
  /\ written' = written + 1
  /\ UNCHANGED <<held, given, sender, receiver, link>>

SenderEnds(how) ==
  /\ sender = "open"
  /\ sender' = how
  /\ UNCHANGED <<written, held, given, receiver, link>>

ReceiverFails ==
  /\ receiver = "up"
  /\ receiver' = "failed"
  /\ UNCHANGED <<written, held, given, sender, link>>

CutOff ==
  /\ link = "up"
  /\ receiver # "cut"
  /\ receiver' = "cut"
  /\ UNCHANGED <<written, held, given, sender, link>>

(* The oldest message that was not given, when no other is held.           *)
Take ==
  /\ link = "up"
  /\ sender # "rst"
  /\ held = {}
  /\ \E m \in (1..written) \ given :
       /\ 1..(m - 1) \subseteq given
       /\ held' = {m}
  /\ UNCHANGED <<written, given, sender, receiver, link>>

Give ==
  /\ link = "up"
  /\ receiver = "up"
  /\ held # {}
  /\ given' = given \cup held
  /\ held' = {}
  /\ UNCHANGED <<written, sender, receiver, link>>

Close ==
  /\ link = "up"
  /\ held = {} \/ receiver = "cut"
  /\ link' = "closed"
  /\ UNCHANGED <<written, held, given, sender, receiver>>

Kill ==
  /\ link = "up"
  /\ receiver = "failed"
  /\ link' = "killed"
  /\ UNCHANGED <<written, held, given, sender, receiver>>

Next ==
  \/ Write
  \/ \E how \in {"fin", "rst"} : SenderEnds(how)
  \/ ReceiverFails
  \/ CutOff
  \/ Take
  \/ Give
  \/ Close
  \/ Kill

Spec == Init /\ [][Next]_<<written, held, given, sender, receiver, link>>
=============================================================================
