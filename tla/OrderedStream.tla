--------------------------- MODULE OrderedStream ---------------------------
(***************************************************************************)
(* What a circuit promises the two applications it joins: each direction   *)
(* is an ordered stream of chunks.  A chunk handed over at one end comes   *)
(* out at the other end at most once, unaltered and in order; the tail of  *)
(* a direction may be lost, for instance when the circuit is torn down.    *)
(***************************************************************************)
EXTENDS Chunks, Sequences

VARIABLES
  sent,       \* number of chunks the client's application has handed over
  delivered,  \* chunks written to the target
  replied,    \* number of chunks the target has handed over
  received    \* chunks written to the client's application

osvars == <<sent, delivered, replied, received>>

Init == sent = 0 /\ delivered = <<>> /\ replied = 0 /\ received = <<>>

Send  == sent' = sent + 1 /\ UNCHANGED <<delivered, replied, received>>
Reply == replied' = replied + 1 /\ UNCHANGED <<sent, delivered, received>>

Deliver ==
  /\ Len(delivered) < sent
  /\ delivered' = Append(delivered, App(Len(delivered) + 1))
  /\ UNCHANGED <<sent, replied, received>>

Receive ==
  /\ Len(received) < replied
  /\ received' = Append(received, Svc(Len(received) + 1))
  /\ UNCHANGED <<sent, delivered, replied>>

Next == Send \/ Reply \/ Deliver \/ Receive
Spec == Init /\ [][Next]_osvars
=============================================================================
