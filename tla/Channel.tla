------------------------------ MODULE Channel -------------------------------
(***************************************************************************)
(* What the buffers and queues of lab1 are for: numbers 1 .. Last go from  *)
(* a producer to a consumer, in order, none lost and none twice, and at    *)
(* most Capacity of them are under way.                                    *)
(***************************************************************************)
EXTENDS Integers

CONSTANTS
  Capacity,   \* places in the buffer
  Last        \* how many numbers are sent

VARIABLES
  sent,       \* the last number that was sent
  received    \* the last number that was received

chan == <<sent, received>>

Init == sent = 0 /\ received = 0

Send    == sent < Last /\ sent - received < Capacity /\ sent' = sent + 1 /\ UNCHANGED received
Receive == received < sent /\ received' = received + 1 /\ UNCHANGED sent

Next == Send \/ Receive

Spec == Init /\ [][Next]_chan
=============================================================================
