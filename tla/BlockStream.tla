------------------------------ MODULE BlockStream ------------------------------
(***************************************************************************)
(* What the consensus client may rely on about the translator: the blocks  *)
(* of the requested range arrive one by one, none is left out, repeated or *)
(* out of order, and nothing arrives once the stream is over.              *)
(***************************************************************************)
EXTENDS Integers

CONSTANTS First, Last   \* the requested range

VARIABLES
  received,   \* number of the last block received
  over        \* the client has stopped receiving

Init == received = First - 1 /\ over = FALSE

Receive ==
  /\ ~over
  /\ received < Last
  /\ received' = received + 1
  /\ UNCHANGED over

End == ~over /\ over' = TRUE /\ UNCHANGED received

Spec == Init /\ [][Receive \/ End]_<<received, over>>
===============================================================================
