------------------------- MODULE MCTranslatorPipeline -------------------------
(***************************************************************************)
(* TranslatorPipeline for TLC: behaviours in which anything may fail, and  *)
(* behaviours in which nothing does.  A window barely larger than the ack  *)
(* threshold and channels of one item make every wait of the tasks happen. *)
(***************************************************************************)
EXTENDS TranslatorPipeline

AllOrNone ==
  {{}, {"connect", "shipCloses", "readFails", "frames", "sinkFails", "translation", "client"}}
===============================================================================
