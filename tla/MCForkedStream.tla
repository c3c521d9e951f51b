----------------------------- MODULE MCForkedStream -----------------------------
(***************************************************************************)
(* Instance of ForkedStream: two labels are enough for a fork, a fork of a *)
(* fork, and a fork back to the first one.                                 *)
(***************************************************************************)
EXTENDS ForkedStream
=============================================================================
