------------------------------ MODULE MCLoopRun ------------------------------
(* LoopRun itself: its configurations give the bounds. *)
EXTENDS LoopRun

==============================================================================
