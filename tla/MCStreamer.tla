----------------------------- MODULE MCStreamer -----------------------------
(***************************************************************************)
(* Values for model checking Streamer.                                     *)
(***************************************************************************)
EXTENDS Streamer

TwoAndOne == [m \in Procs |-> IF m = 0 THEN 2 ELSE 1]
=============================================================================
