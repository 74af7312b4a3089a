------------------------------ MODULE MCMeter ------------------------------
(***************************************************************************)
(* Values for model checking Meter.                                        *)
(***************************************************************************)
EXTENDS Meter

\* Gaps below, at and above the interval and the timeouts.
PacketTimes == {0, 1, 2, 4, 6}
=============================================================================
