----------------------------- MODULE MCDetector -----------------------------
(* Values of the constants of Detector for TLC. *)
EXTENDS Detector, TLC

\* Malformed records behind and in front of others, and an incomplete one.
Mixed == (<<"a", 0>> :> "valid") @@ (<<"a", 1>> :> "malformed")
         @@ (<<"b", 0>> :> "malformed") @@ (<<"b", 1>> :> "incomplete")
=============================================================================
