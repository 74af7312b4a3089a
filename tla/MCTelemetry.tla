----------------------------- MODULE MCTelemetry -----------------------------
(* Values of the constants of Telemetry for TLC. *)
EXTENDS Telemetry, TLC

\* Two flows; e3 is ahead of the window of the others.
EventIds == {"e1", "e2", "e3"}
Times == ("e1" :> 1) @@ ("e2" :> 2) @@ ("e3" :> 4)
FlowOf == ("e1" :> "f") @@ ("e2" :> "f") @@ ("e3" :> "g")
PacketsOf == ("e1" :> 1) @@ ("e2" :> 2) @@ ("e3" :> 1)

\* A record with two snapshots, an invalid record, and single ones; e1 was
\* published twice by the detector.
Log == (<<"a", 0>> :> <<"e1", "e3">>) @@ (<<"a", 1>> :> <<"e2">>)
       @@ (<<"b", 0>> :> <<>>) @@ (<<"b", 1>> :> <<"e1">>)
Broken == {<<"b", 0>>}
=============================================================================
