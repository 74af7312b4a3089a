--------------------------- MODULE MCEventWindows ---------------------------
(* Values of the constants of EventWindows for TLC. *)
EXTENDS EventWindows, TLC

\* Two flows; the counters of flow f fall and rise in event time, and there
\* are snapshots in, far before and far after the first window.
EventIds == {"e1", "e2", "e3", "e4"}
Times == ("e1" :> 1) @@ ("e2" :> 2) @@ ("e3" :> 3) @@ ("e4" :> 6)
FlowOf == ("e1" :> "f") @@ ("e2" :> "f") @@ ("e3" :> "g") @@ ("e4" :> "f")
PacketsOf == ("e1" :> 2) @@ ("e2" :> 1) @@ ("e3" :> 1) @@ ("e4" :> 3)
=============================================================================
