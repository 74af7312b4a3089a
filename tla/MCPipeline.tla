---------------------------- MODULE MCPipeline ----------------------------
(* Values of the constants of Pipeline for TLC. *)
EXTENDS Pipeline, TLC

\* One partition of three records; the last one is split over two batches.
OnePartition == (<<"a", 0>> :> 1) @@ (<<"a", 1>> :> 0) @@ (<<"a", 2>> :> 2)

\* Every snapshot is whole, or one of the last record lacks something that
\* ai-detector or intelligent-telemetry insists on.
Lacking(fields) == [s \in Snapshots |-> IF s = <<<<"a", 2>>, 1>> THEN fields ELSE {}]
SomeDefects == {Lacking({}), Lacking({"counters"}), Lacking({"addresses"})}
=============================================================================
