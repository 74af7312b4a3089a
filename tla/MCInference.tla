---------------------------- MODULE MCInference ----------------------------
(* Values of the constants of Inference for TLC. *)
EXTENDS Inference, TLC

Symmetry == Permutations(Replicas)

\* Two partitions of two records: one with more rows than fit in a batch, one
\* rejected record before and after valid ones.
TwoPartitions == (<<"a", 0>> :> 1) @@ (<<"a", 1>> :> 0) @@ (<<"b", 0>> :> 2) @@ (<<"b", 1>> :> 1)

\* One partition of three records; the middle one is split over three batches.
OnePartition == (<<"a", 0>> :> 1) @@ (<<"a", 1>> :> 0) @@ (<<"a", 2>> :> 3)
=============================================================================
