--------------------------- MODULE MCModelCatalog ---------------------------
(* Values of the constants of ModelCatalog for TLC. *)
EXTENDS ModelCatalog, TLC

\* Two files for an upload: another model, and the pinned one with labels that
\* are not its own.  A training of the pinned artifact, and a retraining of it
\* whose dataset may lack a class.  The retraining gets the file name of the
\* first training or that of the other model: in the latter case the two
\* newest documents may both be of the name that is not selected.
FilesToUpload == {[name |-> "n", artifact |-> "c", labels |-> {1}],
                  [name |-> "m", artifact |-> "a", labels |-> {0}]}
ClassesIn == ("a" :> {0, 1}) @@ ("b" :> {0, 1}) @@ ("c" :> {1})
FitsOf == ("t1" :> {"a"}) @@ ("t2" :> {"b", "c"})
BaseOf == ("t1" :> Nothing) @@ ("t2" :> "a")
NameOf == ("t1" :> {"m"}) @@ ("t2" :> {"m", "n"})
=============================================================================
