---------------------------- MODULE AtLeastOnce ----------------------------
(***************************************************************************)
(* What every consuming stage of the TC35 pipeline promises about the      *)
(* topic it reads: "offsets are committed only after the next pipeline     *)
(* stage succeeds; invalid records are deliberately skipped".  A record is *)
(* handled once its effect on the next stage is durable, or once it was    *)
(* rejected; a group offset is only ever moved to a place below which      *)
(* every record is handled.  Nothing is said about how often a record is   *)
(* handled, and an offset may move backwards.                              *)
(***************************************************************************)
EXTENDS Naturals

CONSTANTS Partitions,   \* the partitions of the topic
          LogEnd        \* every partition holds the offsets 0 .. LogEnd - 1

VARIABLES handled,      \* the records whose effect is durable
          committed     \* the group's offset in each partition

Records == Partitions \X (0 .. LogEnd - 1)

Init == /\ handled = {}
        /\ committed = [p \in Partitions |-> 0]

\* Some records become handled, in any order; none is ever forgotten.
Handle == /\ handled \subseteq handled'
          /\ handled' \subseteq Records
          /\ UNCHANGED committed

\* Offsets move, each to a place below which everything is handled.
Commit == /\ committed' \in [Partitions -> 0 .. LogEnd]
          /\ \A p \in Partitions :
                \/ committed'[p] = committed[p]
                \/ \A o \in 0 .. committed'[p] - 1 : <<p, o>> \in handled
          /\ UNCHANGED handled

Next == Handle \/ Commit

Spec == Init /\ [][Next]_<<handled, committed>>
=============================================================================
