----------------------------- MODULE FlowSource -----------------------------
(***************************************************************************)
(* What the streamer relies on in a meter, whatever packets, timeouts and  *)
(* answers of the broker make of it: the flows that the meter holds come   *)
(* into the channel one at a time and each of them once, none follows an   *)
(* error, and a meter that ends without an error holds none any more.      *)
(***************************************************************************)
EXTENDS Sequences

CONSTANT Names    \* what tells the flows of a meter apart

VARIABLES state,  \* "runs", "done" or "failed"
          held,   \* the flows that have begun and are not in the channel
          put     \* the flows in the channel, oldest first

Init == state = "runs" /\ held \subseteq Names /\ put = <<>>

\* A flow that is in the channel does not come back.
NewFlows == /\ held' \subseteq Names
            /\ \A n \in DOMAIN put' : put'[n] \notin held'

Begin == /\ state = "runs"
         /\ held \subseteq held' /\ NewFlows
         /\ UNCHANGED <<state, put>>

\* The packet that ends a flow may begin another one.
Put(f) == /\ state = "runs"
          /\ put' = Append(put, f)
          /\ held \ {f} \subseteq held' /\ NewFlows
          /\ UNCHANGED state

Finish == /\ state = "runs" /\ held = {}
          /\ state' = "done"
          /\ UNCHANGED <<held, put>>

\* An error, or the death of the process; what the meter holds is lost.
Fail == /\ state' = "failed" /\ held' = {}
        /\ UNCHANGED put

Next == Begin \/ (\E f \in held : Put(f)) \/ Finish \/ Fail

Spec == Init /\ [][Next]_<<state, held, put>>
=============================================================================
