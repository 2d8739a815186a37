------------------------------ MODULE Machine ------------------------------
(***************************************************************************)
(* What the bridge promises to its clients: DOSBox, whose state is static, *)
(* belongs to one owner at a time; every owner gets it at most once; and   *)
(* when an owner's session ends, the owner is told.                        *)
(***************************************************************************)
CONSTANT Owners
VARIABLES state,    \* per owner: "new", "on", "off", "announced"
          powered   \* the process is alive

Init == state = [e \in Owners |-> "new"] /\ powered = TRUE

Move(e, from, to) ==
  /\ powered /\ state[e] = from
  /\ state' = [state EXCEPT ![e] = to]
  /\ UNCHANGED powered

Boot(e) == Move(e, "new", "on") /\ \A f \in Owners : state[f] # "on"
Halt(e) == Move(e, "on", "off")
Announce(e) == Move(e, "off", "announced")
PowerOff == powered /\ powered' = FALSE /\ UNCHANGED state

Next == PowerOff \/ \E e \in Owners : Boot(e) \/ Halt(e) \/ Announce(e)

Safety == Init /\ [][Next]_<<state, powered>>
Spec == /\ Safety
        /\ \A e \in Owners : WF_<<state, powered>>(Announce(e))
=============================================================================
