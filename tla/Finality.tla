------------------------------- MODULE Finality -------------------------------
(***************************************************************************)
(* What the consensus layer promises about one block height, whatever the  *)
(* protocol: a node finalizes a block only once that block was proposed,   *)
(* no node finalizes another one, and no node ever changes its mind.       *)
(***************************************************************************)
CONSTANTS Nodes, Blocks, Nil

VARIABLES proposed,  \* the blocks proposed at this height
          decided    \* decided[n]: the block n has finalized, or Nil

Init ==
  /\ proposed = {}
  /\ decided = [n \in Nodes |-> Nil]

Propose(b) ==
  /\ proposed' = proposed \cup {b}
  /\ UNCHANGED decided

Finalize(n, b) ==
  /\ b \in proposed
  /\ decided[n] = Nil
  /\ \A m \in Nodes : decided[m] \in {Nil, b}
  /\ decided' = [decided EXCEPT ![n] = b]
  /\ UNCHANGED proposed

Next == \E b \in Blocks : Propose(b) \/ \E n \in Nodes : Finalize(n, b)

Spec == Init /\ [][Next]_<<proposed, decided>>
===============================================================================
