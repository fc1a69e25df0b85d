---------------------------- MODULE MCCoordinator ----------------------------
(***************************************************************************)
(* Instances of Coordinator for TLC.                                       *)
(***************************************************************************)
EXTENDS Coordinator, TLC

CONSTANTS b1, b2, l1, l2

OneBlock  == {b1}
TwoBlocks == {b1, b2}
OneLane   == {l1}
TwoLanes  == {l1, l2}

NoRounds == {}
Round0   == {0}

Once    == {<<0, b1>>}
\* Each proposer builds one block, a new one in each round.
OneEach == {<<0, b1>>, <<1, b2>>}
\* The first proposer builds two (a retry, a restart).
Twice   == {<<0, b1>>, <<0, b2>>}
\* The proposers may build either block, and both (a retry, a restart).
Anything == {0, 1} \X TwoBlocks

BlocksInterchange == Permutations(TwoBlocks)
LanesInterchange  == Permutations(TwoLanes)
LanesAndBlocks    == Permutations(TwoBlocks) \cup Permutations(TwoLanes)
==============================================================================
