---------------------------- MODULE MCScheduledRuns ----------------------------
(***************************************************************************)
(* Instances of ScheduledRuns for TLC.                                     *)
(***************************************************************************)
EXTENDS ScheduledRuns, TLC

CONSTANTS t1, t2, s1, s2, s3

OneToken   == {t1}
TwoTokens  == {t1, t2}
TwoSlots   == {s1, s2}
ThreeSlots == {s1, s2, s3}
OneRun     == {1}
TwoRuns    == {1, 2}

SlotsInterchange  == Permutations(Slots)
SlotsAndTokens    == Permutations(Slots) \cup Permutations(Tokens)
===============================================================================
