---------------------------- MODULE MCRunInCluster ----------------------------
(* Small instances of RunInCluster for TLC.                                *)
EXTENDS RunInCluster, TLC

CONSTANTS j1, j2

TwoJobs    == {j1, j2}
OneProject == [j \in Jobs |-> "p"]
OwnNames   == [j \in Jobs |-> j]
OneName    == [j \in Jobs |-> "cut"]
BothNamings == {OwnNames, OneName}
OnlyOwn    == {OwnNames}
Symmetry   == Permutations(Jobs)
=============================================================================
