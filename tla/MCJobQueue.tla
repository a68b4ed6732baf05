------------------------------ MODULE MCJobQueue ------------------------------
(* Small instances of JobQueue for TLC.                                    *)
EXTENDS JobQueue, TLC

CONSTANTS r1, r2

OneReplica  == {r1}
TwoReplicas == {r1, r2}
Symmetry    == Permutations(TwoReplicas)

(* Jobs 1 and 2 want previews in one project; job 3 is a deploy of it.     *)
Mixed == {1, 2}
OneProject == [j \in Jobs |-> "p"]
AllEligible == Jobs
=============================================================================
