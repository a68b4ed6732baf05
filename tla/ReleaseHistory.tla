---------------------------- MODULE ReleaseHistory ----------------------------
(***************************************************************************)
(* What the history of a Helm release promises to everybody who numbers    *)
(* revisions in it: one operation at a time appends to it, what is in it   *)
(* is never taken out or renumbered, an operation that is over stays over, *)
(* and at most one revision is deployed.  Who appends what, and what       *)
(* becomes of those who do, is not said here.                              *)
(***************************************************************************)
EXTENDS Naturals, Sequences

VARIABLE
    history     \* the status of each revision

Init == history \in {<<>>, <<"deployed">>}

Idle == history = <<>> \/ history[Len(history)] # "pending"

(* An operation starts: its revision is the last one.                      *)
Begin ==
    /\ Idle
    /\ history' = Append(history, "pending")

(* It is the last one until the operation is over.                         *)
Fail ==
    /\ ~Idle
    /\ history' = [history EXCEPT ![Len(history)] = "failed"]

(* Its revision replaces the one that was deployed.                        *)
Deploy ==
    /\ ~Idle
    /\ history' = [i \in 1..Len(history) |->
                     IF i = Len(history) THEN "deployed"
                     ELSE IF history[i] = "deployed" THEN "superseded" ELSE history[i]]

Next == Begin \/ Fail \/ Deploy

Spec == Init /\ [][Next]_history
=============================================================================
