------------------------------ MODULE EventRelay ------------------------------
(***************************************************************************)
(* What the API may count on of the path its events take out of a session: *)
(* they are posted in the order they were read, each in one delivery and   *)
(* once, and once the path is closed everything read has been posted and   *)
(* nothing follows.  A delivery stops growing when its text reaches the    *)
(* limit.  A post may fail, and its delivery is then lost as a whole: the  *)
(* API hears what was read with such gaps, and never out of turn.          *)
(* DeltaCoalescer is shown to implement it.                                *)
(***************************************************************************)
EXTENDS Naturals, Sequences

CONSTANTS
    Sizes,      \* how much text an event may carry
    Batch       \* a delivery with so much text takes no more

VARIABLES
    ends,       \* where in the stream of text each event read so far ends
    out,        \* the events posted, numbered from 1
    lost,       \* those of them whose post failed
    closed      \* the session is over and its tail has been posted

vars == <<ends, out, lost, closed>>

Init == ends = <<>> /\ out = <<>> /\ lost = {} /\ closed = FALSE

Upto(n) == IF n = 0 THEN 0 ELSE ends[n]

Take ==
    /\ ~closed
    /\ \E size \in Sizes : ends' = Append(ends, Upto(Len(ends)) + size)
    /\ UNCHANGED <<out, lost, closed>>

Following(n) == [i \in 1..n |-> Len(out) + i]

(* The text of the first n - 1 of the following events stays below Batch.  *)
Fits(n) == n > 0 => Upto(Len(out) + n - 1) < Upto(Len(out)) + Batch

Deliver ==
    /\ ~closed
    /\ \E n \in 0..(Len(ends) - Len(out)) :
          /\ Fits(n)
          /\ out' = out \o Following(n)
          /\ lost' \in {lost, lost \cup {Len(out) + i : i \in 1..n}}
          /\ \/ UNCHANGED closed
             \/ Len(out) + n = Len(ends) /\ closed' = TRUE
    /\ UNCHANGED ends

Next == Take \/ Deliver

Spec == Init /\ [][Next]_vars
=============================================================================
