------------------------------ MODULE UniqueIds ------------------------------
(* What the Indexer takes worker.GetId to do (service/indexer.go, AddDoc):      *)
(* every id handed out is new.  The promise has a premise that the generator    *)
(* may lose, once and for all; afterwards any id may come.                      *)
EXTENDS Naturals, Sequences

CONSTANT UniqueId         (* the ids that may be handed out                       *)

VARIABLES issued,         (* the ids handed out, in order                         *)
          broken          (* the premise of the promise has been lost             *)

Given == {issued[i] : i \in DOMAIN issued}

Init == issued = <<>> /\ broken = FALSE

Issue == /\ \E id \in UniqueId : /\ broken \/ id \notin Given
                                 /\ issued' = Append(issued, id)
         /\ broken' = broken

Lose  == broken' = TRUE /\ issued' = issued

Next == Issue \/ Lose

Spec == Init /\ [][Next]_<<issued, broken>>
==============================================================================
