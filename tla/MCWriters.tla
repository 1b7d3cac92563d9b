------------------------------ MODULE MCWriters -------------------------------
(* Three of the seven tables: one that every observation adds to, the      *)
(* events, and one with a single row by entity.  Batches of two rows, so   *)
(* that a result ends before, at and after the end of a batch.             *)
EXTENDS Writers

MCTables == <<"observations", "events", "entities">>
MCSizes ==
  {[t \in {"observations", "events", "entities"} |->
      CASE t = "observations" -> n [] t = "events" -> e [] t = "entities" -> 1] :
     n \in 1..3, e \in {2, 3}}
=============================================================================
