----------------------------- MODULE MCNormalize ------------------------------
(* Two entities in one partition and one in another; two times; fixes that *)
(* differ by accuracy, by place only, or by the way they were written only. *)
EXTENDS Normalize

MCPartitionIndex(e) == IF e = "c" THEN 2 ELSE 1
MCEntityRank(e) == CASE e = "a" -> 1 [] e = "b" -> 2 [] e = "c" -> 3

At1(e, ts, ha, place) ==
  [entity |-> e, ts |-> ts, ha |-> ha, place |-> place, digits |-> 4]

MCFix ==
  {At1("a", 1, MissingHA, 1), At1("a", 1, 5, 2), At1("a", 1, 9, 1),
   At1("a", 1, 5, 4), [At1("a", 1, 5, 2) EXCEPT !.digits = 6],
   At1("a", 2, MissingHA, 3), At1("a", 2, MissingHA, 1),
   At1("b", 1, 5, 2), At1("b", 2, 0, 2), At1("c", 1, 5, 1),
   At1("c", 3, MissingHA, 2)}
=============================================================================
