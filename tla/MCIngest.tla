------------------------------- MODULE MCIngest -------------------------------
(* Ingest with three entities, one of them alone in its partition, and one *)
(* row for every way a row can be read.                                    *)
EXTENDS Ingest

MCPartitionIndex(e) == IF e = "c" THEN 2 ELSE 1

Good(e, ha) == [entity |-> e, ha |-> ha, defects |-> {}]
Bad(ha, defects) == [entity |-> "a", ha |-> ha, defects |-> defects]

MCRow ==
  {Good("a", "usable"), Good("b", "blank"), Good("c", "usable"),
   Good("c", "large"), Good("a", "negative"), Good("b", "text"),
   Bad("blank", {"csv_parse_error"}),
   Bad("nonfinite", {"empty_id", "invalid_lat"}),
   Bad("blank", {"invalid_ts", "invalid_lon"})}
=============================================================================
