---------------------------- MODULE MCAnalystPages ----------------------------
(* Rows that share times within and across tables, so that only the last   *)
(* column of an order separates them; a default limit of two and a hard    *)
(* cap of three, so that limits below, at and above both are asked for.    *)
EXTENDS AnalystPages, FiniteSets

R(kind, id, entity, ts, cell) ==
  [kind |-> kind, id |-> id, entity |-> entity, ts |-> ts, cell |-> cell]

MCRows ==
  {R("entity", 1, 1, 5, 1), R("entity", 2, 2, 5, 1), R("entity", 3, 3, 5, 2),
   R("entity", 4, 4, 7, 2)}
  \cup {R("event", 1, 1, 0, 1), R("event", 2, 1, 0, 1), R("event", 3, 1, 4, 2),
        R("presence", 1, 1, 0, 1), R("presence", 2, 1, 4, 2),
        R("transition", 1, 1, 4, 1)}
  \cup {R(kind, id, 1 + (id % 2), IF id = 4 THEN 2 ELSE 0, 1 + (id \div 3)) :
          kind \in {"observation", "segment"}, id \in 1..4}

Q(tool, entity, from, to, cell) ==
  [tool |-> tool, entity |-> entity, from |-> from, to |-> to, cell |-> cell,
   sortBy |-> "first_seen", ascending |-> FALSE, min |-> 0]
Search(sortBy, ascending, min) ==
  [Q("search_entities", Unset, Unset, Unset, Unset) EXCEPT
     !.sortBy = sortBy, !.ascending = ascending, !.min = min]

MCQueries ==
  {Search(c, a, m) : c \in {"first_seen", "subject"}, a \in BOOLEAN, m \in {0, 5, 6}}
  \cup {Q("get_entity_timeline", e, f, t, Unset) :
          e \in {Unset, 1}, f \in {Unset, 0, 4}, t \in {Unset, 0, 4}}
  \cup {Q(tool, Unset, f, t, c) :
          tool \in {"get_presence", "get_transitions", "get_events", "get_segments"},
          f \in {Unset, 0, 4}, t \in {Unset, 0, 4}, c \in {Unset}}
  \cup {Q("get_observations", e, Unset, t, c) :
          e \in {Unset, 1, 2}, t \in {Unset, 1}, c \in {Unset, 1, 2}}
MCLimits == {-1, 0, 1, 3, 9}
=============================================================================
