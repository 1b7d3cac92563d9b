----------------------------- MODULE AnalystPages -----------------------------
(***************************************************************************)
(* The collection queries of internal/analyst/analyst.go: a client asks    *)
(* for a page, gets its rows and an opaque cursor, and hands the cursor    *)
(* back for the next page.  The server keeps nothing between two calls:    *)
(* every page is a new query whose rows DuckDB orders again.  The client   *)
(* may ask for another limit each time and may lose an answer and ask      *)
(* again with the cursor it has.                                           *)
(*                                                                         *)
(* A row keeps the columns queries filter and order by.  Of the filters a  *)
(* tool adds to entity and time (class, accuracy support, a second cell,   *)
(* further minimums) one equality and one minimum stand for all.           *)
(*                                                                         *)
(* A definition D_Variant is D as a plausible defect would leave it.       *)
(***************************************************************************)
EXTENDS Integers, SequencesExt

CONSTANTS
  Rows,          \* rows the tables may hold
  Queries,       \* the queries a session may page through
  Limits,        \* limits a call may ask for; 0 stands for an absent one
  DefaultLimit, MaxLimit,
  HasH3,         \* the dataset has materialized H3 cells
  MaxLosses      \* bound on the answers the client loses

ASSUME LimitAssumption ==
  /\ MaxLimit \in Nat /\ DefaultLimit \in 1..MaxLimit
  /\ Limits \subseteq Int /\ MaxLosses \in Nat

\* A table is finite, and the column its ORDER BY ends in is an identifier
\* made by idgen.Stable, which no two of its rows share.
ASSUME RowAssumption ==
  /\ IsFiniteSet(Rows)
  /\ \A r \in Rows : r.ts \in Int /\ r.id \in Int
  /\ \A a, b \in Rows : a.kind = b.kind /\ a.id = b.id => a = b

\* The collection tools of the server.
Tools == {"search_entities", "get_presence", "get_transitions", "get_segments",
          "get_events", "get_observations", "get_entity_timeline"}

ASSUME QueryAssumption == \A q \in Queries : q.tool \in Tools

VARIABLES
  table,      \* the rows of the dataset
  query,      \* the query the session pages through
  status,     \* "ready" to call, "answered", "done" or "refused"
  page,       \* the last answer
  cursor,     \* the cursor the next call hands in
  delivered,  \* the rows collected so far
  losses      \* answers lost so far

vars == <<table, query, status, page, cursor, delivered, losses>>

-----------------------------------------------------------------------------
(* Queries.                                                                *)

Unset == -1  \* a filter or a bound that is not given

\* The views a tool reads; get_entity_timeline is a union of three.
KindsOf(tool) ==
  CASE tool = "search_entities"  -> {"entity"}
    [] tool = "get_presence"     -> {"presence"}
    [] tool = "get_transitions"  -> {"transition"}
    [] tool = "get_segments"     -> {"segment"}
    [] tool = "get_events"       -> {"event"}
    [] tool = "get_observations" -> {"observation"}
    [] tool = "get_entity_timeline" -> {"event", "presence", "transition"}

SortColumns == {"observation_count", "transition_count", "discontinuity_count",
                "presence_count", "total_dwell_s", "first_seen", "last_seen"}

Refused(q) ==
  \/ q.tool = "search_entities" /\ q.sortBy \notin SortColumns
  \/ q.tool = "get_observations" /\ q.entity = Unset /\ q.cell = Unset
  \/ q.tool = "get_entity_timeline" /\ q.entity = Unset
  \/ q.from # Unset /\ q.to # Unset /\ q.from > q.to
  \/ q.cell # Unset /\ ~HasH3

\* Both time bounds are inclusive and concern the time the row starts.
Matches(q, r) ==
  /\ r.kind \in KindsOf(q.tool)
  /\ q.entity # Unset => r.entity = q.entity
  /\ q.cell # Unset => r.cell = q.cell
  /\ q.from # Unset => r.ts >= q.from
  /\ q.to # Unset => r.ts <= q.to
  /\ q.tool = "search_entities" => r.ts >= q.min

KindRank(r) ==
  CASE r.kind = "event" -> 1 [] r.kind = "presence" -> 2 [] OTHER -> 3

\* The ORDER BY clauses: of a table by its time, of the entities by the column
\* asked for (an entity row's ts), and of the union.
TimeBefore_NoId(a, b) == a.ts < b.ts
TimeBefore(a, b) ==
  \/ a.ts < b.ts
  \/ a.ts = b.ts /\ a.id < b.id

EntityBefore(q, a, b) ==
  \/ IF q.ascending THEN a.ts < b.ts ELSE a.ts > b.ts
  \/ a.ts = b.ts /\ a.id < b.id

TimelineBefore(a, b) ==
  \/ a.ts < b.ts
  \/ a.ts = b.ts /\ KindRank(a) < KindRank(b)
  \/ a.ts = b.ts /\ KindRank(a) = KindRank(b) /\ a.id < b.id

Before(q, a, b) ==
  CASE q.tool = "search_entities"     -> EntityBefore(q, a, b)
    [] q.tool = "get_entity_timeline" -> TimelineBefore(a, b)
    [] OTHER                          -> TimeBefore(a, b)

\* What DuckDB may return: rows the order does not separate come in any order.
Results(q) ==
  {s \in SetToSeqs({r \in table : Matches(q, r)}) :
     \A i, j \in DOMAIN s : i < j => ~Before(q, s[j], s[i])}

-----------------------------------------------------------------------------
(* Pages.                                                                  *)

NormalizeLimit_ZeroKept(n) ==
  IF n < 0 THEN DefaultLimit ELSE IF n > MaxLimit THEN MaxLimit ELSE n
NormalizeLimit(n) ==
  IF n <= 0 THEN DefaultLimit ELSE IF n > MaxLimit THEN MaxLimit ELSE n

\* The text of an offset, in base64; the empty cursor is the first page's.
EmptyCursor == <<>>
EncodeCursor(offset) == <<offset>>
DecodeCursor(c) == IF c = EmptyCursor THEN 0 ELSE c[1]

NoPage == [rows |-> <<>>, more |-> FALSE, next |-> EmptyCursor]

\* SQL's LIMIT and OFFSET: at most n rows after the first offset.
LimitOffset(rows, n, offset) ==
  [i \in 1..Min({n, Len(rows) - offset}) |-> rows[offset + i]]

\* LIMIT limit + 1 OFFSET offset: the row beyond the page tells if there is more.
QueryPage(rows, limit, offset) ==
  LET got == LimitOffset(rows, limit + 1, offset)
  IN  IF Len(got) > limit
      THEN [rows |-> SubSeq(got, 1, limit),
            more |-> TRUE,
            next |-> EncodeCursor(offset + limit)]
      ELSE [NoPage EXCEPT !.rows = got]

-----------------------------------------------------------------------------
(* A session.                                                              *)

Refuse ==
  /\ status = "ready" /\ Refused(query)
  /\ status' = "refused"
  /\ UNCHANGED <<table, query, page, cursor, delivered, losses>>

Answer ==
  /\ status = "ready" /\ ~Refused(query)
  /\ \E limit \in Limits, rows \in Results(query) :
       page' = QueryPage(rows, NormalizeLimit(limit), DecodeCursor(cursor))
  /\ status' = "answered"
  /\ UNCHANGED <<table, query, cursor, delivered, losses>>

\* The call is cancelled or its answer lost; the client has its old cursor.
LoseAnswer ==
  /\ status = "answered" /\ losses < MaxLosses
  /\ status' = "ready" /\ page' = NoPage /\ losses' = losses + 1
  /\ UNCHANGED <<table, query, cursor, delivered>>

Collect ==
  /\ status = "answered"
  /\ delivered' = delivered \o page.rows
  /\ IF page.more
     THEN status' = "ready" /\ cursor' = page.next
     ELSE status' = "done" /\ UNCHANGED cursor
  /\ page' = NoPage
  /\ UNCHANGED <<table, query, losses>>

Init ==
  /\ query \in Queries
  /\ table \in SUBSET {r \in Rows : r.kind \in KindsOf(query.tool)}
  /\ status = "ready" /\ page = NoPage /\ cursor = EmptyCursor
  /\ delivered = <<>> /\ losses = 0
Next == Refuse \/ Answer \/ LoseAnswer \/ Collect
Spec == Init /\ [][Next]_vars /\ WF_vars(Refuse) /\ WF_vars(Answer) /\ WF_vars(Collect)

-----------------------------------------------------------------------------
(* Properties.                                                             *)

Matching == {r \in table : Matches(query, r)}

\* docs/MCP.md, Bounded results and pagination: following the cursors, with
\* whatever limits and repeated calls, delivers every matching row exactly
\* once, in time (or sort) order, although each page is a query of its own.
PagesAreTheResult ==
  /\ \A i, j \in DOMAIN delivered : i # j => delivered[i] # delivered[j]
  /\ ToSet(delivered) \subseteq Matching
  /\ \A i, j \in DOMAIN delivered : i < j =>
       IF query.tool = "search_entities" /\ ~query.ascending
       THEN delivered[i].ts >= delivered[j].ts
       ELSE delivered[i].ts <= delivered[j].ts
  /\ status = "done" => ToSet(delivered) = Matching

\* A page never exceeds the hard cap, and one that announces more is not empty
\* and leaves rows that the next call can deliver.
PagesKeepTheirPromise ==
  /\ Len(page.rows) <= MaxLimit
  /\ page.more => /\ page.rows # <<>>
                  /\ Len(delivered) + Len(page.rows) < Cardinality(Matching)

\* A session gets the whole result, and each page says rightly if it is the last.
PagingHolds == PagesAreTheResult /\ PagesKeepTheirPromise

\* A client that keeps following the cursor comes to the last page, whatever
\* limits it asks for.
SessionEnds == <>(status \in {"done", "refused"})
=============================================================================
