# Verification of xqmob in TLA+

xqmob turns normalized mobility observations (id, timestamp, position, accuracy
radius) into canonical events and analytical tables. This directory models its
decision logic, the data path around it and the life of its output, checks the
models with TLC and proves theorems about them with TLAPS. Paths below are
relative to the repository (`internal/...`, `docs/...`); the modules are in this
directory.

## 1. The system

    CSV -> PartitionCSV -> per partition: read, sort -> per entity: Eventize
        -> validate.Event -> Writers.WriteResult -> Close -> storage -> manifest
    readers of the output directory: inspect, validate, analyst (DuckDB), mcp

| Component | State it keeps | Operations | What makes it correct | Module |
|---|---|---|---|---|
| ingestion (`input/csv.go`) | partition and rejects writers, counters | accept, reject, abort in strict mode, flush, close | every row accounted for; buffered errors reported; times read in the documented unit | `Ingest`, `Timestamp` |
| normalization (`pipeline.go` sort, `collapseSameTimestamp`) | none | sort, cut, collapse | entities whole, times strictly increasing; independent of the row order | `Normalize` |
| eventizer loop (`eventizer.go` `Eventize`) | phase, anchor, members, departure candidate, pending transition; events, intervals, transitions, counters | one branch per observation, end of input | no claim from evidence across a break; departures exactly when the evidence is there; links resolve; counters close; one timeline | `Eventizer`, `PresenceContract`, `EventizerContract` |
| targeted traces (`eventizer.go`, `output/trace.go`) | the rows of one entity | append, complete at the end | the trace tells the history the counters and tables tell | `Trace` |
| projections (`buildSegments`, `buildTrack`, `buildEntity`, `spatial_diagnostics.go`) | totals of the run | fold over observations and events | aggregates agree with the rows and with each other | `Projections` |
| event validation (`validate/events.go`) | none | judge an event, a file | what the eventizer makes conforms; damage to what is judged is reported | `Validation` |
| output writers (`output.go`) | row buffers, counts, first error | write, flush, close | no row lost or repeated at a batch boundary; errors reported | `Writers`, `TableContract` |
| dataset run (`pipeline.go` `Run`) | one output directory | check, stage, remove stale, copy, open, write, close, stat, manifest, heap profiles | a manifest vouches for whole artifacts of its own run; failed ingestion harms nothing; nothing stale in a success | `DatasetRun` |
| analyst (`analyst.go`) | manifest and views of the opened dataset | pages, explanations | pages are the result, once; explanations show what was judged | `AnalystPages`, `Explain`, readers in `DatasetRun` |
| streaming quantiles (`metrics/quantile.go`) | five markers | add, value | markers ordered, estimate in range and keeping up | `P2` |
| MCP server, configuration, command line, geometry encodings and ids | descriptive | | see section 7 | |

Components interact by plain calls within one goroutine; entities are
independent of each other until their rows meet in the totals and the tables.
What is shared over time, and can be cut off by a failure or a crash, is the
output directory. A reader session is separate calls, each a new query.
`PROJECT.json` lists every component with its status and every hazard at its
line.

**What is hard here.** What the eventizer says about an observation depends on
the whole past: a forgotten reset shows many observations later. Most facts are
computed twice, by code in different files (counters and rows, trace and
diagnostics, sink counts and run counts, the analyst's reason and the
eventizer's), and nothing but agreement makes them right. Files are buffered, so
an error may appear long after the row that caused it. A run has a dozen steps,
each of which may fail or be the last before a crash.

## 2. Modules

A definition named `D_Variant` is `D` with a plausible defect. No definition uses
it; `PROJECT.json` pairs each with the property that detects it.

### Eventizer, PresenceContract, EventizerContract

One action per branch of the loop in `internal/eventizer/eventizer.go` (152-316)
and one for the end of the input.

| TLA+ | Go |
|---|---|
| `obs` | the observations with their edge metrics (`assignTrajectoryMetrics`), as far as the loop has read them |
| `state` | `presenceState` |
| `pending`, `NoPending` | `*pendingTransition`, `nil` |
| `events`, `presence`, `transitions`, `diag` | the slices and counters `Eventize` fills |
| `result` | sorted events and labelled observations, once `Eventize` returns |
| `ContinuityBreak` | gap and/or discontinuity (159-207) |
| `ConfirmArrival`, `ConfirmPresence` | second supporting observation, with and without ENTER (209-244) |
| `Reanchor` | seeking, not supported (245-256) |
| `RemainInside` | present, inside; withdraws a candidate (258-269) |
| `DepartUnconfirmed` | present, outside, confirmation off (270-282) |
| `StartCandidate`, `RestartCandidate`, `ConfirmDeparture` | present, outside, confirmation on (284-312) |
| `Finish` | end of input: close, END, sort, label, enrich (318-375) |

The code computes all edge metrics before the loop. An edge depends only on its
two ends, so the model measures an observation when the loop reaches it; no
action looks ahead. Indices start at 1. An identifier that is a hash of an
observation is the index of that observation, which is exact as long as the hash
has no collisions. Positions, the distance between them and the mean of several
are constants: TLC gets points on a line; the proofs assume that a distance is a
natural number, zero between equal positions, and, for the labels alone, that the
mean of positions near an anchor is no farther from it than one of them
(`CentroidAssumption`). Times, distances and speeds are integers; the
comparisons (`>` or `>=`) are the code's.

`PresenceContract` says what a reader of the events may rely on, without
observations or candidates: at most one claim is open (present somewhere, or
departed from somewhere); only a known departure becomes an arrival; a break or
the end drops the claim. `EventizerContract` gives the refinement mapping.

### Trace

Extends the eventizer with the rows of a traced entity: the state before and
after each observation, the decision named in its branch, the events emitted. The
end of the input is written into the last row, as in the code. Coordinates and
prose are left out. The decision the code appends to the last row at the end of the
input (`dataset_end`) is the field `ended`.

### Validation

The Core Events of the `make*Event` functions and `closePresence`, and the rules
of `validate.Event` and `EventsFile`. `Damaged` gives, for one event, the events
that differ from it in one field that is judged, and wrongly; `Unjudged` those that
differ in one field as no rule notices (section 6).

### Projections, Explain

`Projections` lets the eventizer process one entity after the other and builds,
when an entity ends, its segment, track and entity rows, edge counters and step
diagnostics, and adds them to the totals of the run; a Go map of counters is a
bag of its keys (`Tally`). `Explain` adds the two explanations of the analyst, asked about any event of
the entity just finished: the tables hold milliseconds, so the analyst finds an
event's observations again by time, with rows of equal time in any order.

### Ingest, Timestamp, Normalize

`Ingest` is `PartitionCSV`, a step for every open, row, write, flush and close,
with `bufio`'s sticky errors and the deferred closes. A row is what its parsing
finds: entity, class of its accuracy cell, the checks it fails; the code's order
of checks decides the reason. `strict` is chosen when the call begins. `Timestamp`
is `ParseTimestamp` for numbers: the limits on length and exponent, integer split by
truncated division, or rational rounding, and the check of the years that may be
stored. Of a text the model keeps the number it writes, its form, whether it has more
than 128 characters and whether its exponent lies outside -400..400; a text of more
than 128 characters may write any number, and one that is shorter and has such an
exponent only zero, a number out of range or one far below a nanosecond. `Normalize` is the read-back,
the stable sort, the cut into entities and `collapseSameTimestamp`; it maps files
of rows to calls of `Eventize`.

### Writers, TableContract

`Writers` is `WriteResult`, `parquetSink` and `Writers.Close`, a failure possible
at every row, batch, flush and close. `TableContract` is an append-only table
that is published with exactly the rows it was given or reported as failed;
`Writers` implements it.

### DatasetRun

Successive runs of `pipeline.Run` in one output directory. An artifact is absent,
partial or whole and belongs to the run that made it. Each step is one file
operation in the code's order (`RemovalOrder`, `CreationOrder`, `CloseOrder`);
before each step the run may fail, with the deferred clean-up, or be killed,
without it. `canonical/`, `analysis/` and a `--temp-dir` that the user placed in the
output directory are made and never removed (`subdirs`), which matters to the check
for an empty directory. A `--temp-dir` in the output's `diagnostics/`, which the code
refuses together with `--replace`, is left out. `entities` and `observations` stand for the six
tables both profiles write, `traces` for `diagnostics/traces`. Heap profiles are
captured at the five milestones between phases, in a directory elsewhere or under
the output's own `diagnostics/`; those at a quarter, half and three quarters of
the partitions are left out. Ingestion is one step here and many in `Ingest`;
writing is one here and many in `Writers`. Runs do not overlap; an encoded
manifest is taken as whole. `Opens` and `Inspects` say when `analyst.Open` and
`inspect.Load` accept a directory.

### AnalystPages

Collection queries with their filters and orders, limits (absent, negative, over
the cap), offset cursors and `has_more` by one row beyond the page. Each page is
a new query; a client may change the limit between calls and lose an answer.

### P2

The P² estimator: initial sort, cell search, desired positions, parabolic and
linear adjustment. Heights are integers of a resolution, rounded down.

## 3. Runs

| Run | Bounds | What it shows |
|---|---|---|
| `eventizer_confirmed` | 6 observations, places 0, 180, 600 m, steps 3, 4, 5 s, confirmation on | private state, evidence, departures and counters; trace against counters, events and rows |
| `eventizer_unconfirmed` | the same, confirmation off | disjoint presences, one timeline, validation of every event and of every change to one field of it |
| `eventizer_long` | 10 observations, places 0, 180 m, steps 3, 5 s | links of transitions, the contract, over several departures, arrivals and breaks |
| `eventizer_accuracy` | 5 observations, places 0, 140, 200 m, radius missing or 40 m, steps 3, 5 s | labels, rows of one entity, explanations of every event |
| `projections_run` | 2 entities of up to 3 observations, places 0, 360, 780 m, radius missing or 0 | edge counters and step diagnostics of a run |
| `ingest` | 4 rows of 9 kinds, 2 partitions, a buffer of 1 row, strict and lenient | row accounting, durability, result against files, return |
| `timestamp` | numerators -1000 to 1000, denominators 1, 2, 3, 5, 128, 1000, texts within and over the limits of length and exponent, a clock with Kilo 4 and Milli 6 | numbers are read in their unit or refused as documented |
| `normalize` | files of up to 4 rows over 11 fixes of 3 entities, 2 partitions | entities whole, row order irrelevant |
| `writers` | 3 tables, batches of 2, 3 results of 1-3 observations, 2-3 events, 1 entity row | counts, canonical file, the table contract |
| `dataset_run` | 3 runs, 6 option sets, failure or crash at every step | the lifecycle properties, readers, termination |
| `analyst_pages` | every subset of the rows of a small table, limits -1, 0, 1, 3, 9 (default 2, cap 3), 1 lost answer | pages and sessions |
| `quantile` | 15 observations of 0, 100, 700, the median | markers and estimate |

Why these bounds are enough to be interesting:

- *Eventizer.* The shortest history that exercises a link is six observations:
  two to be present, two to leave, the second of which can be the first of the
  destination, one to support it, one more to close or break it. Ten allow a
  second departure, where an id or a counter left over from the first shows. The
  distances lie above the radius (60) and below, at and above the jump limit
  (420); steps lie at and above the confirmation window (3), below, at and above
  the gap (4) and the dwell threshold (4), and put 420 m above, at and below the
  speed limit (105 m/s).
- *Accuracy.* With a speed limit of 45 m/s and a jump limit of 150 m, a fix 140 m
  away is at the same place when both fixes have a radius, a move when one has,
  and too fast in 3 s when none has; 200 m is a jump unless both have one. All
  three reasons of a discontinuity occur. The centroid is rounded down, here and
  in `eventizer_long`.
- *Explanations.* The clock ticks twice a millisecond; fixes are a millisecond apart
  or more. The code shows the six observations nearest to an event; of the up to five
  in this run two are shown, so that which are left out matters. The theorem holds for
  every limit. A call of the analyst keeps no state, so each is asked once of the tables.
- *Ingestion.* A buffer of one row makes an error appear at the write, at a later
  write, at the flush or at the close. Nine kinds of row cover every reason, a row
  with two defects, every class of accuracy and both partitions.
- *Timestamps.* The clock is scaled so that every threshold of magnitude and both
  ends of the range are crossed by numbers of either form, each of them also in a text
  that is too long. With the largest denominator there are numbers that an exponent
  below -400 can write.
- *Writers.* Batches of two with one to three rows end before, at and after a
  boundary, within a result and across results.
- *Dataset.* Three runs are a dataset, a replacement cut short and a successor.
  The option sets are lean, full with traces and profiles elsewhere, replacing
  with the workspace outside, the workspace below a directory of its own in the
  output, keeping the workspace, and profiles under the output.
- *Pages.* Rows share times within a table and across the tables of a timeline, so
  that only the identifier separates them. With a default limit of two, a cap of
  three and up to six rows, sessions have one page, a last page that is full and
  one that is not. One answer is lost at any point.
- *Quantile.* The median of three unevenly spaced values; fifteen observations give
  the markers ten rounds of adjustment after the first five have placed them.

Deadlock is not checked: every system modelled here stops when its input ends or
its call returns; that it does not stop earlier is what the liveness properties
say.

Fairness is stated where a call must return and nowhere else:

- `Ingest`: `WF_vars(Next)`. `PartitionCSV` is one sequential loop over a file that
  ends; each of its steps is a call that returns or fails.
- `DatasetRun`: `WF_vars(Progress)`, the steps of a run that has begun. `Run` waits
  for nothing but the file system. No run has to begin, to fail or to be killed.
- `AnalystPages`: weak fairness of the server's answer or refusal and of the client
  that collects it. Losing an answer is not fair, and happens at most `MaxLosses`
  times.

The eventizer, the writers and the estimator are functions of their input and have
safety properties only.

## 4. Properties, by hazard

- *Decisions.* `StateCoherent`, `ImplementsContract` of the eventizer: the loop's
  private state never holds a combination its branches do not expect.
  `EvidenceIsContinuous`: nothing is inferred across a gap or discontinuity.
  `DeparturesAreExact`: stated on the observations alone, with no reference to
  the candidate; the window, the return inside and the restart must all be right.
  `NoPresenceMissed`: the search passes over no supporting pair.
- *Several accounts of one history.* `PresencesDisjoint`, `TransitionsLink`,
  `IntervalsLabelTheirStart`, `TimelineTellsOneStory`: tables, ids predicted in
  advance, dated-back events and labels agree. `CountersClose`: the identities of
  `docs/DIAGNOSTICS.md`; the identity of candidates is claimed, and holds, only
  with confirmation on. `TraceNamesEveryEvent`, `DecisionsAreCounted`,
  `TraceExplainsPresence`: the trace against all of these. `SegmentsTileTrack`,
  `PathRunsAgree`, `RowsFitTogether`: the rows against the trajectory and each
  other. `EdgesClose`, `StepDiagnosticsAgree`: the same edges, counted by three
  pieces of code. `ValidationHolds`: the validator against the eventizer, since one
  refused event aborts a run, and what the validator notices of a wrong field and what
  it does not. `ExplanationsHold`: the analyst, which has neither
  indices nor source times, against what the eventizer judged.
- *Input.* `TimestampsAreRead` (rejected for the documented limits and the calendar,
  and for nothing else), `RowsAccounted`, `ResultDescribesFiles`,
  `EntitiesAreWhole`, `RowOrderIsIrrelevant`.
- *Late errors.* `SuccessIsDurable`, `Returns`, `StatsDescribeTables`,
  `CanonicalIsTheEventTable`, `ImplementsContract` of the writers.
- *Crashes and replacement.* `ManifestCertifies`, `PreviousDatasetSurvives`,
  `SuccessIsFresh` (README.md:92-98 and :423), `ReadersSeeOneRun`, `RunEnds`. The
  exception in `ManifestCertifies` is what the code does: a replacement removes
  `diagnostics/` before the manifest, so a crash in between leaves an old manifest
  that lists missing traces; README.md:98 says that replacement is not
  transactional. The exceptions in `PreviousDatasetSurvives` are the options that put
  something into the directory which stays.
- *Stale cursors.* `PagingHolds`, `SessionEnds`.
- *Degenerate numbers.* `MarkersOrdered` (no division by zero), `EstimateFollows`.

## 5. Theorems

All are checked by TLAPS for every value of the constants that satisfies the named
assumptions of the modules.

| Module | Theorem | States |
|---|---|---|
| `EventizerProofs` | `TypeCorrect` | `TypeOK` |
| | `StateCoherence` | `StateCoherent` |
| | `CandidatesClose`, `PendingTransitionsClose`, `PresencesClose` | `CandidatesAccounted`, `PendingAccounted`, `PresenceAccounted` |
| | `CountersAlwaysClose` | `CountersClose`, the three together |
| | `EvidenceAlwaysContinuous` | `EvidenceIsContinuous` |
| | `PresencesAlwaysDisjoint` | `PresencesDisjoint` |
| | `DeparturesAlwaysExact` | `DeparturesAreExact` |
| | `NoPresenceEverMissed` | `NoPresenceMissed` |
| | `TransitionsAlwaysLink` | `TransitionsLink` |
| | `ContractImplemented` | `ImplementsContract`: initial states and steps map to `PresenceContract` |
| | `TimelineAlwaysTellsOneStory` | `TimelineTellsOneStory` |
| | `IntervalsAlwaysLabelTheirStart` | `IntervalsLabelTheirStart` |
| | `ValidationAlwaysHolds` | `ValidationHolds` |
| | `TraceCountsDecisions` | `DecisionsAreCounted` |
| | `TraceAlwaysNamesEvents` | `TraceNamesEveryEvent` |
| | `TraceAlwaysExplains` | `TraceExplainsPresence` |
| `ProjectionsProofs` | `SegmentsAlwaysTile` | `SegmentsTileTrack` |
| | `PathsAlwaysAgree` | `PathRunsAgree` |
| | `RowsAlwaysFit` | `RowsFitTogether` |
| | `EdgesAlwaysClose` | `EdgesClose` |
| | `StepsAlwaysAgree` | `StepDiagnosticsAgree` |
| | `ExplanationsAlwaysHold` | `FixesApart => ExplanationsHold` |
| `InputProofs` | `TimestampsAlwaysRead` | `TimestampsAreRead` |
| | `EntitiesAlwaysWhole` | `EntitiesAreWhole` |
| | `RowOrderNeverMatters` | `RowOrderIsIrrelevant` |
| `IngestProofs` | `TypesHold` | `TypeOK` |
| | `RowsAreAccounted` | `RowsAccounted` |
| | `SuccessMeansDurable` | `SuccessIsDurable` |
| | `NothingStaysOpen` | `NothingLeftOpen` |
| | `ResultsDescribeFiles` | `ResultDescribesFiles` |
| `WritersProofs` | `BatchesStayBounded` | `BatchesAreBounded` |
| | `StatsAreRight` | `StatsDescribeTables` |
| | `CanonicalIsRight` | `CanonicalIsTheEventTable` |
| | `WritersKeepTheContract` | `ImplementsContract`: initial states and steps map to `TableContract` |
| `DatasetRunProofs` | `TypeCorrect` | `TypeOK` |
| | `ManifestAlwaysCertifies` | `ManifestCertifies` |
| | `PreviousAlwaysSurvives` | `PreviousDatasetSurvives` |
| | `SuccessAlwaysFresh` | `SuccessIsFresh` |
| | `ReadersAlwaysSeeOneRun` | `ReadersSeeOneRun` |
| `AnalystPagesProofs` | `PagingAlwaysHolds` | `PagingHolds` |
| `P2Proofs` | `MarkersStayOrdered` | `MarkersOrdered` |
| | `EstimateAlwaysFollows` | `EstimateFollows` |

Assumptions: distances, radii, thresholds and time steps are natural numbers (the
code rejects negative ones and collapses equal timestamps; that they are whole is
the model's abstraction); at least one partition, table and row to a batch, which
the code's constants and checks give; every entity has a partition; a quantile
strictly between 0 and 1; bounds of the step buckets that increase
(`dtBucket`, `effectiveDistanceBucket`); the convexity of a mean above, which holds
of the spherical mean of `geo.MeanCentroid` as long as a presence reaches less than
a quarter around the earth; the rows of a table are finitely many and have an
identifier of their own; entity ids that compare as equal are equal (they are
compared as strings); the units of a timestamp differ by a factor of at least two.
The bounds on inputs and runs are arbitrary.

The arguments:

- *Eventizer.* `StateCoherent` is not inductive alone. The pending transition is
  kept in the segment of the latest observation, but `ConfirmArrival` compares it
  with the segment of the anchor; `AnchorSegment` closes the gap. `Inductive` is
  `TypeOK /\ StateCoherent /\ AnchorSegment`, one lemma per action. It also shows
  that defensive branches of the code cannot be reached: a movement arrival always
  has a pending transition, in the anchor's segment.
- *Counters.* One arithmetic lemma for each identity: a step that counts the names
  in a set S once each preserves it if what S starts, plus what was open, equals
  what S ends, plus what is open. The lemma of an action only says which names it
  counts and what it opens or closes.
- *Evidence.* The five properties of records are inductive only together
  (`Evidence`), with what the loop knows of the presence still open: its last
  member, the fixes seen outside since, and that they are no departure yet
  (`OpenPresence`); and with what it remembers of the closed ones: a break lies
  after those it ended (`Sound`), a pending transition departs from the last of
  them (`PendingLeft`), an entered presence has its transition before it is closed
  (`EntryLinked`).
- *Contract.* The refinement is proved step by step: an action either moves the
  claim of `PresenceContract` as one of its actions does or leaves it alone.
  `StateCoherent` is what rules out that an arrival has no known departure.
- *Timeline.* The order in which events are emitted is not the published one: an
  ENTER is emitted one observation late with the time of its anchor, an interval
  when it closes with the time at which it began. So the invariant says nothing of
  the order of emission: the events are a chronicle in which each says what a
  record bears out, each record has its events and no two share an observation and
  a rank (`Chronicle`); time passes from fix to fix (`Clock`). A lemma about
  sorting by places (the place of an event counts those before it) makes the
  published order strict (`InOrder`), and the story follows from it and `Evidence`.
- *Labels.* The label of an observation is decided by its distance to the centroid.
  Members lie inside (`Gathered`), so the centroid is no farther from the first
  than some member let in by the radius, its own accuracy and that of the first
  (`Centred`); the first allows the centroid the same, short of the member's accuracy.
  No other presence holds the first observation, so no later label replaces its own.
- *Validation.* Nothing is checked when an event is made; that it passes follows from
  three invariants: the first observation is at no edge and the class of a closed
  presence is that of its duration (`Measures`), an interval ends after it began
  (`Evidence`), and the chronicle says which record an event speaks of. What the loop
  makes is characterized once, field by field (`IsCore`); that damage to a field that
  is judged breaks a rule (`DamageIsNoticed`) is then a case for each field. The rules
  are restated over the fields they read (`Passes`), so that what is unjudged passes
  (`UnjudgedPasses`) because those fields are the same or remain in bounds.
- *Trace.* One decision is counted for each row appended; a cardinality lemma
  turns that into equality of counters. That the rows name the events is about a
  recursive function: it is proved by induction on the number of events that a step
  emits and is left alone below the row it adds. A presence, closed or open, is
  told by the rows from its first member to its end (`Told`).
- *Sums.* Rows and totals are folds, of which the prover knows only their
  definition. A function that adds up, set by set, as the fold does shows that what is
  added up part by part is what is added up at once (`AddUpParts`), and likewise
  for tallies, which weigh what they were made from (`TallyWeighs`, `AddedTallies`).
- *Projections.* Beside `Evidence` and `Clock` the proof needs that every edge was
  measured when its later fix was read and that an arrival begins in order
  (`Trajectory`). Segments are the runs between discontinuities; runs are the
  only ones with their cuts (`RunsAreUnique`) and join where they meet, so the
  segments tile the track and their lines join to its line. No edge
  belongs to two presences or transitions, so their durations add up to no more than
  the coverage. What the totals satisfy is stated in a form that holds of nothing,
  of what one entity adds and of a sum when it holds of its terms
  (`Agree`); with the rows of the entity in hand it is inductive (`Projected`), and
  entities may follow each other for ever.
- *Explanations.* A call changes nothing, so all it needs is that only events of a
  presence name one and that the steps are those of the input (`Explicable`). The two
  latest rows up to a time are those of the edge if no two fixes share a
  millisecond: `FixesApart`, which says that no step is shorter. Without it the
  property is false (section 6).
- *Timestamps.* A number is its truncated quotient and remainder, the latter on its
  own side of zero (`Truncated`), and the two rejoin to the number (`Rejoined`). So an
  integer in a unit names exactly its instant, a rational is rounded by at most half
  a nanosecond, and a decimal that is whole, which takes the other path, is exact too.
- *Normalization.* Both comparisons are strict total orders on rows with numbers of
  their own, so counting what comes before a row sorts them, and a maximal run of
  equal times is all rows of that time. The invariant (`Normal`) says which rows wait,
  that each entity known was told of completely, and counts rows and instants; it is
  inductive because the sort puts the rows of an entity in one run, so a call of
  `Eventize` gets all of them. That the order of the rows is irrelevant follows: two
  fixes preferred for one instant have the same content, so the observation has the
  shape the fixes ask for, and instants and shapes are equally many.
- *Ingest.* The invariant adds `NoErrorYet` (no error is remembered until closing
  has begun or the call is failing) and `FilesFollow` (which files are open,
  flushed or closed follows from the phase and the next file). For the contents,
  every file lists in input order the rows read so far that belong to it until
  something fails, and appending the row read last keeps a list (`Listing`).
- *Writers.* Until something fails, what a sink has written and what it buffers
  are together what it was given; the canonical file and both sets of counts keep
  step. The contract is then a step-by-step implication.
- *Dataset.* The invariant says what is on disk in every phase, and `Certified`
  strengthens `ManifestCertifies`: beside a complete manifest there is also nothing
  it does not list. That is what a reader relies on that looks for a tracks table
  without asking the manifest. It holds because a manifest is made complete only
  when the directory holds exactly what is listed, and because everything that
  would disturb it comes after its removal (only the traces go before).
- *Pages.* Every order ends in an identifier, so DuckDB has one answer to give
  each time it is asked (`ResultIsDetermined`). What was delivered is a beginning of
  that answer, as long as the cursor's offset says, and a page not yet collected is
  the piece that follows (`Session`), whatever limits are asked for.
- *P2.* Positions increase strictly and heights are ordered at every round; the
  parabolic move is taken only between its neighbours, the linear one is a convex
  combination. An inner marker that lags by a position moves unless its neighbour
  is in the way, so its lag is bounded by its neighbour's and by how far their
  desired positions are apart (`KeepsUp`); the bounds of the three differ because
  markers are adjusted from left to right.

The library's induction theorems take an operator as a parameter, which the provers
cannot instantiate. Where a proof needs induction over the natural numbers it takes
the least counterexample, which exists by a theorem about well-founded relations
that has no such parameter. For the same reason the model sorts by counting places,
and `ResultDescribesFiles` speaks of sets and their order, not of filtered
sequences.

Proved but in no run, since TLC would add nothing: `NothingLeftOpen`,
`BatchesAreBounded`, the types of `Ingest` and `DatasetRun`.

Every invariant a run checks is stated by a theorem. Only model-checked are
`Returns`, `RunEnds` and `SessionEnds`, liveness under fairness, which is out of the
prover's reach.

## 6. Disagreements observed

Places where the code and its documents part, or where the code does something a
user may not expect. None is stated as a property.

- `eventizer.go:411`: of several fixes with the same time, place and accuracy, the
  retained source row and lexical precision depend on the order of the input,
  while docs/MOBILITY-EVENTIZER-V1.2.md:41 lets the source row decide only between
  fixes whose normalized content is otherwise identical.
  `RowOrderIsIrrelevant` is about everything ids and events are made of, and
  leaves these two columns out.
- `analyst.go:678` against docs/MCP.md:90: for fixes less than a millisecond apart,
  which numeric timestamps allow, `explain_discontinuity` may show another pair
  than the one that was judged. `ExplanationsHold` is checked and proved for fixes
  further apart.
- `eventizer.go:343`: labels go by the distance to the centroid. With accuracy radii
  above about 0.7 of the move radius an interval may label none of its own
  observations: 60 m to move, radii of 100 m, an anchor and many fixes 260 m to its
  north-east and south-east, whose mean is some 184 m from all of them, more than the
  160 m a label reaches. On a line this cannot happen, so no run shows it; what holds
  is `IntervalsLabelTheirStart`.
- `events.go:77-134`: `validate.Event` accepts some wrong events. It compares a
  magnitude with the times of STAY and DWELL only: GAP and DISCONTINUITY need a
  magnitude and its unit, of any amount. The other events may carry an `end_time`
  that is not before `event_time`, a magnitude or a unit; the time of an event that is
  no interval may be shifted; of the recorded parameters only the names are required,
  and the dwell threshold is compared with the duration. No rule reads the entity, the
  location, the segment or the rest of the context, nor which id or source it is.
  `UnjudgedIsAccepted`, a part of `ValidationHolds`, says this of the modelled fields.
- `pipeline.go:397`: a `--temp-dir` inside the output directory is created and never
  removed. If the ingestion then fails, nothing else is left, but the next run into
  this directory is refused unless it has `--replace`. `PreviousDatasetSurvives`
  excepts it.
- `pipeline.go:743` and README.md:291: with `--profile-memory` under
  `OUT/diagnostics` and `--replace`, the removal of stale artifacts deletes the
  directory of the profiles already written; the next capture fails the run, after
  the old dataset is gone. `DatasetRun` contains this run; the lifecycle properties
  hold in it.
- `main.go:105-108`: an argument that follows the input file and the flags is
  ignored (`xqmob eventize a.csv b.csv` reads `a.csv`), which the usage text at
  `main.go:235` does not offer.
- `pipeline.go:683`: a threshold that is not a number passes the comparison with
  zero.

## 7. Not modelled

- Command line, MCP registration, printing and file formats: they keep no state
  beyond the configuration; most of their code is wording.
- Configuration: each threshold is checked alone before a run begins; the result
  is the assumptions of the modules.
- Geohash, H3, WKB, hashing, trigonometry: floating point and byte layout. Distance
  and centroid are parameters.
- SQL, the CSV, gob and Parquet formats, RFC 3339 and JSON decoding: libraries.
- `describe_h3_cell`, entity summaries and bundles of the analyst, which only select
  rows; a dataset replaced under an open session, and runs started together in one
  directory, of which no document promises anything.
- Errors reported only when the manifest or a trace file is closed, which the code
  ignores.
- Memory sampling, throughput, source characterization (spatial shares, lexical
  precision) and `DistributionEstimator` (three independent estimators behind a
  filter of values that are not finite): descriptive.

## 8. Plan

1. An abstract dataset store (absent, complete, in doubt) that `DatasetRun`
   implements, and a session that stays open across a replacement, once a document
   says what it may expect.
2. `Ingest` and `Writers` composed with `DatasetRun` in place of its one-step
   phases.
