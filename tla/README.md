# TLA+ models of the FaultSee dashboard

This directory holds TLA+ models of the data-shaping logic of the FaultSee
dashboard (`src/Dashboard/src`): how the views turn the imported JSON feeds
into plot series and into the show/hide state of containers. It also holds
the TLC configurations that check those models on small instances, and TLAPS
proofs of the main visibility invariants for every instance.

## 1. The system

The dashboard is a React app. Each view imports its datasets as module-level
JSON arrays. Every view runs on one thread. A handler or lifecycle method runs
to completion before React renders, and the `setState` calls inside it are
batched. The processes that interleave are therefore the user's clicks and
keystrokes, the mounts and remounts of a view, and the order of the records in
a feed.

| Part (spec.md name) | Code | State | Operations that change it |
|---|---|---|---|
| IdentifierNormalizer | `utils/containers_ids.jsx:10`, `views/logs.jsx:73`, `views/GraphContainers.jsx:208` | none | `substring(0, NUMBER_LETTERS)`. There are three copies of `NUMBER_LETTERS = 12`. |
| TimeBucketing | `roundMultiple` in `GraphContainers.jsx:126`, `Graph.jsx:51`, `GraphInstances.jsx:99` | none | pure |
| VisibilityModel | `Containers_IDS.Load`, and the handlers of `GraphContainers.jsx:69-113` and `logs.jsx:103-148` | `containers` (short id -> {disabled, service, slot}) and `services` (service -> short id -> {disabled, slot}) | Load, toggle_container, only_this_container, only_this_service, change_all_service, hide_all_service, show_all_service |
| SeriesAggregator | `load_containers_data` (`GraphContainers.jsx:131`), `load_host_data` (`Graph.jsx:56`) | `containers_data` and `hosts_data` (key -> parallel arrays) | one pass on mount with multiple 1; another on every keystroke in the multiple field, with `parseInt(field)` |
| EventTimelineBuilder | `loadContainerEvents` and `get_shapes` (`GraphInstances.jsx:53-119`) | `timelines` (service -> {x, y}), padded min/max, `shapes`, `multiple` | one pass on mount; `updateMultipleValue` |
| Logs view | `logs.jsx` | the module-level rows `array_data`, plus the same visibility tables | `load_logs_json` on every construction, `container_filter`, and the five handlers |
| Rendering | ServiceCard, ContainerCard, ToggleButton, FilterableTable, render methods | none of their own | offer the clicks; read the tables |

How the parts interact:
- Every view normalizes container ids with its own copy of the truncation.
- The plots of GraphContainers read the series and, for each series, look up
  `containers[id.substring(0,12)]` for its name and visibility.
- The log table filters its rows by the same `containers` table.
- The services table decides which service cards exist. Each card lists the
  containers whose `service` field is that card's service, and the cards
  offer the click handlers.

Hard behaviours of this code:
- **Truncation collisions.** Two raw ids that share 12 characters become one
  short id, and the last record wins.
- **Reassigned ids.** A short id listed under two services stays in both
  lists of `services`. No code reads those lists: a card filters
  `containers` by service, so the first service only keeps an empty card.
- **Unknown actions.** An event action outside start/die writes `undefined`
  into the count series, and `|| 0` then resets the count to 0.
- **Bucket arithmetic.** `roundMultiple` has JavaScript semantics: `%` keeps
  the dividend's sign, division by 0 gives NaN, and `parseInt` reads the
  exponent form of a small quotient.
- **Rebuilds.** Every keystroke rebuilds the series with the new multiple.
  NaN and 0 are reachable multiples.
- **Remounts.** The log rows are truncated in place in a module-level array
  on every construction, so a remount truncates the already truncated rows.
- **Join mismatches.** A series or a log row may name a container absent from
  the identity feed.

## 2. Modules

| Module | Models | Notes |
|---|---|---|
| `Normalize` | `canonicalize` and `roundMultiple` | `roundMultiple` is modelled by what the JS expression computes: `JsRem` gives the sign of `%`, and `ParseIntQuotient` gives parseInt of the quotient's string, including the exponent form below 1e-6, where `LeadingDigit` reads the first digit. A 0 or NaN multiple gives NaN. |
| `Visibility` | `Containers_IDS.Load` and the click handlers of GraphContainers | `LoadStep` is one iteration of Load's loop, so its loop invariant is a state invariant. `LoadDone` is the `setState` of `load_containers_ids`. There is one action per handler. `hide_all_service` and `show_all_service` are `change_all_service` with TRUE and FALSE. `Next` offers a click for every key of `containers` and `services`, which is exactly the set of buttons ServiceCard renders. The `slot` field and the disabled copy inside `services` are left out because no handler or view reads them. |
| `VisibilityModel` | the abstract visibility state of spec.md §4.5 | Its variables are a flag and a service per short id, and its operations are initialize, toggle, isolate, isolateService and setServiceVisibility. Visibility is checked to refine it under the mapping `AbsDisabled`/`AbsGroup`. Load's loop is invisible: the step that ends it maps to initialize. |
| `Timeline` | `loadContainerEvents` (one event per step), `get_shapes`, `updateMultipleValue` | The pushes, the bounds update and the counts are separate operators, `AppendPoints`, `TrackBounds`, `PrevY` and `NewY`, each mapped to its lines. JS `undefined` is the model value `Undefined`. |
| `LogsView` | `logs.jsx`, composed with `Visibility` | `array_data` persists across constructions. `Remount` is a new construction: it re-runs `load_logs_json` on the shared rows, empties the tables and starts Load again. `LogsNext` gives the view's five handlers, the same as Visibility's. |
| `Series` | `load_containers_data`, composed with `Visibility` | The pass runs one sample per step, on mount after Load and on every keystroke. Multiples include NaN and 0. `render_plots_defined` is the lookup `render_plots` makes for every series. One metric field stands for the eight, which are pushed alike. |
| `HostSeries` | `Graph.jsx`: constructor, `componentDidMount`, `load_host_data` (one sample per step), `updateMultipleValue`, `toggle_code`, across visits of the `/graphs` route | `Mount` is the constructor plus `componentDidMount`: an empty table, the first pass with multiple 1, and one more resize listener. `Unmount` is leaving the route (`routes.js`); Graph has no `componentWillUnmount`, so `listeners` is not decreased. The holder keeps its `dummy` array, which is never pushed. `cpu` stands for the six fields pushed alike. `field` is what was last typed in the current component's field. |
| `Rounding` | `roundMultiple` as a pure function | Each state is one call `roundMultiple(x, multiple)` with inputs from small sets. `SpecRound` is the reference of spec §4.2: round half up to a multiple, and InvalidArgument for a multiple that is not positive. |
| `VisibilityProofs` | TLAPS proofs about `Visibility` | |
| `TimelineProofs` | TLAPS proofs about `Timeline` | |
| `LogsViewProofs` | TLAPS proofs about `LogsView` | It reuses the lemmas of `VisibilityProofs`. |
| `NormalizeProofs` | lemmas about `roundMultiple` | These cover the plain range, where the quotient's string is not in exponent form. |
| `RoundingProofs` | TLAPS proofs about `Rounding` | |
| `SeriesProofs` | TLAPS proofs about `Series` | It reuses the lemmas of `VisibilityProofs`. |
| `HostSeriesProofs` | TLAPS proofs about `HostSeries` | |
| `MC*` | model-checking instances | |

## 3. Runs

NUMBER_LETTERS = 1 stands for 12 throughout. The raw ids `ab` and `ac` then
collide on the short id `a`, just as two real ids sharing 12 characters do.
Services, times and values are small sets of model values or integers.

| Run | Config | Expect | What it checks |
|---|---|---|---|
| visibility | `MCVisibility.cfg` | pass | See below. |
| timeline | `MCTimeline.cfg` | pass | See below. |
| timeline_walk | `MCTimelineWalk.cfg` | violation | `CountsAreWalk`: the running count is the start/die walk. Violated by start, kill, start: the count is 1, not 2. |
| logs | `MCLogsView.cfg` | pass | See below. |
| logs_unknown | `MCLogsViewUnknown.cfg` | violation | `UnknownRowsVisible` (spec §7, JoinMismatch): `container_filter` hides the rows of unknown containers. |
| series | `MCSeries.cfg` | pass | See below. |
| series_join | `MCSeriesJoin.cfg` | violation | `PlotsRender`: a series of a container with no identity record makes `render_plots` throw. |
| rounding | `MCRounding.cfg` | pass | `RoundsAsSpecified` for x in 0..25 and multiples 1..7: with positive arguments the JS expression is round half up. |
| rounding_edges | `MCRoundingEdges.cfg` | violation | `RoundsAsSpecified` with multiples 0 and NaN: a NaN multiple (an emptied field) or 0 gives NaN, not InvalidArgument. |
| rounding_exponent | `MCRoundingExponent.cfg` | violation | `RoundsAsSpecified` with multiple 2000001: time 1 goes to bucket 8000004, not 0, because `parseInt` reads the quotient's string `4.99...e-7` by its first digit. A sorted feed with times [1, 3] then gets the buckets [8000004, 0]. |
| hosts | `MCHostSeries.cfg` | pass | See below. |
| hosts_listeners | `MCHostSeriesListeners.cfg` | violation | `NoListenerOfUnmounted`: mount, pass, unmount leaves the unmounted component's resize listener registered. |

The pass runs check these properties:
- **visibility:**
  - `TypeOK`.
  - `IdentityFromFeed`: after mounting, whatever was clicked, the keys are
    the truncated feed ids and each carries the service of the last record
    with its id.
  - `ImplementsVisibilityModel`: Visibility refines VisibilityModel.
- **timeline:**
  - `TypeOK`.
  - `StaircaseShape`: x and y are paired, times do not decrease, and each
    service's staircase continues from its own last count across
    interleaved services.
  - `BoundsEncloseCounts`: every count lies within the running bounds, and
    strictly within the padded bounds once set.
  - `TimelinesOnlyGrow` (action property): no step drops a service's
    timeline or rewrites a point already pushed. Its mutant replaces the
    holder by a fresh one, which every invariant above accepts.
- **logs:**
  - `LogsTypeOK`.
  - `LogRowsCanonical`: the rows stay canonical across remounts.
  - `JoinKeysAgree`: after each mount, a row joins `containers` exactly
    when its id names an identity record.
- **series:**
  - `SeriesTypeOK`.
  - `SeriesFromSamples`: each rendered table is exactly one pass over the
    samples with the current multiple, so no points are left from earlier
    passes.
  - `BucketsSorted`: with multiples NaN, 0 and 2, the buckets of a sorted
    feed never decrease.
- **hosts:**
  - `TypeOK`.
  - `BucketsOnGrid`: whenever the mounted view is idle, every time it has
    plotted is a multiple of the multiple in its field, or NaN when that
    field holds 0 or NaN. Its mutant pushes the raw time, as the
    commented-out line of `load_host_data` did.
  - `PlotsFollowField`: whenever the mounted view renders, its series are
    what one pass makes with the multiple typed in its own field (1 if
    none since it mounted): nothing of an earlier pass or an earlier visit
    of the route survives.

Each pass-run property has a mutant in `PROJECT.json`. A mutant is a
plausible bug of the mapped code, for example:
- a dropped truncation;
- first write wins instead of last write wins;
- pushes in the wrong order;
- a dropped `else if`;
- a pass that reuses the previous table.

TLC finds the property violated on every mutant.

Why the bounds are enough:
- **Identity feeds** have up to 3 records over 3 raw ids and 2 services.
  That covers a collision, a repeat under another service, and a
  non-colliding id.
- **Event feeds** have up to 3 events over 2 services and 3 actions
  (start, die, kill). That covers interleaved services, negative counts and
  an unknown action between two known ones.
- **Log feeds** have 2 rows, including an id that collides and one that is
  unknown, and the view is constructed twice, so a remount re-truncates.
- **Sample feeds** have 2 samples over two colliding raw ids, and the
  multiples include NaN, 0 and 2.
- **Host feeds** have 2 samples over 2 hosts with times 0, 1 and 3, the
  multiples NaN, 0 and 2, and two visits of the route, so a second mount
  follows a pass with another multiple.
- **Rounding** covers x = 0..25 with every multiple 1..7: even and odd
  multiples, exact halves and remainders on both sides of them.

Every action and every disjunct of every next-state relation fires in the pass
runs. All runs check for deadlock: each model can always stutter through a
click or a keystroke once it is mounted. In HostSeries the last visit
allowed by `MaxMounts` is never left, so the bound does not create a
deadlock.

**Fairness.** None is assumed, and only safety is checked. Every pass in this
code runs synchronously to completion, so nothing remains to "eventually"
happen. Progress is a matter of the user's clicks, which the code cannot
oblige.

## 4. Proofs (TLAPS)

`VisibilityProofs` proves three theorems for every feed, every set of raw ids
and services and every truncation length:
- `TypeCorrect`: `Spec => []TypeOK`. The lemmas are `InitTypeOK` and
  `NextTypeOK`, the latter with one case per action.
- `IdentityFromFeedHolds`: `Spec => []IdentityFromFeed`.
- `RefinesVisibilityModel`: `Spec => ImplementsVisibilityModel`, i.e.
  Visibility implements VisibilityModel under the mapping `AbsDisabled`,
  `AbsGroup` (empty while loading).

`IdentityFromFeed` is not inductive on its own, because it says nothing while
Load is running. Its strengthening is

    IInv == TypeOK /\ LoadedFrom(k) /\ (pc = "mounted" => k = Len(array_ids))

`LoadedFrom(k)` is the loop invariant of Load: the keys are the truncated ids
of the first k records, and each key carries the service of the last of them
with that id. The proof has three parts:
- `LoadStepIInv` shows that one iteration extends `LoadedFrom` from k to
  k + 1, with a case split on whether the record's id is the new one.
- `FlagsOnlyKeepLoaded` shows that any click that keeps every key and every
  service keeps `LoadedFrom`. Each handler case of `NextIInv` proves that
  premise and cites the lemma.
- `ShortIdOfUnchanged` carries the truncated ids across a step that leaves
  the feed alone.

The refinement proof strengthens `IInv` to `RInv == IInv /\ LoadingClean`:
while Load runs, every flag is FALSE (Load creates every entry with
`disabled: false`), which is what `initialize` sets. `LoadDoneRefines`
shows the last Load step is `initialize`: its `LastService` witness is the
index `IsLastWrite` gives. For each click, a step shows the keys and
services are kept (`ClickKeepsGroup`), then that the new flags are the
abstract operation's. Load's other steps are stutters, since the abstract
state is empty until mounted. The theorem combines `InitRefines` (`Init => VM!Init`), the
invariant and `NextRefines` by PTL.

`TimelineProofs` proves four theorems for every set of services, times and
actions and every time-sorted event feed:
- `TimelineTypeCorrect`: `Spec => []TypeOK`.
- `StaircaseShapeHolds`: `Spec => []StaircaseShape`.
- `BoundsEncloseCountsHolds`: `Spec => []BoundsEncloseCounts`.
- `TimelinesOnlyGrowHolds`: `Spec => TimelinesOnlyGrow`.

None of these properties is inductive on its own. The strengthening is

    TInv == TypeOK /\ SortedBy(array_events) /\ XBelow /\ StaircaseShape
            /\ CountsInBounds /\ BoundsPublished

Each added conjunct is needed for the following reason:
- `XBelow`: every time pushed is at most the time of the last processed
  event. With the sorted feed, this makes the new event's time no earlier
  than the last point of its own service, even when other services'
  events came between.
- `CountsInBounds`: the running bounds enclose 0 and every defined count.
  `TrackBounds` raises only one bound per step, so the other count pushed
  in that step must already lie inside.
- `BoundsPublished`: once the loop has ended, the state holds the bounds
  padded by one.

There is one lemma per action, and `EventStepTInv` is the main one. It
rests on lemmas about the operators of one iteration:
- `AppendPointsFacts`: the two pushes extend the arrays by two.
- `PrevYFacts`: `prev_y` is 0 or the last defined count.
- `NewYType`: the type of `new_y`.
- `StaircaseAppend`: the pushes keep a holder a staircase.

The action property follows from `TInv` and `EventStepGrows`.

`LogsViewProofs` proves `LogsTypeCorrect`, `LogRowsCanonicalHolds` and
`JoinKeysAgreeHolds`, for every truncation length and every bound on
mounts. The invariant is

    LInv == IInv /\ LogsTypeOK /\ LogRowsCanonical

The remount step rests on `CanonicalizeIdempotent`: `substring(0, n)` of
a string of at most n characters is that string, so truncating the
shared rows again changes nothing. `JoinKeysAgree` then follows from
`LoadedFrom` of `IInv` and `LogRowsCanonical`.

`NormalizeProofs` proves lemmas about `roundMultiple` for natural times
and positive multiples in the plain range, `PlainQuotient`
(`x * 10^6 >= m`). In that range the quotient's string is in plain decimal
form:
- `RoundMultiplePlain`: `roundMultiple` is round half up.
- `RoundMultipleMonotone`: `roundMultiple` is monotone.

`RoundingProofs` uses them to prove two theorems:
- `RoundsAsSpecifiedPlain`: agreement with `SpecRound` of spec 4.2 for
  every such input.
- `RoundsAsSpecifiedHolds`: `Spec => []RoundsAsSpecified` when `Xs` and
  `Ms` lie in that range, as the constants of the run rounding do.

The runs rounding_edges and rounding_exponent show that nothing more holds. Outside this range,
the code and spec 4.2 differ: a multiple of 0 or NaN gives NaN, and an
exponent-form quotient is read by its first digit.

`SeriesProofs` proves `SeriesTypeCorrect` and `BucketsSortedHolds` under
the hypothesis `PlainTimes`: every sample time and every positive multiple
are in the plain range. The constants of the run series satisfy it. The
hypothesis is needed, and not only for the proof: an exponent-form
quotient makes `roundMultiple` non-monotone (finding 3), and it leaves
`LeadingDigit` undefined for multiples beyond 10^30 times a time. The
invariant is

    SInv == SeriesTypeOK /\ SortedFeed /\ sorted holders /\ BucketsBelow

`BucketsBelow` says that every defined bucket of the table under
construction came from a positive multiple and is at most the bucket of
the last processed sample. By monotonicity, the next bucket pushed is
then no earlier.

`HostSeriesProofs` proves two theorems about Graph.jsx across mounts,
unmounts, keystrokes and passes:
- `HostTypeCorrect`: `Spec => []TypeOK`.
- `BucketsOnGridHolds`: `Spec => []BucketsOnGrid`.

Both are stated under the hypothesis `PlainSamples`: every time and every
positive multiple are in the plain range, as in `PlainTimes`. The
constants of the run hosts satisfy it. The invariant is

    HInv == TypeOK /\ listeners = mounts
            /\ (mounted => multiple_to_use = FieldMultiple)
            /\ HostsOnGrid(stats, multiple_to_use)
            /\ (agg = "idle" => HostsOnGrid(hosts_data, multiple_to_use))

It is needed for two reasons:
- `BucketsOnGrid` speaks of the field. The pass buckets with
  `multiple_to_use`, so the invariant ties the two together.
- The table under construction must already be on the grid when
  `setState` publishes it.

`HostBucket` gives the bucket of one sample. It rests on
`RoundMultipleOnGrid` of `NormalizeProofs`: in the plain range,
`roundMultiple(a, m)` is `q * m` for some natural q.

The proofs use only the named assumptions on the constants, and TLC
evaluates each of them on the runs:
- `NaN \notin Int`, which is part of `RoundingAssumption` and
  `SampleAssumption` and `HostAssumption`;
- that times are naturals;
- that bounds are naturals.

Only TLC checks the following, for the reasons given:
- **Stated with `SelectSeq`:** `SeriesFromSamples` and
  `PlotsFollowField`.
  - Relating `SelectSeq` of a prefix to that of the next prefix needs
    induction over the sequence.
  - The library's induction theorems take an operator parameter, which
    the installed provers cannot instantiate.
- **The exponent range of `roundMultiple`:** quotients below 10^-6, whose
  string `parseInt` reads by its first digit. `LeadingDigit` compares
  against powers of ten, and the provers evaluate a power only up to
  about 10^11. So the theorems about Series and HostSeries assume
  `PlainTimes` and `PlainSamples`. Only the run rounding_exponent reaches
  the exponent range. The constants of series and hosts keep every
  quotient plain, so no run checks the series properties there.
- **Liveness:** no liveness property is stated. The views have no waiting
  or retry, and each pass is a loop over a finite feed.

## 5. Findings

1. **Unknown actions reset the count.** `GraphInstances.jsx:67`
   (timeline_walk): after an unknown action the count restarts at 0. Spec
   §4.4 says it is unchanged.
2. **Unknown containers' logs are hidden.** `logs.jsx:92` (logs_unknown):
   rows of unknown containers are hidden. Spec §7 says they are visible by
   default.
3. **Huge multiples break bucketing.** `GraphContainers.jsx:128`
   (rounding_exponent): `parseInt` reads an exponent-form quotient by its first
   digit, so a large multiple sends a small time to a far bucket.
4. **One unknown series breaks every plot.** `GraphContainers.jsx:208`
   (series_join): one series of an unknown container makes the whole plot
   render throw.
5. **A 0 or empty multiple gives NaN.** `GraphContainers.jsx:128`
   (rounding_edges): `roundMultiple(x, 0)` and `roundMultiple(x, NaN)`
   return NaN, where spec §4.2 asks for InvalidArgument.
6. **Resize listeners leak.** `Graph.jsx:40` (hosts_listeners): no
   `componentWillUnmount` removes the listener, so after the route is left
   a resize calls `setState` on an unmounted component, and each visit adds
   one more. `GraphContainers.jsx` and `GraphInstances.jsx` do the same.

Also recorded, but not run as a property:
- The host holder's `dummy` array (`Graph.jsx:82`) is declared but never
  pushed, so it is not parallel to `time` as spec §3 describes. HostSeries
  keeps the array; no view reads it.
- `GraphInstances.updateMultipleValue` calls `this.loadYCSB`, which does not
  exist, so every keystroke throws after its `setState`.

## 6. Not modelled

- **Plotly's aggregate transform**, which computes the per-bucket average,
  and **react-table's filtering and memoization** (FilterableTable): these
  are external libraries.
- **Rendering, layout, the width the resize listener sets, the route
  table, and AveragePlot** (which is imported nowhere). The listeners'
  lifetime and route changes are modelled in HostSeries and LogsView.

## 7. Plan for the next sittings

1. Model the resize listeners of `GraphContainers.jsx` and
   `GraphInstances.jsx` with their views' mounts.
