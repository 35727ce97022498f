------------------------------- MODULE Series -------------------------------
(***************************************************************************)
(* The metric series of views/GraphContainers.jsx, composed with the       *)
(* visibility state its plots read.                                        *)
(*                                                                         *)
(* componentDidMount first builds the containers table (Load, as in        *)
(* Visibility) and then calls load_containers_data(1): one pass over the   *)
(* metric samples (assumed sorted by time) that keys a holder by the raw  *)
(* container id and pushes the sample's time, bucketed by roundMultiple,   *)
(* and its metric values; the finished table goes to setState.  Every     *)
(* keystroke in the multiple field runs the pass again with                *)
(* parseInt(field), which is NaN for an empty or non-numeric field.        *)
(* render_plots then draws one trace per key of containers_data, looking   *)
(* up containers[key.substring(0, 12)] for its name and visibility.         *)
(*                                                                         *)
(* The eight metric fields are pushed alike; one of them (cpu) stands for  *)
(* all.  The pass is modelled one sample per step; React renders only      *)
(* between handlers, when agg = "idle".                                    *)
(***************************************************************************)
EXTENDS Visibility

CONSTANTS
    SampleIds,   \* raw container ids of the metric samples
    Times,       \* sample timestamps
    Values,      \* metric values
    Multiples,   \* what parseInt can make of the multiple field (NaN included)
    MaxSamples   \* bound on the number of samples

ASSUME SampleAssumption ==
    /\ Times \subseteq Nat
    /\ MaxSamples \in Nat
    /\ \A m \in Multiples : m = NaN \/ m \in Nat
    /\ NaN \notin Int

VARIABLES
    array_stats,      \* the imported samples (containers_stats.json)
    agg,              \* "pending" before the first pass, "running", "idle"
    index,            \* samples the running pass has processed
    multiple_to_use,  \* the multiple of the running or last pass
    stats,            \* the table the running pass builds
    containers_data   \* this.state.containers_data

seriesvars == <<array_stats, agg, index, multiple_to_use, stats, containers_data>>

allvars == <<vars, seriesvars>>

Sample == [container_id : SampleIds, time : Times, cpu : Values]

SampleFeeds ==
    {f \in UNION {[1..n -> Sample] : n \in 0..MaxSamples} :
        \A i \in 1..(Len(f) - 1) : f[i].time <= f[i + 1].time}

Bucket == Int \cup {NaN}

Holder == [time : Seq(Bucket), cpu : Seq(Values)]

SeriesTypeOK ==
    /\ TypeOK
    /\ array_stats \in Seq(Sample)
    /\ agg \in {"pending", "running", "idle"}
    /\ index \in 0..Len(array_stats)
    /\ multiple_to_use \in Multiples \cup {1}
    /\ DOMAIN stats \subseteq SampleIds /\ stats \in [DOMAIN stats -> Holder]
    /\ DOMAIN containers_data \subseteq SampleIds
    /\ containers_data \in [DOMAIN containers_data -> Holder]

SeriesInit ==
    /\ Init
    /\ array_stats \in SampleFeeds
    /\ agg = "pending"
    /\ index = 0
    /\ multiple_to_use = 1
    /\ stats = <<>>
    /\ containers_data = <<>>

(* Mutant of start_pass: the pass starts from the table of the previous    *)
(* one (var stats = this.state.containers_data) instead of {}.             *)
start_pass_reuse(m) ==
    /\ agg' = "running"
    /\ index' = 0
    /\ multiple_to_use' = m
    /\ stats' = containers_data

(* The start of load_containers_data(m): var stats = {}.                   *)
start_pass(m) ==
    /\ agg' = "running"
    /\ index' = 0
    /\ multiple_to_use' = m
    /\ stats' = <<>>

(* componentDidMount, after load_containers_ids: load_containers_data(1).  *)
LoadDataOnMount ==
    /\ pc = "mounted"
    /\ agg = "pending"
    /\ start_pass(1)
    /\ UNCHANGED <<array_stats, containers_data>>
    /\ UNCHANGED vars

(* Mutant of AggregateStep: the holder keyed by the short id.             *)
AggregateStep_short_key ==
    /\ agg = "running"
    /\ index < Len(array_stats)
    /\ LET e      == array_stats[index + 1]
           key    == canonicalize(e.container_id, NUMBER_LETTERS)
           holder == IF key \in DOMAIN stats THEN stats[key]
                     ELSE [time |-> <<>>, cpu |-> <<>>]
       IN  stats' = [c \in DOMAIN stats \cup {key} |->
                       IF c = key
                       THEN [time |-> Append(holder.time,
                                             roundMultiple(e.time, multiple_to_use)),
                             cpu  |-> Append(holder.cpu, e.cpu)]
                       ELSE stats[c]]
    /\ index' = index + 1
    /\ UNCHANGED <<array_stats, agg, multiple_to_use, containers_data>>
    /\ UNCHANGED vars

(* One iteration of the loop of load_containers_data: the holder of the    *)
(* raw id (or a fresh one), the bucketed time and the value pushed.        *)
AggregateStep ==
    /\ agg = "running"
    /\ index < Len(array_stats)
    /\ LET e      == array_stats[index + 1]
           holder == IF e.container_id \in DOMAIN stats THEN stats[e.container_id]
                     ELSE [time |-> <<>>, cpu |-> <<>>]
       IN  stats' = [c \in DOMAIN stats \cup {e.container_id} |->
                       IF c = e.container_id
                       THEN [time |-> Append(holder.time,
                                             roundMultiple(e.time, multiple_to_use)),
                             cpu  |-> Append(holder.cpu, e.cpu)]
                       ELSE stats[c]]
    /\ index' = index + 1
    /\ UNCHANGED <<array_stats, agg, multiple_to_use, containers_data>>
    /\ UNCHANGED vars

(* The loop ends: this.setState({containers_data: stats}).                 *)
AggregateDone ==
    /\ agg = "running"
    /\ index = Len(array_stats)
    /\ containers_data' = stats
    /\ agg' = "idle"
    /\ UNCHANGED <<array_stats, index, multiple_to_use, stats>>
    /\ UNCHANGED vars

(* A keystroke in the multiple field: load_containers_data(parseInt(v)).  *)
updateMultipleValue(m) ==
    /\ pc = "mounted"
    /\ agg = "idle"
    /\ start_pass(m)
    /\ UNCHANGED <<array_stats, containers_data>>
    /\ UNCHANGED vars

(* A click of Visibility, between two renders.                             *)
Click ==
    /\ pc = "mounted"
    /\ agg = "idle"
    /\ Next
    /\ UNCHANGED seriesvars

SeriesNext ==
    \/ (LoadStep \/ LoadDone) /\ UNCHANGED seriesvars
    \/ LoadDataOnMount
    \/ AggregateStep
    \/ AggregateDone
    \/ \E m \in Multiples : updateMultipleValue(m)
    \/ Click

SeriesSpec == SeriesInit /\ [][SeriesNext]_allvars

(* render_plots: every key of containers_data, cut to NUMBER_LETTERS, is   *)
(* looked up in containers for the trace's name and visible flag; the      *)
(* render throws if one is missing.                                        *)
render_plots_defined ==
    \A c \in DOMAIN containers_data :
        canonicalize(c, NUMBER_LETTERS) \in DOMAIN containers

-----------------------------------------------------------------------------
(* The samples of raw id c among the first n of the feed, in feed order.   *)
SamplesOf(c, n) ==
    SelectSeq(SubSeq(array_stats, 1, n), LAMBDA e : e.container_id = c)

(* The table as the pass with multiple m builds it from the first n        *)
(* samples: one holder per raw id, its times the bucketed sample times and *)
(* its values the sample values, both in feed order.                       *)
TableOf(n, m) ==
    [c \in {array_stats[j].container_id : j \in 1..n} |->
        LET ss == SamplesOf(c, n) IN
        [time |-> [p \in DOMAIN ss |-> roundMultiple(ss[p].time, m)],
         cpu  |-> [p \in DOMAIN ss |-> ss[p].cpu]]]

(* Whenever the page renders, the plotted table is exactly what one pass   *)
(* with the current multiple makes of the samples: no holder keeps points  *)
(* of an earlier pass or an earlier multiple, and times stay paired with   *)
(* their values.                                                           *)
SeriesFromSamples ==
    agg = "idle" => containers_data = TableOf(Len(array_stats), multiple_to_use)

(* For a sorted feed each series' bucketed times never decrease, so the   *)
(* plot's x values (and the groups of its aggregate transform) are in      *)
(* time order.                                                             *)
BucketsSorted ==
    \A c \in DOMAIN containers_data :
        LET t == containers_data[c].time IN
        \A p \in 1..(Len(t) - 1) :
            t[p] # NaN /\ t[p + 1] # NaN => t[p] <= t[p + 1]

(* Spec 7, JoinMismatch: a metric series whose container is absent from    *)
(* the identity feed must not abort the page: render_plots finds every     *)
(* series' container.                                                      *)
PlotsRender ==
    pc = "mounted" /\ agg = "idle" => render_plots_defined

=============================================================================
