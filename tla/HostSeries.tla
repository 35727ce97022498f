----------------------------- MODULE HostSeries -----------------------------
(***************************************************************************)
(* The host metric series of views/Graph.jsx, across the mounts and        *)
(* unmounts of the view.                                                   *)
(*                                                                         *)
(* componentDidMount calls load_host_data(1), a pass over the host samples *)
(* (assumed sorted by time) that keys a holder by hostname and pushes the  *)
(* bucketed time and the metric values (the holder's dummy array is never  *)
(* pushed), then registers a window resize listener bound to the           *)
(* component.  The view has no componentWillUnmount: leaving the route     *)
(* unmounts the component and leaves its listener registered.  Every       *)
(* keystroke in the multiple field runs the pass again with                *)
(* parseInt(field); toggle_code shows or hides the JSON dump.              *)
(*                                                                         *)
(* The six plotted fields are pushed alike; cpu stands for all.  The pass  *)
(* is modelled one sample per step; React renders only between handlers,  *)
(* when agg = "idle".  field is the multiple last typed into the current   *)
(* component's field (None while it is empty after a mount).               *)
(***************************************************************************)
EXTENDS Normalize

CONSTANTS
    Hosts,       \* hostnames
    Times,       \* sample timestamps
    Values,      \* metric values
    Multiples,   \* what parseInt can make of the multiple field (NaN included)
    None,        \* nothing typed yet
    MaxSamples,  \* bound on the number of samples
    MaxMounts    \* bound on the number of mounts of the view

ASSUME HostAssumption ==
    /\ Times \subseteq Nat
    /\ MaxSamples \in Nat /\ MaxMounts \in Nat
    /\ \A m \in Multiples : m = NaN \/ m \in Nat
    /\ None \notin Multiples
    /\ NaN \notin Int

VARIABLES
    array_stats,      \* the imported samples (host_stats.json)
    mounted,          \* the view's component is mounted
    mounts,           \* mounts so far
    listeners,        \* resize listeners registered and never removed
    agg,              \* "idle" or "running" (a pass of load_host_data)
    index,            \* samples the running pass has processed
    multiple_to_use,  \* the multiple of the running or last pass
    stats,            \* the table the running pass builds
    hosts_data,       \* this.state.hosts_data
    hide_code,        \* this.state.hide_code
    field             \* the multiple typed into the current field, or None

vars == <<array_stats, mounted, mounts, listeners, agg, index, multiple_to_use,
          stats, hosts_data, hide_code, field>>

Sample == [hostname : Hosts, time : Times, cpu : Values]

SampleFeeds ==
    {f \in UNION {[1..n -> Sample] : n \in 0..MaxSamples} :
        \A i \in 1..(Len(f) - 1) : f[i].time <= f[i + 1].time}

Holder == [time : Seq(Int \cup {NaN}), cpu : Seq(Values), dummy : Seq(Values)]

EmptyHolder == [time |-> <<>>, cpu |-> <<>>, dummy |-> <<>>]

TypeOK ==
    /\ array_stats \in Seq(Sample)
    /\ mounted \in BOOLEAN
    /\ mounts \in 0..MaxMounts
    /\ listeners \in 0..MaxMounts
    /\ agg \in {"idle", "running"}
    /\ index \in 0..Len(array_stats)
    /\ multiple_to_use \in Multiples \cup {1}
    /\ DOMAIN stats \subseteq Hosts /\ stats \in [DOMAIN stats -> Holder]
    /\ DOMAIN hosts_data \subseteq Hosts /\ hosts_data \in [DOMAIN hosts_data -> Holder]
    /\ hide_code \in BOOLEAN
    /\ field \in Multiples \cup {None}

(* Before the first visit of the route.                                    *)
Init ==
    /\ array_stats \in SampleFeeds
    /\ mounted = FALSE
    /\ mounts = 0
    /\ listeners = 0
    /\ agg = "idle"
    /\ index = 0
    /\ multiple_to_use = 1
    /\ stats = <<>>
    /\ hosts_data = <<>>
    /\ hide_code = TRUE
    /\ field = None

(* Mutant of Mount: the first pass of the new component uses the multiple  *)
(* of the last pass instead of 1.                                          *)
Mount_stale_multiple ==
    /\ ~mounted
    /\ mounts < MaxMounts
    /\ mounted' = TRUE
    /\ mounts' = mounts + 1
    /\ listeners' = listeners + 1
    /\ hosts_data' = <<>>
    /\ hide_code' = TRUE
    /\ field' = None
    /\ agg' = "running" /\ index' = 0 /\ stats' = <<>>
    /\ UNCHANGED <<array_stats, multiple_to_use>>

(* The route is entered: the constructor's state (empty hosts_data, code   *)
(* hidden), then componentDidMount: load_host_data(1) and                  *)
(* window.addEventListener("resize", ...).  Nothing can run between them, *)
(* so the listener is counted when the pass starts.                        *)
Mount ==
    /\ ~mounted
    /\ mounts < MaxMounts
    /\ mounted' = TRUE
    /\ mounts' = mounts + 1
    /\ listeners' = listeners + 1
    /\ hosts_data' = <<>>
    /\ hide_code' = TRUE
    /\ field' = None
    /\ agg' = "running" /\ index' = 0 /\ stats' = <<>> /\ multiple_to_use' = 1
    /\ UNCHANGED array_stats

(* The route is left: React unmounts the component; no                    *)
(* componentWillUnmount removes its listener.  (The visit that reaches    *)
(* the bound on mounts is not left.)                                       *)
Unmount ==
    /\ mounted
    /\ mounts < MaxMounts
    /\ agg = "idle"
    /\ mounted' = FALSE
    /\ UNCHANGED <<array_stats, mounts, listeners, agg, index, multiple_to_use,
                   stats, hosts_data, hide_code, field>>

(* Mutant of HostStep: the raw sample time is pushed, as the commented-out *)
(* line before the call of roundMultiple did.                              *)
HostStep_raw_time ==
    /\ agg = "running"
    /\ index < Len(array_stats)
    /\ LET e      == array_stats[index + 1]
           holder == IF e.hostname \in DOMAIN stats THEN stats[e.hostname]
                     ELSE EmptyHolder
       IN  stats' = [h \in DOMAIN stats \cup {e.hostname} |->
                       IF h = e.hostname
                       THEN [holder EXCEPT !.time = Append(@, e.time),
                                           !.cpu  = Append(@, e.cpu)]
                       ELSE stats[h]]
    /\ index' = index + 1
    /\ UNCHANGED <<array_stats, mounted, mounts, listeners, agg, multiple_to_use,
                   hosts_data, hide_code, field>>

(* One iteration of the loop of load_host_data.                            *)
HostStep ==
    /\ agg = "running"
    /\ index < Len(array_stats)
    /\ LET e      == array_stats[index + 1]
           holder == IF e.hostname \in DOMAIN stats THEN stats[e.hostname]
                     ELSE EmptyHolder
       IN  stats' = [h \in DOMAIN stats \cup {e.hostname} |->
                       IF h = e.hostname
                       THEN [holder EXCEPT
                               !.time = Append(@, roundMultiple(e.time, multiple_to_use)),
                               !.cpu  = Append(@, e.cpu)]
                       ELSE stats[h]]
    /\ index' = index + 1
    /\ UNCHANGED <<array_stats, mounted, mounts, listeners, agg, multiple_to_use,
                   hosts_data, hide_code, field>>

(* The loop ends: this.setState({hosts_data: stats}).                      *)
HostDone ==
    /\ agg = "running"
    /\ index = Len(array_stats)
    /\ hosts_data' = stats
    /\ agg' = "idle"
    /\ UNCHANGED <<array_stats, mounted, mounts, listeners, index, multiple_to_use,
                   stats, hide_code, field>>

(* Mutant of updateMultipleValue: the pass registers the resize listener   *)
(* (addEventListener moved into load_host_data), once per keystroke.      *)
updateMultipleValue_adds_listener(m) ==
    /\ mounted
    /\ agg = "idle"
    /\ field' = m
    /\ listeners' = listeners + 1
    /\ agg' = "running" /\ index' = 0 /\ stats' = <<>> /\ multiple_to_use' = m
    /\ UNCHANGED <<array_stats, mounted, mounts, hosts_data, hide_code>>

(* A keystroke in the multiple field: load_host_data(parseInt(value)).     *)
updateMultipleValue(m) ==
    /\ mounted
    /\ agg = "idle"
    /\ field' = m
    /\ agg' = "running" /\ index' = 0 /\ stats' = <<>> /\ multiple_to_use' = m
    /\ UNCHANGED <<array_stats, mounted, mounts, listeners, hosts_data, hide_code>>

(* The Show/Hide Filters button.                                           *)
toggle_code ==
    /\ mounted
    /\ agg = "idle"
    /\ hide_code' = ~hide_code
    /\ UNCHANGED <<array_stats, mounted, mounts, listeners, agg, index,
                   multiple_to_use, stats, hosts_data, field>>

Next ==
    \/ Mount
    \/ Unmount
    \/ HostStep
    \/ HostDone
    \/ \E m \in Multiples : updateMultipleValue(m)
    \/ toggle_code

Spec == Init /\ [][Next]_vars

-----------------------------------------------------------------------------
(* The samples of host h, in feed order.                                   *)
SamplesOf(h) == SelectSeq(array_stats, LAMBDA e : e.hostname = h)

(* The plotted fields of the table one pass with multiple m makes.         *)
PlottedTable(m) ==
    [h \in {array_stats[j].hostname : j \in DOMAIN array_stats} |->
        [time |-> [p \in DOMAIN SamplesOf(h) |-> roundMultiple(SamplesOf(h)[p].time, m)],
         cpu  |-> [p \in DOMAIN SamplesOf(h) |-> SamplesOf(h)[p].cpu]]]

(* Whenever the mounted view renders, its plots are what one pass makes of *)
(* the samples with the multiple in its own field, or 1 if nothing was     *)
(* typed since it mounted: no point of an earlier pass, and no multiple of *)
(* an earlier visit of the route, survives.                                *)
PlotsFollowField ==
    mounted /\ agg = "idle" =>
        [h \in DOMAIN hosts_data |-> [time |-> hosts_data[h].time,
                                      cpu  |-> hosts_data[h].cpu]]
            = PlottedTable(IF field = None THEN 1 ELSE field)

(* The multiple the mounted view's plots should be bucketed by.           *)
FieldMultiple == IF field = None THEN 1 ELSE field

(* t is a bucket of the multiple m: NaN for a multiple of 0 or NaN (x % 0 *)
(* is NaN), otherwise an integer multiple of m.                            *)
OnGrid(t, m) == IF m = NaN \/ m = 0 THEN t = NaN ELSE t # NaN /\ t % m = 0

(* Whenever the mounted view renders, every plotted time is a bucket of    *)
(* the multiple in its own field (1 if nothing was typed since it          *)
(* mounted): no time of a pass with an earlier multiple, or of an earlier  *)
(* visit of the route, and no unrounded sample time, is plotted.           *)
BucketsOnGrid ==
    mounted /\ agg = "idle" =>
        \A h \in DOMAIN hosts_data : \A p \in DOMAIN hosts_data[h].time :
            OnGrid(hosts_data[h].time[p], FieldMultiple)

(* A resize listener is registered only for the mounted component: after  *)
(* the route is left, no listener calls setState on the unmounted one.     *)
NoListenerOfUnmounted ==
    listeners <= IF mounted THEN 1 ELSE 0

=============================================================================
