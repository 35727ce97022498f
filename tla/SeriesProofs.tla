---------------------------- MODULE SeriesProofs ----------------------------
(***************************************************************************)
(* Proofs about Series (load_containers_data of views/GraphContainers.jsx  *)
(* over the identity tables of Visibility), for every feed of samples      *)
(* sorted by time, every set of container ids and every set of multiples  *)
(* whose quotients String() prints in plain form.                          *)
(***************************************************************************)
EXTENDS Series, VisibilityProofs, NormalizeProofs, SequenceTheorems, TLAPS

(* Every sample time divided by every positive multiple the field can give *)
(* prints in plain decimal form (the exponent range is rounding_edges').    *)
PlainTimes ==
    \A t \in Times, m \in Multiples \cup {1} : m \in Nat \ {0} => PlainQuotient(t, m)

-----------------------------------------------------------------------------
(* The inductive invariant.                                                *)

(* The samples are sorted by time, as SampleFeeds makes them.              *)
SortedFeed ==
    \A i \in 1..(Len(array_stats) - 1) : array_stats[i].time <= array_stats[i + 1].time

(* The defined buckets of a series never decrease.                         *)
TimesSorted(t) ==
    \A p \in 1..(Len(t) - 1) : t[p] # NaN /\ t[p + 1] # NaN => t[p] <= t[p + 1]

(* A defined bucket of the table under construction was made with a        *)
(* positive multiple from a sample no later than the last processed one.   *)
BucketsBelow ==
    \A c \in DOMAIN stats : \A p \in 1..Len(stats[c].time) :
        stats[c].time[p] # NaN =>
            /\ multiple_to_use \in Nat \ {0}
            /\ index > 0
            /\ stats[c].time[p] <= roundMultiple(array_stats[index].time, multiple_to_use)

SInv ==
    /\ SeriesTypeOK
    /\ SortedFeed
    /\ \A c \in DOMAIN stats : TimesSorted(stats[c].time)
    /\ \A c \in DOMAIN containers_data : TimesSorted(containers_data[c].time)
    /\ BucketsBelow

-----------------------------------------------------------------------------
(* The bucket of one sample.                                               *)

(* A bucket is NaN for a multiple of NaN or 0 and a natural for a positive *)
(* multiple.                                                               *)
LEMMA BucketOf ==
    ASSUME PlainTimes, NEW t \in Times, NEW m \in Multiples \cup {1}
    PROVE  /\ roundMultiple(t, m) \in Bucket
           /\ roundMultiple(t, m) # NaN => m \in Nat \ {0} /\ roundMultiple(t, m) \in Nat
           /\ m \in Nat \ {0} => roundMultiple(t, m) \in Nat
<1>1. t \in Nat /\ (m = NaN \/ m \in Nat) /\ NaN \notin Int
    BY SampleAssumption
<1>2. CASE m = NaN \/ m = 0
    BY <1>2, RoundMultipleNaN DEF Bucket
<1>3. CASE m \in Nat \ {0}
    <2>1. PlainQuotient(t, m) /\ m # NaN
        BY <1>1, <1>3 DEF PlainTimes
    <2>2. roundMultiple(t, m) \in Nat
        BY <1>1, <1>3, <2>1, RoundMultiplePlain
    <2>3. QED
        BY <1>3, <2>2 DEF Bucket
<1>4. QED
    BY <1>1, <1>2, <1>3

(* The bucket of a later sample is no earlier, for a positive multiple.    *)
LEMMA BucketMonotone ==
    ASSUME PlainTimes, NEW t \in Times, NEW u \in Times, t <= u,
           NEW m \in Multiples \cup {1}, m \in Nat \ {0}
    PROVE  roundMultiple(t, m) <= roundMultiple(u, m)
<1>1. t \in Nat /\ u \in Nat /\ NaN \notin Int
    BY SampleAssumption
<1>2. PlainQuotient(t, m) /\ PlainQuotient(u, m) /\ m # NaN
    BY <1>1 DEF PlainTimes
<1>3. QED
    BY <1>1, <1>2, RoundMultipleMonotone

-----------------------------------------------------------------------------
(* The invariant holds initially and is kept by every step.                *)

(* One iteration of load_containers_data pushes a bucket no earlier than   *)
(* every defined bucket already in the table.                              *)
LEMMA AggregateStepSInv == PlainTimes /\ SInv /\ AggregateStep => SInv'
<1> SUFFICES ASSUME PlainTimes, SInv, AggregateStep PROVE SInv'
    OBVIOUS
<1>0. /\ SeriesTypeOK /\ SortedFeed /\ BucketsBelow
      /\ \A c \in DOMAIN stats : TimesSorted(stats[c].time)
      /\ \A c \in DOMAIN containers_data : TimesSorted(containers_data[c].time)
    BY DEF SInv
<1> DEFINE e == array_stats[index + 1]
<1>m. PICK m : m = multiple_to_use
    OBVIOUS
<1>h. PICK h : h = IF e.container_id \in DOMAIN stats THEN stats[e.container_id]
                   ELSE [time |-> <<>>, cpu |-> <<>>]
    OBVIOUS
<1>v. PICK t, v : t = e.time /\ v = roundMultiple(t, m)
    OBVIOUS
<1>1. /\ stats' = [c \in DOMAIN stats \cup {e.container_id} |->
                     IF c = e.container_id
                     THEN [time |-> Append(h.time, v), cpu |-> Append(h.cpu, e.cpu)]
                     ELSE stats[c]]
      /\ index' = index + 1
      /\ UNCHANGED <<array_stats, agg, multiple_to_use, containers_data>>
      /\ UNCHANGED vars
    BY <1>m, <1>h, <1>v DEF AggregateStep
<1>2. /\ index \in Nat /\ index + 1 \in 1..Len(array_stats)
      /\ e \in Sample /\ m \in Multiples \cup {1} /\ t \in Times
    <2>1. index \in Nat /\ index + 1 \in 1..Len(array_stats)
        BY <1>0 DEF AggregateStep, SeriesTypeOK
    <2>2. e \in Sample
        BY <1>0, <2>1 DEF SeriesTypeOK
    <2>3. m \in Multiples \cup {1}
        BY <1>0, <1>m DEF SeriesTypeOK
    <2>4. t \in Times
        BY <1>v, <2>2 DEF Sample
    <2>5. QED
        BY <2>1, <2>2, <2>3, <2>4
<1>3. /\ v \in Bucket
      /\ v # NaN => m \in Nat \ {0} /\ v \in Nat
    BY <1>2, <1>v, BucketOf
<1>4. h \in Holder /\ TimesSorted(h.time)
    <2>1. CASE e.container_id \in DOMAIN stats
        BY <1>0, <1>h, <2>1 DEF SeriesTypeOK
    <2>2. CASE e.container_id \notin DOMAIN stats
        BY <1>h, <2>2 DEF Holder, TimesSorted
    <2>3. QED
        BY <2>1, <2>2
<1>5. NaN \notin Int
    BY SampleAssumption
(* Every defined bucket of the table is at most v, and v is a natural.     *)
<1>6. ASSUME NEW c \in DOMAIN stats, NEW p \in 1..Len(stats[c].time),
             stats[c].time[p] # NaN
      PROVE  /\ m \in Nat \ {0} /\ v \in Nat /\ stats[c].time[p] \in Int
             /\ stats[c].time[p] <= v
    <2>1. /\ m \in Nat \ {0} /\ index > 0
          /\ stats[c].time[p] <= roundMultiple(array_stats[index].time, m)
        BY <1>0, <1>6, <1>m DEF BucketsBelow
    <2>2. PICK u \in Times : u = array_stats[index].time
        <3>1. index \in 1..Len(array_stats)
            BY <1>2, <2>1
        <3>2. array_stats[index] \in Sample
            BY <1>0, <3>1, ElementOfSeq DEF SeriesTypeOK
        <3>3. QED
            BY <3>2 DEF Sample
    <2>3. u <= t
        <3>1. index \in 1..(Len(array_stats) - 1)
            BY <1>2, <2>1
        <3>2. QED
            BY <1>0, <1>v, <2>2, <3>1 DEF SortedFeed
    <2>4. roundMultiple(u, m) <= v
        BY <1>2, <1>v, <2>1, <2>3, BucketMonotone
    <2>5. roundMultiple(u, m) \in Nat
        BY <1>2, <2>1, BucketOf
    <2>6. v \in Nat
        BY <1>2, <1>v, <2>1, BucketOf
    <2>7. stats[c].time[p] \in Bucket
        BY <1>0, <1>6, ElementOfSeq DEF SeriesTypeOK, Holder
    <2>8. stats[c].time[p] \in Int
        BY <1>6, <2>7 DEF Bucket
    <2>9. QED
        BY <2>1, <2>2, <2>4, <2>5, <2>6, <2>8
<1>7. /\ Append(h.time, v) \in Seq(Bucket) /\ Append(h.cpu, e.cpu) \in Seq(Values)
      /\ Len(Append(h.time, v)) = Len(h.time) + 1
      /\ \A p \in 1..Len(h.time) : Append(h.time, v)[p] = h.time[p]
      /\ Append(h.time, v)[Len(h.time) + 1] = v
    BY <1>2, <1>3, <1>4, AppendProperties DEF Holder, Sample
(* The defined buckets of the holder are those of the table, at most v.    *)
<1>8. \A p \in 1..Len(h.time) : h.time[p] # NaN =>
          h.time[p] \in Int /\ h.time[p] <= v /\ m \in Nat \ {0}
    <2>1. CASE e.container_id \in DOMAIN stats
        BY <1>6, <1>h, <2>1
    <2>2. CASE e.container_id \notin DOMAIN stats
        BY <1>h, <2>2
    <2>3. QED
        BY <2>1, <2>2
<1>9. SeriesTypeOK'
    <2>1. DOMAIN stats' \subseteq SampleIds
        BY <1>0, <1>1, <1>2 DEF SeriesTypeOK, Sample
    <2>2. stats' \in [DOMAIN stats' -> Holder]
        BY <1>0, <1>1, <1>7 DEF SeriesTypeOK, Holder
    <2>3. index' \in 0..Len(array_stats')
        BY <1>1, <1>2
    <2>4. TypeOK'
        BY <1>0, <1>1 DEF SeriesTypeOK, TypeOK, vars
    <2>5. QED
        BY <1>0, <1>1, <1>m, <2>1, <2>2, <2>3, <2>4 DEF SeriesTypeOK
<1>10. TimesSorted(Append(h.time, v))
    <2> SUFFICES ASSUME NEW p \in 1..(Len(Append(h.time, v)) - 1),
                        Append(h.time, v)[p] # NaN, Append(h.time, v)[p + 1] # NaN
                 PROVE  Append(h.time, v)[p] <= Append(h.time, v)[p + 1]
        BY DEF TimesSorted
    <2>1. Len(h.time) \in Nat /\ p \in 1..Len(h.time)
        BY <1>4, <1>7 DEF Holder
    <2>2. CASE p < Len(h.time)
        BY <1>4, <1>7, <2>1, <2>2 DEF TimesSorted
    <2>3. CASE p = Len(h.time)
        BY <1>7, <1>8, <2>1, <2>3
    <2>4. QED
        BY <2>1, <2>2, <2>3
<1>11. (\A c \in DOMAIN stats : TimesSorted(stats[c].time))'
    BY <1>0, <1>1, <1>10
<1>12. BucketsBelow'
    <2>0. /\ roundMultiple(array_stats'[index'].time, multiple_to_use') = v
          /\ multiple_to_use' = m /\ index' = index + 1
        BY <1>1, <1>m, <1>v
    <2> SUFFICES ASSUME NEW c \in DOMAIN stats', NEW p \in 1..Len(stats'[c].time),
                        stats'[c].time[p] # NaN
                 PROVE  /\ m \in Nat \ {0} /\ index + 1 > 0
                        /\ stats'[c].time[p] <= v
        BY <2>0 DEF BucketsBelow
    <2>1. CASE c = e.container_id
        <3>1. stats'[c].time = Append(h.time, v)
            BY <1>1, <2>1
        <3>2. CASE p \in 1..Len(h.time)
            BY <1>7, <1>8, <1>2, <3>1, <3>2
        <3>3. CASE p = Len(h.time) + 1
            BY <1>3, <1>7, <1>2, <3>1, <3>3
        <3>4. QED
            BY <1>4, <1>7, <3>1, <3>2, <3>3 DEF Holder
    <2>2. CASE c # e.container_id
        <3>1. c \in DOMAIN stats /\ stats'[c] = stats[c]
            BY <1>1, <2>2
        <3>2. QED
            BY <1>2, <1>6, <3>1
    <2>3. QED
        BY <2>1, <2>2
<1>13. QED
    BY <1>0, <1>1, <1>9, <1>11, <1>12 DEF SInv, SortedFeed

(* The page before its first pass: a sorted feed and empty tables.        *)
LEMMA SeriesInitSInv == SeriesInit => SInv
<1> SUFFICES ASSUME SeriesInit PROVE SInv
    OBVIOUS
<1>1. TypeOK
    BY InitTypeOK DEF SeriesInit
<1>2. PICK n \in 0..MaxSamples : /\ array_stats \in [1..n -> Sample]
                                 /\ \A i \in 1..(Len(array_stats) - 1) :
                                       array_stats[i].time <= array_stats[i + 1].time
    BY DEF SeriesInit, SampleFeeds
<1>3. array_stats \in Seq(Sample)
    BY <1>2, SampleAssumption, SeqDef
<1>4. SeriesTypeOK
    BY <1>1, <1>3 DEF SeriesInit, SeriesTypeOK
<1>5. QED
    BY <1>2, <1>4 DEF SeriesInit, SInv, SortedFeed, BucketsBelow

(* A pass starts over from an empty table (var stats = {}).                *)
LEMMA StartPassSInv ==
    ASSUME SInv, NEW m \in Multiples \cup {1}, start_pass(m),
           UNCHANGED <<array_stats, containers_data>>, UNCHANGED vars
    PROVE  SInv'
<1>1. TypeOK'
    BY DEF SInv, SeriesTypeOK, TypeOK, vars
<1>2. SeriesTypeOK'
    BY <1>1 DEF SInv, SeriesTypeOK, start_pass
<1>3. QED
    BY <1>2 DEF SInv, start_pass, SortedFeed, BucketsBelow

(* setState({containers_data: stats}) publishes the sorted series.         *)
LEMMA AggregateDoneSInv == SInv /\ AggregateDone => SInv'
<1> SUFFICES ASSUME SInv, AggregateDone PROVE SInv'
    OBVIOUS
<1>1. TypeOK'
    BY DEF SInv, SeriesTypeOK, TypeOK, AggregateDone, vars
<1>2. SeriesTypeOK'
    BY <1>1 DEF SInv, SeriesTypeOK, AggregateDone
<1>3. BucketsBelow'
    BY DEF SInv, BucketsBelow, AggregateDone
<1>4. QED
    BY <1>2, <1>3 DEF SInv, AggregateDone, SortedFeed

(* Load and the clicks of Visibility leave the series alone.               *)
LEMMA VisibilityStepSInv == SInv /\ [Next]_vars /\ UNCHANGED seriesvars => SInv'
<1> SUFFICES ASSUME SInv, [Next]_vars, UNCHANGED seriesvars PROVE SInv'
    OBVIOUS
<1>1. TypeOK'
    BY NextTypeOK DEF SInv, SeriesTypeOK
<1>2. SeriesTypeOK'
    BY <1>1 DEF SInv, SeriesTypeOK, seriesvars
<1>3. QED
    BY <1>2 DEF SInv, seriesvars, SortedFeed, TimesSorted, BucketsBelow

(* SInv is inductive.                                                      *)
LEMMA SeriesNextSInv == PlainTimes /\ SInv /\ [SeriesNext]_allvars => SInv'
<1> SUFFICES ASSUME PlainTimes, SInv, [SeriesNext]_allvars PROVE SInv'
    OBVIOUS
<1>1. CASE (LoadStep \/ LoadDone) /\ UNCHANGED seriesvars
    BY <1>1, VisibilityStepSInv DEF Next
<1>2. CASE LoadDataOnMount
    BY <1>2, StartPassSInv DEF LoadDataOnMount
<1>3. CASE AggregateStep
    BY <1>3, AggregateStepSInv
<1>4. CASE AggregateDone
    BY <1>4, AggregateDoneSInv
<1>5. CASE \E m \in Multiples : updateMultipleValue(m)
    BY <1>5, StartPassSInv DEF updateMultipleValue
<1>6. CASE Click
    BY <1>6, VisibilityStepSInv DEF Click
<1>7. CASE UNCHANGED allvars
    BY <1>7, VisibilityStepSInv DEF allvars
<1>8. QED
    BY <1>1, <1>2, <1>3, <1>4, <1>5, <1>6, <1>7 DEF SeriesNext

-----------------------------------------------------------------------------
(* Type correctness of the metric page: Load, the passes of                *)
(* load_containers_data and the clicks keep every table well typed, for    *)
(* every sorted feed and every multiple in the plain range.                *)
THEOREM SeriesTypeCorrect == PlainTimes => (SeriesSpec => []SeriesTypeOK)
<1> SUFFICES ASSUME PlainTimes PROVE SeriesSpec => []SeriesTypeOK
    OBVIOUS
<1>1. SInv => SeriesTypeOK
    BY DEF SInv
<1>2. SInv /\ [SeriesNext]_allvars => SInv'
    BY SeriesNextSInv
<1>3. QED
    BY <1>1, <1>2, SeriesInitSInv, PTL DEF SeriesSpec

(* For a feed sorted by time, every plotted series' buckets never          *)
(* decrease, whatever multiples are typed between the passes, as long as   *)
(* no quotient reaches the exponent range (rounding_edges shows what       *)
(* happens there).                                                         *)
THEOREM BucketsSortedHolds == PlainTimes => (SeriesSpec => []BucketsSorted)
<1> SUFFICES ASSUME PlainTimes PROVE SeriesSpec => []BucketsSorted
    OBVIOUS
<1>1. SInv => BucketsSorted
    BY DEF SInv, BucketsSorted, TimesSorted
<1>2. SInv /\ [SeriesNext]_allvars => SInv'
    BY SeriesNextSInv
<1>3. QED
    BY <1>1, <1>2, SeriesInitSInv, PTL DEF SeriesSpec

=============================================================================
