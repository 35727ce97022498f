--------------------------- MODULE HostSeriesProofs --------------------------
(***************************************************************************)
(* Proofs about the host series of views/Graph.jsx (HostSeries), for every *)
(* set of hosts, sample times, metric values and multiples, and every      *)
(* number of samples and of visits of the route.                           *)
(*                                                                         *)
(* The one hypothesis is that the quotient of every sample time by every   *)
(* positive multiple of the field prints in plain decimal form (it is      *)
(* below 10^-6 only for a multiple above a million times the time): in the *)
(* exponent range parseInt reads a digit of a power of ten far beyond what *)
(* the provers evaluate.  That range stays with TLC (runs hosts and        *)
(* rounding_edges).  The 1 of componentDidMount is always plain.           *)
(***************************************************************************)
EXTENDS HostSeries, NormalizeProofs, SequenceTheorems, TLAPS

(* Every positive multiple the field can hold leaves every sample time in  *)
(* the plain range.                                                        *)
PlainSamples == \A t \in Times, m \in Multiples \ {NaN, 0} : PlainQuotient(t, m)

(* Every time of every holder of the table tbl is a bucket of m.           *)
HostsOnGrid(tbl, m) ==
    \A h \in DOMAIN tbl : \A p \in DOMAIN tbl[h].time : OnGrid(tbl[h].time[p], m)

(* The inductive invariant.  BucketsOnGrid speaks of the plots only; to    *)
(* carry it across a pass, the table under construction must be on the    *)
(* grid of the pass's multiple, the mounted component's pass must use the  *)
(* multiple of its own field, and, for TypeOK, the listener count must     *)
(* stay with the mount count.                                              *)
HInv ==
    /\ TypeOK
    /\ listeners = mounts
    /\ mounted => multiple_to_use = FieldMultiple
    /\ HostsOnGrid(stats, multiple_to_use)
    /\ agg = "idle" => HostsOnGrid(hosts_data, multiple_to_use)


-----------------------------------------------------------------------------
(* The bucket roundMultiple makes of a sample time with a multiple of the  *)
(* field, or the 1 of componentDidMount, is NaN or an integer, and on the  *)
(* grid of that multiple.                                                  *)
LEMMA HostBucket ==
    ASSUME PlainSamples, NEW t \in Times, NEW m \in Multiples \cup {1}
    PROVE  /\ roundMultiple(t, m) \in Int \cup {NaN}
           /\ OnGrid(roundMultiple(t, m), m)
<1>1. t \in Nat /\ (m = NaN \/ m \in Nat) /\ NaN \notin Int
    BY HostAssumption
<1>2. CASE m = NaN \/ m = 0
    BY <1>2, RoundMultipleNaN DEF OnGrid
<1>3. CASE m \in Nat \ {0} /\ m # NaN
    <2>1. PlainQuotient(t, m)
        <3>1. CASE m = 1
            BY <1>1, <3>1 DEF PlainQuotient
        <3>2. CASE m # 1
            BY <1>3, <3>2 DEF PlainSamples
        <3>3. QED
            BY <3>1, <3>2
    <2>2. PICK q \in Nat : roundMultiple(t, m) = q * m
        BY <1>1, <1>3, <2>1, RoundMultipleOnGrid
    <2>3. q * m \in Int /\ q * m # NaN /\ (q * m) % m = 0
        BY <1>1, <1>3
    <2>4. QED
        BY <1>3, <2>2, <2>3 DEF OnGrid
<1>4. QED
    BY <1>1, <1>2, <1>3

-----------------------------------------------------------------------------
(* Before the first visit the tables are empty.                            *)
LEMMA HostInitHInv == Init => HInv
<1> SUFFICES ASSUME Init PROVE HInv
    OBVIOUS
<1>1. PICK n \in 0..MaxSamples : array_stats \in [1..n -> Sample]
    BY DEF Init, SampleFeeds
<1>2. array_stats \in Seq(Sample)
    BY <1>1, HostAssumption, SeqDef
<1>3. DOMAIN << >> = {} /\ << >> \in [{} -> Holder]
    OBVIOUS
<1>4. /\ stats \in [DOMAIN stats -> Holder] /\ DOMAIN stats \subseteq Hosts
      /\ hosts_data \in [DOMAIN hosts_data -> Holder] /\ DOMAIN hosts_data \subseteq Hosts
    BY <1>3 DEF Init
<1>5. /\ mounts \in 0..MaxMounts /\ listeners \in 0..MaxMounts
      /\ index \in 0..Len(array_stats)
    BY <1>2, HostAssumption DEF Init
<1>6. /\ mounted \in BOOLEAN /\ hide_code \in BOOLEAN /\ agg \in {"idle", "running"}
      /\ multiple_to_use \in Multiples \cup {1} /\ field \in Multiples \cup {None}
    BY DEF Init
<1>7. TypeOK
    BY <1>2, <1>4, <1>5, <1>6 DEF TypeOK
<1>8. QED
    BY <1>4, <1>7 DEF Init, HInv, HostsOnGrid

(* componentDidMount starts the pass with 1, the multiple of a field that  *)
(* is still empty, and counts the listener it registers.                   *)
LEMMA MountHInv == HInv /\ Mount => HInv'
<1> SUFFICES ASSUME HInv, Mount PROVE HInv'
    OBVIOUS
<1>1. TypeOK'
    BY HostAssumption DEF HInv, TypeOK, Mount
<1>2. FieldMultiple' = 1
    BY DEF Mount, FieldMultiple
<1>3. QED
    BY <1>1, <1>2 DEF HInv, Mount, HostsOnGrid

(* Leaving the route changes nothing but mounted.                          *)
LEMMA UnmountHInv == HInv /\ Unmount => HInv'
BY DEF HInv, TypeOK, Unmount, FieldMultiple, HostsOnGrid

(* The Show/Hide button changes hide_code only.                            *)
LEMMA ToggleHInv == HInv /\ toggle_code => HInv'
BY DEF HInv, TypeOK, toggle_code, FieldMultiple, HostsOnGrid

(* A keystroke restarts the pass with the multiple it stores in the field. *)
LEMMA UpdateHInv ==
    ASSUME NEW m \in Multiples, HInv, updateMultipleValue(m)
    PROVE  HInv'
<1>1. TypeOK'
    BY DEF HInv, TypeOK, updateMultipleValue
<1>2. FieldMultiple' = m
    BY HostAssumption DEF updateMultipleValue, FieldMultiple
<1>3. QED
    BY <1>1, <1>2 DEF HInv, updateMultipleValue, HostsOnGrid

(* The end of the pass publishes the table built with its multiple.        *)
LEMMA HostDoneHInv == HInv /\ HostDone => HInv'
BY DEF HInv, TypeOK, HostDone, FieldMultiple, HostsOnGrid

(* A stutter changes nothing.                                              *)
LEMMA StutterHInv == HInv /\ UNCHANGED vars => HInv'
BY DEF HInv, TypeOK, vars, FieldMultiple, HostsOnGrid

(* One iteration of load_host_data appends the bucket of the next sample  *)
(* to its host's holder (a fresh one for a new host), on the grid of the   *)
(* pass's multiple.                                                        *)
LEMMA HostStepHInv == PlainSamples /\ HInv /\ HostStep => HInv'
<1> SUFFICES ASSUME PlainSamples, HInv, HostStep PROVE HInv'
    OBVIOUS
<1>1. /\ array_stats \in Seq(Sample) /\ index \in 0..Len(array_stats)
      /\ index < Len(array_stats)
      /\ DOMAIN stats \subseteq Hosts /\ stats \in [DOMAIN stats -> Holder]
      /\ multiple_to_use \in Multiples \cup {1}
      /\ HostsOnGrid(stats, multiple_to_use)
    BY DEF HInv, TypeOK, HostStep
<1>2. PICK e : e = array_stats[index + 1]
    OBVIOUS
<1>3. e \in Sample
    BY <1>1, <1>2
<1>4. PICK holder : holder = IF e.hostname \in DOMAIN stats THEN stats[e.hostname]
                             ELSE EmptyHolder
    OBVIOUS
<1>5. /\ holder \in Holder
      /\ \A p \in DOMAIN holder.time : OnGrid(holder.time[p], multiple_to_use)
    <2>1. CASE e.hostname \in DOMAIN stats
        BY <1>1, <1>4, <2>1 DEF HostsOnGrid
    <2>2. CASE e.hostname \notin DOMAIN stats
        <3>1. holder = EmptyHolder
            BY <1>4, <2>2
        <3>2. EmptyHolder \in Holder /\ DOMAIN EmptyHolder.time = {}
            BY DEF EmptyHolder, Holder
        <3>3. QED
            BY <3>1, <3>2
    <2>3. QED
        BY <2>1, <2>2
<1>6. PICK b : b = roundMultiple(e.time, multiple_to_use)
    OBVIOUS
<1>7. b \in Int \cup {NaN} /\ OnGrid(b, multiple_to_use)
    BY <1>1, <1>3, <1>6, HostBucket DEF Sample
<1> DEFINE nh == [holder EXCEPT !.time = Append(@, b), !.cpu = Append(@, e.cpu)]
<1>8. stats' = [h \in DOMAIN stats \cup {e.hostname} |->
                  IF h = e.hostname THEN nh ELSE stats[h]]
    BY <1>2, <1>4, <1>6 DEF HostStep
<1>9. /\ nh.time = Append(holder.time, b) /\ nh.cpu = Append(holder.cpu, e.cpu)
      /\ nh.dummy = holder.dummy
    BY <1>5 DEF Holder
<1>10. nh \in Holder
    <2>1. Append(holder.time, b) \in Seq(Int \cup {NaN})
        BY <1>5, <1>7, AppendProperties DEF Holder
    <2>2. Append(holder.cpu, e.cpu) \in Seq(Values)
        BY <1>3, <1>5, AppendProperties DEF Holder, Sample
    <2>3. QED
        BY <1>5, <2>1, <2>2 DEF Holder, nh
<1>11. \A p \in DOMAIN nh.time : OnGrid(nh.time[p], multiple_to_use)
    <2> SUFFICES ASSUME NEW p \in DOMAIN nh.time PROVE OnGrid(nh.time[p], multiple_to_use)
        OBVIOUS
    <2>1. holder.time \in Seq(Int \cup {NaN})
        BY <1>5 DEF Holder
    <2>2. p \in 1..Len(holder.time) + 1
        BY <1>9, <2>1
    <2>3. CASE p <= Len(holder.time)
        BY <1>5, <1>9, <2>1, <2>2, <2>3
    <2>4. CASE p = Len(holder.time) + 1
        BY <1>7, <1>9, <2>1, <2>4
    <2>5. QED
        BY <2>2, <2>3, <2>4
<1>12. e.hostname \in Hosts
    BY <1>3 DEF Sample
<1>13. TypeOK'
    <2>1. DOMAIN stats' \subseteq Hosts /\ stats' \in [DOMAIN stats' -> Holder]
        BY <1>1, <1>8, <1>10, <1>12
    <2>2. index' \in 0..Len(array_stats')
        BY <1>1 DEF HostStep
    <2>3. QED
        BY <2>1, <2>2 DEF HInv, TypeOK, HostStep
<1>14. HostsOnGrid(stats, multiple_to_use)'
    <2> SUFFICES ASSUME NEW h \in DOMAIN stats', NEW p \in DOMAIN stats'[h].time
                 PROVE  OnGrid(stats'[h].time[p], multiple_to_use)
        BY DEF HostsOnGrid, HostStep
    <2>1. CASE h = e.hostname
        BY <1>8, <1>11, <2>1
    <2>2. CASE h # e.hostname
        BY <1>1, <1>8, <2>2 DEF HostsOnGrid
    <2>3. QED
        BY <2>1, <2>2
<1>15. QED
    BY <1>13, <1>14 DEF HInv, HostStep, FieldMultiple

(* HInv is inductive.                                                      *)
LEMMA HostNextHInv == PlainSamples /\ HInv /\ [Next]_vars => HInv'
<1> SUFFICES ASSUME PlainSamples, HInv, [Next]_vars PROVE HInv'
    OBVIOUS
<1>1. CASE Mount
    BY <1>1, MountHInv
<1>2. CASE Unmount
    BY <1>2, UnmountHInv
<1>3. CASE HostStep
    BY <1>3, HostStepHInv
<1>4. CASE HostDone
    BY <1>4, HostDoneHInv
<1>5. CASE \E m \in Multiples : updateMultipleValue(m)
    BY <1>5, UpdateHInv
<1>6. CASE toggle_code
    BY <1>6, ToggleHInv
<1>7. CASE UNCHANGED vars
    BY <1>7, StutterHInv
<1>8. QED
    BY <1>1, <1>2, <1>3, <1>4, <1>5, <1>6, <1>7 DEF Next

-----------------------------------------------------------------------------
(* load_host_data keeps the host table and the plots well typed across     *)
(* every visit of the route and every keystroke in the field.              *)
THEOREM HostTypeCorrect == PlainSamples => (Spec => []TypeOK)
<1> SUFFICES ASSUME PlainSamples PROVE Spec => []TypeOK
    OBVIOUS
<1>1. HInv => TypeOK
    BY DEF HInv
<1>2. QED
    BY <1>1, HostInitHInv, HostNextHInv, PTL DEF Spec

(* Whenever the mounted Graph view renders, every plotted time is a bucket *)
(* of the multiple in its own field, or of the 1 of componentDidMount:     *)
(* neither a pass of an earlier keystroke or visit nor an unrounded time   *)
(* reaches the plots.                                                      *)
THEOREM BucketsOnGridHolds == PlainSamples => (Spec => []BucketsOnGrid)
<1> SUFFICES ASSUME PlainSamples PROVE Spec => []BucketsOnGrid
    OBVIOUS
<1>1. HInv => BucketsOnGrid
    BY DEF HInv, BucketsOnGrid, HostsOnGrid
<1>2. QED
    BY <1>1, HostInitHInv, HostNextHInv, PTL DEF Spec

=============================================================================
