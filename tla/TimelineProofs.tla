--------------------------- MODULE TimelineProofs ---------------------------
(***************************************************************************)
(* Proofs about Timeline (loadContainerEvents, get_shapes and              *)
(* updateMultipleValue of views/GraphInstances.jsx), for every set of      *)
(* services, times and actions and every sorted event feed.                *)
(***************************************************************************)
EXTENDS Timeline, SequenceTheorems, TLAPS

-----------------------------------------------------------------------------
(* The inductive invariant. StaircaseShape alone is not inductive: that  *)
(* an event's time is no earlier than the last time pushed needs XBelow   *)
(* and the sorted feed, and TrackBounds keeps the plotted counts inside   *)
(* the bounds only if CountsInBounds already held.                        *)

(* Every time pushed so far is the time of a processed event, hence at     *)
(* most the time of the last processed one (the feed is sorted).           *)
XBelow ==
    \A s \in DOMAIN timelines : \A i \in 1..Len(timelines[s].x) :
        /\ index > 0
        /\ timelines[s].x[i] <= array_events[index].time

(* Every defined count pushed so far lies within the running bounds, and   *)
(* the bounds enclose 0, the count of a service's first event.             *)
CountsInBounds ==
    /\ timelines_min_y <= 0 /\ 0 <= timelines_max_y
    /\ \A s \in DOMAIN timelines : \A j \in 1..Len(timelines[s].y) :
          timelines[s].y[j] # Undefined =>
              timelines_min_y <= timelines[s].y[j] /\ timelines[s].y[j] <= timelines_max_y

(* Once the pass has ended, the state holds its bounds padded by one.      *)
BoundsPublished ==
    pc # "events" =>
        /\ min_y_state = timelines_min_y - 1
        /\ max_y_state = timelines_max_y + 1

TInv ==
    /\ TypeOK
    /\ SortedBy(array_events)
    /\ XBelow
    /\ StaircaseShape
    /\ CountsInBounds
    /\ BoundsPublished

-----------------------------------------------------------------------------
(* Lemmas about the operators of one iteration.                            *)

Holder == [x : Seq(Times), y : Seq(Count)]

(* The staircase shape of one holder, as StaircaseShape states it.         *)
Staircase(h) ==
    /\ Len(h.x) = Len(h.y)
    /\ Len(h.x) % 2 = 0
    /\ \A p \in 1..(Len(h.x) \div 2) :
          /\ h.x[2 * p - 1] = h.x[2 * p]
          /\ p > 1 => h.x[2 * p - 2] <= h.x[2 * p - 1]
          /\ p > 1 /\ h.y[2 * p - 2] # Undefined => h.y[2 * p - 1] = h.y[2 * p - 2]

(* StaircaseShape is Staircase of every service's holder.               *)
LEMMA StaircaseShapeDef == StaircaseShape <=> \A s \in DOMAIN timelines : Staircase(timelines[s])
BY DEF StaircaseShape, Staircase

(* The two pushes of an iteration extend the holder's arrays by two.       *)
LEMMA AppendPointsFacts ==
    ASSUME NEW h \in Holder, NEW t \in Times, NEW a \in Count, NEW b \in Count
    PROVE  LET r == AppendPoints(h, t, a, b) IN
           /\ r \in Holder
           /\ Len(r.x) = Len(h.x) + 2 /\ Len(r.y) = Len(h.y) + 2
           /\ \A i \in 1..Len(h.x) : r.x[i] = h.x[i]
           /\ \A i \in 1..Len(h.y) : r.y[i] = h.y[i]
           /\ r.x[Len(h.x) + 1] = t /\ r.x[Len(h.x) + 2] = t
           /\ r.y[Len(h.y) + 1] = a /\ r.y[Len(h.y) + 2] = b
<1>1. <<t, t>> \in Seq(Times) /\ <<a, b>> \in Seq(Count)
    OBVIOUS
<1>2. h.x \in Seq(Times) /\ h.y \in Seq(Count)
    BY DEF Holder
<1>3. QED
    BY <1>1, <1>2, ConcatProperties DEF AppendPoints, Holder

(* prev_y is an integer: 0, or the last count of the holder if defined.    *)
LEMMA PrevYFacts ==
    ASSUME NEW h \in Holder
    PROVE  /\ PrevY(h) \in Int
           /\ PrevY(h) = 0 \/ (Len(h.y) > 0 /\ h.y[Len(h.y)] # Undefined
                                /\ PrevY(h) = h.y[Len(h.y)])
           /\ Len(h.y) > 0 /\ h.y[Len(h.y)] # Undefined => PrevY(h) = h.y[Len(h.y)]
<1>1. h.y \in Seq(Count)
    BY DEF Holder
<1>2. Len(h.y) > 0 => h.y[Len(h.y)] \in Count
    BY <1>1
<1>3. QED
    BY <1>1, <1>2 DEF PrevY, Count

(* new_y is an integer, or undefined for an action the switch ignores.   *)
LEMMA NewYType ==
    ASSUME NEW p \in Int, NEW act
    PROVE  NewY(p, act) \in Count /\ (NewY(p, act) # Undefined => NewY(p, act) \in Int)
BY UndefinedAssumption DEF NewY, Count

(* Arithmetic of an even length grown by two.                             *)
LEMMA EvenFacts ==
    ASSUME NEW m \in Nat, m % 2 = 0
    PROVE  /\ m = 2 * (m \div 2)
           /\ (m + 2) \div 2 = m \div 2 + 1
           /\ (m + 2) % 2 = 0
           /\ m \div 2 \in Nat
BY SMT

(* Pushing a step whose time is no earlier than the holder's last time,    *)
(* and whose first count repeats the holder's last defined count, keeps   *)
(* the holder a staircase.                                                 *)
LEMMA StaircaseAppend ==
    ASSUME NEW h \in Holder, NEW t \in Times, NEW a \in Count, NEW b \in Count,
           Staircase(h),
           Len(h.x) > 0 => h.x[Len(h.x)] <= t,
           Len(h.y) > 0 /\ h.y[Len(h.y)] # Undefined => a = h.y[Len(h.y)]
    PROVE  Staircase(AppendPoints(h, t, a, b))
<1> DEFINE r == AppendPoints(h, t, a, b)
           m == Len(h.x)
<1>1. /\ r \in Holder
      /\ Len(r.x) = m + 2 /\ Len(r.y) = Len(h.y) + 2
      /\ \A i \in 1..m : r.x[i] = h.x[i]
      /\ \A i \in 1..Len(h.y) : r.y[i] = h.y[i]
      /\ r.x[m + 1] = t /\ r.x[m + 2] = t
      /\ r.y[Len(h.y) + 1] = a /\ r.y[Len(h.y) + 2] = b
    <2>1. <<t, t>> \in Seq(Times) /\ <<a, b>> \in Seq(Count)
        OBVIOUS
    <2>2. h.x \in Seq(Times) /\ h.y \in Seq(Count)
        BY DEF Holder
    <2>3. QED
        BY <2>1, <2>2, ConcatProperties DEF AppendPoints, Holder
<1>2. m \in Nat /\ Len(h.y) = m /\ m % 2 = 0
    BY DEF Staircase, Holder
<1>3. PICK q \in Nat : m = 2 * q
    <2>1. m = 2 * (m \div 2) /\ m \div 2 \in Nat
        BY <1>2, EvenFacts, Zenon
    <2>2. QED
        BY <2>1
<1>4. m \div 2 = q /\ Len(r.x) = Len(r.y) /\ Len(r.x) % 2 = 0 /\ Len(r.x) \div 2 = q + 1
    BY <1>1, <1>2, <1>3
<1>5. ASSUME NEW p \in 1..q
      PROVE  /\ r.x[2 * p - 1] = r.x[2 * p]
             /\ p > 1 => r.x[2 * p - 2] <= r.x[2 * p - 1]
             /\ p > 1 /\ r.y[2 * p - 2] # Undefined => r.y[2 * p - 1] = r.y[2 * p - 2]
    <2>1. 2 * p \in 1..m /\ 2 * p - 1 \in 1..m /\ (p > 1 => 2 * p - 2 \in 1..m)
        BY <1>3
    <2>2. /\ h.x[2 * p - 1] = h.x[2 * p]
          /\ p > 1 => h.x[2 * p - 2] <= h.x[2 * p - 1]
          /\ p > 1 /\ h.y[2 * p - 2] # Undefined => h.y[2 * p - 1] = h.y[2 * p - 2]
        BY <1>4 DEF Staircase
    <2>3. QED
        BY <1>1, <1>2, <2>1, <2>2
<1>6. /\ r.x[2 * (q + 1) - 1] = r.x[2 * (q + 1)]
      /\ q + 1 > 1 => r.x[2 * (q + 1) - 2] <= r.x[2 * (q + 1) - 1]
      /\ q + 1 > 1 /\ r.y[2 * (q + 1) - 2] # Undefined
             => r.y[2 * (q + 1) - 1] = r.y[2 * (q + 1) - 2]
    <2>1. 2 * (q + 1) - 1 = m + 1 /\ 2 * (q + 1) = m + 2 /\ 2 * (q + 1) - 2 = m
        BY <1>3
    <2>2. q + 1 > 1 => m \in 1..m
        BY <1>3
    <2>3. r.x[m + 1] = r.x[m + 2]
        BY <1>1
    <2>4. m \in 1..m => r.x[m] <= r.x[m + 1]
        <3>1. m \in 1..m => r.x[m] = h.x[m]
            BY <1>1
        <3>2. r.x[m + 1] = t
            BY <1>1
        <3>3. QED
            BY <3>1, <3>2
    <2>5. m \in 1..m /\ r.y[m] # Undefined => r.y[m + 1] = r.y[m]
        <3>1. m \in 1..m => r.y[m] = h.y[m]
            BY <1>1, <1>2
        <3>2. r.y[m + 1] = a
            BY <1>1, <1>2
        <3>3. QED
            BY <1>2, <3>1, <3>2
    <2>6. QED
        BY <2>1, <2>2, <2>3, <2>4, <2>5
<1>7. QED
    <2>1. \A p \in 1..(q + 1) : p \in 1..q \/ p = q + 1
        OBVIOUS
    <2>2. \A p \in 1..(q + 1) :
              /\ r.x[2 * p - 1] = r.x[2 * p]
              /\ p > 1 => r.x[2 * p - 2] <= r.x[2 * p - 1]
              /\ p > 1 /\ r.y[2 * p - 2] # Undefined => r.y[2 * p - 1] = r.y[2 * p - 2]
        BY <1>5, <1>6, <2>1, Zenon
    <2>3. QED
        BY <1>4, <2>2 DEF Staircase

-----------------------------------------------------------------------------
(* The invariant holds initially and is kept by every step.                *)

(* The state before componentDidMount: nothing pushed, bounds at 0.      *)
LEMMA InitTInv == Init => TInv
<1> SUFFICES ASSUME Init PROVE TInv
    OBVIOUS
<1>1. array_events \in Seq(Event) /\ SortedBy(array_events)
    BY BoundsAssumption DEF Init, EventFeeds
<1>2. array_marks \in Seq([time : Times])
    <2>1. PICK n \in 0..MaxMarks : array_marks \in [1..n -> [time : Times]]
        BY DEF Init, MarkFeeds
    <2>2. n \in Nat
        BY BoundsAssumption
    <2>3. QED
        BY <2>1, <2>2, SeqDef
<1>3. TypeOK
    BY <1>1, <1>2, UndefinedAssumption DEF Init, TypeOK, Count
<1>4. QED
    BY <1>1, <1>3 DEF Init, TInv, XBelow, StaircaseShape, CountsInBounds, BoundsPublished

(* One iteration of loadContainerEvents keeps the invariant.               *)
LEMMA EventStepTInv == TInv /\ EventStep => TInv'
<1> SUFFICES ASSUME TInv, EventStep PROVE TInv'
    OBVIOUS
<1>0. TypeOK /\ SortedBy(array_events) /\ XBelow /\ StaircaseShape
      /\ CountsInBounds /\ BoundsPublished
    BY DEF TInv
(* The iteration's event, holder, time and counts, named.                  *)
<1> DEFINE e == array_events[index + 1]
<1>h. PICK h : h = IF e.service \in DOMAIN timelines THEN timelines[e.service]
                   ELSE [x |-> <<>>, y |-> <<>>]
    OBVIOUS
<1>v. PICK t, py, ny : /\ t = e.time
                       /\ py = PrevY(h)
                       /\ ny = NewY(py, e.action)
    OBVIOUS
<1> DEFINE r == AppendPoints(h, t, py, ny)
<1>1. /\ index + 1 \in 1..Len(array_events)
      /\ e \in Event
      /\ t \in Times
      /\ t \in Int
    <2>1. index + 1 \in 1..Len(array_events)
        BY <1>0 DEF EventStep, TypeOK
    <2>2. e \in Event
        BY <1>0, <2>1 DEF TypeOK
    <2>3. t \in Times
        BY <1>v, <2>2 DEF Event
    <2>4. QED
        BY <2>1, <2>2, <2>3, TimesAssumption
<1>2. /\ timelines' = [s \in DOMAIN timelines \cup {e.service} |->
                         IF s = e.service THEN r ELSE timelines[s]]
      /\ TrackBounds(ny)
      /\ index' = index + 1
      /\ pc = "events"
      /\ UNCHANGED <<array_events, array_marks, pc, min_y_state, max_y_state,
                     shapes, multiple>>
    BY <1>h, <1>v DEF EventStep
<1>3. h \in Holder /\ Staircase(h)
    <2>1. CASE e.service \in DOMAIN timelines
        BY <1>0, <1>h, <2>1 DEF TypeOK, Holder, StaircaseShape, Staircase
    <2>2. CASE e.service \notin DOMAIN timelines
        BY <1>h, <2>2 DEF Holder, Staircase
    <2>3. QED
        BY <2>1, <2>2
<1>4. /\ py \in Int
      /\ py = 0 \/ (Len(h.y) > 0 /\ h.y[Len(h.y)] # Undefined /\ py = h.y[Len(h.y)])
      /\ Len(h.y) > 0 /\ h.y[Len(h.y)] # Undefined => py = h.y[Len(h.y)]
    BY <1>3, <1>v, PrevYFacts
<1>5. ny \in Count /\ (ny # Undefined => ny \in Int)
    BY <1>4, <1>v, NewYType
<1>6. /\ timelines_min_y' \in Int /\ timelines_max_y' \in Int
      /\ timelines_min_y' <= timelines_min_y /\ timelines_max_y <= timelines_max_y'
      /\ ny # Undefined => timelines_min_y' <= ny /\ ny <= timelines_max_y'
    <2>1. /\ timelines_min_y \in Int /\ timelines_max_y \in Int /\ TrackBounds(ny)
          /\ timelines_min_y <= timelines_max_y
        BY <1>0, <1>2 DEF TypeOK, CountsInBounds
    <2>2. CASE ny # Undefined /\ ny > timelines_max_y
        BY <1>5, <2>1, <2>2 DEF TrackBounds
    <2>3. CASE ~(ny # Undefined /\ ny > timelines_max_y) /\ ny # Undefined /\ ny < timelines_min_y
        BY <1>5, <2>1, <2>3 DEF TrackBounds
    <2>4. CASE ~(ny # Undefined /\ ny > timelines_max_y) /\ ~(ny # Undefined /\ ny < timelines_min_y)
        BY <1>5, <2>1, <2>4 DEF TrackBounds
    <2>5. QED
        BY <2>2, <2>3, <2>4
<1>7. /\ r \in Holder
      /\ Len(r.x) = Len(h.x) + 2 /\ Len(r.y) = Len(h.y) + 2
      /\ \A i \in 1..Len(h.x) : r.x[i] = h.x[i]
      /\ \A i \in 1..Len(h.y) : r.y[i] = h.y[i]
      /\ r.x[Len(h.x) + 1] = t /\ r.x[Len(h.x) + 2] = t
      /\ r.y[Len(h.y) + 1] = py /\ r.y[Len(h.y) + 2] = ny
    <2>1. h \in Holder /\ t \in Times /\ py \in Count /\ ny \in Count
        BY <1>1, <1>3, <1>4, <1>5 DEF Count
    <2>2. QED
        BY <2>1, AppendPointsFacts
(* The holder's arrays are those of the service's timeline, or empty.      *)
<1>8. \/ e.service \in DOMAIN timelines /\ h = timelines[e.service]
      \/ e.service \notin DOMAIN timelines /\ Len(h.x) = 0 /\ Len(h.y) = 0
    BY <1>h
(* Every time pushed so far is no later than the new event's.              *)
<1>9. \A s \in DOMAIN timelines : \A i \in 1..Len(timelines[s].x) :
          timelines[s].x[i] <= t
    <2>1. SUFFICES ASSUME NEW s \in DOMAIN timelines, NEW i \in 1..Len(timelines[s].x)
                   PROVE  timelines[s].x[i] <= t
        OBVIOUS
    <2>2. index > 0 /\ timelines[s].x[i] <= array_events[index].time
        BY <1>0 DEF XBelow
    <2>3. array_events[index].time <= t
        BY <1>0, <1>1, <1>v, <2>2 DEF SortedBy, TypeOK
    <2>4. timelines[s].x[i] \in Int /\ array_events[index].time \in Int
        <3>1. timelines[s].x \in Seq(Times)
            BY <1>0 DEF TypeOK
        <3>2. array_events[index] \in Event
            BY <1>0, <1>1, <2>2 DEF TypeOK
        <3>3. timelines[s].x[i] \in Times /\ array_events[index].time \in Times
            BY <3>1, <3>2 DEF Event
        <3>4. QED
            BY <3>3, TimesAssumption
    <2>5. QED
        BY <1>1, <2>2, <2>3, <2>4
<1>10. Len(h.x) > 0 => h.x[Len(h.x)] <= t
    <2>1. Len(h.x) > 0 => Len(h.x) \in 1..Len(h.x)
        BY <1>3 DEF Holder
    <2>2. QED
        BY <1>8, <1>9, <2>1
<1>11. Staircase(r)
    <2>1. h \in Holder /\ t \in Times /\ py \in Count /\ ny \in Count
        BY <1>1, <1>3, <1>4, <1>5 DEF Count
    <2>2. QED
        BY <1>3, <1>4, <1>10, <2>1, StaircaseAppend
<1>12. TypeOK'
    <2>1. DOMAIN timelines' \subseteq Services
        BY <1>0, <1>1, <1>2 DEF TypeOK, Event
    <2>2. \A s \in DOMAIN timelines' : timelines'[s] \in [x : Seq(Times), y : Seq(Count)]
        BY <1>0, <1>2, <1>7 DEF TypeOK, Holder
    <2>3. index' \in 0..Len(array_events')
        BY <1>1, <1>2
    <2>4. QED
        BY <1>0, <1>2, <1>6, <2>1, <2>2, <2>3 DEF TypeOK
<1>13. XBelow'
    <2>1. SUFFICES ASSUME NEW s \in DOMAIN timelines', NEW i \in 1..Len(timelines'[s].x)
                   PROVE  index' > 0 /\ timelines'[s].x[i] <= array_events'[index'].time
        BY DEF XBelow
    <2>2. array_events'[index'].time = t /\ index' > 0
        BY <1>0, <1>2, <1>v DEF TypeOK
    <2>3. CASE s = e.service
        <3>1. timelines'[s] = r
            BY <1>2, <2>3
        <3>2. i \in 1..Len(h.x) \/ i = Len(h.x) + 1 \/ i = Len(h.x) + 2
            BY <1>3, <1>7, <3>1 DEF Holder
        <3>3. ASSUME i \in 1..Len(h.x) PROVE timelines'[s].x[i] <= t
            <4>1. e.service \in DOMAIN timelines /\ h = timelines[e.service]
                BY <1>8, <3>3
            <4>2. timelines'[s].x[i] = timelines[e.service].x[i]
                BY <1>7, <3>1, <3>3, <4>1
            <4>3. QED
                BY <1>9, <4>1, <4>2, <3>3
        <3>4. ASSUME i = Len(h.x) + 1 \/ i = Len(h.x) + 2 PROVE timelines'[s].x[i] <= t
            <4>1. timelines'[s].x[i] = t
                BY <1>7, <3>1, <3>4
            <4>2. QED
                BY <1>1, <4>1
        <3>5. QED
            BY <2>2, <3>2, <3>3, <3>4
    <2>4. CASE s # e.service
        <3>1. s \in DOMAIN timelines /\ timelines'[s] = timelines[s]
            BY <1>2, <2>4
        <3>2. QED
            BY <1>9, <2>2, <3>1
    <2>5. QED
        BY <2>3, <2>4
<1>14. StaircaseShape'
    <2>1. SUFFICES \A s \in DOMAIN timelines' : Staircase(timelines'[s])
        BY DEF StaircaseShape, Staircase
    <2>2. \A s \in DOMAIN timelines : Staircase(timelines[s])
        BY <1>0 DEF StaircaseShape, Staircase
    <2>3. QED
        BY <1>2, <1>11, <2>2
(* A count pushed earlier stays within the bounds, which only widen.       *)
<1>15. ASSUME NEW u \in DOMAIN timelines, NEW i \in 1..Len(timelines[u].y),
              timelines[u].y[i] # Undefined
       PROVE  /\ timelines_min_y' <= timelines[u].y[i]
              /\ timelines[u].y[i] <= timelines_max_y'
    <2>1. timelines_min_y <= timelines[u].y[i] /\ timelines[u].y[i] <= timelines_max_y
        BY <1>0, <1>15 DEF CountsInBounds
    <2>2. timelines[u].y[i] \in Count
        BY <1>0, <1>15 DEF TypeOK
    <2>3. timelines[u].y[i] \in Int
        BY <2>2, <1>15 DEF Count
    <2>4. QED
        BY <1>0, <1>6, <2>1, <2>3 DEF TypeOK
<1>16. CountsInBounds'
    <2>1. timelines_min_y' <= 0 /\ 0 <= timelines_max_y'
        BY <1>0, <1>6 DEF CountsInBounds, TypeOK
    <2>2. SUFFICES ASSUME NEW s \in DOMAIN timelines', NEW j \in 1..Len(timelines'[s].y),
                          timelines'[s].y[j] # Undefined
                   PROVE  /\ timelines_min_y' <= timelines'[s].y[j]
                          /\ timelines'[s].y[j] <= timelines_max_y'
        BY <2>1 DEF CountsInBounds
    <2>3. CASE s = e.service
        <3>1. timelines'[s] = r
            BY <1>2, <2>3
        <3>2. j \in 1..Len(h.y) \/ j = Len(h.y) + 1 \/ j = Len(h.y) + 2
            BY <1>3, <1>7, <3>1 DEF Holder
        <3>3. CASE j \in 1..Len(h.y)
            <4>1. e.service \in DOMAIN timelines /\ h = timelines[e.service]
                BY <1>8, <3>3
            <4>2. timelines'[s].y[j] = timelines[e.service].y[j]
                BY <1>7, <3>1, <3>3, <4>1
            <4>3. QED
                BY <1>15, <2>2, <3>3, <4>1, <4>2
        <3>4. CASE j = Len(h.y) + 1
            <4>1. timelines'[s].y[j] = py
                BY <1>7, <3>1, <3>4
            <4>2. CASE py = 0
                BY <2>1, <4>1, <4>2
            <4>3. CASE Len(h.y) > 0 /\ h.y[Len(h.y)] # Undefined /\ py = h.y[Len(h.y)]
                <5>1. Len(h.y) \in 1..Len(h.y)
                    BY <1>3, <4>3 DEF Holder
                <5>2. e.service \in DOMAIN timelines /\ h = timelines[e.service]
                    BY <1>8, <4>3
                <5>3. QED
                    BY <1>15, <4>1, <4>3, <5>1, <5>2
            <4>4. QED
                BY <1>4, <4>2, <4>3
        <3>5. CASE j = Len(h.y) + 2
            <4>1. timelines'[s].y[j] = ny
                BY <1>7, <3>1, <3>5
            <4>2. QED
                BY <1>6, <2>2, <4>1
        <3>6. QED
            BY <3>2, <3>3, <3>4, <3>5
    <2>4. CASE s # e.service
        <3>1. s \in DOMAIN timelines /\ timelines'[s] = timelines[s]
            BY <1>2, <2>4
        <3>2. QED
            BY <1>15, <2>2, <3>1
    <2>5. QED
        BY <2>3, <2>4
<1>17. QED
    BY <1>0, <1>2, <1>12, <1>13, <1>14, <1>16 DEF TInv, SortedBy, BoundsPublished


(* The end of the event loop publishes the padded bounds.                  *)
LEMMA EventsDoneTInv == TInv /\ EventsDone => TInv'
<1> SUFFICES ASSUME TInv, EventsDone PROVE TInv'
    OBVIOUS
<1>1. TypeOK /\ timelines_min_y \in Int /\ timelines_max_y \in Int
    BY DEF TInv, TypeOK
<1>2. min_y_state' \in Count /\ max_y_state' \in Count
    BY <1>1 DEF EventsDone, Count
<1>3. TypeOK'
    BY <1>1, <1>2 DEF EventsDone, TypeOK
<1>4. BoundsPublished'
    BY DEF EventsDone, BoundsPublished
<1>5. QED
    BY <1>3, <1>4 DEF TInv, EventsDone, SortedBy, XBelow, StaircaseShape, CountsInBounds

(* get_shapes reads the mark times and leaves every timeline alone.       *)
LEMMA GetShapesTInv == TInv /\ get_shapes => TInv'
<1> SUFFICES ASSUME TInv, get_shapes PROVE TInv'
    OBVIOUS
<1>1. shapes' \in Seq(Times)
    <2>1. array_marks \in Seq([time : Times])
        BY DEF TInv, TypeOK
    <2>2. Len(array_marks) \in Nat
        BY <2>1
    <2>3. \A j \in 1..Len(array_marks) : array_marks[j].time \in Times
        <3>1. SUFFICES ASSUME NEW j \in 1..Len(array_marks)
                       PROVE  array_marks[j].time \in Times
            OBVIOUS
        <3>2. array_marks[j] \in [time : Times]
            BY <2>1, ElementOfSeq
        <3>3. QED
            BY <3>2
    <2>4. shapes' \in [1..Len(array_marks) -> Times]
        BY <2>3 DEF get_shapes
    <2>5. QED
        BY <2>2, <2>4, SeqDef
<1>2. TypeOK'
    BY <1>1 DEF TInv, TypeOK, get_shapes
<1>3. BoundsPublished'
    BY DEF TInv, BoundsPublished, get_shapes
<1>4. QED
    BY <1>2, <1>3 DEF TInv, get_shapes, SortedBy, XBelow, StaircaseShape, CountsInBounds

(* A keystroke in the multiple field changes nothing else.                 *)
LEMMA UpdateMultipleTInv ==
    ASSUME TInv, NEW v \in Multiples, updateMultipleValue(v) PROVE TInv'
<1>1. TypeOK'
    BY DEF TInv, TypeOK, updateMultipleValue
<1>2. QED
    BY <1>1 DEF TInv, updateMultipleValue, SortedBy, XBelow, StaircaseShape,
                CountsInBounds, BoundsPublished

(* A step that changes no variable keeps the invariant.                    *)
LEMMA StutterTInv == TInv /\ UNCHANGED vars => TInv'
<1> SUFFICES ASSUME TInv, UNCHANGED vars PROVE TInv'
    OBVIOUS
<1>1. UNCHANGED <<array_events, array_marks, pc, index, timelines, timelines_min_y,
                  timelines_max_y, min_y_state, max_y_state, shapes, multiple>>
    BY DEF vars
<1>2. TypeOK'
    BY <1>1 DEF TInv, TypeOK
<1>3. SortedBy(array_events)' /\ XBelow'
    BY <1>1 DEF TInv, SortedBy, XBelow
<1>4. StaircaseShape' /\ CountsInBounds' /\ BoundsPublished'
    BY <1>1 DEF TInv, StaircaseShape, CountsInBounds, BoundsPublished
<1>5. QED
    BY <1>2, <1>3, <1>4 DEF TInv

(* TInv is inductive.                                                     *)
LEMMA NextTInv == TInv /\ [Next]_vars => TInv'
<1> SUFFICES ASSUME TInv, [Next]_vars PROVE TInv'
    OBVIOUS
<1>1. CASE EventStep
    BY <1>1, EventStepTInv
<1>2. CASE EventsDone
    BY <1>2, EventsDoneTInv
<1>3. CASE get_shapes
    BY <1>3, GetShapesTInv
<1>4. CASE \E v \in Multiples : updateMultipleValue(v)
    BY <1>4, UpdateMultipleTInv
<1>5. CASE UNCHANGED vars
    BY <1>5, StutterTInv
<1>6. QED
    BY <1>1, <1>2, <1>3, <1>4, <1>5 DEF Next

-----------------------------------------------------------------------------
(* Every defined count lies within the running bounds and, once the event  *)
(* loop is over, strictly between the padded bounds min_y - 1, max_y + 1.  *)
LEMMA TInvBounds == TInv => BoundsEncloseCounts
<1> SUFFICES ASSUME TInv, NEW s \in DOMAIN timelines,
                    NEW c \in DefinedCounts(timelines[s].y)
             PROVE  /\ timelines_min_y <= c /\ c <= timelines_max_y
                    /\ pc # "events" => min_y_state < c /\ c < max_y_state
    BY DEF BoundsEncloseCounts
<1>1. timelines[s].y \in Seq(Count)
    BY DEF TInv, TypeOK
<1>2. PICK j \in DOMAIN timelines[s].y : timelines[s].y[j] # Undefined /\ c = timelines[s].y[j]
    BY DEF DefinedCounts
<1>3. j \in 1..Len(timelines[s].y)
    BY <1>1, <1>2
<1>4. c \in Int
    <2>1. timelines[s].y[j] \in Count
        BY <1>1, <1>3, ElementOfSeq
    <2>2. QED
        BY <1>2, <2>1 DEF Count
<1>5. timelines_min_y <= c /\ c <= timelines_max_y
    BY <1>2, <1>3 DEF TInv, CountsInBounds
<1>6. timelines_min_y \in Int /\ timelines_max_y \in Int
    BY DEF TInv, TypeOK
<1>7. pc # "events" => min_y_state = timelines_min_y - 1 /\ max_y_state = timelines_max_y + 1
    BY DEF TInv, BoundsPublished
<1>8. QED
    BY <1>4, <1>5, <1>6, <1>7

(* Type correctness of the Timeline component: every reachable state of    *)
(* loadContainerEvents, get_shapes and the multiple field is well typed.   *)
THEOREM TimelineTypeCorrect == Spec => []TypeOK
<1>1. TInv => TypeOK
    BY DEF TInv
<1>2. QED
    BY <1>1, InitTInv, NextTInv, PTL DEF Spec

(* The arrays loadContainerEvents pushes form a staircase for every        *)
(* service, for every feed of events sorted by time.                       *)
THEOREM StaircaseShapeHolds == Spec => []StaircaseShape
<1>1. TInv => StaircaseShape
    BY DEF TInv
<1>2. QED
    BY <1>1, InitTInv, NextTInv, PTL DEF Spec

(* The bounds loadContainerEvents tracks enclose every count it plots, and *)
(* the padded bounds it publishes enclose them strictly.                   *)
THEOREM BoundsEncloseCountsHolds == Spec => []BoundsEncloseCounts
BY TInvBounds, InitTInv, NextTInv, PTL DEF Spec

-----------------------------------------------------------------------------
(* The append-only action property.                                        *)

(* The body of TimelinesOnlyGrow, for one step.                            *)
Grows ==
    \A s \in DOMAIN timelines :
        /\ s \in DOMAIN timelines'
        /\ IsPrefixOf(timelines[s].x, timelines'[s].x)
        /\ IsPrefixOf(timelines[s].y, timelines'[s].y)

(* A step that leaves timelines alone grows it trivially.                  *)
LEMMA SameTimelinesGrow == TypeOK /\ timelines' = timelines => Grows
BY DEF TypeOK, Grows, IsPrefixOf

(* The pushes of an iteration extend the arrays of the event's service and *)
(* leave those of every other service.                                     *)
LEMMA EventStepGrows == TInv /\ EventStep => Grows
<1> SUFFICES ASSUME TInv, EventStep, NEW s \in DOMAIN timelines
             PROVE  /\ s \in DOMAIN timelines'
                    /\ IsPrefixOf(timelines[s].x, timelines'[s].x)
                    /\ IsPrefixOf(timelines[s].y, timelines'[s].y)
    BY DEF Grows
<1>0. TypeOK
    BY DEF TInv
<1> DEFINE e == array_events[index + 1]
<1>h. PICK h : h = IF e.service \in DOMAIN timelines THEN timelines[e.service]
                   ELSE [x |-> <<>>, y |-> <<>>]
    OBVIOUS
<1>v. PICK t, py, ny : /\ t = e.time
                       /\ py = PrevY(h)
                       /\ ny = NewY(py, e.action)
    OBVIOUS
<1>1. timelines' = [x \in DOMAIN timelines \cup {e.service} |->
                      IF x = e.service THEN AppendPoints(h, t, py, ny) ELSE timelines[x]]
    BY <1>h, <1>v DEF EventStep
<1>2. CASE s = e.service
    <2>1. h = timelines[s] /\ h \in Holder
        BY <1>0, <1>h, <1>2 DEF TypeOK, Holder
    <2>2. e \in Event
        BY <1>0 DEF EventStep, TypeOK
    <2>3. t \in Times
        BY <1>v, <2>2 DEF Event
    <2>4. py \in Int
        BY <1>v, <2>1, PrevYFacts
    <2>5. py \in Count /\ ny \in Count
        BY <1>v, <2>4, NewYType DEF Count
    <2>6. timelines'[s] = AppendPoints(h, t, py, ny)
        BY <1>1, <1>2
    <2>7. /\ Len(timelines'[s].x) = Len(h.x) + 2 /\ Len(timelines'[s].y) = Len(h.y) + 2
          /\ \A i \in 1..Len(h.x) : timelines'[s].x[i] = h.x[i]
          /\ \A i \in 1..Len(h.y) : timelines'[s].y[i] = h.y[i]
        BY <2>1, <2>3, <2>5, <2>6, AppendPointsFacts
    <2>8. Len(h.x) \in Nat /\ Len(h.y) \in Nat
        BY <2>1 DEF Holder
    <2>9. s \in DOMAIN timelines'
        BY <1>1, <1>2
    <2>10. QED
        BY <2>1, <2>7, <2>8, <2>9 DEF IsPrefixOf
<1>3. CASE s # e.service
    <2>1. timelines'[s] = timelines[s]
        BY <1>1, <1>3
    <2>2. timelines[s].x \in Seq(Times) /\ timelines[s].y \in Seq(Count)
        BY <1>0 DEF TypeOK
    <2>3. QED
        BY <1>1, <2>1, <2>2 DEF IsPrefixOf
<1>4. QED
    BY <1>2, <1>3

(* Every step of the view is append-only on the timelines.                 *)
LEMMA NextGrows == TInv /\ [Next]_vars => [Grows]_vars
<1> SUFFICES ASSUME TInv, [Next]_vars PROVE [Grows]_vars
    OBVIOUS
<1>0. TypeOK
    BY DEF TInv
<1>1. CASE EventStep
    BY <1>1, EventStepGrows
<1>2. CASE ~EventStep
    <2>1. timelines' = timelines
        BY <1>2 DEF Next, EventsDone, get_shapes, updateMultipleValue, vars
    <2>2. QED
        BY <1>0, <2>1, SameTimelinesGrow
<1>3. QED
    BY <1>1, <1>2

(* loadContainerEvents never drops a service's timeline nor rewrites a     *)
(* point already pushed, for every feed of sorted events.                   *)
THEOREM TimelinesOnlyGrowHolds == Spec => TimelinesOnlyGrow
<1>1. [][Next]_vars /\ []TInv => [][Grows]_vars
    BY NextGrows, PTL
<1>2. QED
    BY <1>1, InitTInv, NextTInv, PTL DEF Spec, TimelinesOnlyGrow, Grows

=============================================================================
