------------------------------ MODULE Timeline ------------------------------
(***************************************************************************)
(* The instance-count timelines of views/GraphInstances.jsx.               *)
(*                                                                         *)
(* componentDidMount runs loadContainerEvents, a pass over the container   *)
(* events (assumed sorted by time) that keeps per service two parallel     *)
(* arrays x (times) and y (counts) and pushes two points per event,        *)
(* (time, prev_y) and (time, new_y), where prev_y is the last y or 0 and  *)
(* new_y is prev_y + 1 for "start", prev_y - 1 for "die" and, for any      *)
(* other action, the value of an unassigned let: undefined.  The pass      *)
(* tracks the extreme counts and hands timelines and the padded bounds     *)
(* (max + 1, min - 1) to setState; get_shapes then copies the mark times   *)
(* that are drawn as vertical lines between those bounds.  The only input  *)
(* afterwards, updateMultipleValue, stores the parsed multiple and then    *)
(* calls this.loadYCSB, which does not exist, so it throws and nothing     *)
(* else changes.                                                           *)
(*                                                                         *)
(* The pass is modelled one event per step.  JavaScript undefined is the   *)
(* model value Undefined; prev_y = y[len - 1] || 0 turns it into 0.        *)
(***************************************************************************)
EXTENDS Integers, Sequences, FiniteSets

CONSTANTS
    Services,    \* service names
    Times,       \* event and mark timestamps
    Actions,     \* action strings: "start", "die" and others
    Undefined,   \* JavaScript undefined
    MaxEvents,   \* bound on the length of the event feed
    MaxMarks     \* bound on the length of the marks feed

ASSUME TimesAssumption == Times \subseteq Int
ASSUME ActionsAssumption == {"start", "die"} \subseteq Actions
ASSUME UndefinedAssumption == Undefined \notin Int
ASSUME BoundsAssumption == MaxEvents \in Nat /\ MaxMarks \in Nat

CONSTANT Multiples   \* values parseInt can give for the multiple field

VARIABLES
    array_events,     \* the imported events feed (containers_events.json)
    array_marks,      \* the imported marks feed (marks.json)
    pc,               \* "events" during the pass, "marks" before get_shapes, "mounted"
    index,            \* events the pass has processed
    timelines,        \* service -> [x : Seq(Times), y : Seq(Int \cup {Undefined})]
    timelines_min_y,  \* running minimum of the pass
    timelines_max_y,  \* running maximum of the pass
    min_y_state,      \* this.state.timelines_min_y (Undefined until set)
    max_y_state,      \* this.state.timelines_max_y (Undefined until set)
    shapes,           \* this.state.shapes
    multiple          \* this.state.multiple

vars == <<array_events, array_marks, pc, index, timelines, timelines_min_y,
          timelines_max_y, min_y_state, max_y_state, shapes, multiple>>

Event == [service : Services, time : Times, action : Actions]

(* Feeds sorted by time, as the pass assumes ("Assuiming time sorted").    *)
SortedBy(seq) == \A i \in 1..(Len(seq) - 1) : seq[i].time <= seq[i + 1].time

EventFeeds ==
    {f \in UNION {[1..n -> Event] : n \in 0..MaxEvents} : SortedBy(f)}

MarkFeeds == UNION {[1..n -> [time : Times]] : n \in 0..MaxMarks}

Count == Int \cup {Undefined}

TypeOK ==
    /\ array_events \in Seq(Event)
    /\ array_marks \in Seq([time : Times])
    /\ pc \in {"events", "marks", "mounted"}
    /\ index \in 0..Len(array_events)
    /\ DOMAIN timelines \subseteq Services
    /\ \A s \in DOMAIN timelines :
          timelines[s] \in [x : Seq(Times), y : Seq(Count)]
    /\ timelines_min_y \in Int /\ timelines_max_y \in Int
    /\ min_y_state \in Count /\ max_y_state \in Count
    /\ shapes \in Seq(Times)
    /\ multiple \in Multiples \cup {5}

Init ==
    /\ array_events \in EventFeeds
    /\ array_marks \in MarkFeeds
    /\ pc = "events"
    /\ index = 0
    /\ timelines = <<>>
    /\ timelines_min_y = 0
    /\ timelines_max_y = 0
    /\ min_y_state = Undefined
    /\ max_y_state = Undefined
    /\ shapes = <<>>
    /\ multiple = 5

(* var prev_y = tmp_holder.y[tmp_holder.y.length - 1] || 0                 *)
PrevY(holder) ==
    IF holder.y = <<>> \/ holder.y[Len(holder.y)] = Undefined THEN 0
    ELSE holder.y[Len(holder.y)]

(* The value of new_y after the if / else if chain.                        *)
NewY(prev_y, action) ==
    IF action = "start" THEN prev_y + 1
    ELSE IF action = "die" THEN prev_y - 1
    ELSE Undefined

(* Mutant of AppendPoints: the two points pushed in the wrong order.      *)
AppendPointsSwapped(holder, time, prev_y, new_y) ==
    [x |-> holder.x \o <<time, time>>, y |-> holder.y \o <<new_y, prev_y>>]

(* Mutant of AppendPoints: the service's entry is replaced by a fresh      *)
(* holder of the two new points instead of the pushes onto tmp_holder.     *)
AppendPointsFresh(holder, time, prev_y, new_y) ==
    [x |-> <<time, time>>, y |-> <<prev_y, new_y>>]

(* tmp_holder.x.push(time); tmp_holder.y.push(prev_y);                     *)
(* tmp_holder.x.push(time); tmp_holder.y.push(new_y)                       *)
AppendPoints(holder, time, prev_y, new_y) ==
    [x |-> holder.x \o <<time, time>>, y |-> holder.y \o <<prev_y, new_y>>]

(* Mutant of TrackBounds: only the maximum is tracked.                     *)
TrackBoundsMaxOnly(new_y) ==
    IF new_y # Undefined /\ new_y > timelines_max_y
    THEN /\ timelines_max_y' = new_y
         /\ UNCHANGED timelines_min_y
    ELSE UNCHANGED <<timelines_min_y, timelines_max_y>>

(* if (new_y > max) max = new_y; else if (new_y < min) min = new_y.  Both  *)
(* comparisons are false for undefined.                                    *)
TrackBounds(new_y) ==
    IF new_y # Undefined /\ new_y > timelines_max_y
    THEN /\ timelines_max_y' = new_y
         /\ UNCHANGED timelines_min_y
    ELSE IF new_y # Undefined /\ new_y < timelines_min_y
    THEN /\ timelines_min_y' = new_y
         /\ UNCHANGED timelines_max_y
    ELSE UNCHANGED <<timelines_min_y, timelines_max_y>>

(* One iteration of the loop of loadContainerEvents.                       *)
EventStep ==
    /\ pc = "events"
    /\ index < Len(array_events)
    /\ LET e      == array_events[index + 1]
           holder == IF e.service \in DOMAIN timelines THEN timelines[e.service]
                     ELSE [x |-> <<>>, y |-> <<>>]
           prev_y == PrevY(holder)
           new_y  == NewY(prev_y, e.action)
       IN  /\ timelines' = [s \in DOMAIN timelines \cup {e.service} |->
                              IF s = e.service
                              THEN AppendPoints(holder, e.time, prev_y, new_y)
                              ELSE timelines[s]]
           /\ TrackBounds(new_y)
    /\ index' = index + 1
    /\ UNCHANGED <<array_events, array_marks, pc, min_y_state, max_y_state,
                   shapes, multiple>>

(* The pass ends: setState with the timelines and the padded bounds.        *)
EventsDone ==
    /\ pc = "events"
    /\ index = Len(array_events)
    /\ pc' = "marks"
    /\ max_y_state' = timelines_max_y + 1
    /\ min_y_state' = timelines_min_y - 1
    /\ UNCHANGED <<array_events, array_marks, index, timelines,
                   timelines_min_y, timelines_max_y, shapes, multiple>>

(* Mutant of get_shapes: a misspelt field (element.timestamp) pushes       *)
(* undefined for every mark.                                               *)
get_shapes_wrong_field ==
    /\ pc = "marks"
    /\ pc' = "mounted"
    /\ shapes' = [j \in 1..Len(array_marks) |-> Undefined]
    /\ UNCHANGED <<array_events, array_marks, index, timelines, timelines_min_y,
                   timelines_max_y, min_y_state, max_y_state, multiple>>

(* get_shapes: the mark times, in feed order.                              *)
get_shapes ==
    /\ pc = "marks"
    /\ pc' = "mounted"
    /\ shapes' = [j \in 1..Len(array_marks) |-> array_marks[j].time]
    /\ UNCHANGED <<array_events, array_marks, index, timelines, timelines_min_y,
                   timelines_max_y, min_y_state, max_y_state, multiple>>

(* A keystroke in the multiple field: setState({multiple}), then the call  *)
(* of the missing loadYCSB throws; the batched update is still applied.    *)
updateMultipleValue(v) ==
    /\ pc = "mounted"
    /\ multiple' = v
    /\ UNCHANGED <<array_events, array_marks, pc, index, timelines, timelines_min_y,
                   timelines_max_y, min_y_state, max_y_state, shapes>>

Next ==
    \/ EventStep
    \/ EventsDone
    \/ get_shapes
    \/ \E v \in Multiples : updateMultipleValue(v)

Spec == Init /\ [][Next]_vars

-----------------------------------------------------------------------------
(* The defined counts of a y array.                                        *)
DefinedCounts(y) == {y[j] : j \in {j \in DOMAIN y : y[j] # Undefined}}

(* The +1/-1 walk of spec 4.4 over the events of service s processed so    *)
(* far: starts minus dies, other actions ignored.                          *)
Walk(s) ==
    Cardinality({j \in 1..index : array_events[j].service = s
                                  /\ array_events[j].action = "start"})
    - Cardinality({j \in 1..index : array_events[j].service = s
                                    /\ array_events[j].action = "die"})

(* The count the pass continues each service's timeline from is the        *)
(* +1/-1 walk of that service's start and die events (spec 3: counts never *)
(* diverge from it except for ignored unknown actions).                    *)
CountsAreWalk ==
    \A s \in DOMAIN timelines : PrevY(timelines[s]) = Walk(s)

(* Each timeline is a staircase: x and y have the same even length, the    *)
(* two points of an event share their time, times never decrease, and an  *)
(* event's first point repeats the count the previous event of the same   *)
(* service ended on, whatever events of other services came between.       *)
StaircaseShape ==
    \A s \in DOMAIN timelines :
        LET x == timelines[s].x
            y == timelines[s].y
        IN  /\ Len(x) = Len(y)
            /\ Len(x) % 2 = 0
            /\ \A p \in 1..(Len(x) \div 2) :
                  /\ x[2 * p - 1] = x[2 * p]
                  /\ p > 1 => x[2 * p - 2] <= x[2 * p - 1]
                  /\ p > 1 /\ y[2 * p - 2] # Undefined => y[2 * p - 1] = y[2 * p - 2]

(* Every count plotted lies strictly between the padded bounds the marks  *)
(* are drawn between, and within the running bounds while the pass runs.  *)
BoundsEncloseCounts ==
    \A s \in DOMAIN timelines :
        \A c \in DefinedCounts(timelines[s].y) :
            /\ timelines_min_y <= c /\ c <= timelines_max_y
            /\ pc # "events" => min_y_state < c /\ c < max_y_state

(* a is an initial segment of b.                                           *)
IsPrefixOf(a, b) == Len(a) <= Len(b) /\ \A i \in 1..Len(a) : b[i] = a[i]

(* The loop of loadContainerEvents only ever pushes onto the arrays of a   *)
(* service's tmp_holder: no step drops a service's timeline or rewrites a *)
(* point already pushed, whichever services the events interleave.        *)
TimelinesOnlyGrow ==
    [][\A s \in DOMAIN timelines :
          /\ s \in DOMAIN timelines'
          /\ IsPrefixOf(timelines[s].x, timelines'[s].x)
          /\ IsPrefixOf(timelines[s].y, timelines'[s].y)]_vars

=============================================================================
