------------------------------ MODULE LogsView ------------------------------
(***************************************************************************)
(* The log table of views/logs.jsx, composed with the visibility state it  *)
(* filters by.                                                             *)
(*                                                                         *)
(* The log rows are the module-level array imported from                   *)
(* containers_logs.json.  Every construction of the view runs              *)
(* load_logs_json, which truncates each row's container_id in place, so a  *)
(* second mount of the view (navigating away and back) truncates the       *)
(* already truncated rows again.  componentDidMount then builds the        *)
(* containers and services tables with Load, exactly as Visibility models, *)
(* and the click handlers of the view are the same five.  The table shows  *)
(* a row when container_filter accepts it: its container is a key of       *)
(* containers and is not disabled.                                         *)
(*                                                                         *)
(* A remount is possible whenever the view is mounted; the constructor and *)
(* componentDidMount run without interruption, so the first one is the    *)
(* initial state.                                                          *)
(***************************************************************************)
EXTENDS Visibility

CONSTANTS
    LogRawIds,   \* raw container ids of the log rows
    MaxLogs,     \* bound on the number of log rows
    MaxMounts    \* bound on the number of constructions of the view

ASSUME LogRawIdsAssumption == \A r \in LogRawIds : r \in Seq(STRING)
ASSUME LogBoundsAssumption == MaxLogs \in Nat /\ MaxMounts \in Nat \ {0}

VARIABLES
    log_feed,    \* the rows as imported (the file's container ids)
    array_data,  \* the module-level rows, truncated in place
    mounts       \* constructions of the view so far

logvars == <<log_feed, array_data, mounts>>

allvars == <<vars, logvars>>

LogFeeds == UNION {[1..n -> LogRawIds] : n \in 1..MaxLogs}

LogsTypeOK ==
    /\ TypeOK
    /\ log_feed \in Seq(LogRawIds)
    /\ array_data \in Seq(Seq(STRING))
    /\ Len(array_data) = Len(log_feed)
    /\ mounts \in 1..MaxMounts

(* Mutant of load_logs_json: substring(0, NUMBER_LETTERS - 1).              *)
load_logs_json_short(rows) ==
    [i \in DOMAIN rows |-> canonicalize(rows[i], NUMBER_LETTERS - 1)]

(* load_logs_json: every row's container_id cut to its first              *)
(* NUMBER_LETTERS characters, in place; the time is copied unchanged.      *)
load_logs_json(rows) ==
    [i \in DOMAIN rows |-> canonicalize(rows[i], NUMBER_LETTERS)]

(* container_filter: a row is kept when its container is known and not    *)
(* disabled; a row whose container is unknown is dropped.                  *)
container_filter(i) ==
    /\ array_data[i] \in DOMAIN containers
    /\ ~containers[array_data[i]].disabled

(* The first construction: the rows are truncated, then componentDidMount  *)
(* starts Load.                                                            *)
LogsInit ==
    /\ Init
    /\ log_feed \in LogFeeds
    /\ array_data = load_logs_json(log_feed)
    /\ mounts = 1

(* Mutant of Remount: componentDidMount does not call load_containers_ids, *)
(* so the new component keeps the empty tables of its constructor.         *)
Remount_without_load ==
    /\ pc = "mounted"
    /\ mounts < MaxMounts
    /\ array_data' = load_logs_json(array_data)
    /\ mounts' = mounts + 1
    /\ pc' = "mounted"
    /\ k' = 0
    /\ containers' = <<>>
    /\ services' = <<>>
    /\ UNCHANGED <<array_ids, log_feed>>

(* The view is left and entered again: a new component is constructed     *)
(* (load_logs_json over the module-level rows, empty tables) and its       *)
(* componentDidMount starts Load over the same identity feed.              *)
Remount ==
    /\ pc = "mounted"
    /\ mounts < MaxMounts
    /\ array_data' = load_logs_json(array_data)
    /\ mounts' = mounts + 1
    /\ pc' = "loading"
    /\ k' = 0
    /\ containers' = <<>>
    /\ services' = <<>>
    /\ UNCHANGED <<array_ids, log_feed>>

LogsNext ==
    \/ Next /\ UNCHANGED logvars
    \/ Remount

LogsSpec == LogsInit /\ [][LogsNext]_allvars

-----------------------------------------------------------------------------
(* However many times the view is mounted, every log row carries the       *)
(* canonical short id of its imported container id: truncating the shared *)
(* module-level rows again on each construction changes nothing.           *)
LogRowsCanonical ==
    \A i \in DOMAIN log_feed :
        array_data[i] = canonicalize(log_feed[i], NUMBER_LETTERS)

(* Once mounted, a log row joins the identity table exactly when its       *)
(* imported container id truncates to the short id of some identity       *)
(* record: the logs and the identities are normalized alike (spec 6).      *)
JoinKeysAgree ==
    pc = "mounted" =>
        \A i \in DOMAIN log_feed :
            (array_data[i] \in DOMAIN containers)
                <=> (\E j \in 1..Len(array_ids) :
                        canonicalize(log_feed[i], NUMBER_LETTERS) = ShortIdOf(j))

(* Spec 7, JoinMismatch: a log row whose container is absent from the      *)
(* identity feed is shown by default rather than suppressed.  The filter  *)
(* of logs.jsx drops it.                                                   *)
UnknownRowsVisible ==
    pc = "mounted" =>
        \A i \in DOMAIN array_data :
            array_data[i] \notin DOMAIN containers => container_filter(i)

=============================================================================
