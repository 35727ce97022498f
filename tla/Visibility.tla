----------------------------- MODULE Visibility -----------------------------
(***************************************************************************)
(* The show/hide state of the container views.                             *)
(*                                                                         *)
(* On mount the view builds its tables with Containers_IDS.Load            *)
(* (utils/containers_ids.jsx): one pass over the identity feed that keys   *)
(* every record by the first NUMBER_LETTERS characters of its container   *)
(* id, writing containers[id] = {disabled: false, service} (last write     *)
(* wins) and adding id to services[service].  The view then offers one     *)
(* card per key of services, one container card per container whose       *)
(* service is that card's, and five click handlers that rewrite the        *)
(* disabled flags in place (views/GraphContainers.jsx; views/logs.jsx      *)
(* holds the same handlers).                                               *)
(*                                                                         *)
(* The pass of Load is modelled one record per step (LoadStep), so that    *)
(* its loop invariant is a state invariant; no click can happen before it  *)
(* ends (LoadDone: setState of the two tables).  The slot and the         *)
(* disabled copy kept in services are omitted: no handler or view reads    *)
(* them.                                                                   *)
(***************************************************************************)
EXTENDS Naturals, Sequences, Normalize

CONSTANTS
    RawIds,          \* raw container ids of the identity feed (strings)
    Services,        \* service names
    NUMBER_LETTERS,  \* truncation length of utils/containers_ids.jsx
    MaxFeed          \* bound on the length of the identity feed

ASSUME NumberLettersAssumption == NUMBER_LETTERS \in Nat
ASSUME RawIdsAssumption == \A r \in RawIds : r \in Seq(STRING)
ASSUME MaxFeedAssumption == MaxFeed \in Nat

VARIABLES
    array_ids,   \* the imported identity feed (containers_ids.json)
    pc,          \* "loading" while Load runs, then "mounted"
    k,           \* records of array_ids Load has processed
    containers,  \* short id -> [disabled, service]
    services     \* service -> set of short ids

vars == <<array_ids, pc, k, containers, services>>

IdentityRecord == [container_id : RawIds, service : Services]

(* Identity feeds of at least one and at most MaxFeed records.             *)
Feeds == UNION {[1..n -> IdentityRecord] : n \in 1..MaxFeed}

ShortIds == {canonicalize(r, NUMBER_LETTERS) : r \in RawIds}

ShortIdOf(i) == canonicalize(array_ids[i].container_id, NUMBER_LETTERS)

ContainerInfo == [disabled : BOOLEAN, service : Services]

TypeOK ==
    /\ array_ids \in Seq(IdentityRecord)
    /\ pc \in {"loading", "mounted"}
    /\ k \in 0..Len(array_ids)
    /\ DOMAIN containers \subseteq ShortIds
    /\ containers \in [DOMAIN containers -> ContainerInfo]
    /\ DOMAIN services \subseteq Services
    /\ services \in [DOMAIN services -> SUBSET ShortIds]

(* The constructor and the start of componentDidMount: empty tables, and   *)
(* new Containers_IDS().Load(array_ids) about to run.                      *)
Init ==
    /\ array_ids \in Feeds
    /\ pc = "loading"
    /\ k = 0
    /\ containers = <<>>
    /\ services = <<>>

(* Mutant of LoadStep: an existing entry is kept (containers[id] ||      *)
(* {...}), so the first record with an id wins instead of the last.        *)
LoadStepFirstWins ==
    /\ pc = "loading"
    /\ k < Len(array_ids)
    /\ LET id == ShortIdOf(k + 1)
           s  == array_ids[k + 1].service
           known == IF s \in DOMAIN services THEN services[s] ELSE {}
       IN  /\ containers' = [x \in DOMAIN containers \cup {id} |->
                               IF x \in DOMAIN containers THEN containers[x]
                               ELSE [disabled |-> FALSE, service |-> s]]
           /\ services' = [t \in DOMAIN services \cup {s} |->
                             IF t = s THEN known \cup {id} ELSE services[t]]
    /\ k' = k + 1
    /\ UNCHANGED <<array_ids, pc>>

(* Mutant of LoadStep: the raw id is used as the key, without the         *)
(* substring(0, NUMBER_LETTERS) truncation.                                *)
LoadStepUntruncated ==
    /\ pc = "loading"
    /\ k < Len(array_ids)
    /\ LET id == array_ids[k + 1].container_id
           s  == array_ids[k + 1].service
           known == IF s \in DOMAIN services THEN services[s] ELSE {}
       IN  /\ containers' = [x \in DOMAIN containers \cup {id} |->
                               IF x = id THEN [disabled |-> FALSE, service |-> s]
                               ELSE containers[x]]
           /\ services' = [t \in DOMAIN services \cup {s} |->
                             IF t = s THEN known \cup {id} ELSE services[t]]
    /\ k' = k + 1
    /\ UNCHANGED <<array_ids, pc>>

(* One iteration of the loop of Load: truncate the id, overwrite the       *)
(* container entry, add the id to its service's entry.                     *)
LoadStep ==
    /\ pc = "loading"
    /\ k < Len(array_ids)
    /\ LET id == ShortIdOf(k + 1)
           s  == array_ids[k + 1].service
           known == IF s \in DOMAIN services THEN services[s] ELSE {}
       IN  /\ containers' = [x \in DOMAIN containers \cup {id} |->
                               IF x = id THEN [disabled |-> FALSE, service |-> s]
                               ELSE containers[x]]
           /\ services' = [t \in DOMAIN services \cup {s} |->
                             IF t = s THEN known \cup {id} ELSE services[t]]
    /\ k' = k + 1
    /\ UNCHANGED <<array_ids, pc>>

(* Load returns; load_containers_ids hands both tables to setState.        *)
LoadDone ==
    /\ pc = "loading"
    /\ k = Len(array_ids)
    /\ pc' = "mounted"
    /\ UNCHANGED <<array_ids, k, containers, services>>

(* The click handlers.  The view renders a button for container c only if  *)
(* c is a key of containers, and for service s only if s is a key of       *)
(* services.                                                               *)
toggle_container(c) ==
    /\ pc = "mounted"
    /\ containers' = [containers EXCEPT ![c].disabled = ~@]
    /\ UNCHANGED <<array_ids, pc, k, services>>

only_this_container(c) ==
    /\ pc = "mounted"
    /\ containers' = [id \in DOMAIN containers |->
                        [containers[id] EXCEPT !.disabled = (id # c)]]
    /\ UNCHANGED <<array_ids, pc, k, services>>

only_this_service(s) ==
    /\ pc = "mounted"
    /\ containers' = [id \in DOMAIN containers |->
                        [containers[id] EXCEPT !.disabled = (containers[id].service # s)]]
    /\ UNCHANGED <<array_ids, pc, k, services>>

(* Mutant of change_all_service: containers of other services are shown   *)
(* (the else branch of only_this_service pasted in).                       *)
change_all_service_others_shown(s, new_disabled_state) ==
    /\ pc = "mounted"
    /\ containers' = [id \in DOMAIN containers |->
                        IF containers[id].service = s
                        THEN [containers[id] EXCEPT !.disabled = new_disabled_state]
                        ELSE [containers[id] EXCEPT !.disabled = FALSE]]
    /\ UNCHANGED <<array_ids, pc, k, services>>

change_all_service(s, new_disabled_state) ==
    /\ pc = "mounted"
    /\ containers' = [id \in DOMAIN containers |->
                        IF containers[id].service = s
                        THEN [containers[id] EXCEPT !.disabled = new_disabled_state]
                        ELSE containers[id]]
    /\ UNCHANGED <<array_ids, pc, k, services>>

hide_all_service(s) == change_all_service(s, TRUE)

show_all_service(s) == change_all_service(s, FALSE)

Next ==
    \/ LoadStep
    \/ LoadDone
    \/ \E c \in DOMAIN containers :
          toggle_container(c) \/ only_this_container(c)
    \/ \E s \in DOMAIN services :
          only_this_service(s) \/ hide_all_service(s) \/ show_all_service(s)

Spec == Init /\ [][Next]_vars

-----------------------------------------------------------------------------
(* The position of the last record of the first n of array_ids whose id    *)
(* truncates to id, stated without computing it.                          *)
IsLastWrite(i, id, n) ==
    /\ ShortIdOf(i) = id
    /\ \A j \in (i + 1)..n : ShortIdOf(j) # id

(* Load's result after its first n records: the container keys are the     *)
(* truncated ids of those records, and each container carries the service  *)
(* of the last record with its id ("last write wins", spec 4.5).           *)
LoadedFrom(n) ==
    /\ DOMAIN containers = {ShortIdOf(i) : i \in 1..n}
    /\ \A id \in DOMAIN containers :
          \E i \in 1..n : IsLastWrite(i, id, n)
                          /\ containers[id].service = array_ids[i].service

(* After mounting, whatever the user clicked, the set of containers and    *)
(* the service of each are still those Load derived from the identity     *)
(* feed: a click only ever rewrites disabled flags.                        *)
IdentityFromFeed == pc = "mounted" => LoadedFrom(Len(array_ids))

-----------------------------------------------------------------------------
(* Refinement mapping: the flags and services of the view's containers     *)
(* table are the abstract state of spec 4.5 once the tables are set; the   *)
(* loop of Load is invisible to it.                                        *)
AbsDisabled ==
    IF pc = "mounted" THEN [id \in DOMAIN containers |-> containers[id].disabled] ELSE <<>>

AbsGroup ==
    IF pc = "mounted" THEN [id \in DOMAIN containers |-> containers[id].service] ELSE <<>>

VM == INSTANCE VisibilityModel
        WITH identities <- array_ids, ready <- (pc = "mounted"),
             disabled <- AbsDisabled, group <- AbsGroup

(* The tables Load builds and the five click handlers implement the        *)
(* visibility model of spec 4.5: every click is one of its operations on   *)
(* the flags, and Load is its initialize (last write wins).                *)
ImplementsVisibilityModel == VM!Spec

=============================================================================
