-------------------------- MODULE VisibilityModel --------------------------
(***************************************************************************)
(* What spec.md section 4.5 promises of the visibility state, stated over  *)
(* the abstract state it describes: a disabled flag and a service per      *)
(* short id, built once by initialize (last write wins on a duplicate id)  *)
(* and changed only by toggle, isolate, isolateService and                 *)
(* setServiceVisibility (hideService / showService are the latter with    *)
(* TRUE / FALSE).  Visibility is shown to implement it.                    *)
(***************************************************************************)
EXTENDS Naturals, Sequences, Normalize

CONSTANTS RawIds, Services, NUMBER_LETTERS

VARIABLES
    identities,  \* the identity feed
    ready,       \* initialize has run
    disabled,    \* short id -> BOOLEAN
    group        \* short id -> service

absvars == <<identities, ready, disabled, group>>

Record == [container_id : RawIds, service : Services]

IdOf(i) == canonicalize(identities[i].container_id, NUMBER_LETTERS)

(* The service of id after initialize: that of the last record with id.    *)
LastService(id, s) ==
    \E i \in 1..Len(identities) :
        /\ IdOf(i) = id
        /\ identities[i].service = s
        /\ \A j \in (i + 1)..Len(identities) : IdOf(j) # id

Init ==
    /\ identities \in Seq(Record)
    /\ ready = FALSE
    /\ disabled = <<>>
    /\ group = <<>>

initialize ==
    LET ids == {IdOf(i) : i \in 1..Len(identities)} IN
    /\ ~ready
    /\ ready' = TRUE
    /\ disabled' = [id \in ids |-> FALSE]
    /\ group' \in [ids -> Services]
    /\ \A id \in ids : LastService(id, group'[id])
    /\ UNCHANGED identities

toggle(id) ==
    /\ ready
    /\ id \in DOMAIN disabled
    /\ disabled' = [disabled EXCEPT ![id] = ~@]
    /\ UNCHANGED <<identities, ready, group>>

isolate(id) ==
    /\ ready
    /\ disabled' = [x \in DOMAIN disabled |-> x # id]
    /\ UNCHANGED <<identities, ready, group>>

isolateService(s) ==
    /\ ready
    /\ disabled' = [x \in DOMAIN disabled |-> group[x] # s]
    /\ UNCHANGED <<identities, ready, group>>

setServiceVisibility(s, b) ==
    /\ ready
    /\ disabled' = [x \in DOMAIN disabled |-> IF group[x] = s THEN b ELSE disabled[x]]
    /\ UNCHANGED <<identities, ready, group>>

Next ==
    \/ initialize
    \/ \E id \in DOMAIN disabled : toggle(id) \/ isolate(id)
    \/ \E s \in Services, b \in BOOLEAN :
          isolateService(s) \/ setServiceVisibility(s, b)

Spec == Init /\ [][Next]_absvars

=============================================================================
