-------------------------- MODULE VisibilityProofs --------------------------
(***************************************************************************)
(* Proofs about Visibility, for every feed, every set of ids and services  *)
(* and every truncation length.                                            *)
(***************************************************************************)
EXTENDS Visibility, SequenceTheorems, TLAPS

-----------------------------------------------------------------------------
(* Type correctness.                                                       *)

(* Every record of a feed truncates to a known short id.                   *)
LEMMA ShortIdOfType ==
    ASSUME array_ids \in Seq(IdentityRecord), NEW i \in 1..Len(array_ids)
    PROVE  ShortIdOf(i) \in ShortIds
<1>1. array_ids[i] \in IdentityRecord
    OBVIOUS
<1>2. array_ids[i].container_id \in RawIds
    BY <1>1 DEF IdentityRecord
<1>3. QED
    BY <1>2 DEF ShortIdOf, ShortIds

LEMMA InitTypeOK == Init => TypeOK
<1> SUFFICES ASSUME Init PROVE TypeOK
    OBVIOUS
<1>1. array_ids \in Seq(IdentityRecord)
    BY MaxFeedAssumption DEF Init, Feeds
<1>2. QED
    BY <1>1 DEF Init, TypeOK

LEMMA NextTypeOK == TypeOK /\ [Next]_vars => TypeOK'
<1> SUFFICES ASSUME TypeOK, [Next]_vars PROVE TypeOK'
    OBVIOUS
<1>1. CASE LoadStep
    <2> DEFINE id == ShortIdOf(k + 1)
               s  == array_ids[k + 1].service
    <2>0. k + 1 \in 1..Len(array_ids)
        BY <1>1 DEF LoadStep, TypeOK
    <2>1. id \in ShortIds /\ s \in Services
        <3>1. id \in ShortIds
            BY <2>0, ShortIdOfType DEF TypeOK
        <3>2. array_ids[k + 1] \in IdentityRecord
            BY <2>0 DEF TypeOK
        <3>3. QED
            BY <3>1, <3>2 DEF IdentityRecord
    <2>2. QED
        BY <1>1, <2>1 DEF LoadStep, TypeOK, ContainerInfo
<1>2. CASE LoadDone
    BY <1>2 DEF LoadDone, TypeOK
<1>3. ASSUME NEW c \in DOMAIN containers, toggle_container(c)
      PROVE  TypeOK'
    BY <1>3 DEF toggle_container, TypeOK, ContainerInfo
<1>4. ASSUME NEW c \in DOMAIN containers, only_this_container(c)
      PROVE  TypeOK'
    BY <1>4 DEF only_this_container, TypeOK, ContainerInfo
<1>5. ASSUME NEW s \in DOMAIN services, only_this_service(s)
      PROVE  TypeOK'
    BY <1>5 DEF only_this_service, TypeOK, ContainerInfo
<1>6. ASSUME NEW s, NEW b \in BOOLEAN, change_all_service(s, b)
      PROVE  TypeOK'
    BY <1>6 DEF change_all_service, TypeOK, ContainerInfo
<1>7. CASE UNCHANGED vars
    BY <1>7 DEF vars, TypeOK
<1>8. QED
    BY <1>1, <1>2, <1>3, <1>4, <1>5, <1>6, <1>7
    DEF Next, hide_all_service, show_all_service

(* Whatever the feed and the clicks, the tables keep their types: every    *)
(* container entry is a record of a boolean flag and a service.            *)
THEOREM TypeCorrect == Spec => []TypeOK
BY InitTypeOK, NextTypeOK, PTL DEF Spec

-----------------------------------------------------------------------------
(* The identity of the containers.  IdentityFromFeed is not inductive: it  *)
(* says nothing while Load runs.  Its strengthening is the loop invariant  *)
(* of Load, LoadedFrom(k), kept by the clicks once k has reached the end.  *)

IInv ==
    /\ TypeOK
    /\ LoadedFrom(k)
    /\ pc = "mounted" => k = Len(array_ids)

LEMMA InitIInv == Init => IInv
<1> SUFFICES ASSUME Init PROVE IInv
    OBVIOUS
<1>1. TypeOK
    BY InitTypeOK
<1>2. LoadedFrom(k)
    BY DEF Init, LoadedFrom
<1>3. QED
    BY <1>1, <1>2 DEF Init, IInv

(* With the feed unchanged, a truncated id of the next state is that of   *)
(* the current one.                                                        *)
LEMMA ShortIdOfUnchanged ==
    ASSUME array_ids' = array_ids
    PROVE  \A i : ShortIdOf(i)' = ShortIdOf(i)
BY DEF ShortIdOf

(* A click that keeps every container's key and service keeps LoadedFrom.  *)
LEMMA FlagsOnlyKeepLoaded ==
    ASSUME LoadedFrom(k),
           DOMAIN containers' = DOMAIN containers,
           \A id \in DOMAIN containers : containers'[id].service = containers[id].service,
           array_ids' = array_ids,
           k' = k
    PROVE  LoadedFrom(k)'
BY ShortIdOfUnchanged DEF LoadedFrom, IsLastWrite

LEMMA LoadStepIInv == IInv /\ LoadStep => IInv'
<1> SUFFICES ASSUME IInv, LoadStep PROVE IInv'
    OBVIOUS
<1> DEFINE id == ShortIdOf(k + 1)
           s  == array_ids[k + 1].service
<1>1. TypeOK'
    BY NextTypeOK DEF IInv, Next
<1>2. k \in Nat /\ k + 1 \in 1..Len(array_ids) /\ k' = k + 1
    BY DEF IInv, TypeOK, LoadStep
<1>3. containers' = [x \in DOMAIN containers \cup {id} |->
                        IF x = id THEN [disabled |-> FALSE, service |-> s]
                        ELSE containers[x]]
    BY DEF LoadStep
<1>4. array_ids' = array_ids /\ \A i : ShortIdOf(i)' = ShortIdOf(i)
    BY ShortIdOfUnchanged DEF LoadStep
<1>5. DOMAIN containers' = {ShortIdOf(i) : i \in 1..(k + 1)}
    <2>1. {ShortIdOf(i) : i \in 1..(k + 1)} = {ShortIdOf(i) : i \in 1..k} \cup {id}
        BY <1>2
    <2>2. DOMAIN containers = {ShortIdOf(i) : i \in 1..k}
        BY DEF IInv, LoadedFrom
    <2>3. QED
        BY <1>3, <2>1, <2>2
<1>6. ASSUME NEW x \in DOMAIN containers'
      PROVE  \E i \in 1..(k + 1) :
                /\ IsLastWrite(i, x, k + 1)
                /\ containers'[x].service = array_ids[i].service
    <2>1. CASE x = id
        <3>1. IsLastWrite(k + 1, x, k + 1)
            BY <2>1, <1>2 DEF IsLastWrite
        <3>2. containers'[x].service = array_ids[k + 1].service
            BY <2>1, <1>3
        <3>3. QED
            BY <3>1, <3>2, <1>2
    <2>2. CASE x # id
        <3>1. x \in DOMAIN containers
            BY <2>2, <1>3
        <3>2. PICK i \in 1..k : IsLastWrite(i, x, k)
                                /\ containers[x].service = array_ids[i].service
            BY <3>1 DEF IInv, LoadedFrom
        <3>3. IsLastWrite(i, x, k + 1)
            BY <3>2, <2>2, <1>2 DEF IsLastWrite
        <3>4. containers'[x].service = array_ids[i].service
            BY <3>1, <3>2, <2>2, <1>3
        <3>5. QED
            BY <3>3, <3>4, <1>2
    <2>3. QED
        BY <2>1, <2>2
<1>7. LoadedFrom(k)'
    BY <1>2, <1>4, <1>5, <1>6 DEF LoadedFrom, IsLastWrite
<1>8. QED
    BY <1>1, <1>7 DEF IInv, LoadStep

LEMMA NextIInv == IInv /\ [Next]_vars => IInv'
<1> SUFFICES ASSUME IInv, [Next]_vars PROVE IInv'
    OBVIOUS
<1>1. TypeOK'
    BY NextTypeOK DEF IInv
<1>2. CASE LoadStep
    BY <1>2, LoadStepIInv
<1>3. CASE LoadDone
    BY <1>3, <1>1 DEF LoadDone, IInv, LoadedFrom, IsLastWrite, ShortIdOf
<1>4. ASSUME NEW c \in DOMAIN containers, toggle_container(c)
      PROVE  IInv'
    <2>1. /\ DOMAIN containers' = DOMAIN containers
          /\ \A id \in DOMAIN containers : containers'[id].service = containers[id].service
        BY <1>4 DEF IInv, toggle_container, TypeOK, ContainerInfo
    <2>2. LoadedFrom(k)'
        BY <1>4, <2>1, FlagsOnlyKeepLoaded DEF IInv, toggle_container
    <2>3. QED
        BY <1>1, <1>4, <2>2 DEF IInv, toggle_container
<1>5. ASSUME NEW c \in DOMAIN containers, only_this_container(c)
      PROVE  IInv'
    <2>1. /\ DOMAIN containers' = DOMAIN containers
          /\ \A id \in DOMAIN containers : containers'[id].service = containers[id].service
        BY <1>5 DEF IInv, only_this_container, TypeOK, ContainerInfo
    <2>2. LoadedFrom(k)'
        BY <1>5, <2>1, FlagsOnlyKeepLoaded DEF IInv, only_this_container
    <2>3. QED
        BY <1>1, <1>5, <2>2 DEF IInv, only_this_container
<1>6. ASSUME NEW s \in DOMAIN services, only_this_service(s)
      PROVE  IInv'
    <2>1. /\ DOMAIN containers' = DOMAIN containers
          /\ \A id \in DOMAIN containers : containers'[id].service = containers[id].service
        BY <1>6 DEF IInv, only_this_service, TypeOK, ContainerInfo
    <2>2. LoadedFrom(k)'
        BY <1>6, <2>1, FlagsOnlyKeepLoaded DEF IInv, only_this_service
    <2>3. QED
        BY <1>1, <1>6, <2>2 DEF IInv, only_this_service
<1>7. ASSUME NEW s, NEW b \in BOOLEAN, change_all_service(s, b)
      PROVE  IInv'
    <2>1. /\ DOMAIN containers' = DOMAIN containers
          /\ \A id \in DOMAIN containers : containers'[id].service = containers[id].service
        BY <1>7 DEF IInv, change_all_service, TypeOK, ContainerInfo
    <2>2. LoadedFrom(k)'
        BY <1>7, <2>1, FlagsOnlyKeepLoaded DEF IInv, change_all_service
    <2>3. QED
        BY <1>1, <1>7, <2>2 DEF IInv, change_all_service
<1>8. CASE UNCHANGED vars
    <2>1. LoadedFrom(k)'
        BY <1>8, FlagsOnlyKeepLoaded DEF vars, IInv
    <2>2. QED
        BY <1>1, <1>8, <2>1 DEF vars, IInv
<1>9. QED
    BY <1>2, <1>3, <1>4, <1>5, <1>6, <1>7, <1>8
    DEF Next, hide_all_service, show_all_service

(* Load keeps the last record of each id and no click changes a           *)
(* container's key or service, for every feed and every truncation length. *)
THEOREM IdentityFromFeedHolds == Spec => []IdentityFromFeed
<1>1. IInv => IdentityFromFeed
    BY DEF IInv, IdentityFromFeed
<1>2. QED
    BY <1>1, InitIInv, NextIInv, PTL DEF Spec

-----------------------------------------------------------------------------
(* Refinement.  Load is invisible to the abstract model until it ends, so  *)
(* its end must find every flag still FALSE: no click happens while it     *)
(* runs.  RInv adds that to IInv.                                          *)

LoadingClean ==
    pc = "loading" => \A id \in DOMAIN containers : containers[id].disabled = FALSE

RInv == IInv /\ LoadingClean

LEMMA InitRInv == Init => RInv
BY InitIInv DEF Init, RInv, LoadingClean

LEMMA NextRInv == RInv /\ [Next]_vars => RInv'
<1> SUFFICES ASSUME RInv, [Next]_vars PROVE RInv'
    OBVIOUS
<1>1. IInv'
    BY NextIInv DEF RInv
<1>2. LoadingClean'
    <2>1. CASE LoadStep
        BY <2>1 DEF LoadStep, RInv, LoadingClean
    <2>2. CASE LoadDone
        BY <2>2 DEF LoadDone, LoadingClean
    <2>3. CASE pc = "mounted" /\ pc' = "mounted"
        BY <2>3 DEF LoadingClean
    <2>4. CASE UNCHANGED vars
        BY <2>4 DEF vars, RInv, LoadingClean
    <2>5. QED
        BY <2>1, <2>2, <2>3, <2>4
        DEF Next, toggle_container, only_this_container, only_this_service,
            hide_all_service, show_all_service, change_all_service
<1>3. QED
    BY <1>1, <1>2 DEF RInv

(* The model's id of a record is the short id Load keys it by: both are    *)
(* substring(0, NUMBER_LETTERS) of the record's container_id.              *)
LEMMA IdOfIsShortId == \A i : VM!IdOf(i) = ShortIdOf(i)
BY DEF VM!IdOf, ShortIdOf, VM!canonicalize, canonicalize

(* The step that ends Load is the abstract initialize.                     *)
LEMMA LoadDoneRefines == RInv /\ LoadDone => VM!initialize
<1> SUFFICES ASSUME RInv, LoadDone PROVE VM!initialize
    OBVIOUS
<1> DEFINE ids == {ShortIdOf(i) : i \in 1..Len(array_ids)}
<1>1. k = Len(array_ids) /\ pc = "loading" /\ pc' = "mounted"
      /\ UNCHANGED <<array_ids, k, containers, services>>
    BY DEF LoadDone
<1>2. DOMAIN containers = ids
    BY <1>1 DEF RInv, IInv, LoadedFrom
<1>3. AbsDisabled' = [id \in ids |-> FALSE]
    BY <1>1, <1>2 DEF AbsDisabled, RInv, LoadingClean
<1>4. AbsGroup' = [id \in ids |-> containers[id].service]
    BY <1>1, <1>2 DEF AbsGroup
<1>5. AbsGroup' \in [ids -> Services]
    BY <1>2, <1>4 DEF RInv, IInv, TypeOK, ContainerInfo
<1>6. \A id \in ids : VM!LastService(id, AbsGroup'[id])
    <2> SUFFICES ASSUME NEW id \in ids
                 PROVE  VM!LastService(id, AbsGroup'[id])
        OBVIOUS
    <2>1. PICK i \in 1..Len(array_ids) :
                 IsLastWrite(i, id, Len(array_ids))
                 /\ containers[id].service = array_ids[i].service
        BY <1>1, <1>2 DEF RInv, IInv, LoadedFrom
    <2>2. AbsGroup'[id] = array_ids[i].service
        BY <2>1, <1>4
    <2>3. /\ VM!IdOf(i) = id
          /\ \A j \in (i + 1)..Len(array_ids) : VM!IdOf(j) # id
        BY <2>1, IdOfIsShortId DEF IsLastWrite
    <2>4. QED
        BY <2>1, <2>2, <2>3 DEF VM!LastService
<1>7. AbsDisabled = <<>> /\ AbsGroup = <<>>
    BY <1>1 DEF AbsDisabled, AbsGroup
<1>8. {VM!IdOf(i) : i \in 1..Len(array_ids)} = ids
    BY IdOfIsShortId
<1>9. QED
    BY <1>1, <1>3, <1>5, <1>6, <1>7, <1>8 DEF VM!initialize

(* A click on mounted tables leaves the abstract service of every id.     *)
LEMMA ClickKeepsGroup ==
    ASSUME pc = "mounted", pc' = "mounted",
           DOMAIN containers' = DOMAIN containers,
           \A id \in DOMAIN containers : containers'[id].service = containers[id].service
    PROVE  AbsGroup' = AbsGroup
BY DEF AbsGroup

(* Every step of Visibility is a step of the abstract model or leaves its  *)
(* state alone.                                                            *)
LEMMA NextRefines == RInv /\ [Next]_vars => [VM!Next]_VM!absvars
<1> SUFFICES ASSUME RInv, [Next]_vars PROVE [VM!Next]_VM!absvars
    OBVIOUS
<1>0. TypeOK
    BY DEF RInv, IInv
<1>1. CASE LoadStep
    BY <1>1 DEF LoadStep, AbsDisabled, AbsGroup, VM!absvars
<1>2. CASE LoadDone
    BY <1>2, LoadDoneRefines DEF VM!Next
<1>3. ASSUME NEW c \in DOMAIN containers, toggle_container(c)
      PROVE  [VM!Next]_VM!absvars
    <2>1. /\ pc = "mounted" /\ pc' = "mounted"
          /\ DOMAIN containers' = DOMAIN containers
          /\ \A id \in DOMAIN containers : containers'[id].service = containers[id].service
        BY <1>0, <1>3 DEF toggle_container, TypeOK, ContainerInfo
    <2>2. AbsDisabled' = [AbsDisabled EXCEPT ![c] = ~@]
        BY <1>0, <1>3, <2>1 DEF toggle_container, AbsDisabled, TypeOK, ContainerInfo
    <2>3. VM!toggle(c)
        BY <1>3, <2>1, <2>2, ClickKeepsGroup DEF VM!toggle, toggle_container, AbsDisabled
    <2>4. QED
        BY <2>1, <2>3 DEF VM!Next, AbsDisabled
<1>4. ASSUME NEW c \in DOMAIN containers, only_this_container(c)
      PROVE  [VM!Next]_VM!absvars
    <2>1. /\ pc = "mounted" /\ pc' = "mounted"
          /\ DOMAIN containers' = DOMAIN containers
          /\ \A id \in DOMAIN containers : containers'[id].service = containers[id].service
        BY <1>0, <1>4 DEF only_this_container, TypeOK, ContainerInfo
    <2>2. AbsDisabled' = [x \in DOMAIN AbsDisabled |-> x # c]
        BY <1>0, <1>4, <2>1 DEF only_this_container, AbsDisabled, TypeOK, ContainerInfo
    <2>3. VM!isolate(c)
        BY <1>4, <2>1, <2>2, ClickKeepsGroup DEF VM!isolate, only_this_container
    <2>4. QED
        BY <2>1, <2>3 DEF VM!Next, AbsDisabled
<1>5. ASSUME NEW s \in DOMAIN services, only_this_service(s)
      PROVE  [VM!Next]_VM!absvars
    <2>1. /\ pc = "mounted" /\ pc' = "mounted"
          /\ DOMAIN containers' = DOMAIN containers
          /\ \A id \in DOMAIN containers : containers'[id].service = containers[id].service
        BY <1>0, <1>5 DEF only_this_service, TypeOK, ContainerInfo
    <2>2. AbsDisabled' = [x \in DOMAIN AbsDisabled |-> AbsGroup[x] # s]
        BY <1>0, <1>5, <2>1 DEF only_this_service, AbsDisabled, AbsGroup, TypeOK, ContainerInfo
    <2>3. s \in Services
        BY <1>0 DEF TypeOK
    <2>4. VM!isolateService(s)
        BY <1>5, <2>1, <2>2, ClickKeepsGroup DEF VM!isolateService, only_this_service
    <2>5. QED
        BY <2>3, <2>4 DEF VM!Next
<1>6. ASSUME NEW s \in DOMAIN services, NEW b \in BOOLEAN, change_all_service(s, b)
      PROVE  [VM!Next]_VM!absvars
    <2>1. /\ pc = "mounted" /\ pc' = "mounted"
          /\ DOMAIN containers' = DOMAIN containers
          /\ \A id \in DOMAIN containers : containers'[id].service = containers[id].service
        BY <1>0, <1>6 DEF change_all_service, TypeOK, ContainerInfo
    <2>2. AbsDisabled' = [x \in DOMAIN AbsDisabled |->
                            IF AbsGroup[x] = s THEN b ELSE AbsDisabled[x]]
        BY <1>0, <1>6, <2>1 DEF change_all_service, AbsDisabled, AbsGroup, TypeOK, ContainerInfo
    <2>3. s \in Services
        BY <1>0 DEF TypeOK
    <2>4. VM!setServiceVisibility(s, b)
        BY <1>6, <2>1, <2>2, ClickKeepsGroup DEF VM!setServiceVisibility, change_all_service
    <2>5. QED
        BY <2>3, <2>4 DEF VM!Next
<1>7. CASE UNCHANGED vars
    BY <1>7 DEF vars, VM!absvars, AbsDisabled, AbsGroup
<1>8. QED
    BY <1>1, <1>2, <1>3, <1>4, <1>5, <1>6, <1>7
    DEF Next, hide_all_service, show_all_service

(* Before the first render the abstract state is that of spec 4.5 before  *)
(* initialize: the identity feed and no flags.                             *)
LEMMA InitRefines == Init => VM!Init
<1> SUFFICES ASSUME Init PROVE VM!Init
    OBVIOUS
<1>1. PICK n \in 1..MaxFeed : array_ids \in [1..n -> IdentityRecord]
    BY DEF Init, Feeds
<1>2. n \in Nat
    BY MaxFeedAssumption
<1>3. array_ids \in Seq(IdentityRecord)
    BY <1>1, <1>2, SeqDef
<1>4. IdentityRecord = VM!Record
    BY DEF IdentityRecord, VM!Record
<1>5. array_ids \in Seq(VM!Record)
    BY <1>3, <1>4, Zenon
<1>6. QED
    BY <1>5 DEF Init, VM!Init, AbsDisabled, AbsGroup

(* The tables Load builds and the five click handlers implement the        *)
(* visibility model of spec 4.5 for every feed, truncation length and set  *)
(* of services: Load's end is initialize (last write wins) and each click  *)
(* is the abstract operation on the flags.                                 *)
THEOREM RefinesVisibilityModel == Spec => ImplementsVisibilityModel
BY InitRefines, InitRInv, NextRInv, NextRefines, PTL
DEF Spec, ImplementsVisibilityModel, VM!Spec

=============================================================================
