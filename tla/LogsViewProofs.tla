--------------------------- MODULE LogsViewProofs ---------------------------
(***************************************************************************)
(* Proofs about LogsView (load_logs_json, container_filter and the         *)
(* remounts of views/logs.jsx over the identity tables of Visibility), for *)
(* every set of raw ids, every truncation length and every number of       *)
(* mounts.                                                                 *)
(***************************************************************************)
EXTENDS LogsView, VisibilityProofs, SequenceTheorems, TLAPS

-----------------------------------------------------------------------------
(* substring(0, n) of a string.                                            *)

(* A truncated string is a string of at most n characters.                 *)
LEMMA CanonicalizeType ==
    ASSUME NEW r \in Seq(STRING), NEW n \in Nat
    PROVE  /\ canonicalize(r, n) \in Seq(STRING)
           /\ Len(canonicalize(r, n)) <= n
<1>1. CASE Len(r) <= n
    BY <1>1 DEF canonicalize
<1>2. CASE ~(Len(r) <= n)
    <2>1. \A i \in 1..n : r[i] \in STRING
        BY <1>2, ElementOfSeq
    <2>2. SubSeq(r, 1, n) \in Seq(STRING) /\ Len(SubSeq(r, 1, n)) = n
        BY <2>1, SubSeqProperties
    <2>3. QED
        BY <1>2, <2>2 DEF canonicalize
<1>3. QED
    BY <1>1, <1>2

(* Truncating an already truncated string changes nothing: the reason a   *)
(* second construction of the view, which runs load_logs_json over the     *)
(* shared rows again, is harmless.                                         *)
LEMMA CanonicalizeIdempotent ==
    ASSUME NEW r \in Seq(STRING), NEW n \in Nat
    PROVE  canonicalize(canonicalize(r, n), n) = canonicalize(r, n)
<1>1. PICK c : c = canonicalize(r, n)
    OBVIOUS
<1>2. c \in Seq(STRING) /\ Len(c) <= n
    BY <1>1, CanonicalizeType
<1>3. canonicalize(c, n) = c
    BY <1>2 DEF canonicalize
<1>4. QED
    BY <1>1, <1>3

(* load_logs_json maps string rows to string rows, one for one.            *)
LEMMA LoadLogsJsonType ==
    ASSUME NEW rows \in Seq(Seq(STRING))
    PROVE  /\ load_logs_json(rows) \in Seq(Seq(STRING))
           /\ Len(load_logs_json(rows)) = Len(rows)
           /\ \A i \in DOMAIN rows : load_logs_json(rows)[i] = canonicalize(rows[i], NUMBER_LETTERS)
<1>1. \A i \in 1..Len(rows) : canonicalize(rows[i], NUMBER_LETTERS) \in Seq(STRING)
    BY NumberLettersAssumption, CanonicalizeType, ElementOfSeq
<1>2. load_logs_json(rows) \in [1..Len(rows) -> Seq(STRING)]
    BY <1>1 DEF load_logs_json
<1>3. QED
    BY <1>2, SeqDef DEF load_logs_json

(* Every imported row's container id is a string.                          *)
LEMMA LogFeedStrings ==
    ASSUME NEW f \in Seq(LogRawIds)
    PROVE  f \in Seq(Seq(STRING))
<1>1. \A i \in 1..Len(f) : f[i] \in Seq(STRING)
    BY LogRawIdsAssumption, ElementOfSeq
<1>2. QED
    BY <1>1, SeqDef

-----------------------------------------------------------------------------
(* The inductive invariant: that of Visibility, the types, and the rows    *)
(* canonical.                                                              *)
LInv ==
    /\ IInv
    /\ LogsTypeOK
    /\ LogRowsCanonical


(* The first construction truncates the imported rows once.                *)
LEMMA LogsInitLInv == LogsInit => LInv
<1> SUFFICES ASSUME LogsInit PROVE LInv
    OBVIOUS
<1>1. IInv
    BY InitIInv DEF LogsInit
<1>2. PICK n \in 1..MaxLogs : log_feed \in [1..n -> LogRawIds]
    BY DEF LogsInit, LogFeeds
<1>3. log_feed \in Seq(LogRawIds)
    BY <1>2, LogBoundsAssumption, SeqDef
<1>4. log_feed \in Seq(Seq(STRING))
    BY <1>3, LogFeedStrings
<1>5. /\ array_data \in Seq(Seq(STRING))
      /\ Len(array_data) = Len(log_feed)
      /\ \A i \in DOMAIN log_feed : array_data[i] = canonicalize(log_feed[i], NUMBER_LETTERS)
    BY <1>4, LoadLogsJsonType DEF LogsInit
<1>6. mounts \in 1..MaxMounts
    BY LogBoundsAssumption DEF LogsInit
<1>7. QED
    BY <1>1, <1>3, <1>5, <1>6 DEF LInv, IInv, LogsTypeOK, LogRowsCanonical

(* A remount truncates the truncated rows again and restarts Load on      *)
(* empty tables.                                                           *)
LEMMA RemountLInv == LInv /\ Remount => LInv'
<1> SUFFICES ASSUME LInv, Remount PROVE LInv'
    OBVIOUS
<1>1. /\ TypeOK /\ log_feed \in Seq(LogRawIds) /\ array_data \in Seq(Seq(STRING))
      /\ Len(array_data) = Len(log_feed) /\ mounts \in 1..MaxMounts
    BY DEF LInv, IInv, LogsTypeOK
<1>2. TypeOK'
    BY <1>1 DEF Remount, TypeOK
<1>3. LoadedFrom(0)'
    BY DEF Remount, LoadedFrom
<1>4. IInv'
    BY <1>2, <1>3 DEF Remount, IInv
<1>5. /\ array_data' \in Seq(Seq(STRING))
      /\ Len(array_data') = Len(array_data)
      /\ \A i \in DOMAIN array_data : array_data'[i] = canonicalize(array_data[i], NUMBER_LETTERS)
    BY <1>1, LoadLogsJsonType DEF Remount
<1>6. mounts' \in 1..MaxMounts
    BY <1>1, LogBoundsAssumption DEF Remount
<1>7. LogsTypeOK'
    BY <1>1, <1>2, <1>5, <1>6 DEF Remount, LogsTypeOK
<1>8. LogRowsCanonical'
    <2> SUFFICES ASSUME NEW i \in DOMAIN log_feed
                 PROVE  array_data'[i] = canonicalize(log_feed[i], NUMBER_LETTERS)
        BY DEF Remount, LogRowsCanonical
    <2>1. log_feed[i] \in Seq(STRING)
        BY <1>1, LogFeedStrings, ElementOfSeq
    <2>2. i \in DOMAIN array_data
        BY <1>1
    <2>3. array_data[i] = canonicalize(log_feed[i], NUMBER_LETTERS)
        BY DEF LInv, LogRowsCanonical
    <2>4. array_data'[i] = canonicalize(canonicalize(log_feed[i], NUMBER_LETTERS), NUMBER_LETTERS)
        BY <1>5, <2>2, <2>3
    <2>5. QED
        BY <2>1, <2>4, NumberLettersAssumption, CanonicalizeIdempotent
<1>9. QED
    BY <1>4, <1>7, <1>8 DEF LInv

(* The load and the clicks leave the rows alone.                           *)
LEMMA VisibilityStepLInv == LInv /\ [Next]_vars /\ UNCHANGED logvars => LInv'
<1> SUFFICES ASSUME LInv, [Next]_vars, UNCHANGED logvars PROVE LInv'
    OBVIOUS
<1>1. IInv'
    BY NextIInv DEF LInv
<1>2. TypeOK'
    BY <1>1 DEF IInv
<1>3. LogsTypeOK'
    BY <1>2 DEF LInv, LogsTypeOK, logvars
<1>4. LogRowsCanonical'
    BY DEF LInv, LogRowsCanonical, logvars
<1>5. QED
    BY <1>1, <1>3, <1>4 DEF LInv

(* LInv is inductive.                                                      *)
LEMMA LogsNextLInv == LInv /\ [LogsNext]_allvars => LInv'
<1> SUFFICES ASSUME LInv, [LogsNext]_allvars PROVE LInv'
    OBVIOUS
<1>1. CASE Next /\ UNCHANGED logvars
    BY <1>1, VisibilityStepLInv
<1>2. CASE Remount
    BY <1>2, RemountLInv
<1>3. CASE UNCHANGED allvars
    BY <1>3, VisibilityStepLInv DEF allvars
<1>4. QED
    BY <1>1, <1>2, <1>3 DEF LogsNext

-----------------------------------------------------------------------------
(* Type correctness of the logs view over any number of remounts.          *)
THEOREM LogsTypeCorrect == LogsSpec => []LogsTypeOK
<1>1. LInv => LogsTypeOK
    BY DEF LInv
<1>2. QED
    BY <1>1, LogsInitLInv, LogsNextLInv, PTL DEF LogsSpec

(* However often the view is constructed, load_logs_json leaves every row  *)
(* with the short id of its imported container id.                         *)
THEOREM LogRowsCanonicalHolds == LogsSpec => []LogRowsCanonical
<1>1. LInv => LogRowsCanonical
    BY DEF LInv
<1>2. QED
    BY <1>1, LogsInitLInv, LogsNextLInv, PTL DEF LogsSpec

(* Once mounted, container_filter's lookup of a row in containers succeeds *)
(* exactly when its imported id truncates to the short id of some identity *)
(* record: the logs and the identities are keyed alike.                    *)
THEOREM JoinKeysAgreeHolds == LogsSpec => []JoinKeysAgree
<1>1. LInv => JoinKeysAgree
    <2> SUFFICES ASSUME LInv, pc = "mounted", NEW i \in DOMAIN log_feed
                 PROVE  (array_data[i] \in DOMAIN containers)
                          <=> (\E j \in 1..Len(array_ids) :
                                  canonicalize(log_feed[i], NUMBER_LETTERS) = ShortIdOf(j))
        BY DEF JoinKeysAgree
    <2>1. DOMAIN containers = {ShortIdOf(j) : j \in 1..Len(array_ids)}
        BY DEF LInv, IInv, LoadedFrom
    <2>2. array_data[i] = canonicalize(log_feed[i], NUMBER_LETTERS)
        BY DEF LInv, LogRowsCanonical
    <2>3. QED
        BY <2>1, <2>2
<1>2. QED
    BY <1>1, LogsInitLInv, LogsNextLInv, PTL DEF LogsSpec

=============================================================================
