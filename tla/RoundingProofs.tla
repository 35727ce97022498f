--------------------------- MODULE RoundingProofs ---------------------------
(***************************************************************************)
(* Proofs about roundMultiple of the graph views against the definition    *)
(* SpecRound of spec.md 4.2, for every sample time and every positive      *)
(* multiple.  The run rounding_edges shows the two places where they       *)
(* differ: a multiple of 0 or NaN, and a quotient below 10^-6 whose        *)
(* decimal string is in exponent form.  Everywhere else they agree.        *)
(***************************************************************************)
EXTENDS Rounding, NormalizeProofs, TLAPS

(* SpecRound of a positive multiple is round half up.                      *)
LEMMA SpecRoundHalfUp ==
    ASSUME NEW a \in Nat, NEW m \in Nat \ {0}
    PROVE  SpecRound(a, m) = RoundHalfUp(a, m)
<1>1. (a - (a % m)) \div m = a \div m
    BY FloorIsDiv
<1>2. ~(m = NaN \/ m <= 0)
    BY RoundingAssumption
<1>3. QED
    BY <1>1, <1>2 DEF SpecRound, RoundHalfUp

(* load_containers_data and load_host_data bucket a sample time as spec    *)
(* 4.2 defines it, round half up to the multiple, for every positive       *)
(* multiple up to a million times the time: the divergences rounding_edges *)
(* finds are exactly the multiples 0 and NaN and the exponent range.        *)
THEOREM RoundsAsSpecifiedPlain ==
    ASSUME NEW a \in Nat, NEW m \in Nat \ {0}, PlainQuotient(a, m)
    PROVE  roundMultiple(a, m) = SpecRound(a, m)
<1>1. m # NaN
    BY RoundingAssumption
<1>2. QED
    BY <1>1, RoundMultiplePlain, SpecRoundHalfUp

(* Every call of roundMultiple with sample times and positive multiples    *)
(* whose quotients print in plain form agrees with spec 4.2 (the constants *)
(* of the run rounding are of this kind).                                  *)
THEOREM RoundsAsSpecifiedHolds ==
    ASSUME Xs \subseteq Nat, Ms \subseteq Nat \ {0},
           \A a \in Xs, m \in Ms : PlainQuotient(a, m)
    PROVE  Spec => []RoundsAsSpecified
<1>1. Init => RoundsAsSpecified
    BY RoundsAsSpecifiedPlain DEF Init, RoundsAsSpecified
<1>2. RoundsAsSpecified /\ [Call]_<<x, multiple>> => RoundsAsSpecified'
    BY RoundsAsSpecifiedPlain DEF Call, RoundsAsSpecified
<1>3. QED
    BY <1>1, <1>2, PTL DEF Spec

=============================================================================
