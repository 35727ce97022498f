--------------------------- MODULE NormalizeProofs ---------------------------
(***************************************************************************)
(* Lemmas about roundMultiple, the time bucketing of the graph views, for  *)
(* sample times (naturals) and positive multiples whose quotient x / m     *)
(* String() prints in plain decimal form.                                  *)
(***************************************************************************)
EXTENDS Normalize, TLAPS

(* The quotient x / multiple is printed in plain decimal form: parseInt    *)
(* reads its integer part.                                                 *)
PlainQuotient(a, m) == a = 0 \/ a * 1000000 >= m

(* Round half up to the multiple m, as spec 4.2 defines it.                *)
RoundHalfUp(a, m) == IF 2 * (a % m) >= m THEN (a \div m) * m + m ELSE (a \div m) * m

-----------------------------------------------------------------------------
(* For a sample time and a positive multiple, JavaScript's % is the       *)
(* mathematical remainder.                                                 *)
LEMMA JsRemNat ==
    ASSUME NEW a \in Nat, NEW m \in Nat \ {0}
    PROVE  JsRem(a, m) = a % m
BY DEF JsRem, AbsVal

(* parseInt(String(a / m)) is the integer quotient when the quotient is    *)
(* printed in plain form.                                                  *)
LEMMA ParseIntQuotientPlain ==
    ASSUME NEW a \in Nat, NEW m \in Nat \ {0}, PlainQuotient(a, m)
    PROVE  ParseIntQuotient(a, m) = a \div m
<1>1. CASE a = 0
    BY <1>1 DEF ParseIntQuotient, AbsVal
<1>2. CASE a # 0
    <2>1. ~(a * 1000000 < m)
        BY <1>2 DEF PlainQuotient
    <2>2. QED
        BY <1>2, <2>1 DEF ParseIntQuotient, AbsVal
<1>3. QED
    BY <1>1, <1>2

(* The floor of spec 4.2, (a - a mod m) / m, is the integer quotient.      *)
LEMMA FloorIsDiv ==
    ASSUME NEW a \in Nat, NEW m \in Nat \ {0}
    PROVE  (a - (a % m)) \div m = a \div m
<1>1. a - (a % m) = (a \div m) * m
    OBVIOUS
<1>2. ((a \div m) * m) \div m = a \div m
    OBVIOUS
<1>3. QED
    BY <1>1, <1>2

(* In the plain range, roundMultiple rounds half up to the multiple.       *)
LEMMA RoundMultiplePlain ==
    ASSUME NEW a \in Nat, NEW m \in Nat \ {0}, m # NaN, PlainQuotient(a, m)
    PROVE  /\ roundMultiple(a, m) = RoundHalfUp(a, m)
           /\ roundMultiple(a, m) \in Nat
<1>1. ParseIntQuotient(a, m) = a \div m /\ JsRem(a, m) = a % m
    BY ParseIntQuotientPlain, JsRemNat
<1>2. roundMultiple(a, m) = RoundHalfUp(a, m)
    BY <1>1 DEF roundMultiple, RoundHalfUp
<1>3. RoundHalfUp(a, m) \in Nat
    BY DEF RoundHalfUp
<1>4. QED
    BY <1>2, <1>3

(* A multiple of 0 or NaN makes every bucket NaN.                          *)
LEMMA RoundMultipleNaN ==
    ASSUME NEW a, NEW m, m = NaN \/ m = 0
    PROVE  roundMultiple(a, m) = NaN
BY DEF roundMultiple

(* Round half up to a positive multiple never decreases.                   *)
LEMMA RoundHalfUpMonotone ==
    ASSUME NEW a \in Nat, NEW b \in Nat, NEW m \in Nat \ {0}, a <= b
    PROVE  RoundHalfUp(a, m) <= RoundHalfUp(b, m)
<1>1. a \div m <= b \div m
    OBVIOUS
<1>2. CASE a \div m = b \div m
    <2>1. a % m <= b % m
        BY <1>2
    <2>2. QED
        BY <1>2, <2>1 DEF RoundHalfUp
<1>3. CASE a \div m < b \div m
    <2>1. RoundHalfUp(a, m) <= (a \div m) * m + m
        BY DEF RoundHalfUp
    <2>2. (a \div m + 1) * m <= (b \div m) * m
        BY <1>3
    <2>3. (b \div m) * m <= RoundHalfUp(b, m)
        <3>1. RoundHalfUp(b, m) = (b \div m) * m + m \/ RoundHalfUp(b, m) = (b \div m) * m
            BY DEF RoundHalfUp
        <3>2. (b \div m) * m \in Int
            OBVIOUS
        <3>3. QED
            BY <3>1, <3>2
    <2>4. /\ RoundHalfUp(a, m) \in Int /\ RoundHalfUp(b, m) \in Int
          /\ (a \div m) * m + m = (a \div m + 1) * m
          /\ (a \div m + 1) * m \in Int /\ (b \div m) * m \in Int
        BY DEF RoundHalfUp
    <2>5. QED
        BY <2>1, <2>2, <2>3, <2>4
<1>4. QED
    BY <1>1, <1>2, <1>3

(* The bucketing of the views is monotone wherever the quotient prints in  *)
(* plain form: a later sample time never lands in an earlier bucket.       *)
LEMMA RoundMultipleMonotone ==
    ASSUME NEW a \in Nat, NEW b \in Nat, NEW m \in Nat \ {0}, m # NaN, a <= b,
           PlainQuotient(a, m), PlainQuotient(b, m)
    PROVE  roundMultiple(a, m) <= roundMultiple(b, m)
BY RoundHalfUpMonotone, RoundMultiplePlain


(* In the plain range every bucket is a multiple of the multiple: the     *)
(* quotient or the next one, times the multiple.                           *)
LEMMA RoundMultipleOnGrid ==
    ASSUME NEW a \in Nat, NEW m \in Nat \ {0}, m # NaN, PlainQuotient(a, m)
    PROVE  \E q \in Nat : roundMultiple(a, m) = q * m
<1>1. roundMultiple(a, m) = RoundHalfUp(a, m)
    BY RoundMultiplePlain
<1>2. CASE 2 * (a % m) >= m
    <2>1. RoundHalfUp(a, m) = (a \div m + 1) * m /\ a \div m + 1 \in Nat
        BY <1>2 DEF RoundHalfUp
    <2>2. QED
        BY <1>1, <2>1
<1>3. CASE ~(2 * (a % m) >= m)
    <2>1. RoundHalfUp(a, m) = (a \div m) * m /\ a \div m \in Nat
        BY <1>3 DEF RoundHalfUp
    <2>2. QED
        BY <1>1, <2>1
<1>4. QED
    BY <1>2, <1>3

=============================================================================
