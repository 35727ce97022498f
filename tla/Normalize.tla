----------------------------- MODULE Normalize -----------------------------
(***************************************************************************)
(* The two pure conversions every view of the dashboard applies to its     *)
(* input before using it as a key:                                         *)
(*                                                                         *)
(*  - canonicalize: String.prototype.substring(0, n) applied to a raw      *)
(*    container id (utils/containers_ids.jsx, views/logs.jsx,              *)
(*    views/GraphContainers.jsx, each with its own NUMBER_LETTERS = 12);   *)
(*  - roundMultiple: the time bucketing copied into the three graph views  *)
(*    (GraphContainers.jsx, Graph.jsx, GraphInstances.jsx).                *)
(*                                                                         *)
(* Strings are sequences of characters.  Numbers are integers; JavaScript  *)
(* NaN is the model value NaN.  roundMultiple is modelled by what the      *)
(* JavaScript expression computes, not by what its name promises: % keeps  *)
(* the sign of the dividend, and parseInt(q) parses the decimal string of  *)
(* q, which is in exponent form when 0 < |q| < 10^-6.  (It is also in     *)
(* exponent form for |q| >= 10^21, which needs timestamps beyond 2^53 and  *)
(* is left out.)                                                           *)
(***************************************************************************)
EXTENDS Integers, Sequences

CONSTANT NaN

(* raw.substring(0, n): the first n characters, or all of raw if shorter.  *)
canonicalize(raw, n) == IF Len(raw) <= n THEN raw ELSE SubSeq(raw, 1, n)

AbsVal(a) == IF a < 0 THEN -a ELSE a

(* JavaScript a % b for integers, b # 0: the remainder has the sign of a.  *)
JsRem(a, b) == IF a >= 0 THEN a % AbsVal(b) ELSE -((-a) % AbsVal(b))

(* The first significant decimal digit of a / b, for 0 < a < b: the digit  *)
(* parseInt reads from an exponent-form string such as "4.9e-7".           *)
LeadingDigit(a, b) ==
    LET e == CHOOSE i \in 1..30 : a * 10^(i - 1) < b /\ b <= a * 10^i
    IN  (a * 10^e) \div b

(* parseInt(String(a / b)) for integers a and b # 0.                       *)
ParseIntQuotient(a, b) ==
    LET sign == IF (a < 0) = (b < 0) THEN 1 ELSE -1
        num  == AbsVal(a)
        den  == AbsVal(b)
    IN  IF num = 0 THEN 0
        ELSE IF num * 1000000 < den
             THEN sign * LeadingDigit(num, den)
             ELSE sign * (num \div den)

(* Mutant of roundMultiple: the two branches of the conditional swapped.   *)
roundMultiple_swapped(x, multiple) ==
    IF multiple = NaN \/ multiple = 0 THEN NaN
    ELSE LET q == ParseIntQuotient(x, multiple) IN
         IF 2 * JsRem(x, multiple) >= multiple
         THEN q * multiple
         ELSE q * multiple + multiple

(* roundMultiple(x, multiple) of the views, for an integer x.  A multiple  *)
(* of 0 gives x % 0 = NaN and parseInt(x / 0) = NaN, hence NaN.            *)
roundMultiple(x, multiple) ==
    IF multiple = NaN \/ multiple = 0 THEN NaN
    ELSE LET q == ParseIntQuotient(x, multiple) IN
         IF 2 * JsRem(x, multiple) >= multiple
         THEN q * multiple + multiple
         ELSE q * multiple

=============================================================================
