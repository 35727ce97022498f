------------------------------ MODULE Rounding ------------------------------
(***************************************************************************)
(* roundMultiple, the time bucketing every graph view applies, checked     *)
(* against the definition of spec.md 4.2 over bounded inputs.  Each step   *)
(* is one call of roundMultiple(x, multiple) as load_containers_data and   *)
(* load_host_data make it: x a sample time, multiple what parseInt made of *)
(* the multiple field.                                                     *)
(***************************************************************************)
EXTENDS Normalize

CONSTANTS
    Xs,               \* sample times
    Ms,               \* multiples, NaN included
    InvalidArgument   \* the error spec 4.2 asks for

ASSUME RoundingAssumption ==
    /\ Xs \subseteq Int
    /\ \A m \in Ms : m = NaN \/ m \in Int
    /\ InvalidArgument \notin Int
    /\ NaN \notin Int

VARIABLES x, multiple

Init == x \in Xs /\ multiple \in Ms

(* The next call of roundMultiple, with any sample time and multiple.      *)
Call == \E x2 \in Xs, m2 \in Ms : x' = x2 /\ multiple' = m2

Spec == Init /\ [][Call]_<<x, multiple>>

(* Spec 4.2: r = x mod multiple; floor(x / multiple) * multiple, plus      *)
(* multiple when r >= multiple / 2; InvalidArgument for multiple <= 0.      *)
SpecRound(a, m) ==
    IF m = NaN \/ m <= 0 THEN InvalidArgument
    ELSE LET fl == (a - (a % m)) \div m IN
         IF 2 * (a % m) >= m THEN fl * m + m ELSE fl * m

(* The views bucket every time as spec 4.2 defines it: round half up to a  *)
(* multiple, and no bucket at all for a multiple that is not positive.     *)
RoundsAsSpecified == roundMultiple(x, multiple) = SpecRound(x, multiple)

=============================================================================
