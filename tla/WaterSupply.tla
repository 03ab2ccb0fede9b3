---------------------------- MODULE WaterSupply ----------------------------
(***************************************************************************)
(* The curves of package watersupply: the pressure a supply leaves, and a  *)
(* fire pump adds, at a flow, and the comparison with what a system needs. *)
(* All are pure.  The code works in float64 and rounds once at the end;    *)
(* here the quotient is exact and rounded the same way.                    *)
(*                                                                         *)
(* A curve is a set of outcomes at each flow, not one number: two points   *)
(* of equal flow sort in either order, and a segment without width has an  *)
(* infinite slope, whose product the build converts to some int64.         *)
(*                                                                         *)
(* Results are int64: what is out of range is converted like an infinity,  *)
(* and sums and differences of them wrap around.  What callers give and    *)
(* Calc finds is less than 2^62, so differences of that are exact.         *)
(***************************************************************************)
EXTENDS Integers, Sequences

CONSTANTS NoPump,     \* in place of a pump, if the system has none
          Quarter,    \* 2^62, a quarter of what int64 tells apart
          Garbage     \* what the conversion of NaN or an infinity may give

Int64  == -2 * Quarter .. 2 * Quarter - 1
Figure == -Quarter .. Quarter - 1       \* bound: what is given and what Calc finds

ASSUME WidthAssumption == Quarter \in Nat \ {0} /\ Garbage \subseteq Int64

\* What the sum or the difference of two int64 comes to.
Wrap(x) ==
    CASE x \in Int64           -> x
      [] x > 2 * Quarter - 1   -> x - 4 * Quarter
      [] x < -2 * Quarter      -> x + 4 * Quarter

\* The int64 that a float64, one of these, is converted to.
Converted(values) ==
    (values \cap Int64) \union (IF values \subseteq Int64 THEN {} ELSE Garbage)

NonNegative(x) == IF x < 0 THEN 0 ELSE x

\* Half away from zero; b is positive.
RoundHalfUp(a, b) ==
    IF a >= 0 THEN (2 * a + b) \div (2 * b) ELSE -((b - 2 * a) \div (2 * b))

\* The line through two points of different flow, at flow q.
Line(p, c, q) ==
    LET dq == c.flow - p.flow
        up == p.pressure * dq + (q - p.flow) * (c.pressure - p.pressure)
    IN  IF dq > 0 THEN RoundHalfUp(up, dq) ELSE RoundHalfUp(-up, -dq)

\* Mutant: the slope is taken the wrong way round.
BeyondRising(prev, last, q) ==
    IF last.flow # prev.flow
    THEN {NonNegative(Line([flow |-> 2 * last.flow - prev.flow, pressure |-> prev.pressure], last, q))}
    ELSE Garbage

\* Past the last point the last segment goes on, but not below 0.
Beyond(prev, last, q) ==
    IF last.flow # prev.flow THEN {NonNegative(Line(prev, last, q))}
    ELSE IF q > last.flow /\ last.pressure < prev.pressure THEN {0} ELSE Garbage

----------------------------------------------------------------------------
(* The supply: [static |-> its static pressure, points |-> as stored] *)

\* Mutant: the points are taken as they are stored.
StoredPoints(points) == {points}

\* The orders sort.Slice may leave them in.
sortedPoints(points) ==
    LET D == DOMAIN points
    IN  {[i \in D |-> points[order[i]]] :
            order \in {o \in [D -> D] :
                /\ \A i, j \in D : o[i] = o[j] => i = j
                /\ \A i \in D \ {1} : points[o[i - 1]].flow <= points[o[i]].flow}}

\* What is left of a supply with these sorted points at flow q.
ResidualOf(static, pts, q) ==
    LET n == Len(pts) IN
    CASE n = 0 -> {static}
      [] n > 0 /\ q <= pts[1].flow ->
            {IF pts[1].flow > 0 THEN Line([flow |-> 0, pressure |-> static], pts[1], q)
                                ELSE static}
      [] n = 1 /\ q > pts[1].flow -> {NonNegative(pts[1].pressure)}
      [] n > 1 /\ q > pts[1].flow /\ q >= pts[n].flow -> Beyond(pts[n - 1], pts[n], q)
      [] OTHER ->
            {Line(pts[i - 1], pts[i], q) :
                i \in {j \in 2 .. n : pts[j - 1].flow < q /\ q <= pts[j].flow}}

residualAt(s, q) ==
    Converted(UNION {ResidualOf(s.static, pts, q) : pts \in sortedPoints(s.points)})

----------------------------------------------------------------------------
(* The pump: a line from churn to its rated point, and on to 150% of it *)

BoostOf(p, q) ==
    LET rated == [flow |-> p.ratedFlow, pressure |-> p.ratedHead]
        extra == [flow |-> p.extraFlow, pressure |-> p.extraHead]
    IN  CASE q <= 0 -> {p.churn}
          [] q > 0 /\ q >= p.extraFlow -> Beyond(rated, extra, q)
          [] q > 0 /\ q < p.extraFlow /\ q <= p.ratedFlow ->
                {Line([flow |-> 0, pressure |-> p.churn], rated, q)}
          [] OTHER -> {Line(rated, extra, q)}

pumpBoostAt(p, q) == Converted(BoostOf(p, q))

----------------------------------------------------------------------------
(* The comparison *)

\* The supply alone, if that is enough; otherwise with the pump, if there is
\* one.  At flow 0 a pump is always added.
Available(residual, boost, pump, q, required) ==
    IF residual >= required /\ q > 0
    THEN [available |-> residual, needsPump |-> FALSE, pumpAdded |-> FALSE]
    ELSE [available |-> IF pump # NoPump THEN Wrap(residual + boost) ELSE residual,
          needsPump |-> residual < required,
          pumpAdded |-> pump # NoPump]

Comparison(a, q, required) ==
    [flow      |-> q,
     available |-> a.available,
     required  |-> required,
     surplus   |-> Wrap(a.available - required),
     needsPump |-> a.needsPump,
     pumpAdded |-> a.pumpAdded]

\* The comparisons that may come out for this supply and pump.
Compare(s, pump, q, required) ==
    {Comparison(Available(residual, boost, pump, q, required), q, required) :
        residual \in residualAt(s, q),
        boost \in IF pump = NoPump THEN {0} ELSE pumpBoostAt(pump, q)}
=============================================================================
