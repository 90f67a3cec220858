---------------------------- MODULE CadencePolicy ----------------------------
(***************************************************************************)
(* decide_next_collection (publication_metric_cadence_policy.py): when the *)
(* metrics of a publication are collected next.  Times are in units of     *)
(* half an hour, the smallest interval; all limits of the policy are whole *)
(* hours, so an age counted in started units falls on the same side of     *)
(* each of them as the exact one.                                          *)
(***************************************************************************)
EXTENDS Integers

NoTime == 0          \* None: the clock starts at 1
Hour == 2
MinInterval == 1

Baselines == {"NO_DATA", "BASELINE_ONLY", "INSUFFICIENT_DATA"}
Trends == Baselines \cup {"GROWING", "FLAT", "COUNTER_REGRESSION"}

AtMost(a, b) == IF a <= b THEN a ELSE b
AtLeast(a, b) == IF a >= b THEN a ELSE b

\* By the age of the publication.
BaseInterval(age) ==
  CASE age < 6 * Hour -> Hour
    [] age >= 6 * Hour /\ age < 24 * Hour -> 3 * Hour
    [] age >= 24 * Hour /\ age < 72 * Hour -> 12 * Hour
    [] OTHER -> 24 * Hour

\* min(4, 2 ** max(1, flat))
FlatBackoff(flat) == IF flat <= 1 THEN 2 ELSE 4

Interval(age, trend, flat) ==
  LET base == BaseInterval(age)
  IN CASE trend \in Baselines /\ age < 6 * Hour -> MinInterval
       [] trend = "GROWING" -> AtLeast(MinInterval, base \div 2)
       [] trend = "FLAT" -> AtMost(48 * Hour, base * FlatBackoff(flat))
       [] trend = "COUNTER_REGRESSION" -> AtMost(base, 3 * Hour)
       [] OTHER -> base

\* mutant: the age limit is forgotten
DecideForever(now, start, trend, flat, limit) ==
  [status |-> "ACTIVE", next |-> now + Interval(AtLeast(0, now - start), trend, flat)]

\* The decision at time now for a publication tracked since start.
Decide(now, start, trend, flat, limit) ==
  LET age == AtLeast(0, now - start)
  IN IF age >= limit THEN [status |-> "COMPLETED", next |-> NoTime]
     ELSE [status |-> "ACTIVE", next |-> now + Interval(age, trend, flat)]
=============================================================================
