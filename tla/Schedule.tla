------------------------------ MODULE Schedule ------------------------------
(***************************************************************************)
(* When a recurring expense falls due, on a calendar of numbered days.     *)
(*                                                                         *)
(* A rule steps by `interval` units of `unit` days: one day for a daily    *)
(* rule, a week for a weekly one, whose `weekday` says which day of the    *)
(* unit it lands on.  Monthly and yearly rules, whose units have no fixed  *)
(* length, are Calendar's.  `start` and `end` are inclusive.               *)
(*                                                                         *)
(* The clock counts half days: day d starts at 2d and turns nine o'clock,  *)
(* the hour an occurrence is generated at, at 2d + 1.                      *)
(***************************************************************************)
EXTENDS Integers

CONSTANT None

ASSUME NoneAssumption == None \notin Int

Today(now) == now \div 2
DueThrough(now) == (now - 1) \div 2
OccurrenceInstant(d) == 2 * d + 1

Step(rule) == rule.interval * rule.unit
Ended(rule, d) == rule.end # None /\ d > rule.end
WithinRange(rule, d) == IF Ended(rule, d) THEN None ELSE d

(* The first day of the rule's weekday from its start on. *)
Aligned(rule) == rule.start + ((rule.weekday - rule.start) % rule.unit)
FirstOccurrence(rule) == WithinRange(rule, Aligned(rule))

(* Where the walk after `last` begins, which may lie past the end: an entry *)
(* made before the rule began was made under a version of it since edited. *)
(* Mutant: a bare step, whatever version of the rule `last` was made under. *)
StepFrom(rule, last) == IF last = None THEN Aligned(rule) ELSE last + Step(rule)
WalkFrom(rule, last) ==
  IF last = None \/ last < rule.start THEN Aligned(rule) ELSE last + Step(rule)

(* The first occurrence after `last` that is not before `day`, or None.    *)
(* occurrencesUpTo returns the dates this gives one after another.         *)
OccurrenceFrom(rule, last, day) ==
  LET from == WalkFrom(rule, last)
      steps == (day - from + Step(rule) - 1) \div Step(rule)
  IN  WithinRange(rule, IF day <= from THEN from ELSE from + (Step(rule) * steps))

(* A series that ends after a count has had them all. *)
(* Mutant: one more than the count. *)
ExhaustedLate(rule, generated) == rule.count # None /\ generated > rule.count
Exhausted(rule, generated) == rule.count # None /\ generated >= rule.count

=============================================================================
