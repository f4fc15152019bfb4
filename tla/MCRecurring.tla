---------------------------- MODULE MCRecurring -----------------------------
(***************************************************************************)
(* Small instances of Recurring: days of a week of two, and rules that run *)
(* every day, on even days, up to an end, or a number of times.            *)
(***************************************************************************)
EXTENDS Recurring, TLC

Rule(unit, interval, weekday, end, count) ==
  [start |-> 1, unit |-> unit, interval |-> interval, weekday |-> weekday,
   end |-> end, count |-> count]

Daily == Rule(1, 1, 0, None, None)
OnEvenDays == Rule(2, 1, 0, None, None)
UntilSecond == Rule(1, 1, 0, 2, None)
Twice == Rule(1, 1, 0, None, 2)

Steady == {Daily, OnEvenDays}
Bounded == {Daily, UntilSecond, Twice}
Ends == {Daily, UntilSecond}

ActorSymmetry == Permutations(Actors)
=============================================================================
