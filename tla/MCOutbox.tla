------------------------------ MODULE MCOutbox ------------------------------
(* Outbox on small instances. *)
EXTENDS Outbox, TLC

\* Neither the tabs nor the people differ in what they may do.
Symmetry == Permutations(Tabs) \cup Permutations(People)

=============================================================================
