------------------------------ MODULE MCMoney ------------------------------
(***************************************************************************)
(* Outbox and Money for TLC: that what is typed reaches the group once,    *)
(* and what it comes to there.  They share no state, so a behaviour is one *)
(* of one of them: `side` says whose, and the other stays in an initial    *)
(* state.                                                                  *)
(***************************************************************************)
EXTENDS MCOutbox, Money

\* the group's own currency, and one it is converted from
TwoRates == {[num |-> 1, den |-> 1], [num |-> 2, den |-> 3]}

VARIABLE side

typedVars == <<vars, moneyVars, side>>

TypedInit ==
  /\ Init /\ MoneyInit
  /\ side \in {"outbox", "money"}
  /\ side = "outbox" => balance = NoWeights

TypedNext ==
  \/ side = "outbox" /\ Next /\ UNCHANGED <<moneyVars, side>>
  \/ side = "money" /\ MoneyNext /\ UNCHANGED <<vars, side>>

TypedSpec == TypedInit /\ [][TypedNext]_typedVars
=============================================================================
