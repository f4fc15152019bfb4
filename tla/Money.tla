-------------------------------- MODULE Money --------------------------------
(***************************************************************************)
(* The arithmetic of one group's money, in minor units: how an entry is    *)
(* split, how it is converted into the currency the group keeps, what that *)
(* leaves each person with, and the repayments that are suggested          *)
(* (expenses/allocation.ts, expenses/split.ts, balances/engine.ts).        *)
(*                                                                         *)
(* The algorithms are functions of their input; the state is what they are *)
(* applied to in turn, entry after entry and repayment after repayment.    *)
(* People are numbered in the order in which callers list them.            *)
(***************************************************************************)
EXTENDS Integers, Sequences, FiniteSets, Functions

Seqs == INSTANCE SequencesExt

CONSTANTS
  Headcount,  \* people in the group
  Amounts,    \* what an entry may come to
  MaxWeight,  \* bound: the weight of a share
  Rates,      \* exchange rates, as fractions; the group's own currency has none
  MaxCredit,  \* bound: an exact part below zero
  MaxDebt,    \* bound: what people owe, or are owed, to begin with
  MaxBefore   \* bound: what they do when an entry is written

ASSUME MoneyAssumption == Headcount \in Nat \ {0} /\ Amounts \subseteq Nat \ {0}
ASSUME RatesAssumption == \A r \in Rates : r.num \in Nat \ {0} /\ r.den \in Nat \ {0}

Heads == 1..Headcount
Parts(values) == [Heads -> values]
SumOf(parts) == FoldFunction(+, 0, parts)
Abs(n) == IF n < 0 THEN -n ELSE n

-----------------------------------------------------------------------------
(* allocateByWeights: largest remainders. *)

Floors(n, weights) == [p \in Heads |-> (n * weights[p]) \div SumOf(weights)]
Remainders(n, weights) == [p \in Heads |-> (n * weights[p]) % SumOf(weights)]

\* who comes before p where the units left over are handed out
Ahead(rem, p) == {q \in Heads : rem[q] > rem[p] \/ (rem[q] = rem[p] /\ q < p)}

\* the units left over go round, one each
AllocateMagnitude(n, weights) ==
  LET floors == Floors(n, weights)
      rem == Remainders(n, weights)
      leftover == n - SumOf(floors)
  IN  [p \in Heads |->
         floors[p] + (leftover + Headcount - 1 - Cardinality(Ahead(rem, p))) \div Headcount]

AllocateByWeights(total, weights) ==
  IF total < 0 THEN [p \in Heads |-> -AllocateMagnitude(-total, weights)[p]]
               ELSE AllocateMagnitude(total, weights)

-----------------------------------------------------------------------------
(* Conversion.  MoneyDecimal's digits are taken to be as many as it needs. *)

\* n / d to the nearest unit, and a half to the even one
HalfEven(n, d) ==
  LET q == n \div d
      r == n % d
  IN  IF 2 * r < d \/ (2 * r = d /\ q % 2 = 0) THEN q ELSE q + 1

\* convertMoney
ConvertMoney(total, rate) == HalfEven(total * rate.num, rate.den)

\* the first of those of the largest magnitude
Largest(parts) ==
  CHOOSE p \in Heads : \A q \in Heads :
    Abs(parts[p]) > Abs(parts[q]) \/ (Abs(parts[p]) = Abs(parts[q]) /\ p <= q)

\* parts of both signs are converted one by one, and one takes what that leaves
DistributeResidue(parts, converted, original) ==
  LET scaled == [p \in Heads |-> HalfEven(parts[p] * converted, original)]
  IN  [scaled EXCEPT ![Largest(scaled)] = @ + converted - SumOf(scaled)]

ConvertAllocations(parts, converted, original) ==
  IF \E p \in Heads : parts[p] < 0
    THEN DistributeResidue(parts, converted, original)
    ELSE AllocateByWeights(converted, parts)

-----------------------------------------------------------------------------
(* simplifyDebts: the largest debt to the largest credit, both sorted once. *)

\* the sort: the larger amount first, and then the order people are listed in
FirstByAmount(S, balances) ==
  CHOOSE p \in S : \A q \in S : \/ Abs(balances[p]) > Abs(balances[q])
                                \/ Abs(balances[p]) = Abs(balances[q]) /\ p <= q

Transfer(from, to, amount) == [from |-> from, to |-> to, amount |-> amount]

Moved(balances, t) == [balances EXCEPT ![t.from] = @ + t.amount, ![t.to] = @ - t.amount]

Smaller(m, n) == IF m < n THEN m ELSE n

\* what the loop has left to settle, and the transfers it has found
Search == [left : Parts(Int), found : Seq([from : Heads, to : Heads, amount : Int])]

SimplifyDebts(balances) ==
  LET Loop[s \in Search] ==
        LET debtors == {p \in Heads : s.left[p] < 0}
            creditors == {p \in Heads : s.left[p] > 0}
            from == FirstByAmount(debtors, balances)
            to == FirstByAmount(creditors, balances)
            t == Transfer(from, to, Smaller(-s.left[from], s.left[to]))
        IN  IF debtors = {} \/ creditors = {} THEN s.found
            ELSE Loop[[left |-> Moved(s.left, t), found |-> Append(s.found, t)]]
  IN  Loop[[left |-> balances, found |-> << >>]]

-----------------------------------------------------------------------------
(* A group's money. *)

VARIABLES
  balance,  \* computeBalances: what each person is owed, or owes
  entry,    \* the entry just written: what was typed, and its rows
  shown     \* suggestions on somebody's screen that they have not followed yet

moneyVars == <<balance, entry, shown>>

NoEntry == [total |-> 0]
NoWeights == [p \in Heads |-> 0]

MoneyInit ==
  /\ balance \in {b \in Parts(-MaxDebt..MaxDebt) : SumOf(b) = 0}
  /\ entry = NoEntry
  /\ shown = << >>

\* what may be typed: amounts add up, to the unit, and weights are not all zero
\* (validatePayerContributions, validateExactAllocation, validateShares); an exact
\* part may be a credit
Contributions == [total \in Amounts |-> {parts \in Parts(0..total) : SumOf(parts) = total}]
Exact ==
  [total \in Amounts |->
     {parts \in Parts(-MaxCredit..(total + MaxCredit)) : SumOf(parts) = total}]
Weights == {weights \in Parts(0..MaxWeight) : SumOf(weights) > 0}

\* each amount converted by itself
RowsApart(parts, total, rate) == [p \in Heads |-> ConvertMoney(parts[p], rate)]

\* prepareExpense: payers and shares are each converted to the one total
RowsOf(parts, total, rate) ==
  IF rate.num = rate.den THEN parts
  ELSE ConvertAllocations(parts, ConvertMoney(total, rate), total)

\* the sign of money coming in forgotten on one side
BookedOneWay(dir, rows) == [p \in Heads |-> balance[p] + dir * rows.paid[p] - rows.shares[p]]

\* computeBalances on the rows: paid less share, and the reverse for money coming in
Booked(dir, rows) == [p \in Heads |-> balance[p] + dir * (rows.paid[p] - rows.shares[p])]

\* the bound on what is entered
RoomToEnter == entry = NoEntry /\ \A p \in Heads : Abs(balance[p]) <= MaxBefore

\* a list of suggestions older than an entry promises nothing, and is dropped
Enter(total, dir, rate, payers, weights, parts) ==
  /\ entry' = [total |-> total, payers |-> payers, weights |-> weights, parts |-> parts,
               paid |-> RowsOf(payers, total, rate), shares |-> RowsOf(parts, total, rate)]
  /\ balance' = Booked(dir, entry')
  /\ shown' = << >>

\* resolveSplit: equal parts, percentages and shares are weights
EnterWeighted(total, dir, rate, payers) ==
  \E weights \in Weights :
    Enter(total, dir, rate, payers, weights, AllocateByWeights(total, weights))

EnterExact(total, dir, rate, payers) ==
  \E parts \in Exact[total] : Enter(total, dir, rate, payers, NoWeights, parts)

\* the settle-up screen is opened
Suggest ==
  /\ shown' = SimplifyDebts(balance)
  /\ entry' = NoEntry
  /\ UNCHANGED balance

\* one of its suggestions is recorded as a repayment
Repay(i) ==
  /\ i \in DOMAIN shown
  /\ balance' = Moved(balance, shown[i])
  /\ shown' = Seqs!RemoveAt(shown, i)
  /\ entry' = NoEntry

MoneyNext ==
  \/ /\ RoomToEnter
     /\ \E total \in Amounts, dir \in {-1, 1}, rate \in Rates : \E payers \in Contributions[total] :
          EnterWeighted(total, dir, rate, payers) \/ EnterExact(total, dir, rate, payers)
  \/ Suggest
  \/ \E i \in 1..Headcount : Repay(i)

MoneySpec == MoneyInit /\ [][MoneyNext]_moneyVars

-----------------------------------------------------------------------------
(* Properties. *)

\* `parts` of n go by weight, each to less than a unit; who is rounded up has the
\* larger remainder, or as large a one and comes first (allocation.ts:8-19).
Fair(n, weights, parts) ==
  LET sum == SumOf(weights)
      over == [p \in Heads |-> parts[p] * sum - n * weights[p]]
  IN  /\ SumOf(parts) = n
      /\ \A p \in Heads : Abs(over[p]) < sum
      /\ \A p, q \in Heads : over[p] > 0 /\ over[q] <= 0 =>
           \/ sum - over[p] > -over[q]
           \/ sum - over[p] = -over[q] /\ p < q

\* where some part is a credit, each is within the rounding of all of them
Near(n, parts, total, rows) ==
  /\ SumOf(rows) = n
  /\ \A p \in Heads : 2 * Abs(rows[p] * total - n * parts[p]) <= (Headcount + 1) * total

\* Whatever was typed, the rows of an entry are fair, and payers and shares come
\* to one total, although each side is rounded by itself (split.ts:258-265).
RowsFair ==
  entry # NoEntry =>
    LET n == SumOf(entry.paid) IN
    /\ entry.weights # NoWeights => Fair(entry.total, entry.weights, entry.parts)
    /\ Fair(n, entry.payers, entry.paid)
    /\ IF \E p \in Heads : entry.parts[p] < 0
         THEN Near(n, entry.parts, entry.total, entry.shares)
         ELSE Fair(n, entry.parts, entry.shares)

\* what following a list leaves
After(balances, list) == FoldFunction(LAMBDA t, b : Moved(b, t), balances, list)

SquaredBy(list) == \A p \in Heads : After(balance, list)[p] = 0

\* Following the suggestions, in any order, leaves everybody square; there are
\* fewer of them than people they concern (engine.ts:204-210), and each asks of
\* somebody no more than they owe and gives nobody more than they are owed.
SuggestionsClear ==
  LET list == SimplifyDebts(balance) IN
  /\ SquaredBy(list) /\ (shown # << >> => SquaredBy(shown))
  /\ list # << >> => Len(list) < Cardinality({p \in Heads : balance[p] # 0})
  /\ \A i \in DOMAIN list :
       /\ list[i].amount \in 1..Smaller(-balance[list[i].from], balance[list[i].to])
=============================================================================
