------------------------------ MODULE MCLedger ------------------------------
(***************************************************************************)
(* Small instances of Ledger: an owner and one other person, and entries  *)
(* that put them in credit and in debt.                                    *)
(***************************************************************************)
EXTENDS Ledger, TLC

CONSTANTS olga, ann

Paid(p, n) == [x \in {p} |-> n]
Half(p, q, n) == [x \in {p, q} |-> n]
Expense(dir, payers, shares) ==
  [kind |-> "expense", dir |-> dir, payers |-> payers, shares |-> shares]
Repayment(from, to, n) ==
  [kind |-> "settlement", dir |-> 1,
   payers |-> Paid(from, n), shares |-> Paid(to, n)]

(* Ann owes half of Olga's expense; Olga's own entry drops her; Ann repays. *)
SharedByAnn == Expense(1, Paid(olga, 2), Half(olga, ann, 1))
OlgaAlone == Expense(1, Paid(olga, 2), Paid(olga, 2))
AnnRepays == Repayment(ann, olga, 1)
AnnPaid == Expense(1, Paid(ann, 2), Half(olga, ann, 1))
AnnOwes == Expense(1, Paid(olga, 2), Paid(ann, 2))
AnnEarns == Expense(-1, Paid(ann, 2), Half(olga, ann, 1))

Debts == {SharedByAnn, OlgaAlone, AnnRepays}
Few == {AnnRepays, AnnEarns}
Torn == {AnnPaid, OlgaAlone, AnnOwes}

CallSymmetry == Permutations(Requests)
=============================================================================
