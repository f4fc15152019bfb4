----------------------------- MODULE LedgerRows -----------------------------
(***************************************************************************)
(* The rows of one group's ledger and the arithmetic on them.              *)
(*                                                                         *)
(* An entry is an expense or a repayment.  Its content is who paid and     *)
(* whose shares they are: functions from the people it names to minor      *)
(* units, and a direction, 1 for money out and -1 for money in.  A         *)
(* repayment is the content with one payer and one share; the engine moves *)
(* its two balances the same way.  One ledger currency.                    *)
(***************************************************************************)
EXTENDS Integers, FiniteSets, FiniteSetsExt, Functions

CONSTANTS
  People,      \* the rows of `participants`
  Owner,       \* the owner's row, which is never removed
  Keys,        \* client keys that a form or the outbox may send
  Contents,    \* what clients submit
  MaxEntries,  \* bound: rows of `expenses` and `settlements` together
  None

Entries == 1..MaxEntries
Kinds == {"expense", "settlement"}
Names(c) == DOMAIN c.payers \cup DOMAIN c.shares

ASSUME GroupAssumption == Owner \in People
ASSUME NoneAssumption ==
  /\ None \notin People /\ None \notin Keys /\ None \notin Contents
  /\ None \notin Int
ASSUME BoundAssumption == MaxEntries \in Nat
ASSUME ContentAssumption ==
  \A c \in Contents : c.kind \in Kinds /\ Names(c) \subseteq People
(* What the schema's checks hold rows to: nobody pays less than nothing, and *)
(* a repayment moves one amount between two people.  A share may be a       *)
(* credit.                                                                  *)
ASSUME AmountAssumption ==
  \A c \in Contents :
    /\ c.dir \in {-1, 1}
    /\ c.payers \in [DOMAIN c.payers -> Nat] /\ c.shares \in [DOMAIN c.shares -> Int]
    /\ c.kind = "settlement" =>
         /\ c.dir = 1
         /\ \E from, to \in People :
              /\ from # to /\ DOMAIN c.payers = {from} /\ DOMAIN c.shares = {to}
              /\ c.payers[from] = c.shares[to]

(* `key` and `replaces` are in rows of their own, `entry_client_keys` and   *)
(* the deletion's activity event; both are written with the entry.         *)
Row(c, key, source) ==
  [content |-> c, live |-> TRUE, version |-> 1, key |-> key, replaces |-> source]
Absent ==
  [content |-> None, live |-> FALSE, version |-> 0, key |-> None, replaces |-> None]

Rows == [content : Contents, live : BOOLEAN, version : Nat,
         key : Keys \cup {None}, replaces : Entries \cup {None}]

Exists(rows, e) == rows[e] # Absent
IsKind(rows, e, kind) == Exists(rows, e) /\ rows[e].content.kind = kind
LiveOf(rows, kind) == {e \in Entries : IsKind(rows, e, kind) /\ rows[e].live}

AmountOf(f, p) == IF p \in DOMAIN f THEN f[p] ELSE 0
Total(f) == FoldFunction(+, 0, f)
Effect(c, p) == c.dir * (AmountOf(c.payers, p) - AmountOf(c.shares, p))
Balance(rows, p) ==
  MapThenSumSet(LAMBDA e : Effect(rows[e].content, p),
                LiveOf(rows, "expense") \cup LiveOf(rows, "settlement"))

(* The id an insert takes: ids are never reused, and which one is free does *)
(* not matter, so they are handed out in order.                            *)
IsNextId(rows, e) ==
  /\ rows[e] = Absent
  /\ \A d \in Entries : d < e => rows[d] # Absent
=============================================================================
