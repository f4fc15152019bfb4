----------------------------- MODULE GroupBook ------------------------------
(***************************************************************************)
(* What the ledger promises: every operation as one indivisible step on    *)
(* the group's rows.  The transactions of module Ledger implement it when  *)
(* each edit carries the version it was made from.                         *)
(*                                                                         *)
(* It says nothing of balances: whether a removal or a repayment may go    *)
(* ahead is judged from reads of several statements, and Ledger's runs     *)
(* show what that judgement is worth.                                      *)
(***************************************************************************)
EXTENDS LedgerRows

VARIABLES removed, entries, spent

bookVars == <<removed, entries, spent>>

Init ==
  /\ removed = {}
  /\ entries = [e \in Entries |-> Absent]
  /\ spent = [k \in Keys |-> None]

(* A new entry, with the key it spends and the entry it replaces, if any.  *)
(* Only a repayment may name somebody removed.                             *)
Record(c, k, source) ==
  \E e \in Entries :
    /\ IsNextId(entries, e)
    /\ c.kind = "expense" => Names(c) \cap removed = {}
    /\ k # None => spent[k] = None
    /\ source # None => Exists(entries, source) /\ entries[source].live
                        /\ entries[source].content.kind # c.kind
    /\ entries' = [d \in Entries |->
                     IF d = e THEN Row(c, k, source)
                     ELSE IF d = source THEN [entries[d] EXCEPT !.live = FALSE]
                     ELSE entries[d]]
    /\ spent' = IF k = None THEN spent ELSE [spent EXCEPT ![k] = e]
    /\ UNCHANGED removed

(* An edit may keep somebody removed; it adds nobody who is. *)
Amend(e, c) ==
  /\ IsKind(entries, e, c.kind)
  /\ Names(c) \cap removed \subseteq Names(entries[e].content)
  /\ entries' = [entries EXCEPT ![e].content = c, ![e].version = @ + 1]
  /\ UNCHANGED <<removed, spent>>

Delete(e) ==
  /\ Exists(entries, e) /\ entries[e].live
  /\ entries' = [entries EXCEPT ![e].live = FALSE]
  /\ UNCHANGED <<removed, spent>>

Restore(e) ==
  /\ Exists(entries, e) /\ ~entries[e].live
  /\ entries' = [entries EXCEPT ![e].live = TRUE]
  /\ UNCHANGED <<removed, spent>>

Leave(p) ==
  /\ p \notin removed \cup {Owner}
  /\ removed' = removed \cup {p}
  /\ UNCHANGED <<entries, spent>>

Return(p) ==
  /\ p \in removed
  /\ removed' = removed \ {p}
  /\ UNCHANGED <<entries, spent>>

Next ==
  \/ \E c \in Contents, k \in Keys \cup {None}, source \in Entries \cup {None} :
       Record(c, k, source)
  \/ \E e \in Entries, c \in Contents : Amend(e, c)
  \/ \E e \in Entries : Delete(e) \/ Restore(e)
  \/ \E p \in People : Leave(p) \/ Return(p)

Spec == Init /\ [][Next]_bookVars
=============================================================================
