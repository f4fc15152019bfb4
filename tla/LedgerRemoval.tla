--------------------------- MODULE LedgerRemoval ----------------------------
(***************************************************************************)
(* Ledger with a history variable: the people whose removal has its lock   *)
(* and who have been square in some committed state since it took it.      *)
(***************************************************************************)
EXTENDS MCLedger

VARIABLE square

SquareIn(rows) == {p \in People : Balance(rows, p) = 0}
Track ==
  square' = {p \in SquareIn(entries') \cup square : removal'[p] # None}

HistoryInit == Init /\ square = {}
HistoryNext == Next /\ Track
HistorySpec == HistoryInit /\ [][HistoryNext]_<<vars, square>>

(* Whoever is removed was square in a state that existed while their       *)
(* removal held its lock: some serial order of the calls justifies it.     *)
RemovedOnceSquare == [][removed' \ removed \subseteq square]_<<vars, square>>
=============================================================================
