---------------------------- MODULE LedgerProofs ----------------------------
(***************************************************************************)
(* Proofs about Ledger, for any people, entries, keys, contents and number *)
(* of calls in flight.  IndInv is the inductive invariant: the types, the  *)
(* locks, and what each call carries by the phase it has reached.          *)
(*                                                                         *)
(* The steps come first, one lemma for each kind of step, then the         *)
(* theorems, then the proof that Ledger implements GroupBook.              *)
(***************************************************************************)
EXTENDS Ledger, Sums, TLAPS

(* A request with no call in flight has the type of one. *)
LEMMA IdleIsCall == Idle \in Calls
  <1>1. NoRows \in ReadOf({c.dir : c \in Contents})
    BY DEF NoRows, ReadOf
  <1>2. NoRows \in ReadOf({c.payers : c \in Contents})
    BY DEF NoRows, ReadOf
  <1>3. NoRows \in ReadOf({c.shares : c \in Contents})
    BY DEF NoRows, ReadOf
  <1>4. NoRows \in ReadOf(Contents)
    BY DEF NoRows, ReadOf
  <1>5. NothingSeen \in Seen
    BY <1>1, <1>2, <1>3, <1>4 DEF NothingSeen, Seen
  <1> QED BY <1>5 DEF Idle, Call, Calls, Phases

(* The end of a transaction leaves the locks and calls their types. *)
LEMMA EndTypes ==
  ASSUME TypeOK, NEW r \in Requests, End(r)
  PROVE  /\ shared' \in [People -> SUBSET Requests]
         /\ removal' \in [People -> Requests \cup {None}]
         /\ req' \in [Requests -> Calls]
  BY IdleIsCall DEF TypeOK, End

(* A call that moves to another phase is still a call. *)
LEMMA PhaseTypes ==
  ASSUME TypeOK, NEW r \in Requests, NEW phase \in Phases
  PROVE  [req EXCEPT ![r].phase = phase] \in [Requests -> Calls]
  <1>1. req \in [Requests -> Calls]
    BY DEF TypeOK
  <1>2. [req[r] EXCEPT !.phase = phase] \in Calls
    BY <1>1 DEF Calls
  <1> QED BY <1>1, <1>2

(* So is an edit that has read who was on its entry. *)
LEMMA PreviousTypes ==
  ASSUME TypeOK, NEW r \in Requests, NEW phase \in Phases, NEW previous \in SUBSET People
  PROVE  [req EXCEPT ![r].phase = phase, ![r].previous = previous] \in [Requests -> Calls]
  <1>1. req \in [Requests -> Calls]
    BY DEF TypeOK
  <1>2. [req[r] EXCEPT !.phase = phase, !.previous = previous] \in Calls
    BY <1>1 DEF Calls
  <1> QED BY <1>1, <1>2

(* A create or a conversion starts: it carries a new entry and no lock. *)
LEMMA SubmitKeeps ==
  ASSUME IndInv, NEW r \in Requests, NEW op \in {"create", "convert"},
         NEW c \in Contents, NEW k \in Keys \cup {None}, NEW source \in Entries \cup {None},
         Submit(r, op, c, k, source),
         op = "create" => source = None,
         op = "convert" => /\ source \in Entries /\ Exists(entries, source)
                           /\ entries[source].content.kind # c.kind
  PROVE  IndInv'
  <1> DEFINE q == Call(op, "lock", c, source, k, None, None, None)
  <1>1. q \in Calls
    BY IdleIsCall DEF Idle, Call, Calls, Phases
  <1>2. req' = [req EXCEPT ![r] = q] /\ UNCHANGED <<book, locks>>
    BY DEF Submit
  <1>3. TypeOK'
    BY <1>1, <1>2 DEF IndInv, TypeOK, book, locks
  <1>4. LockExclusion'
    BY <1>1, <1>2 DEF IndInv, LockExclusion, Writing, Balancing, TypeOK, book, locks, Call
  <1>5. CallShape'
    BY <1>1, <1>2 DEF IndInv, CallShape, TypeOK, book, locks, Call, Balancing
  <1>6. TargetHeld'
    BY <1>1, <1>2 DEF IndInv, TargetHeld, TypeOK, book, locks, Call
  <1>7. NamedStay'
    BY <1>1, <1>2 DEF IndInv, NamedStay, Writing, Balancing, TypeOK, book, locks, Call, Gone, Creating, KindOf
  <1>8. EditsFresh'
    BY <1>1, <1>2 DEF IndInv, EditsFresh, TypeOK, book, locks, Call
  <1>9. CreatesAddNobody'
    BY <1>1, <1>2 DEF IndInv, CreatesAddNobody, TypeOK, book, locks, Call, Creating
  <1> QED BY <1>3, <1>4, <1>5, <1>6, <1>7, <1>8, <1>9 DEF IndInv

(* A form is opened: the edit carries what the entry says now. *)
LEMMA OpenKeeps ==
  ASSUME IndInv, NEW r \in Requests, Open(r)
  PROVE  IndInv'
  <1>1. PICK e \in Entries, c \in Contents, versioned \in Versioned :
          /\ IsKind(entries, e, c.kind)
          /\ req' = [req EXCEPT ![r] =
                       Call("edit", "existing", c, e, None,
                            IF versioned THEN entries[e].version ELSE None,
                            entries[e].content, None)]
    BY DEF Open
  <1> DEFINE q == Call("edit", "existing", c, e, None,
                       IF versioned THEN entries[e].version ELSE None,
                       entries[e].content, None)
  <1>2. entries[e] \in Rows /\ entries[e].content.kind = c.kind /\ Exists(entries, e)
    BY <1>1 DEF IndInv, TypeOK, IsKind, Exists
  <1>3. q \in Calls
    BY <1>2, IdleIsCall DEF Idle, Call, Calls, Phases, Rows
  <1>4. req' = [req EXCEPT ![r] = q] /\ UNCHANGED <<book, locks>>
    BY <1>1 DEF Open
  <1>5. TypeOK'
    BY <1>3, <1>4 DEF IndInv, TypeOK, book, locks
  <1>6. LockExclusion'
    BY <1>3, <1>4 DEF IndInv, LockExclusion, Writing, Balancing, TypeOK, book, locks, Call
  <1>7. CallShape'
    BY <1>2, <1>3, <1>4 DEF IndInv, CallShape, TypeOK, book, locks, Call, Balancing
  <1>8. TargetHeld'
    BY <1>3, <1>4 DEF IndInv, TargetHeld, TypeOK, book, locks, Call
  <1>9. NamedStay'
    BY <1>3, <1>4 DEF IndInv, NamedStay, Writing, Balancing, TypeOK, book, locks,
                      Call, Gone, Creating, KindOf
  <1>10. EditsFresh'
    BY <1>2, <1>3, <1>4 DEF IndInv, EditsFresh, TypeOK, book, locks, Call, Rows
  <1>11. CreatesAddNobody'
    BY <1>3, <1>4 DEF IndInv, CreatesAddNobody, TypeOK, book, locks, Call, Creating
  <1> QED BY <1>5, <1>6, <1>7, <1>8, <1>9, <1>10, <1>11 DEF IndInv

(* A removal takes the row of somebody whom no call holds. *)
LEMMA LockTargetKeeps ==
  ASSUME IndInv, NEW r \in Requests, NEW p \in People, LockTarget(r, p)
  PROVE  IndInv'
  <1> DEFINE q == Call("remove", "expenses", None, None, None, None, None, p)
  <1>1. q \in Calls
    BY IdleIsCall DEF Idle, Call, Calls, Phases, Balancing
  <1>2. /\ req' = [req EXCEPT ![r] = q] /\ UNCHANGED <<book, shared>>
        /\ removal' = [removal EXCEPT ![p] = r]
        /\ p \in People \ (removed \cup {Owner}) /\ removal[p] = None /\ shared[p] = {}
    BY DEF LockTarget, Removable, TargetFree
  <1>3. TypeOK'
    BY <1>1, <1>2 DEF IndInv, TypeOK, book
  <1>4. LockExclusion'
    BY <1>1, <1>2 DEF IndInv, LockExclusion, Writing, Balancing, TypeOK, book, Call
  <1>5. CallShape'
    BY <1>1, <1>2 DEF IndInv, CallShape, TypeOK, book, Call, Balancing
  <1>6. TargetHeld'
    BY <1>1, <1>2, RequestAssumption DEF IndInv, TargetHeld, TypeOK, book, Call
  <1>7. NamedStay'
    BY <1>1, <1>2 DEF IndInv, NamedStay, Writing, Balancing, TypeOK, book,
                      Call, Gone, Creating, KindOf
  <1>8. EditsFresh'
    BY <1>1, <1>2 DEF IndInv, EditsFresh, TypeOK, book, Call
  <1>9. CreatesAddNobody'
    BY <1>1, <1>2 DEF IndInv, CreatesAddNobody, TypeOK, book, Call, Creating
  <1> QED BY <1>3, <1>4, <1>5, <1>6, <1>7, <1>8, <1>9 DEF IndInv

(* A call takes one more of its row locks, which no removal holds. *)
LEMMA LockRowKeeps ==
  ASSUME IndInv, NEW r \in Requests, LockRow(r)
  PROVE  IndInv'
  <1>1. PICK p \in Locked(r) : /\ removal[p] = None
                               /\ shared' = [shared EXCEPT ![p] = @ \cup {r}]
    BY DEF LockRow, RowFree
  <1>2. UNCHANGED <<book, removal, req>>
    BY DEF LockRow
  <1>3. TypeOK'
    BY <1>1, <1>2 DEF IndInv, TypeOK, book
  <1>4. LockExclusion'
    <2>1. \A q \in People : removal'[q] # None => shared'[q] = {}
      BY <1>1, <1>2 DEF IndInv, LockExclusion, TypeOK
    <2>2. \A q \in People : shared[q] \subseteq shared'[q]
      BY <1>1 DEF IndInv, TypeOK
    <2>3. ASSUME NEW x \in Requests, Writing(x), NEW q \in Names(req[x].content)
          PROVE  q \in People
      BY <2>3, ContentAssumption DEF IndInv, CallShape, Writing
    <2> QED BY <1>2, <2>1, <2>2, <2>3 DEF IndInv, LockExclusion, Writing
  <1>5. CallShape' /\ TargetHeld' /\ NamedStay' /\ EditsFresh' /\ CreatesAddNobody'
    BY <1>2 DEF IndInv, CallShape, TargetHeld, NamedStay, Writing, Gone, KindOf, EditsFresh,
                CreatesAddNobody, Creating, book
  <1> QED BY <1>3, <1>4, <1>5 DEF IndInv

(* A call that holds everyone it names moves on. *)
LEMMA AllLockedKeeps ==
  ASSUME IndInv, NEW r \in Requests, AcceptNamed(r) \/ ClearRemoved(r)
  PROVE  IndInv'
  <1>1. PICK phase \in {"write", "expenses"} :
          /\ req' = [req EXCEPT ![r].phase = phase]
          /\ phase = "write" => Gone(r) \subseteq req[r].previous
          /\ phase = "expenses" => Creating(r) /\ KindOf(r) = "settlement"
    BY DEF AcceptNamed, ClearRemoved, Advance
  <1>2. /\ InPhase(r, "lock") /\ UNCHANGED <<book, locks>>
        /\ \A p \in Names(req[r].content) : r \in shared[p]
    BY DEF AcceptNamed, ClearRemoved, AllLocked, Locked
  <1>3. TypeOK'
    <2>1. req' \in [Requests -> Calls]
      BY <1>1, PhaseTypes DEF IndInv, Phases, Balancing
    <2> QED BY <1>2, <2>1 DEF IndInv, TypeOK, book, locks
  <1>4. LockExclusion'
    <2>1. ASSUME NEW x \in Requests, Writing(x)', NEW p \in Names(req'[x].content)
          PROVE  x \in shared'[p]
      <3>1. req'[x].content = req[x].content
        BY <1>1 DEF IndInv, TypeOK, Calls
      <3>2. x # r => Writing(x)
        BY <2>1, <1>1 DEF Writing, IndInv, TypeOK
      <3> QED BY <2>1, <3>1, <3>2, <1>2 DEF IndInv, LockExclusion, locks
    <2> QED BY <1>2, <2>1 DEF IndInv, LockExclusion, locks
  <1>5. CallShape'
    BY <1>1, <1>2 DEF IndInv, CallShape, TypeOK, book, Balancing, InPhase, Calls,
                      Creating, KindOf
  <1>6. TargetHeld'
    BY <1>1, <1>2 DEF IndInv, TargetHeld, TypeOK, book, locks, Calls
  <1>7. NamedStay'
    BY <1>1, <1>2 DEF IndInv, NamedStay, Writing, Balancing, TypeOK, book, Calls,
                      Gone, Creating, KindOf
  <1>8. EditsFresh'
    BY <1>1, <1>2 DEF IndInv, EditsFresh, TypeOK, book, Calls
  <1>9. CreatesAddNobody'
    BY <1>1, <1>2 DEF IndInv, CreatesAddNobody, TypeOK, book, Calls, Creating
  <1> QED BY <1>3, <1>4, <1>5, <1>6, <1>7, <1>8, <1>9 DEF IndInv

(* The reads of an edit: what they find is on the entry as it is now. *)
LEMMA EditReadKeeps ==
  ASSUME IndInv, NEW r \in Requests,
         ReadExisting(r) \/ ReadPreviousPayers(r) \/ ReadPreviousShares(r)
  PROVE  IndInv'
  <1> DEFINE row == entries[req[r].entry]
  <1>1. PICK phase \in {"previousPayers", "previousShares", "lock"},
             previous \in SUBSET People :
          /\ req' = [req EXCEPT ![r].phase = phase, ![r].previous = previous]
          /\ previous \subseteq req[r].previous \cup Names(row.content)
    <2>1. req[r].op = "edit" /\ row \in Rows /\ req[r] \in Calls
      <3>1. req[r] \in Calls
        BY DEF IndInv, TypeOK
      <3>2. req[r].op = "edit"
        BY <3>1 DEF IndInv, CallShape, Calls, ReadExisting, ReadPreviousPayers,
                    ReadPreviousShares, InPhase, Balancing
      <3> QED BY <3>1, <3>2 DEF IndInv, TypeOK, CallShape, Exists
    <2>2. Names(row.content) \subseteq People
      BY <2>1, ContentAssumption DEF Rows
    <2>3. CASE ReadExisting(r)
      <3>1. CASE KindOf(r) = "settlement"
        <4> DEFINE named == Names(row.content)
        <4>1. named \in SUBSET People /\ named \subseteq req[r].previous \cup Names(row.content)
          BY <2>2
        <4>2. req' = [req EXCEPT ![r].phase = "lock", ![r].previous = named]
          BY <2>3, <3>1 DEF ReadExisting
        <4> QED BY <4>1, <4>2
      <3>2. CASE KindOf(r) # "settlement"
        <4> DEFINE nobody == {}
        <4>1. req' = [req EXCEPT ![r].phase = "previousPayers", ![r].previous = nobody]
          BY <2>3, <3>2 DEF ReadExisting
        <4>2. nobody \in SUBSET People /\ nobody \subseteq req[r].previous \cup Names(row.content)
          OBVIOUS
        <4> HIDE DEF nobody
        <4> QED BY <4>1, <4>2
      <3> QED BY <3>1, <3>2
    <2>4. CASE ReadPreviousPayers(r)
      BY <2>1, <2>2, <2>4 DEF ReadPreviousPayers, Names
    <2>5. CASE ReadPreviousShares(r)
      <3> DEFINE both == req[r].previous \cup DOMAIN row.content.shares
      <3>1. both \in SUBSET People /\ both \subseteq req[r].previous \cup Names(row.content)
        BY <2>1, <2>2 DEF Calls, Names
      <3>2. req' = [req EXCEPT ![r].phase = "lock", ![r].previous = both]
        BY <2>5 DEF ReadPreviousShares
      <3> QED BY <3>1, <3>2
    <2> QED BY <2>3, <2>4, <2>5
  <1>2. /\ req[r].phase \in {"existing", "previousPayers", "previousShares"}
        /\ UNCHANGED <<book, locks>>
    BY DEF ReadExisting, ReadPreviousPayers, ReadPreviousShares, InPhase
  <1>3. req[r].op = "edit"
    BY <1>2 DEF IndInv, TypeOK, CallShape, Calls, Balancing
  <1>4. TypeOK'
    <2>1. req' \in [Requests -> Calls]
      BY <1>1, PreviousTypes DEF IndInv, Phases
    <2> QED BY <1>2, <2>1 DEF IndInv, TypeOK, book, locks
  <1>5. LockExclusion'
    BY <1>1, <1>2 DEF IndInv, LockExclusion, Writing, Balancing, TypeOK, book, locks, Calls
  <1>6. CallShape'
    BY <1>1, <1>2 DEF IndInv, CallShape, TypeOK, book, locks, Balancing, Calls
  <1>7. TargetHeld'
    BY <1>1, <1>2 DEF IndInv, TargetHeld, TypeOK, book, locks, Calls
  <1>8. NamedStay'
    BY <1>1, <1>2 DEF IndInv, NamedStay, Writing, Balancing, TypeOK, book, locks,
                      Calls, Gone, Creating, KindOf
  <1>9. EditsFresh'
    BY <1>1, <1>2 DEF IndInv, EditsFresh, TypeOK, book, locks, Calls
  <1>10. CreatesAddNobody'
    BY <1>1, <1>2, <1>3 DEF IndInv, CreatesAddNobody, TypeOK, book, locks, Calls, Creating
  <1> QED BY <1>4, <1>5, <1>6, <1>7, <1>8, <1>9, <1>10 DEF IndInv

(* A call that has read one field of the ledger is still a call. *)
LEMMA SawTypes ==
  ASSUME TypeOK, NEW r \in Requests, NEW phase \in Phases, NEW seen \in Seen
  PROVE  [req EXCEPT ![r].phase = phase, ![r].seen = seen] \in [Requests -> Calls]
  <1>1. req \in [Requests -> Calls]
    BY DEF TypeOK
  <1>2. [req[r] EXCEPT !.phase = phase, !.seen = seen] \in Calls
    BY <1>1 DEF Calls
  <1> QED BY <1>1, <1>2

(* The four reads of a balance check move one call from one of the          *)
(* balance phases to the next and change nothing else.                      *)
LEMMA SawKeeps ==
  ASSUME IndInv, NEW r \in Requests, req[r].phase \in Balancing,
         NEW phase \in {"payers", "shares", "settlements", "write"},
         NEW seen \in Seen, Saw(r, phase, seen)
  PROVE  IndInv'
  <1>1. /\ req' = [req EXCEPT ![r].phase = phase, ![r].seen = seen]
        /\ UNCHANGED <<book, locks>>
    BY DEF Saw
  <1>2. TypeOK'
    <2>1. req' \in [Requests -> Calls]
      BY <1>1, SawTypes DEF IndInv, Phases, Balancing
    <2> QED BY <1>1, <2>1 DEF IndInv, TypeOK, book, locks
  <1>3. LockExclusion'
    BY <1>1 DEF IndInv, LockExclusion, Writing, Balancing, TypeOK, book, locks, Calls
  <1>4. CallShape'
    BY <1>1 DEF IndInv, CallShape, TypeOK, book, locks, Balancing, Calls
  <1>5. TargetHeld'
    BY <1>1 DEF IndInv, TargetHeld, TypeOK, book, locks, Calls
  <1>6. NamedStay'
    BY <1>1 DEF IndInv, NamedStay, Writing, Balancing, TypeOK, book, locks,
                Calls, Gone, Creating, KindOf
  <1>7. EditsFresh'
    BY <1>1 DEF IndInv, EditsFresh, TypeOK, book, locks, Calls
  <1>8. CreatesAddNobody'
    BY <1>1 DEF IndInv, CreatesAddNobody, TypeOK, book, locks, Calls, Creating
  <1> QED BY <1>2, <1>3, <1>4, <1>5, <1>6, <1>7, <1>8 DEF IndInv

(* Each of the four reads of a balance check is such a move. *)
LEMMA BalanceReadKeeps ==
  ASSUME IndInv, NEW r \in Requests,
         ReadExpenses(r) \/ ReadPayers(r) \/ ReadShares(r) \/ ReadSettlements(r)
  PROVE  IndInv'
  <1>1. req[r].phase \in Balancing /\ req[r].seen \in Seen
    BY DEF ReadExpenses, ReadPayers, ReadShares, ReadSettlements, InPhase,
           Balancing, IndInv, TypeOK, Calls
  <1>2. \A kind \in Kinds : LiveOf(entries, kind) \in SUBSET Entries
    BY DEF LiveOf
  <1>3. \A e \in LiveExpenses \cup LiveOf(entries, "settlement") :
          e \in Entries /\ entries[e].content \in Contents
    BY DEF LiveExpenses, LiveOf, IsKind, Exists, IndInv, TypeOK, Rows
  <1>4. CASE ReadExpenses(r)
    <2> DEFINE f == [e \in LiveExpenses |-> entries[e].content.dir]
    <2>1. f \in ReadOf({c.dir : c \in Contents})
      BY <1>2, <1>3 DEF ReadOf, LiveExpenses, Kinds
    <2> QED BY <1>1, <1>4, <2>1, SawKeeps DEF ReadExpenses, Seen
  <1>5. CASE ReadPayers(r)
    <2> DEFINE f == [e \in LiveExpenses |-> entries[e].content.payers]
    <2>1. f \in ReadOf({c.payers : c \in Contents})
      BY <1>2, <1>3 DEF ReadOf, LiveExpenses, Kinds
    <2> QED BY <1>1, <1>5, <2>1, SawKeeps DEF ReadPayers, Seen
  <1>6. CASE ReadShares(r)
    <2> DEFINE f == [e \in LiveExpenses |-> entries[e].content.shares]
    <2>1. f \in ReadOf({c.shares : c \in Contents})
      BY <1>2, <1>3 DEF ReadOf, LiveExpenses, Kinds
    <2> QED BY <1>1, <1>6, <2>1, SawKeeps DEF ReadShares, Seen
  <1>7. CASE ReadSettlements(r)
    <2> DEFINE f == [e \in LiveOf(entries, "settlement") |-> entries[e].content]
    <2>1. f \in ReadOf(Contents)
      BY <1>2, <1>3 DEF ReadOf, Kinds
    <2> QED BY <1>1, <1>7, <2>1, SawKeeps DEF ReadSettlements, Seen
  <1> QED BY <1>4, <1>5, <1>6, <1>7

(* What the end of r's transaction does to the other calls: nothing. *)
LEMMA EndLeavesOthers ==
  ASSUME IndInv, NEW r \in Requests, End(r)
  PROVE  /\ req' \in [Requests -> Calls] /\ req'[r] = Idle
         /\ \A x \in Requests \ {r} : req'[x] = req[x]
         /\ \A x \in Requests \ {r}, p \in People :
              x \in shared[p] => x \in shared'[p]
         /\ \A p \in People : removal[p] # r => removal'[p] = removal[p]
         /\ \A p \in People : removal'[p] # None => shared'[p] = {}
  BY EndTypes DEF IndInv, TypeOK, End, LockExclusion

(* How any write may move an entry: it stays, of its kind, and its content *)
(* changes only with its version.                                          *)
EntriesMove ==
  /\ entries' \in [Entries -> Rows \cup {Absent}]
  /\ \A e \in Entries : Exists(entries, e) =>
       /\ Exists(entries', e)
       /\ entries'[e].content.kind = entries[e].content.kind
       /\ \/ entries'[e].content = entries[e].content
               /\ entries'[e].version = entries[e].version
          \/ entries'[e].version > entries[e].version

(* A transaction that commits: its writes move entries, and it ends. *)
LEMMA EndKeeps ==
  ASSUME IndInv, NEW r \in Requests, End(r), EntriesMove,
         spent' \in [Keys -> Entries \cup {None}],
         removed' \in SUBSET (People \ {Owner}),
         \A p \in removed' \ removed : removal[p] = r
  PROVE  IndInv'
  <1> USE EndLeavesOthers
  <1>1. TypeOK'
    BY EndTypes DEF IndInv, TypeOK, EntriesMove
  <1>2. LockExclusion'
    <2>1. ASSUME NEW x \in Requests, Writing(x)', NEW p \in Names(req'[x].content)
          PROVE  x \in shared'[p]
      <3>1. x # r
        BY <2>1 DEF Writing, Idle, Call
      <3>2. Writing(x) /\ req'[x] = req[x]
        BY <2>1, <3>1 DEF Writing
      <3>3. p \in People
        BY <2>1, <3>2, ContentAssumption DEF IndInv, CallShape, Writing
      <3> QED BY <2>1, <3>1, <3>2, <3>3 DEF IndInv, LockExclusion
    <2> QED BY <2>1 DEF LockExclusion
  <1>3. CallShape'
    <2> SUFFICES ASSUME NEW x \in Requests
                 PROVE  CallShape!(x)'
      BY DEF CallShape
    <2> QED BY DEF IndInv, CallShape, EntriesMove, Idle, Call, Balancing
  <1>4. TargetHeld'
    BY RequestAssumption DEF IndInv, TargetHeld, Idle, Call
  <1>5. NamedStay'
    <2>1. ASSUME NEW x \in Requests, Writing(x)'
          PROVE  \/ Gone(x)' \subseteq req'[x].previous
                 \/ Creating(x)' /\ KindOf(x)' = "settlement"
      <3>1. x # r
        BY <2>1 DEF Writing, Idle, Call
      <3>2. Writing(x) /\ req'[x] = req[x]
        BY <2>1, <3>1 DEF Writing
      <3>3. Names(req[x].content) \subseteq People
        BY <3>2, ContentAssumption DEF IndInv, CallShape, Writing
      <3>4. \A p \in Names(req[x].content) : removal[p] # r
        BY <3>2, <3>3, RequestAssumption DEF IndInv, LockExclusion
      <3>5. Gone(x)' \subseteq Gone(x)
        BY <3>2, <3>4 DEF Gone
      <3> QED BY <3>2, <3>5 DEF IndInv, NamedStay, Creating, KindOf
    <2> QED BY <2>1 DEF NamedStay
  <1>6. EditsFresh'
    <2>1. ASSUME NEW x \in Requests, req'[x].op = "edit", req'[x].expected # None
          PROVE  LET row == entries'[req'[x].entry] IN
                 /\ req'[x].expected <= row.version
                 /\ row.version = req'[x].expected =>
                      row.content = req'[x].opened
                        /\ req'[x].previous \subseteq Names(row.content)
      <3>1. x # r
        BY <2>1 DEF Idle, Call
      <3>2. req'[x] = req[x] /\ req[x].entry \in Entries /\ Exists(entries, req[x].entry)
        BY <2>1, <3>1 DEF IndInv, CallShape
      <3>3. /\ entries[req[x].entry].version \in Nat
            /\ entries'[req[x].entry].version \in Nat
            /\ req[x].expected \in Nat
        BY <2>1, <3>2 DEF IndInv, TypeOK, EntriesMove, Exists, Rows, Calls
      <3> QED BY <2>1, <3>2, <3>3 DEF IndInv, EditsFresh, EntriesMove
    <2> QED BY <2>1 DEF EditsFresh
  <1>7. CreatesAddNobody'
    BY DEF IndInv, CreatesAddNobody, Creating, Idle, Call
  <1> QED BY <1>1, <1>2, <1>3, <1>4, <1>5, <1>6, <1>7 DEF IndInv

(* A transaction that is refused, or lost, writes nothing. *)
LEMMA RollBackKeeps ==
  ASSUME IndInv, NEW r \in Requests, RollBack(r)
  PROVE  IndInv'
  <1>1. End(r) /\ UNCHANGED book
    BY DEF RollBack
  <1>2. EntriesMove
    BY <1>1 DEF EntriesMove, IndInv, TypeOK, book, Exists
  <1> QED BY <1>1, <1>2, EndKeeps DEF book, IndInv, TypeOK

(* A new entry is a row. *)
LEMMA RowTypes ==
  ASSUME NEW c \in Contents, NEW k \in Keys \cup {None}, NEW source \in Entries \cup {None}
  PROVE  Row(c, k, source) \in Rows /\ Row(c, k, source) # Absent
  BY NoneAssumption DEF Row, Rows, Absent

(* A row stamped, and a row with a new content and version, are rows. *)
LEMMA StampedRow ==
  ASSUME NEW row \in Rows, NEW live \in BOOLEAN
  PROVE  [row EXCEPT !.live = live] \in Rows
  BY DEF Rows

(* A row that an edit has rewritten is a row. *)
LEMMA EditedRow ==
  ASSUME NEW row \in Rows, NEW c \in Contents
  PROVE  [row EXCEPT !.content = c, !.version = row.version + 1] \in Rows
  <1>1. row.version + 1 \in Nat
    BY DEF Rows
  <1> QED BY <1>1 DEF Rows

(* A row is not an absent one. *)
LEMMA RowsExist ==
  ASSUME NEW row \in Rows
  PROVE  row # Absent
  BY NoneAssumption DEF Rows, Absent

(* Taking one row out of use leaves every entry where it was. *)
LEMMA StampMoves ==
  ASSUME TypeOK, NEW e \in Entries, Exists(entries, e), NEW live \in BOOLEAN,
         entries' = [entries EXCEPT ![e].live = live]
  PROVE  EntriesMove
  <1>1. entries[e] \in Rows
    BY DEF TypeOK, Exists
  <1>2. [entries[e] EXCEPT !.live = live] \in Rows
    BY <1>1, StampedRow
  <1>3. entries'[e] = [entries[e] EXCEPT !.live = live]
    BY DEF TypeOK
  <1>4. /\ entries'[e].content = entries[e].content
        /\ entries'[e].version = entries[e].version
    BY <1>1, <1>3 DEF Rows
  <1>5. entries' \in [Entries -> Rows \cup {Absent}]
    BY <1>2 DEF TypeOK
  <1>6. Exists(entries', e)
    BY <1>2, <1>3, RowsExist DEF Exists
  <1> QED BY <1>4, <1>5, <1>6 DEF EntriesMove, Exists, TypeOK

(* Deleting an entry, and the undo of it. *)
LEMMA StampKeeps ==
  ASSUME IndInv, NEW op, NEW e \in Entries, NEW live \in BOOLEAN, Stamp(op, e, live)
  PROVE  IndInv'
  <1>1. EntriesMove
    BY StampMoves DEF Stamp, IndInv
  <1>2. UNCHANGED <<removed, spent, locks, req>>
    BY DEF Stamp
  <1>3. TypeOK'
    BY <1>1, <1>2 DEF IndInv, TypeOK, EntriesMove, locks
  <1>4. LockExclusion'
    BY <1>2 DEF IndInv, LockExclusion, Writing, locks
  <1>5. CallShape'
    BY <1>1, <1>2 DEF IndInv, CallShape, EntriesMove
  <1>6. TargetHeld'
    BY <1>2 DEF IndInv, TargetHeld, locks
  <1>7. NamedStay'
    BY <1>2 DEF IndInv, NamedStay, Writing, Gone, Creating, KindOf
  <1>8. EditsFresh'
    <2>1. ASSUME NEW x \in Requests, req[x].op = "edit", req[x].expected # None
          PROVE  /\ entries'[req[x].entry].version = entries[req[x].entry].version
                 /\ entries'[req[x].entry].content = entries[req[x].entry].content
      <3>1. req[x].entry \in Entries /\ entries[req[x].entry] \in Rows
        BY <2>1 DEF IndInv, CallShape, TypeOK, Exists
      <3> QED BY <3>1 DEF Stamp, IndInv, TypeOK, Rows
    <2> QED BY <1>2, <2>1 DEF IndInv, EditsFresh
  <1>9. CreatesAddNobody'
    BY <1>2 DEF IndInv, CreatesAddNobody, Creating
  <1> QED BY <1>3, <1>4, <1>5, <1>6, <1>7, <1>8, <1>9 DEF IndInv

(* Putting a person back frees nobody and locks nobody. *)
LEMMA RestorePersonKeeps ==
  ASSUME IndInv, NEW p \in People, RestorePerson(p)
  PROVE  IndInv'
  <1>1. removed' = removed \ {p} /\ UNCHANGED <<entries, spent, locks, req>>
    BY DEF RestorePerson
  <1>2. TypeOK'
    BY <1>1 DEF IndInv, TypeOK, locks
  <1>3. LockExclusion' /\ CallShape' /\ TargetHeld' /\ EditsFresh' /\ CreatesAddNobody'
    BY <1>1 DEF IndInv, LockExclusion, Writing, locks, CallShape, TargetHeld,
                EditsFresh, CreatesAddNobody, Creating
  <1>4. NamedStay'
    BY <1>1 DEF IndInv, NamedStay, Writing, Gone, Creating, KindOf
  <1> QED BY <1>2, <1>3, <1>4 DEF IndInv

(* An edit commits: new content comes with a new version. *)
LEMMA WriteEditMoves ==
  ASSUME IndInv, NEW r \in Requests, WriteEdit(r)
  PROVE  EntriesMove
  <1> DEFINE e == req[r].entry  c == req[r].content
             row == [entries[e] EXCEPT !.content = c, !.version = entries[e].version + 1]
  <1>1. /\ e \in Entries /\ entries[e] \in Rows /\ c \in Contents
        /\ entries[e].content.kind = c.kind
    BY DEF WriteEdit, IndInv, CallShape, TypeOK, Exists
  <1>2. row \in Rows /\ row # Absent
    BY <1>1, EditedRow, RowsExist
  <1>3. row.content = c /\ row.version > entries[e].version
    BY <1>1 DEF Rows
  <1>4. entries' = [entries EXCEPT ![e] = row]
    BY DEF WriteEdit
  <1> HIDE DEF row
  <1> QED BY <1>1, <1>2, <1>3, <1>4 DEF EntriesMove, IndInv, TypeOK, Exists

LEMMA WriteEditKeeps ==
  ASSUME IndInv, NEW r \in Requests, WriteEdit(r)
  PROVE  IndInv'
  BY WriteEditMoves, EndKeeps DEF WriteEdit, IndInv, TypeOK

(* A removal commits: its person is not the owner, and leaves. *)
LEMMA RemoveKeeps ==
  ASSUME IndInv, NEW r \in Requests, Remove(r)
  PROVE  IndInv'
  <1>1. /\ req[r].person \in People \ {Owner} /\ removal[req[r].person] = r
        /\ removed' = removed \cup {req[r].person}
        /\ End(r) /\ UNCHANGED <<entries, spent>>
    BY DEF Remove, IndInv, TargetHeld
  <1>2. EntriesMove
    BY <1>1 DEF EntriesMove, IndInv, TypeOK, Exists
  <1> QED BY <1>1, <1>2, EndKeeps DEF IndInv, TypeOK

(* A new entry commits, with the row it takes the place of. *)
LEMMA WriteNewMoves ==
  ASSUME IndInv, NEW r \in Requests, WriteNew(r)
  PROVE  EntriesMove /\ spent' \in [Keys -> Entries \cup {None}]
  <1> DEFINE c == req[r].content  k == req[r].key  source == req[r].entry
  <1>1. req[r] \in Calls /\ c \in Contents
    BY DEF WriteNew, Creating, IndInv, CallShape, TypeOK
  <1>2. k \in Keys \cup {None} /\ source \in Entries \cup {None}
    BY <1>1 DEF Calls
  <1>3. source \in Entries => Exists(entries, source)
    BY <1>2, NoneAssumption DEF WriteNew, Creating, IndInv, CallShape, Entries
  <1>4. PICK e \in Entries :
          /\ IsNextId(entries, e)
          /\ entries' = [d \in Entries |->
                           IF d = e THEN Row(c, k, source)
                           ELSE IF d = source THEN [entries[d] EXCEPT !.live = FALSE]
                           ELSE entries[d]]
          /\ spent' = IF k = None THEN spent ELSE [spent EXCEPT ![k] = e]
    BY DEF WriteNew
  <1>5. EntriesMove
    <2>1. \A d \in Entries : d = source =>
            /\ entries[d] \in Rows
            /\ [entries[d] EXCEPT !.live = FALSE] \in Rows
            /\ [entries[d] EXCEPT !.live = FALSE] # Absent
            /\ [entries[d] EXCEPT !.live = FALSE].content = entries[d].content
            /\ [entries[d] EXCEPT !.live = FALSE].version = entries[d].version
      <3> SUFFICES ASSUME NEW d \in Entries, d = source
                   PROVE  /\ entries[d] \in Rows
                          /\ [entries[d] EXCEPT !.live = FALSE] \in Rows
                          /\ [entries[d] EXCEPT !.live = FALSE] # Absent
                          /\ [entries[d] EXCEPT !.live = FALSE].content = entries[d].content
                          /\ [entries[d] EXCEPT !.live = FALSE].version = entries[d].version
        OBVIOUS
      <3>1. entries[d] \in Rows
        BY <1>3 DEF IndInv, TypeOK, Exists
      <3>2. [entries[d] EXCEPT !.live = FALSE] \in Rows
        BY <3>1, StampedRow
      <3> QED BY <3>1, <3>2, RowsExist DEF Rows
    <2>2. Row(c, k, source) \in Rows
      BY <1>1, <1>2, RowTypes
    <2>3. entries[e] = Absent
      BY <1>4 DEF IsNextId
    <2> QED BY <1>4, <2>1, <2>2, <2>3 DEF EntriesMove, IndInv, TypeOK, Exists
  <1>6. spent' \in [Keys -> Entries \cup {None}]
    BY <1>2, <1>4 DEF IndInv, TypeOK
  <1> QED BY <1>5, <1>6

LEMMA WriteNewKeeps ==
  ASSUME IndInv, NEW r \in Requests, WriteNew(r)
  PROVE  IndInv'
  BY WriteNewMoves, EndKeeps DEF WriteNew, IndInv, TypeOK

-----------------------------------------------------------------------------
(* The invariant is inductive: it holds at first and every step of every   *)
(* call keeps it.                                                          *)
THEOREM Inductive == Spec => []IndInv
  <1>1. Init => IndInv
    <2> SUFFICES ASSUME Init PROVE IndInv
      OBVIOUS
    <2>1. \A r \in Requests : req[r] = Idle
      BY DEF Init
    <2>2. TypeOK
      BY IdleIsCall DEF Init, Book!Init, Book!Entries, Entries, Book!Absent, Absent, TypeOK
    <2>3. LockExclusion /\ CallShape /\ TargetHeld /\ NamedStay /\ EditsFresh
            /\ CreatesAddNobody
      BY <2>1 DEF Init, LockExclusion, Writing, CallShape, TargetHeld, NamedStay,
                  EditsFresh, CreatesAddNobody, Creating, Idle, Call, Balancing
    <2> QED BY <2>2, <2>3 DEF IndInv
  <1>2. IndInv /\ [Next]_vars => IndInv'
    <2> SUFFICES ASSUME IndInv, [Next]_vars PROVE IndInv'
      OBVIOUS
    <2>1. ASSUME NEW r \in Requests, Create(r) PROVE IndInv'
      BY <2>1, SubmitKeeps DEF Create
    <2>2. ASSUME NEW r \in Requests, Convert(r) PROVE IndInv'
      BY <2>2, SubmitKeeps DEF Convert
    <2>3. ASSUME NEW r \in Requests, NEW p \in People, LockTarget(r, p) PROVE IndInv'
      BY <2>3, LockTargetKeeps
    <2>4. ASSUME NEW r \in Requests, LockRow(r) PROVE IndInv'
      BY <2>4, LockRowKeeps
    <2>5. ASSUME NEW r \in Requests, Proceed(r) PROVE IndInv'
      BY <2>5, RollBackKeeps, AllLockedKeeps, EditReadKeeps, BalanceReadKeeps, WriteNewKeeps,
         WriteEditKeeps, RemoveKeeps
         DEF Proceed, RefuseRemoved, RefuseDeleted, RefuseNew, RefuseEdit, RefuseRemoval
    <2>6. ASSUME NEW r \in Requests, Open(r) \/ Crash(r) PROVE IndInv'
      BY <2>6, OpenKeeps, RollBackKeeps DEF Crash
    <2>7. ASSUME NEW e \in Entries, Delete(e) \/ Undelete(e) PROVE IndInv'
      BY <2>7, StampKeeps DEF Delete, Undelete
    <2>8. ASSUME NEW p \in People, RestorePerson(p) PROVE IndInv'
      BY <2>8, RestorePersonKeeps
    <2>9. CASE UNCHANGED vars
      BY <2>9 DEF vars, IndInv, TypeOK, LockExclusion, Writing, CallShape, TargetHeld,
                  NamedStay, Gone, KindOf, EditsFresh, CreatesAddNobody, Creating
    <2> QED BY <2>1, <2>2, <2>3, <2>4, <2>5, <2>6, <2>7, <2>8, <2>9 DEF Next
  <1> QED BY <1>1, <1>2, PTL DEF Spec

(* Every variable keeps its type, and the owner is never removed. *)
THEOREM TypeCorrect == Spec => []TypeOK
  <1>1. IndInv => TypeOK
    BY DEF IndInv
  <1> QED BY <1>1, Inductive, PTL

(* The row locks exclude each other, and a call past its lock holds         *)
(* everyone it names until it ends.                                        *)
THEOREM LocksExclude == Spec => []LockExclusion
  <1>1. IndInv => LockExclusion
    BY DEF IndInv
  <1> QED BY <1>1, Inductive, PTL

-----------------------------------------------------------------------------
(* A step that changes what an entry says is the write of a call. *)
LEMMA ContentsChangeByWrites ==
  ASSUME IndInv, [Next]_vars, \A r \in Requests : ~WriteNew(r) /\ ~WriteEdit(r),
         NEW e \in Entries
  PROVE  /\ Exists(entries', e) <=> Exists(entries, e)
         /\ Exists(entries, e) => entries'[e].content = entries[e].content
  <1>1. CASE UNCHANGED entries
    BY <1>1
  <1>2. ASSUME NEW d \in Entries, Delete(d) \/ Undelete(d)
        PROVE  /\ Exists(entries', e) <=> Exists(entries, e)
               /\ Exists(entries, e) => entries'[e].content = entries[e].content
    <2>1. PICK live \in BOOLEAN : entries' = [entries EXCEPT ![d].live = live] /\ Exists(entries, d)
      BY <1>2 DEF Delete, Undelete, Stamp
    <2>2. entries[d] \in Rows /\ [entries[d] EXCEPT !.live = live] \in Rows
      BY <2>1, StampedRow DEF IndInv, TypeOK, Exists
    <2>3. entries'[d] = [entries[d] EXCEPT !.live = live]
      BY <2>1 DEF IndInv, TypeOK
    <2>4. CASE e = d
      BY <2>2, <2>3, <2>4, RowsExist DEF Exists, Rows
    <2>5. CASE e # d
      BY <2>1, <2>5 DEF IndInv, TypeOK, Exists
    <2> QED BY <2>4, <2>5
  <1>3. ASSUME NEW r \in Requests, Create(r) \/ Convert(r) \/ Open(r) \/ LockRow(r) \/ Crash(r)
        PROVE  UNCHANGED entries
    BY <1>3 DEF Create, Convert, Submit, Open, LockRow, Crash, RollBack, book
  <1>4. ASSUME NEW r \in Requests, Proceed(r)
        PROVE  UNCHANGED entries
    BY <1>4 DEF Proceed, AcceptNamed, ClearRemoved, Advance, RefuseRemoved,
                ReadExisting, RefuseDeleted, ReadPreviousPayers,
                ReadPreviousShares, ReadExpenses, ReadPayers, ReadShares,
                ReadSettlements, Saw, RefuseNew, RefuseEdit, Remove, RefuseRemoval,
                RollBack, book
  <1>5. ASSUME NEW r \in Requests, NEW p \in People, LockTarget(r, p)
        PROVE  UNCHANGED entries
    BY <1>5 DEF LockTarget, book
  <1>6. ASSUME NEW p \in People, RestorePerson(p)
        PROVE  UNCHANGED entries
    BY <1>6 DEF RestorePerson
  <1>7. UNCHANGED vars => UNCHANGED entries
    BY DEF vars
  <1> QED BY <1>1, <1>2, <1>3, <1>4, <1>5, <1>6, <1>7 DEF Next

(* A removal holds FOR NO KEY UPDATE on its person, so no entry gains them. *)
LEMMA NobodyAdded ==
  ASSUME IndInv, [Next]_vars, NEW p \in People, NEW e \in Entries
  PROVE  /\ removal[p] # None
         /\ entries'[e] # Absent /\ p \in Names(entries'[e].content)
         => entries[e] # Absent /\ p \in Names(entries[e].content)
  <1> DEFINE ShutOut ==
        /\ removal[p] # None
        /\ entries'[e] # Absent /\ p \in Names(entries'[e].content)
        => entries[e] # Absent /\ p \in Names(entries[e].content)
  <1>1. ASSUME NEW r \in Requests, WriteNew(r) PROVE ShutOut
    <2>1. p \in Names(req[r].content) => removal[p] = None
      BY <1>1 DEF IndInv, LockExclusion, Writing, WriteNew, Creating, InPhase
    <2>2. entries'[e].content = req[r].content \/ entries'[e] = entries[e]
            \/ (entries[e] # Absent /\ entries'[e].content = entries[e].content)
      <3>1. PICK d \in Entries :
              entries' = [x \in Entries |->
                           IF x = d THEN Row(req[r].content, req[r].key, req[r].entry)
                           ELSE IF x = req[r].entry THEN [entries[x] EXCEPT !.live = FALSE]
                           ELSE entries[x]]
        BY <1>1 DEF WriteNew
      <3>2. CASE e = d
        BY <3>1, <3>2 DEF Row
      <3>3. CASE e # d /\ e = req[r].entry
        <4>1. req[r].op = "convert"
          BY <1>1, <3>3, NoneAssumption DEF WriteNew, Creating, IndInv, CallShape, Entries
        <4>2. entries[e] # Absent /\ entries[e] \in Rows
          BY <3>3, <4>1 DEF IndInv, CallShape, TypeOK, Exists
        <4>3. entries'[e].content = entries[e].content
          BY <3>1, <3>3, <4>2 DEF Rows
        <4> QED BY <4>2, <4>3
      <3>4. CASE e # d /\ e # req[r].entry
        BY <3>1, <3>4
      <3> QED BY <3>2, <3>3, <3>4
    <2> QED BY <2>1, <2>2
  <1>2. ASSUME NEW r \in Requests, WriteEdit(r) PROVE ShutOut
    <2>1. p \in Names(req[r].content) => removal[p] = None
      BY <1>2 DEF IndInv, LockExclusion, Writing, WriteEdit, InPhase
    <2>2. CASE e = req[r].entry
      <3>1. entries[e] \in Rows
        BY <1>2, <2>2 DEF WriteEdit, IndInv, CallShape, TypeOK, Exists
      <3>2. entries'[e].content = req[r].content
        BY <1>2, <2>2, <3>1 DEF WriteEdit, IndInv, TypeOK, Rows
      <3> QED BY <2>1, <3>2
    <2>3. CASE e # req[r].entry
      BY <1>2, <2>3 DEF WriteEdit, IndInv, TypeOK
    <2> QED BY <2>2, <2>3
  <1>3. CASE \A r \in Requests : ~WriteNew(r) /\ ~WriteEdit(r)
    BY <1>3, ContentsChangeByWrites DEF Exists
  <1> QED BY <1>1, <1>2, <1>3

(* No entry gains somebody while their removal is being decided. *)
THEOREM NobodyAddedUnderRemoval == Spec => RemovalShutsOut
  <1> DEFINE ShutOut(p, e) ==
        /\ removal[p] # None
        /\ entries'[e] # Absent /\ p \in Names(entries'[e].content)
        => entries[e] # Absent /\ p \in Names(entries[e].content)
  <1>1. IndInv /\ [Next]_vars => \A p \in People, e \in Entries : ShutOut(p, e)
    BY NobodyAdded
  <1>2. RemovalShutsOut <=> [][\A p \in People, e \in Entries : ShutOut(p, e)]_vars
    BY DEF RemovalShutsOut
  <1> HIDE DEF ShutOut
  <1> QED BY <1>1, <1>2, Inductive, PTL DEF Spec

(* An edit that carries a version overwrites only what its author saw. *)
THEOREM EditsOverwriteWhatTheySaw == Spec => EditOverwritesWhatItSaw
  <1> DEFINE Overwrites ==
        \A r \in Requests : WriteEdit(r) /\ req[r].expected # None =>
          entries[req[r].entry].content = req[r].opened
  <1>1. IndInv => Overwrites
    BY DEF IndInv, EditsFresh, WriteEdit, VersionHolds
  <1>2. EditOverwritesWhatItSaw <=> [][Overwrites]_vars
    BY DEF EditOverwritesWhatItSaw
  <1> HIDE DEF Overwrites
  <1> QED BY <1>1, <1>2, Inductive, PTL DEF Spec

-----------------------------------------------------------------------------
(* Keys and replacements: rows that a create writes once, and that nothing *)
(* writes again.                                                           *)

(* Of what is there, only a create writes a key or what is replaced, and   *)
(* only an undo brings an entry back.                                      *)
LEMMA RowsStay ==
  ASSUME IndInv, [Next]_vars, \A r \in Requests : ~WriteNew(r)
  PROVE  /\ spent' = spent
         /\ \A e \in Entries :
              /\ Exists(entries', e) <=> Exists(entries, e)
              /\ entries'[e].key = entries[e].key
              /\ entries'[e].replaces = entries[e].replaces
              /\ entries'[e].live => entries[e].live \/ "undelete" \in Ops
  <1> DEFINE Stays == /\ spent' = spent
                      /\ \A e \in Entries :
                           /\ Exists(entries', e) <=> Exists(entries, e)
                           /\ entries'[e].key = entries[e].key
                           /\ entries'[e].replaces = entries[e].replaces
                           /\ entries'[e].live => entries[e].live \/ "undelete" \in Ops
  <1>1. ASSUME UNCHANGED <<entries, spent>> PROVE Stays
    BY <1>1
  <1>2. ASSUME NEW d \in Entries, Delete(d) \/ Undelete(d) PROVE Stays
    <2>1. PICK live \in BOOLEAN :
            /\ entries' = [entries EXCEPT ![d].live = live] /\ Exists(entries, d)
            /\ live => "undelete" \in Ops
            /\ spent' = spent
      BY <1>2 DEF Delete, Undelete, Stamp
    <2>2. entries[d] \in Rows /\ [entries[d] EXCEPT !.live = live] \in Rows
      BY <2>1, StampedRow DEF IndInv, TypeOK, Exists
    <2>3. /\ entries'[d] = [entries[d] EXCEPT !.live = live]
          /\ \A e \in Entries : e # d => entries'[e] = entries[e]
      BY <2>1 DEF IndInv, TypeOK
    <2>4. /\ entries'[d].key = entries[d].key /\ entries'[d].replaces = entries[d].replaces
          /\ entries'[d].live = live /\ entries'[d] # Absent /\ entries[d] # Absent
      BY <2>2, <2>3, RowsExist DEF Rows
    <2> QED BY <2>1, <2>3, <2>4 DEF Exists
  <1>3. ASSUME NEW r \in Requests, WriteEdit(r) PROVE Stays
    <2> DEFINE d == req[r].entry  c == req[r].content
               row == [entries[d] EXCEPT !.content = c, !.version = entries[d].version + 1]
    <2>1. d \in Entries /\ entries[d] \in Rows /\ c \in Contents /\ spent' = spent
      BY <1>3 DEF WriteEdit, IndInv, CallShape, TypeOK, Exists
    <2>2. entries' = [entries EXCEPT ![d] = row]
      BY <1>3 DEF WriteEdit
    <2>3. row \in Rows /\ row # Absent /\ entries[d] # Absent
      BY <2>1, EditedRow, RowsExist
    <2>4. row.key = entries[d].key /\ row.replaces = entries[d].replaces /\ row.live = entries[d].live
      BY <2>1 DEF Rows
    <2> HIDE DEF row, d
    <2> QED BY <2>1, <2>2, <2>3, <2>4 DEF Exists, IndInv, TypeOK
  <1>4. ASSUME NEW r \in Requests, Create(r) \/ Convert(r) \/ Open(r) \/ LockRow(r) \/ Crash(r)
        PROVE  UNCHANGED <<entries, spent>>
    BY <1>4 DEF Create, Convert, Submit, Open, LockRow, Crash, RollBack, book
  <1>5. ASSUME NEW r \in Requests, Proceed(r), ~WriteEdit(r)
        PROVE  UNCHANGED <<entries, spent>>
    BY <1>5 DEF Proceed, AcceptNamed, ClearRemoved, Advance, RefuseRemoved,
                ReadExisting, RefuseDeleted, ReadPreviousPayers,
                ReadPreviousShares, ReadExpenses, ReadPayers, ReadShares,
                ReadSettlements, Saw, RefuseNew, RefuseEdit, Remove, RefuseRemoval,
                RollBack, book
  <1>6. ASSUME NEW r \in Requests, NEW p \in People, LockTarget(r, p)
        PROVE  UNCHANGED <<entries, spent>>
    BY <1>6 DEF LockTarget, book
  <1>7. ASSUME NEW p \in People, RestorePerson(p)
        PROVE  UNCHANGED <<entries, spent>>
    BY <1>7 DEF RestorePerson
  <1>8. UNCHANGED vars => UNCHANGED <<entries, spent>>
    BY DEF vars
  <1>9. Stays
    <2> HIDE DEF Stays
    <2> QED BY <1>1, <1>2, <1>3, <1>4, <1>5, <1>6, <1>7, <1>8 DEF Next
  <1> QED BY <1>9

(* What a create writes: one row, and one taken out of use. *)
LEMMA RowWritten ==
  ASSUME IndInv, NEW r \in Requests, WriteNew(r)
  PROVE  \E e \in Entries, k \in Keys \cup {None}, source \in Entries \cup {None} :
           /\ entries[e] = Absent /\ Exists(entries', e)
           /\ entries'[e].key = k /\ entries'[e].replaces = source /\ entries'[e].live
           /\ source # None => /\ Exists(entries, source) /\ entries[source].live
                               /\ ~entries'[source].live
           /\ k # None => spent[k] = None
           /\ spent' = IF k = None THEN spent ELSE [spent EXCEPT ![k] = e]
           /\ \A d \in Entries \ {e} :
                /\ Exists(entries', d) <=> Exists(entries, d)
                /\ entries'[d].key = entries[d].key
                /\ entries'[d].replaces = entries[d].replaces
                /\ entries'[d].live => entries[d].live
  <1> DEFINE c == req[r].content  k == req[r].key  source == req[r].entry
  <1>1. /\ req[r] \in Calls /\ c \in Contents /\ Creating(r)
        /\ k \in Keys \cup {None} /\ source \in Entries \cup {None}
    BY DEF WriteNew, Creating, IndInv, CallShape, TypeOK, Calls
  <1>2. source # None => Exists(entries, source) /\ entries[source].live
    BY <1>1 DEF WriteNew, SourceLive, Creating, IndInv, CallShape
  <1>3. k # None => spent[k] = None
    BY DEF WriteNew, KeyFree
  <1>4. PICK e \in Entries :
          /\ IsNextId(entries, e)
          /\ entries' = [d \in Entries |->
                           IF d = e THEN Row(c, k, source)
                           ELSE IF d = source THEN [entries[d] EXCEPT !.live = FALSE]
                           ELSE entries[d]]
          /\ spent' = IF k = None THEN spent ELSE [spent EXCEPT ![k] = e]
    BY DEF WriteNew
  <1>5. entries[e] = Absent /\ source # e
    BY <1>2, <1>4, NoneAssumption DEF IsNextId, Exists, Entries
  <1>6. /\ Row(c, k, source) # Absent /\ Row(c, k, source).key = k
        /\ Row(c, k, source).replaces = source /\ Row(c, k, source).live
    BY <1>1, RowTypes DEF Row
  <1>7. ASSUME NEW d \in Entries, d = source
        PROVE  /\ Exists(entries', d) /\ Exists(entries, d) /\ ~entries'[d].live
               /\ entries'[d].key = entries[d].key
               /\ entries'[d].replaces = entries[d].replaces
    <2>1. Exists(entries, d) /\ entries[d] \in Rows
      BY <1>2, <1>7, NoneAssumption DEF IndInv, TypeOK, Exists, Entries
    <2>2. entries'[d] = [entries[d] EXCEPT !.live = FALSE]
      BY <1>4, <1>5, <1>7
    <2>3. [entries[d] EXCEPT !.live = FALSE] # Absent
      BY <2>1, StampedRow, RowsExist
    <2> QED BY <2>1, <2>2, <2>3 DEF Exists, Rows
  <1>8. \A d \in Entries \ {e} : d # source => entries'[d] = entries[d]
    BY <1>4
  <1>9. entries'[e] = Row(c, k, source)
    BY <1>4
  <1> HIDE DEF c, k, source
  <1>10. /\ entries[e] = Absent /\ Exists(entries', e)
         /\ entries'[e].key = k /\ entries'[e].replaces = source /\ entries'[e].live
    BY <1>5, <1>6, <1>9 DEF Exists
  <1>11. source # None => /\ Exists(entries, source) /\ entries[source].live
                          /\ ~entries'[source].live
    BY <1>1, <1>2, <1>7
  <1>12. \A d \in Entries \ {e} :
           /\ Exists(entries', d) <=> Exists(entries, d)
           /\ entries'[d].key = entries[d].key
           /\ entries'[d].replaces = entries[d].replaces
           /\ entries'[d].live => entries[d].live
    BY <1>7, <1>8 DEF Exists
  <1>13. k \in Keys \cup {None} /\ source \in Entries \cup {None}
    BY <1>1
  <1>14. spent' = IF k = None THEN spent ELSE [spent EXCEPT ![k] = e]
    BY <1>4
  <1> USE <1>13
  <1> WITNESS e \in Entries, k \in Keys \cup {None}, source \in Entries \cup {None}
  <1> QED BY <1>3, <1>10, <1>11, <1>12, <1>14

(* A key names one entry for good (entry_client_keys, unique on the key).  *)
THEOREM KeyNamesOne == Spec => []OneEntryPerKey
  <1>1. Init => OneEntryPerKey
    BY NoneAssumption DEF Init, Book!Init, Book!Entries, Book!Absent, Entries, Absent, Exists, OneEntryPerKey
  <1>2. IndInv /\ OneEntryPerKey /\ [Next]_vars => OneEntryPerKey'
    <2> SUFFICES ASSUME IndInv, OneEntryPerKey, [Next]_vars PROVE OneEntryPerKey'
      OBVIOUS
    <2>1. CASE \A r \in Requests : ~WriteNew(r)
      BY <2>1, RowsStay DEF OneEntryPerKey
    <2>2. ASSUME NEW r \in Requests, WriteNew(r) PROVE OneEntryPerKey'
      <3>1. PICK e \in Entries, k \in Keys \cup {None} :
              /\ entries[e] = Absent /\ Exists(entries', e) /\ entries'[e].key = k
              /\ k # None => spent[k] = None
              /\ spent' = IF k = None THEN spent ELSE [spent EXCEPT ![k] = e]
              /\ \A d \in Entries \ {e} :
                   /\ Exists(entries', d) <=> Exists(entries, d)
                   /\ entries'[d].key = entries[d].key
        BY <2>2, RowWritten
      <3>2. spent \in [Keys -> Entries \cup {None}]
        BY DEF IndInv, TypeOK
      <3>3. \A d \in Entries : d # None
        BY NoneAssumption DEF Entries
      <3>4. \A j \in Keys : spent[j] # e
        BY <3>1 DEF OneEntryPerKey, Exists
      <3>5. CASE k = None
        BY <3>1, <3>4, <3>5, NoneAssumption DEF OneEntryPerKey
      <3>6. CASE k # None
        <4>1. k \in Keys /\ spent'[k] = e /\ \A j \in Keys : j # k => spent'[j] = spent[j]
          BY <3>1, <3>2, <3>6
        <4>2. \A d \in Entries : ~(Exists(entries, d) /\ entries[d].key = k)
          BY <3>1, <3>3, <3>6, <4>1 DEF OneEntryPerKey
        <4> QED BY <3>1, <3>4, <4>1, <4>2 DEF OneEntryPerKey
      <3> QED BY <3>5, <3>6
    <2> QED BY <2>1, <2>2
  <1> QED BY <1>1, <1>2, Inductive, PTL DEF Spec

(* What is replaced was there, and where nothing is undone it stays gone   *)
(* with one replacement (replaceExpenseWithSettlement and its converse).   *)
THEOREM ReplacedOnceOnly ==
  ASSUME "undelete" \notin Ops
  PROVE  Spec => []ReplacedOnce
  <1> DEFINE There == \A e \in Entries : entries[e].replaces \in Entries =>
                                           Exists(entries, entries[e].replaces)
             Once == There /\ ReplacedOnce
  <1>1. Init => Once
    BY NoneAssumption DEF Init, Book!Init, Book!Entries, Book!Absent, Entries, Absent, Exists, ReplacedOnce
  <1>2. IndInv /\ Once /\ [Next]_vars => Once'
    <2> SUFFICES ASSUME IndInv, There, ReplacedOnce, [Next]_vars PROVE There' /\ ReplacedOnce'
      OBVIOUS
    <2>1. CASE \A r \in Requests : ~WriteNew(r)
      BY <2>1, RowsStay DEF ReplacedOnce
    <2>2. ASSUME NEW r \in Requests, WriteNew(r) PROVE There' /\ ReplacedOnce'
      <3>1. PICK e \in Entries, source \in Entries \cup {None} :
              /\ entries[e] = Absent /\ Exists(entries', e) /\ entries'[e].replaces = source
              /\ source # None => /\ Exists(entries, source) /\ entries[source].live
                                  /\ ~entries'[source].live
              /\ \A d \in Entries \ {e} :
                   /\ Exists(entries', d) <=> Exists(entries, d)
                   /\ entries'[d].replaces = entries[d].replaces
                   /\ entries'[d].live => entries[d].live
        <4> HIDE DEF There
        <4> QED BY <2>2, RowWritten
      <3>2. \A d \in Entries : entries[d].replaces # e
        BY <3>1 DEF Exists
      <3>3. source \in Entries => \A d \in Entries : entries[d].replaces # source
        BY <3>1, NoneAssumption DEF ReplacedOnce, Entries
      <3>4. source # e
        BY <3>1, NoneAssumption DEF Exists, Entries
      <3>5. There'
        BY <3>1, NoneAssumption DEF Exists, Entries
      <3>6. ReplacedOnce'
        <4> SUFFICES ASSUME NEW d \in Entries, NEW x \in Entries, entries'[x].replaces = d
                     PROVE  ~entries'[d].live /\ \A f \in Entries : entries'[f].replaces = d => f = x
          BY DEF ReplacedOnce
        <4>1. d # e
          BY <3>1, <3>2, <3>4
        <4>2. CASE d = source
          BY <3>1, <3>3, <4>2, NoneAssumption DEF Entries
        <4>3. CASE d # source
          BY <3>1, <4>1, <4>3 DEF ReplacedOnce
        <4> QED BY <4>2, <4>3
      <3> QED BY <3>5, <3>6
    <2> QED BY <2>1, <2>2
  <1>3. Once => ReplacedOnce
    OBVIOUS
  <1> HIDE DEF Once
  <1> QED BY <1>1, <1>2, <1>3, Inductive, PTL DEF Spec

-----------------------------------------------------------------------------
(* Balances.  A balance is a sum over the live entries, and what a check    *)
(* has read is a sum over the entries it has read: where that still stands  *)
(* the two differ by the entries it has not read.                           *)

Living(rows) == LiveOf(rows, "expense") \cup LiveOf(rows, "settlement")
Effects(rows, p) == [e \in Entries |-> Effect(rows[e].content, p)]

(* Whoever an entry does not name it leaves alone. *)
LEMMA EffectOf ==
  ASSUME NEW c \in Contents, NEW p
  PROVE  Effect(c, p) \in Int /\ (p \notin Names(c) => Effect(c, p) = 0)
  <1>1. c.dir \in {-1, 1}
        /\ c.payers \in [DOMAIN c.payers -> Nat] /\ c.shares \in [DOMAIN c.shares -> Int]
    BY AmountAssumption
  <1>2. AmountOf(c.payers, p) \in Int /\ AmountOf(c.shares, p) \in Int
    BY <1>1 DEF AmountOf
  <1>3. p \notin Names(c) => AmountOf(c.payers, p) = 0 /\ AmountOf(c.shares, p) = 0
    BY DEF AmountOf, Names
  <1> QED BY <1>1, <1>2, <1>3 DEF Effect

LEMMA LivingAre ==
  ASSUME TypeOK
  PROVE  /\ IsFiniteSet(Living(entries)) /\ Living(entries) \in SUBSET Entries
         /\ \A e \in Living(entries) :
              /\ e \in Entries /\ entries[e] \in Rows /\ entries[e].live
              /\ entries[e].content \in Contents
  <1>1. IsFiniteSet(Entries)
    BY BoundAssumption, FS_Interval DEF Entries
  <1>2. Living(entries) \in SUBSET Entries
    BY DEF Living, LiveOf
  <1>3. IsFiniteSet(Living(entries))
    BY <1>1, <1>2, FS_Subset
  <1>4. \A e \in Living(entries) :
              /\ e \in Entries /\ entries[e] \in Rows /\ entries[e].live
              /\ entries[e].content \in Contents
    BY DEF TypeOK, Living, LiveOf, IsKind, Exists, Rows
  <1> QED BY <1>2, <1>3, <1>4

LEMMA EffectsWhole ==
  ASSUME TypeOK, NEW p
  PROVE  Whole(Effects(entries, p), Living(entries))
  BY LivingAre, EffectOf DEF Whole, Effects

LEMMA BalanceIsSum ==
  ASSUME NEW rows, NEW p, IsFiniteSet(Living(rows))
  PROVE  Balance(rows, p) = SumFunctionOnSet(Effects(rows, p), Living(rows))
  <1> DEFINE S == Living(rows)  h == Effects(rows, p)
  <1>1. \A s \in SUBSET S : s # {} =>
          h[CHOOSE x \in s : TRUE] = Effect(rows[CHOOSE x \in s : TRUE].content, p)
    BY DEF Effects, Living, LiveOf
  <1>2. PICK f : Tallies(f, h, S)
    BY TallyExists
  <1>3. f = [s \in SUBSET S |-> IF s = {} THEN 0 ELSE
               Effect(rows[CHOOSE x \in s : TRUE].content, p)
                 + f[s \ {CHOOSE x \in s : TRUE}]]
    BY <1>1, <1>2 DEF Tallies, First
  <1>4. PICK g : /\ g = [s \in SUBSET S |-> IF s = {} THEN 0 ELSE
                           Effect(rows[CHOOSE x \in s : TRUE].content, p)
                             + g[s \ {CHOOSE x \in s : TRUE}]]
                 /\ MapThenSumSet(LAMBDA e : Effect(rows[e].content, p), S) = g[S]
    BY <1>3 DEF MapThenSumSet, MapThenFoldSet
  <1>5. Tallies(g, h, S)
    BY <1>1, <1>4 DEF Tallies, First
  <1>6. g[S] = SumFunctionOnSet(h, S)
    BY <1>5, SumInside
  <1> QED BY <1>4, <1>6 DEF Balance, Living

(* What has been read and still stands. *)
LEMMA SeenIsSum ==
  ASSUME NEW s \in Seen, Stands(s), NEW p
  PROVE  /\ DOMAIN s.direction \in SUBSET Entries /\ DOMAIN s.settlements \in SUBSET Entries
         /\ SeenBalance(s, p)
              = SumFunctionOnSet(Effects(entries, p), DOMAIN s.direction)
                  + SumFunctionOnSet(Effects(entries, p), DOMAIN s.settlements)
  <1> DEFINE A == DOMAIN s.direction  B == DOMAIN s.settlements  h == Effects(entries, p)
  <1>1. A \in SUBSET Entries /\ B \in SUBSET Entries
    BY DEF Seen, ReadOf
  <1>2. IsFiniteSet(A) /\ IsFiniteSet(B)
    <2>1. IsFiniteSet(Entries)
      BY BoundAssumption, FS_Interval DEF Entries
    <2> QED BY <1>1, <2>1, FS_Subset
  <1>3. \A e \in A : h[e] = s.direction[e] * (AmountOf(SeenRow(s.payers, e), p)
                                               - AmountOf(SeenRow(s.shares, e), p))
    BY <1>1 DEF Stands, Effects, Effect
  <1>4. \A e \in B : h[e] = Effect(s.settlements[e], p)
    BY <1>1 DEF Stands, Effects
  <1>5. MapThenSumSet(LAMBDA e : s.direction[e] * (AmountOf(SeenRow(s.payers, e), p)
                                                     - AmountOf(SeenRow(s.shares, e), p)), A)
          = SumFunctionOnSet(h, A)
    <2>1. PICK f : Tallies(f, h, A)
      BY <1>2, TallyExists
    <2>2. \A x \in SUBSET A : x # {} => (CHOOSE e \in x : TRUE) \in A
      OBVIOUS
    <2>3. f = [x \in SUBSET A |-> IF x = {} THEN 0 ELSE
                 (s.direction[CHOOSE e \in x : TRUE]
                    * (AmountOf(SeenRow(s.payers, CHOOSE e \in x : TRUE), p)
                         - AmountOf(SeenRow(s.shares, CHOOSE e \in x : TRUE), p)))
                   + f[x \ {CHOOSE e \in x : TRUE}]]
      BY <1>3, <2>1, <2>2 DEF Tallies, First
    <2>4. PICK g : /\ g = [x \in SUBSET A |-> IF x = {} THEN 0 ELSE
                             (s.direction[CHOOSE e \in x : TRUE]
                                * (AmountOf(SeenRow(s.payers, CHOOSE e \in x : TRUE), p)
                                     - AmountOf(SeenRow(s.shares, CHOOSE e \in x : TRUE), p)))
                               + g[x \ {CHOOSE e \in x : TRUE}]]
                   /\ MapThenSumSet(LAMBDA e : s.direction[e]
                                      * (AmountOf(SeenRow(s.payers, e), p)
                                           - AmountOf(SeenRow(s.shares, e), p)), A) = g[A]
      <3> HIDE DEF A
      <3> QED BY <2>3 DEF MapThenSumSet, MapThenFoldSet
    <2>5. Tallies(g, h, A)
      BY <1>3, <2>2, <2>4 DEF Tallies, First
    <2>6. g[A] = SumFunctionOnSet(h, A)
      BY <1>2, <2>5, SumInside
    <2> QED BY <2>4, <2>6, Zenon
  <1>6. MapThenSumSet(LAMBDA e : Effect(s.settlements[e], p), B) = SumFunctionOnSet(h, B)
    <2>1. PICK f : Tallies(f, h, B)
      BY <1>2, TallyExists
    <2>2. \A x \in SUBSET B : x # {} => (CHOOSE e \in x : TRUE) \in B
      OBVIOUS
    <2>3. f = [x \in SUBSET B |-> IF x = {} THEN 0 ELSE
                 Effect(s.settlements[CHOOSE e \in x : TRUE], p)
                   + f[x \ {CHOOSE e \in x : TRUE}]]
      BY <1>4, <2>1, <2>2 DEF Tallies, First
    <2>4. PICK g : /\ g = [x \in SUBSET B |-> IF x = {} THEN 0 ELSE
                             Effect(s.settlements[CHOOSE e \in x : TRUE], p)
                               + g[x \ {CHOOSE e \in x : TRUE}]]
                   /\ MapThenSumSet(LAMBDA e : Effect(s.settlements[e], p), B) = g[B]
      <3> HIDE DEF B
      <3> QED BY <2>3 DEF MapThenSumSet, MapThenFoldSet
    <2>5. Tallies(g, h, B)
      BY <1>4, <2>2, <2>4 DEF Tallies, First
    <2>6. g[B] = SumFunctionOnSet(h, B)
      BY <1>2, <2>5, SumInside
    <2> QED BY <2>4, <2>6, Zenon
  <1> QED BY <1>1, <1>5, <1>6 DEF SeenBalance

(* Two kinds of entry that were read, and are still of those kinds. *)
SeenKinds ==
  \A r \in Requests :
    /\ \A e \in DOMAIN req[r].seen.direction : IsKind(entries, e, "expense")
    /\ \A e \in DOMAIN req[r].seen.settlements : IsKind(entries, e, "settlement")

(* A check that still stands, and has left out only what does not name p,   *)
(* has found p's balance.                                                  *)
LEMMA SeenIsBalance ==
  ASSUME TypeOK, SeenKinds, NEW r \in Requests, Stands(req[r].seen), NEW p,
         \A e \in Living(entries) : p \in Names(entries[e].content) =>
           e \in DOMAIN req[r].seen.direction \cup DOMAIN req[r].seen.settlements
  PROVE  SeenBalance(req[r].seen, p) = Balance(entries, p)
  <1> DEFINE s == req[r].seen  h == Effects(entries, p)
             A == DOMAIN s.direction  B == DOMAIN s.settlements
  <1>1. s \in Seen
    BY DEF TypeOK, Calls
  <1>2. /\ A \in SUBSET Entries /\ B \in SUBSET Entries
        /\ SeenBalance(s, p) = SumFunctionOnSet(h, A) + SumFunctionOnSet(h, B)
    BY <1>1, SeenIsSum
  <1>3. A \cup B \in SUBSET Living(entries)
    BY <1>2 DEF SeenKinds, Stands, Living, LiveOf
  <1>4. A \cap B = {}
    BY DEF SeenKinds, IsKind
  <1>5. IsFiniteSet(Living(entries)) /\ Whole(h, Living(entries))
    BY LivingAre, EffectsWhole
  <1>6. \A e \in Living(entries) \ (A \cup B) : h[e] = 0
    BY LivingAre, EffectOf DEF Effects
  <1>7. IsFiniteSet(A) /\ IsFiniteSet(B) /\ Whole(h, A \cup B)
    BY <1>3, <1>5, FS_Subset DEF Whole
  <1>8. SumFunctionOnSet(h, A \cup B) = SumFunctionOnSet(h, A) + SumFunctionOnSet(h, B)
    BY <1>4, <1>7, SumBoth
  <1>9. SumFunctionOnSet(h, Living(entries)) = SumFunctionOnSet(h, A \cup B)
    BY <1>3, <1>5, <1>6, SumOfWhatCounts
  <1> QED BY <1>2, <1>5, <1>8, <1>9, BalanceIsSum

-----------------------------------------------------------------------------
(* What a removal has read, while it holds its person's row. *)

(* Nothing changes the kind of an entry. *)
LEMMA KindsStay ==
  ASSUME IndInv, [Next]_vars, NEW e \in Entries, NEW kind, IsKind(entries, e, kind)
  PROVE  IsKind(entries', e, kind)
  <1>1. ASSUME NEW r \in Requests, WriteNew(r) \/ WriteEdit(r) PROVE IsKind(entries', e, kind)
    BY <1>1, WriteNewMoves, WriteEditMoves DEF EntriesMove, IsKind
  <1>2. CASE \A r \in Requests : ~WriteNew(r) /\ ~WriteEdit(r)
    BY <1>2, ContentsChangeByWrites DEF IsKind
  <1> QED BY <1>1, <1>2

(* Where nothing is undone, what comes to life is new. *)
LEMMA LivesOnce ==
  ASSUME IndInv, "undelete" \notin Ops, [Next]_vars, NEW e \in Entries,
         Exists(entries, e), entries'[e].live
  PROVE  entries[e].live
  <1>1. ASSUME NEW r \in Requests, WriteNew(r) PROVE entries[e].live
    <2>1. PICK d \in Entries : /\ entries[d] = Absent
                               /\ \A x \in Entries \ {d} : entries'[x].live => entries[x].live
      BY <1>1, RowWritten
    <2> QED BY <2>1 DEF Exists
  <1>2. CASE \A r \in Requests : ~WriteNew(r)
    BY <1>2, RowsStay
  <1> QED BY <1>1, <1>2

NamedOn(rows, kind, p) == {e \in LiveOf(rows, kind) : p \in Names(rows[e].content)}

(* While a person's removal is being decided, nothing live comes to name them. *)
LEMMA NamedOnShrinks ==
  ASSUME IndInv, "undelete" \notin Ops, [Next]_vars, NEW p \in People, removal[p] # None,
         NEW kind
  PROVE  NamedOn(entries', kind, p) \subseteq NamedOn(entries, kind, p)
  <1> SUFFICES ASSUME NEW e \in Entries, IsKind(entries', e, kind), entries'[e].live,
                      p \in Names(entries'[e].content)
               PROVE  /\ IsKind(entries, e, kind) /\ entries[e].live
                      /\ p \in Names(entries[e].content)
    BY DEF NamedOn, LiveOf
  <1>1. Exists(entries, e) /\ p \in Names(entries[e].content)
    BY NobodyAdded DEF IsKind, Exists
  <1>2. entries[e].live
    BY <1>1, LivesOnce
  <1>3. IsKind(entries', e, entries[e].content.kind)
    BY <1>1, KindsStay DEF IsKind
  <1> QED BY <1>1, <1>2, <1>3 DEF IsKind

(* Whatever still names the person was read, once its kind was. *)
NamedSeen ==
  \A r \in Requests : req[r].op = "remove" =>
    /\ req[r].phase # "expenses" =>
         NamedOn(entries, "expense", req[r].person) \subseteq DOMAIN req[r].seen.direction
    /\ req[r].phase = "write" =>
         NamedOn(entries, "settlement", req[r].person) \subseteq DOMAIN req[r].seen.settlements

SeenInv == SeenKinds /\ NamedSeen

(* What a step does to a call: it keeps what it has read, or has read       *)
(* nothing yet.                                                            *)
Keeps(r) ==
  /\ DOMAIN req'[r].seen.direction = DOMAIN req[r].seen.direction
  /\ DOMAIN req'[r].seen.settlements = DOMAIN req[r].seen.settlements
  /\ req'[r].op = "remove" =>
       /\ req[r].op = "remove" /\ req'[r].person = req[r].person
       /\ req[r].phase = "expenses" => req'[r].phase = "expenses"
       /\ req'[r].phase = "write" => req[r].phase = "write"
Starts(r) ==
  /\ req'[r].seen = NothingSeen
  /\ req'[r].op = "remove" => req'[r].phase = "expenses"

LEMMA CallSteps ==
  ASSUME IndInv, [Next]_vars, NEW x \in Requests
  PROVE  Keeps(x) \/ Starts(x) \/ ReadExpenses(x) \/ ReadSettlements(x)
  <1>1. req \in [Requests -> Calls] /\ req[x] \in Calls
    BY DEF IndInv, TypeOK
  <1>2. ASSUME UNCHANGED req PROVE Keeps(x)
    BY <1>2 DEF Keeps
  <1>3. ASSUME NEW r \in Requests, End(r) PROVE Keeps(x) \/ Starts(x)
    BY <1>1, <1>3 DEF End, Keeps, Starts, Idle, Call
  <1>4. ASSUME NEW r \in Requests, Create(r) \/ Convert(r) \/ Open(r) PROVE Keeps(x) \/ Starts(x)
    <2>1. ASSUME NEW q, req' = [req EXCEPT ![r] = q], q.seen = NothingSeen, q.op # "remove"
          PROVE  Keeps(x) \/ Starts(x)
      BY <1>1, <2>1 DEF Keeps, Starts
    <2>2. ASSUME NEW op \in {"create", "convert"}, NEW c, NEW k, NEW source,
                 Submit(r, op, c, k, source)
          PROVE  Keeps(x) \/ Starts(x)
      <3> DEFINE q == Call(op, "lock", c, source, k, None, None, None)
      <3>1. req' = [req EXCEPT ![r] = q]
        BY <2>2 DEF Submit
      <3>2. q.seen = NothingSeen /\ q.op # "remove"
        BY DEF Call
      <3> HIDE DEF q
      <3> QED BY <2>1, <3>1, <3>2
    <2>3. CASE Create(r) \/ Convert(r)
      BY <2>2, <2>3 DEF Create, Convert
    <2>4. CASE Open(r)
      <3>1. PICK e \in Entries, c \in Contents, versioned \in Versioned :
              req' = [req EXCEPT ![r] =
                        Call("edit", "existing", c, e, None,
                             IF versioned THEN entries[e].version ELSE None,
                             entries[e].content, None)]
        BY <2>4 DEF Open
      <3> DEFINE q == Call("edit", "existing", c, e, None,
                           IF versioned THEN entries[e].version ELSE None,
                           entries[e].content, None)
      <3>2. req' = [req EXCEPT ![r] = q]
        BY <3>1
      <3>3. q.seen = NothingSeen /\ q.op # "remove"
        BY DEF Call
      <3> HIDE DEF q
      <3> QED BY <2>1, <3>2, <3>3
    <2> QED BY <1>4, <2>3, <2>4
  <1>5. ASSUME NEW r \in Requests, NEW p \in People, LockTarget(r, p)
        PROVE  Keeps(x) \/ Starts(x)
    BY <1>1, <1>5 DEF LockTarget, Call, Keeps, Starts
  <1>6. ASSUME NEW r \in Requests, AcceptNamed(r) \/ ClearRemoved(r) PROVE Keeps(x)
    <2>1. PICK phase : req' = [req EXCEPT ![r].phase = phase]
      BY <1>6 DEF AcceptNamed, ClearRemoved, Advance
    <2>2. req[r].op # "remove"
      BY <1>6 DEF AcceptNamed, ClearRemoved, AllLocked, InPhase, IndInv, CallShape, Balancing
    <2> QED BY <1>1, <2>1, <2>2 DEF Keeps, Calls
  <1>7. ASSUME NEW r \in Requests,
               ReadExisting(r) \/ ReadPreviousPayers(r) \/ ReadPreviousShares(r)
        PROVE  Keeps(x)
    <2>1. PICK phase, previous : req' = [req EXCEPT ![r].phase = phase, ![r].previous = previous]
      BY <1>7 DEF ReadExisting, ReadPreviousPayers, ReadPreviousShares
    <2>2. req[r].op # "remove"
      BY <1>7 DEF ReadExisting, ReadPreviousPayers, ReadPreviousShares, InPhase, IndInv,
                  CallShape, Balancing
    <2> QED BY <1>1, <2>1, <2>2 DEF Keeps, Calls
  <1>8. ASSUME NEW r \in Requests, ReadPayers(r) \/ ReadShares(r) PROVE Keeps(x)
    <2>1. ASSUME NEW next \in {"shares", "settlements"}, NEW seen,
                 req' = [req EXCEPT ![r].phase = next, ![r].seen = seen],
                 seen.direction = req[r].seen.direction,
                 seen.settlements = req[r].seen.settlements,
                 req[r].phase \in {"payers", "shares"}
          PROVE  Keeps(x)
      BY <1>1, <2>1 DEF Keeps, Calls
    <2>2. req[r].seen \in Seen
      BY DEF IndInv, TypeOK, Calls
    <2>3. CASE ReadPayers(r)
      BY <2>1, <2>2, <2>3 DEF ReadPayers, Saw, InPhase, Seen
    <2>4. CASE ReadShares(r)
      BY <2>1, <2>2, <2>4 DEF ReadShares, Saw, InPhase, Seen
    <2> QED BY <1>8, <2>3, <2>4
  <1>9. ASSUME NEW r \in Requests, ReadExpenses(r) \/ ReadSettlements(r), x # r PROVE Keeps(x)
    BY <1>1, <1>9 DEF ReadExpenses, ReadSettlements, Saw, Keeps
  <1>10. ASSUME NEW r \in Requests, LockRow(r) \/ Crash(r)
         PROVE  Keeps(x) \/ Starts(x)
    BY <1>3, <1>10 DEF LockRow, Crash, RollBack, Keeps
  <1>11. ASSUME NEW r \in Requests, Proceed(r)
         PROVE  Keeps(x) \/ Starts(x) \/ ReadExpenses(x) \/ ReadSettlements(x)
    BY <1>3, <1>6, <1>7, <1>8, <1>9, <1>11
       DEF Proceed, RefuseRemoved, RefuseDeleted, WriteNew, RefuseNew, WriteEdit, RefuseEdit, Remove,
           RefuseRemoval, RollBack
  <1> QED BY <1>2, <1>4, <1>5, <1>10, <1>11
          DEF Next, Delete, Undelete, Stamp, RestorePerson, vars

(* What has been read stays of its kind. *)
LEMMA SeenKindsKeep ==
  ASSUME IndInv, SeenKinds, [Next]_vars
  PROVE  SeenKinds'
  <1>1. \A r \in Requests : req[r] \in Calls /\ req[r].seen \in Seen
    BY DEF IndInv, TypeOK, Calls
  <1>2. ASSUME NEW r \in Requests
        PROVE  /\ \A e \in DOMAIN req'[r].seen.direction : IsKind(entries', e, "expense")
               /\ \A e \in DOMAIN req'[r].seen.settlements : IsKind(entries', e, "settlement")
    <2>1. /\ \A e \in DOMAIN req[r].seen.direction : e \in Entries
          /\ \A e \in DOMAIN req[r].seen.settlements : e \in Entries
      BY <1>1 DEF Seen, ReadOf
    <2>2. CASE Keeps(r)
      BY <2>1, <2>2, KindsStay DEF SeenKinds, Keeps
    <2>3. CASE Starts(r)
      BY <2>3 DEF Starts, NothingSeen, NoRows
    <2>4. CASE ReadExpenses(r)
      <3>1. /\ DOMAIN req'[r].seen.direction = LiveExpenses
            /\ DOMAIN req'[r].seen.settlements = DOMAIN req[r].seen.settlements
            /\ entries' = entries
        BY <1>1, <2>4 DEF ReadExpenses, Saw, book, IndInv, TypeOK, Calls, Seen
      <3> QED BY <3>1 DEF SeenKinds, LiveExpenses, LiveOf
    <2>5. CASE ReadSettlements(r)
      <3>1. /\ DOMAIN req'[r].seen.direction = DOMAIN req[r].seen.direction
            /\ DOMAIN req'[r].seen.settlements = LiveOf(entries, "settlement")
            /\ entries' = entries
        BY <1>1, <2>5 DEF ReadSettlements, Saw, book, IndInv, TypeOK, Calls, Seen
      <3> QED BY <3>1 DEF SeenKinds, LiveOf
    <2> QED BY <2>2, <2>3, <2>4, <2>5, CallSteps
  <1> QED BY <1>2 DEF SeenKinds

(* Whatever a removal has not read does not name its person. *)
LEMMA SeenKeeps ==
  ASSUME IndInv, SeenInv, "undelete" \notin Ops, [Next]_vars
  PROVE  SeenInv'
  <1>1. \A r \in Requests : req[r] \in Calls /\ req[r].seen \in Seen
    BY DEF IndInv, TypeOK, Calls
  <1>2. ASSUME NEW r \in Requests, req'[r].op = "remove"
        PROVE  LET p == req'[r].person IN
               /\ req'[r].phase # "expenses" =>
                    NamedOn(entries', "expense", p) \subseteq DOMAIN req'[r].seen.direction
               /\ req'[r].phase = "write" =>
                    NamedOn(entries', "settlement", p) \subseteq DOMAIN req'[r].seen.settlements
    <2> DEFINE p == req'[r].person
    <2>1. CASE Keeps(r)
      <3>1. /\ req[r].op = "remove" /\ p = req[r].person
            /\ req'[r].phase # "expenses" => req[r].phase # "expenses"
            /\ req'[r].phase = "write" => req[r].phase = "write"
        BY <1>2, <2>1 DEF Keeps
      <3>2. p \in People /\ removal[p] # None
        BY <3>1, RequestAssumption DEF IndInv, TargetHeld
      <3>3. \A kind \in Kinds : NamedOn(entries', kind, p) \subseteq NamedOn(entries, kind, p)
        BY <3>2, NamedOnShrinks
      <3> QED BY <2>1, <3>1, <3>3 DEF Keeps, SeenInv, NamedSeen, Kinds
    <2>2. CASE Starts(r)
      BY <1>2, <2>2 DEF Starts
    <2>3. CASE ReadExpenses(r)
      <3>1. /\ DOMAIN req'[r].seen.direction = LiveExpenses
            /\ req'[r].phase = "payers" /\ entries' = entries
        BY <1>1, <2>3 DEF ReadExpenses, Saw, book, IndInv, TypeOK, Calls, Seen
      <3>2. NamedOn(entries', "expense", p) \subseteq LiveExpenses
        BY <3>1 DEF NamedOn, LiveExpenses, LiveOf
      <3> QED BY <3>1, <3>2
    <2>4. CASE ReadSettlements(r)
      <3>1. /\ DOMAIN req'[r].seen.direction = DOMAIN req[r].seen.direction
            /\ DOMAIN req'[r].seen.settlements = LiveOf(entries, "settlement")
            /\ req[r].phase = "settlements" /\ entries' = entries
            /\ req'[r].op = req[r].op /\ req'[r].person = req[r].person
        BY <1>1, <2>4 DEF ReadSettlements, InPhase, Saw, book, IndInv, TypeOK, Calls, Seen
      <3>2. /\ NamedOn(entries', "settlement", p) \subseteq LiveOf(entries, "settlement")
            /\ NamedOn(entries', "expense", p) = NamedOn(entries, "expense", p)
        BY <3>1 DEF NamedOn, LiveOf
      <3>3. NamedOn(entries, "expense", p) \subseteq DOMAIN req[r].seen.direction
        BY <1>2, <3>1 DEF SeenInv, NamedSeen
      <3> QED BY <3>1, <3>2, <3>3
    <2> QED BY <2>1, <2>2, <2>3, <2>4, CallSteps
  <1>3. NamedSeen'
    BY <1>2 DEF NamedSeen
  <1> QED BY <1>3, SeenKindsKeep DEF SeenInv

(* A removal commits only while its person is square, whatever was created *)
(* meanwhile (removeParticipant, assertBalanceIsZero under FOR NO KEY       *)
(* UPDATE), where nothing deleted is put back.                             *)
THEOREM RemovedOnlySquare ==
  ASSUME "undelete" \notin Ops
  PROVE  Spec => RemovedWhenSquare
  <1> DEFINE Squared == \A r \in Requests : Remove(r) /\ Stands(req[r].seen)
                          => Balance(entries, req[r].person) = 0
  <1>1. Init => SeenInv
    BY DEF Init, SeenInv, SeenKinds, NamedSeen, Idle, Call, NothingSeen, NoRows
  <1>2. IndInv /\ SeenInv /\ [Next]_vars => SeenInv'
    BY SeenKeeps
  <1>3. IndInv /\ SeenInv => Squared
    <2> SUFFICES ASSUME IndInv, SeenInv, NEW r \in Requests, Remove(r), Stands(req[r].seen)
                 PROVE  Balance(entries, req[r].person) = 0
      OBVIOUS
    <2> DEFINE p == req[r].person
    <2>1. /\ req[r].op = "remove" /\ req[r].phase = "write" /\ SeenBalance(req[r].seen, p) = 0
      BY DEF Remove, InPhase, Square
    <2>2. /\ NamedOn(entries, "expense", p) \subseteq DOMAIN req[r].seen.direction
          /\ NamedOn(entries, "settlement", p) \subseteq DOMAIN req[r].seen.settlements
      BY <2>1 DEF SeenInv, NamedSeen
    <2>3. \A e \in Living(entries) : p \in Names(entries[e].content) =>
            e \in DOMAIN req[r].seen.direction \cup DOMAIN req[r].seen.settlements
      BY <2>2 DEF Living, NamedOn
    <2>4. SeenBalance(req[r].seen, p) = Balance(entries, p)
      BY <2>3, SeenIsBalance DEF IndInv, SeenInv
    <2> QED BY <2>1, <2>4
  <1>4. RemovedWhenSquare <=> [][Squared]_vars
    BY DEF RemovedWhenSquare
  <1> HIDE DEF Squared
  <1> QED BY <1>1, <1>2, <1>3, <1>4, Inductive, PTL DEF Spec

(* A new entry moves each balance by its effect, and nothing else. *)
LEMMA NewEntryAdds ==
  ASSUME IndInv, NEW r \in Requests, WriteNew(r), req[r].op = "create", NEW p
  PROVE  Balance(entries', p) = Balance(entries, p) + Effect(req[r].content, p)
  <1> DEFINE c == req[r].content  k == req[r].key  h == Effects(entries, p)  g == Effects(entries', p)
  <1>1. c \in Contents /\ req[r].entry = None
    BY DEF IndInv, CallShape
  <1>2. PICK e \in Entries :
          /\ entries[e] = Absent
          /\ entries' = [d \in Entries |-> IF d = e THEN Row(c, k, None) ELSE entries[d]]
    BY <1>1, NoneAssumption DEF WriteNew, IsNextId, Entries
  <1>3. /\ entries'[e] = Row(c, k, None) /\ \A d \in Entries : d # e => entries'[d] = entries[d]
        /\ e \notin Living(entries)
    BY <1>2 DEF Living, LiveOf, IsKind, Exists
  <1>4. Row(c, k, None) # Absent /\ Row(c, k, None).live /\ Row(c, k, None).content = c
    BY <1>1, NoneAssumption DEF Row, Absent
  <1>5. Living(entries') = Living(entries) \cup {e}
    <2>1. c.kind = "expense" \/ c.kind = "settlement"
      BY <1>1, ContentAssumption DEF Kinds
    <2>2. \A d \in Entries : d \in Living(entries') <=> d \in Living(entries) \/ d = e
      BY <1>3, <1>4, <2>1 DEF Living, LiveOf, IsKind, Exists
    <2>3. Living(entries') \subseteq Entries /\ Living(entries) \subseteq Entries
      BY DEF Living, LiveOf
    <2> QED BY <2>2, <2>3
  <1>6. IsFiniteSet(Living(entries)) /\ Living(entries) \in SUBSET Entries
        /\ Whole(h, Living(entries))
    BY LivingAre, EffectsWhole DEF IndInv
  <1>7. /\ \A d \in Living(entries) : g[d] = h[d]
        /\ g[e] = Effect(c, p) /\ g[e] \in Int
    BY <1>1, <1>3, <1>4, <1>6, EffectOf DEF Effects
  <1>8. Whole(g, Living(entries) \cup {e})
    BY <1>6, <1>7 DEF Whole
  <1>9. SumFunctionOnSet(g, Living(entries) \cup {e})
          = g[e] + SumFunctionOnSet(g, Living(entries))
    BY <1>3, <1>6, <1>8, SumMore
  <1>10. SumFunctionOnSet(g, Living(entries)) = SumFunctionOnSet(h, Living(entries))
    BY <1>6, <1>7, SumSame
  <1>11. SumFunctionOnSet(h, Living(entries)) \in Int
    BY <1>6, SumAny
  <1>12. Balance(entries', p) = SumFunctionOnSet(g, Living(entries'))
    <2>1. IsFiniteSet(Living(entries'))
      BY <1>5, <1>6, FS_AddElement
    <2> QED BY <2>1, BalanceIsSum
  <1>13. Balance(entries, p) = SumFunctionOnSet(h, Living(entries))
    BY <1>6, BalanceIsSum
  <1> HIDE DEF g, h
  <1> QED BY <1>5, <1>7, <1>9, <1>10, <1>11, <1>12, <1>13

(* One payer's total is what they pay. *)
LEMMA TotalOfOne ==
  ASSUME NEW f, NEW x, DOMAIN f = {x}, f[x] \in Int
  PROVE  Total(f) = f[x]
  <1>1. Total(f) = SumFunctionOnSet(f, {x})
    BY DEF Total, FoldFunction, SumFunctionOnSet
  <1>2. SumFunctionOnSet(f, {x}) = f[x] + SumFunctionOnSet(f, {x} \ {x})
    BY FS_Singleton, SumAny DEF Whole
  <1>3. {x} \ {x} = {}
    OBVIOUS
  <1> QED BY <1>1, <1>2, <1>3, SumNothing

(* A repayment that names somebody removed brings them towards zero, and   *)
(* not past it (assertClearsRemoved), unless the ledger has changed.       *)
THEOREM RepaymentsClear == Spec => RepaymentClears
  <1> DEFINE Cleared ==
        \A r \in Requests :
          /\ WriteNew(r) /\ req[r].op = "create" /\ KindOf(r) = "settlement"
          /\ SeenAll(req[r].seen)
          => \A p \in Gone(r) : Settles(p)
  <1>1. Init => SeenKinds
    BY DEF Init, SeenKinds, Idle, Call, NothingSeen, NoRows
  <1>2. IndInv /\ SeenKinds /\ [Next]_vars => SeenKinds'
    BY SeenKindsKeep
  <1>3. IndInv /\ SeenKinds => Cleared
    <2> SUFFICES ASSUME IndInv, SeenKinds, NEW r \in Requests, WriteNew(r),
                        req[r].op = "create", KindOf(r) = "settlement",
                        SeenAll(req[r].seen), NEW p \in Gone(r)
                 PROVE  Settles(p)
      OBVIOUS
    <2> DEFINE c == req[r].content  b == Balance(entries, p)
    <2>1. c \in Contents /\ p \in Names(c) /\ Clears(r, p)
      BY DEF IndInv, CallShape, Gone, WriteNew, MayWrite
    <2>2. SeenBalance(req[r].seen, p) = b
      BY SeenIsBalance DEF SeenAll, IndInv, Living, LiveExpenses
    <2>3. Balance(entries', p) = b + Effect(c, p)
      BY NewEntryAdds
    <2>4. b \in Int
      BY LivingAre, EffectsWhole, BalanceIsSum, SumAny DEF IndInv
    <2>5. PICK from, to \in People :
            /\ from # to /\ DOMAIN c.payers = {from} /\ DOMAIN c.shares = {to}
            /\ c.payers[from] = c.shares[to] /\ c.dir = 1 /\ c.payers[from] \in Nat
      BY <2>1, AmountAssumption DEF KindOf
    <2>6. Total(c.payers) = c.payers[from]
      BY <2>5, TotalOfOne
    <2>7. p \in {from, to}
      BY <2>1, <2>5 DEF Names
    <2>8. CASE p = from
      <3>1. Effect(c, p) = c.payers[from]
        BY <2>5, <2>8 DEF Effect, AmountOf
      <3>2. b < 0 /\ c.payers[from] <= -b
        BY <2>1, <2>2, <2>4, <2>5, <2>6, <2>8 DEF Clears, Outstanding
      <3> QED BY <2>3, <2>4, <2>5, <3>1, <3>2 DEF Settles
    <2>9. CASE p = to
      <3>1. Effect(c, p) = -c.payers[from]
        BY <2>5, <2>9 DEF Effect, AmountOf
      <3>2. b > 0 /\ c.payers[from] <= b
        BY <2>1, <2>2, <2>4, <2>5, <2>6, <2>9 DEF Clears, Outstanding
      <3> QED BY <2>3, <2>4, <2>5, <3>1, <3>2 DEF Settles
    <2> QED BY <2>7, <2>8, <2>9
  <1>4. RepaymentClears <=> [][Cleared]_vars
    BY DEF RepaymentClears
  <1> HIDE DEF Cleared
  <1> QED BY <1>1, <1>2, <1>3, <1>4, Inductive, PTL DEF Spec

-----------------------------------------------------------------------------
(* The transactions implement the book's operations, if every edit carries *)
(* the version it was made from.                                           *)

AllVersioned == \A r \in Requests : req[r].op = "edit" => req[r].expected # None

(* Where every form sends its version, every edit in flight carries one. *)
LEMMA EditsStayVersioned ==
  ASSUME Versioned \subseteq {TRUE}, IndInv, AllVersioned, [Next]_vars
  PROVE  AllVersioned'
  <1>1. ASSUME NEW r \in Requests, End(r) PROVE AllVersioned'
    BY <1>1 DEF AllVersioned, End, IndInv, TypeOK, Idle, Call
  <1>2. ASSUME NEW r \in Requests, NEW op \in {"create", "convert"}, NEW c, NEW k,
               NEW source, Submit(r, op, c, k, source)
        PROVE  AllVersioned'
    BY <1>2 DEF AllVersioned, Submit, IndInv, TypeOK, Call
  <1>3. ASSUME NEW r \in Requests, Create(r) \/ Convert(r) PROVE AllVersioned'
    BY <1>2, <1>3 DEF Create, Convert
  <1>4. ASSUME NEW r \in Requests, Open(r) PROVE AllVersioned'
    <2>1. PICK e \in Entries, c \in Contents :
            /\ IsKind(entries, e, c.kind)
            /\ req' = [req EXCEPT ![r] = Call("edit", "existing", c, e, None,
                          entries[e].version, entries[e].content, None)]
      BY <1>4 DEF Open
    <2>2. entries[e].version # None
      BY <2>1, NoneAssumption DEF IndInv, TypeOK, IsKind, Exists, Rows
    <2> QED BY <2>1, <2>2 DEF AllVersioned, IndInv, TypeOK, Call
  <1>5. ASSUME NEW r \in Requests, NEW p \in People, LockTarget(r, p) PROVE AllVersioned'
    BY <1>5 DEF AllVersioned, LockTarget, IndInv, TypeOK, Call
  <1>6. ASSUME NEW r \in Requests, NEW phase, req' = [req EXCEPT ![r].phase = phase]
        PROVE  AllVersioned'
    BY <1>6 DEF AllVersioned, IndInv, TypeOK, Calls
  <1>7. ASSUME NEW r \in Requests, NEW phase, NEW previous,
               req' = [req EXCEPT ![r].phase = phase, ![r].previous = previous]
        PROVE  AllVersioned'
    BY <1>7 DEF AllVersioned, IndInv, TypeOK, Calls
  <1>8. ASSUME NEW r \in Requests, NEW phase, NEW seen,
               req' = [req EXCEPT ![r].phase = phase, ![r].seen = seen]
        PROVE  AllVersioned'
    BY <1>8 DEF AllVersioned, IndInv, TypeOK, Calls
  <1>9. ASSUME NEW r \in Requests, LockRow(r) PROVE AllVersioned'
    BY <1>9 DEF LockRow, AllVersioned
  <1>10. ASSUME NEW r \in Requests, Proceed(r) \/ Crash(r) PROVE AllVersioned'
    BY <1>1, <1>6, <1>7, <1>8, <1>10
       DEF Proceed, AcceptNamed, ClearRemoved, Advance, RefuseRemoved,
           ReadExisting, RefuseDeleted, ReadPreviousPayers, ReadPreviousShares,
           ReadExpenses, ReadPayers, ReadShares, ReadSettlements, Saw, WriteNew,
           RefuseNew, WriteEdit, RefuseEdit, Remove, RefuseRemoval, Crash, RollBack
  <1>11. ASSUME UNCHANGED req PROVE AllVersioned'
    BY <1>11 DEF AllVersioned
  <1> QED BY <1>3, <1>4, <1>5, <1>9, <1>10, <1>11
          DEF Next, Delete, Undelete, Stamp, RestorePerson, vars

(* The book's operators are this module's, seen through the instance. *)
LEMMA SameRows ==
  /\ Book!Entries = Entries /\ Book!Absent = Absent
  /\ \A c : Book!Names(c) = Names(c)
  /\ \A rows, e : Book!Exists(rows, e) <=> Exists(rows, e)
  /\ \A c, k, source : Book!Row(c, k, source) = Row(c, k, source)
  /\ \A rows, e : Book!IsNextId(rows, e) <=> IsNextId(rows, e)
  /\ \A rows, e, kind : Book!IsKind(rows, e, kind) <=> IsKind(rows, e, kind)
  BY DEF Book!Entries, Entries, Book!Absent, Absent, Book!Names, Names, Book!Exists,
         Exists, Book!Row, Row, Book!IsNextId, IsNextId, Book!IsKind, IsKind

(* The commit of a new entry is the step Record of the book. *)
LEMMA WriteNewRecords ==
  ASSUME IndInv, NEW r \in Requests, WriteNew(r)
  PROVE  Book!Next
  <1> DEFINE c == req[r].content  k == req[r].key  source == req[r].entry
  <1>1. /\ req[r] \in Calls /\ c \in Contents /\ Creating(r)
        /\ k \in Keys \cup {None} /\ source \in Entries \cup {None}
    BY DEF WriteNew, Creating, IndInv, CallShape, TypeOK, Calls
  <1>2. c.kind = "expense" => Names(c) \cap removed = {}
    BY <1>1 DEF WriteNew, InPhase, IndInv, NamedStay, CreatesAddNobody, Writing,
                Creating, Gone, KindOf
  <1>3. source # None => /\ Exists(entries, source) /\ entries[source].live
                         /\ entries[source].content.kind # c.kind
    BY <1>1 DEF WriteNew, SourceLive, Creating, IndInv, CallShape
  <1>4. k # None => spent[k] = None
    BY DEF WriteNew, KeyFree
  <1>5. Book!Record(c, k, source)
    BY <1>2, <1>3, <1>4, SameRows DEF WriteNew, Book!Record
  <1> QED BY <1>1, <1>5, SameRows DEF Book!Next

(* The commit of an edit is the step Amend of the book. *)
LEMMA WriteEditAmends ==
  ASSUME IndInv, AllVersioned, NEW r \in Requests, WriteEdit(r)
  PROVE  Book!Next
  <1> DEFINE e == req[r].entry  c == req[r].content
  <1>1. /\ e \in Entries /\ c \in Contents /\ IsKind(entries, e, c.kind)
        /\ req[r].op = "edit" /\ req[r].phase = "write"
    BY DEF WriteEdit, InPhase, IndInv, CallShape, IsKind
  <1>2. Names(c) \cap removed \subseteq req[r].previous
    BY <1>1 DEF IndInv, NamedStay, Writing, Creating, Gone
  <1>3. req[r].previous \subseteq Names(entries[e].content)
    BY <1>1 DEF IndInv, EditsFresh, AllVersioned, WriteEdit, VersionHolds
  <1>4. Book!Amend(e, c)
    BY <1>1, <1>2, <1>3, SameRows DEF WriteEdit, Book!Amend
  <1> QED BY <1>1, <1>4, SameRows DEF Book!Next

(* Each transaction takes effect as one of the book's operations: a new     *)
(* entry names nobody removed unless it is a repayment, an edit adds nobody *)
(* removed, a key is spent once, and a conversion removes what it replaces. *)
THEOREM Refinement ==
  ASSUME Versioned \subseteq {TRUE}
  PROVE  Spec => ImplementsBook
  <1>1. Init => Book!Init
    BY DEF Init
  <1>2. Init /\ IndInv => AllVersioned
    BY DEF Init, AllVersioned, Idle, Call
  <1>3. IndInv /\ AllVersioned /\ [Next]_vars => [Book!Next]_(Book!bookVars)
    <2> SUFFICES ASSUME IndInv, AllVersioned, [Next]_vars
                 PROVE  Book!Next \/ UNCHANGED <<removed, entries, spent>>
      BY DEF Book!bookVars
    <2>1. ASSUME NEW r \in Requests, Create(r) \/ Convert(r) \/ Open(r) \/ LockRow(r)
                                        \/ Crash(r)
          PROVE  UNCHANGED <<removed, entries, spent>>
      BY <2>1 DEF Create, Convert, Submit, Open, LockRow, Crash, RollBack, book
    <2>2. ASSUME NEW r \in Requests, NEW p \in People, LockTarget(r, p)
          PROVE  UNCHANGED <<removed, entries, spent>>
      BY <2>2 DEF LockTarget, book
    <2>3. ASSUME NEW r \in Requests, Proceed(r), ~WriteNew(r), ~WriteEdit(r), ~Remove(r)
          PROVE  UNCHANGED <<removed, entries, spent>>
      BY <2>3 DEF Proceed, AcceptNamed, ClearRemoved, Advance, RefuseRemoved,
                  ReadExisting, RefuseDeleted, ReadPreviousPayers,
                  ReadPreviousShares, ReadExpenses, ReadPayers, ReadShares,
                  ReadSettlements, Saw, RefuseNew, RefuseEdit, RefuseRemoval, RollBack, book
    <2>4. ASSUME NEW r \in Requests, Remove(r)
          PROVE  Book!Next
      <3>1. req[r].person \in People \ (removed \cup {Owner})
        BY <2>4 DEF Remove, IndInv, TargetHeld
      <3>2. Book!Leave(req[r].person)
        BY <2>4, <3>1 DEF Remove, Book!Leave
      <3> QED BY <3>1, <3>2 DEF Book!Next
    <2>5. ASSUME NEW e \in Entries, Delete(e) \/ Undelete(e)
          PROVE  Book!Next
      <3>1. CASE Delete(e)
        <4>1. Book!Delete(e)
          BY <3>1, SameRows DEF Delete, Stamp, Book!Delete, IndInv, TypeOK, Exists, Rows
        <4> QED BY <4>1, SameRows DEF Book!Next
      <3>2. CASE Undelete(e)
        <4>1. Book!Restore(e)
          BY <3>2, SameRows DEF Undelete, Stamp, Book!Restore, IndInv, TypeOK, Exists, Rows
        <4> QED BY <4>1, SameRows DEF Book!Next
      <3> QED BY <2>5, <3>1, <3>2
    <2>6. ASSUME NEW p \in People, RestorePerson(p)
          PROVE  Book!Next
      <3>1. Book!Return(p)
        BY <2>6 DEF RestorePerson, Book!Return
      <3> QED BY <3>1 DEF Book!Next
    <2>7. UNCHANGED vars => UNCHANGED <<removed, entries, spent>>
      BY DEF vars
    <2> QED BY <2>1, <2>2, <2>3, <2>4, <2>5, <2>6, <2>7, WriteNewRecords, WriteEditAmends
            DEF Next
  <1>4. IndInv /\ AllVersioned /\ [Next]_vars => AllVersioned'
    BY EditsStayVersioned
  <1> QED BY <1>1, <1>2, <1>3, <1>4, Inductive, PTL DEF Spec, ImplementsBook, Book!Spec
=============================================================================
