------------------------------- MODULE Ledger -------------------------------
(***************************************************************************)
(* The transactions that write one group's ledger: createExpense,          *)
(* createSettlement and the two conversions, the edits, the deletions and  *)
(* their undo, and the removal of a person and its undo.                   *)
(*                                                                         *)
(* PostgreSQL runs them under READ COMMITTED.  A statement sees what had   *)
(* committed when it started, so a transaction is split here wherever      *)
(* another one can commit between two of its statements: at each read      *)
(* whose result is used later, and at each row lock it may wait for.  Its  *)
(* writes and its COMMIT are one step: until the commit nobody else sees   *)
(* the writes, and the rows written are locked.                            *)
(***************************************************************************)
EXTENDS LedgerRows

CONSTANTS
  Requests,    \* calls in flight at once
  MaxVersion,  \* bound: the version an entry reaches by edits
  Ops,         \* the calls clients make
  Versioned    \* whether an edit carries the version it was made from

ASSUME RequestAssumption == None \notin Requests
ASSUME VersionAssumption == MaxVersion \in Nat
ASSUME OpsAssumption ==
  Ops \subseteq {"create", "convert", "edit", "delete", "undelete",
                 "remove", "restore"}
ASSUME VersionedAssumption == Versioned \in SUBSET BOOLEAN

VARIABLES
  removed,  \* people whose `removed_at` is set
  entries,  \* the rows, live or soft-deleted
  spent,    \* `entry_client_keys`: the entry each spent key names
  shared,   \* who holds a person's row FOR SHARE
  removal,  \* who holds it FOR NO KEY UPDATE
  req       \* what each call in flight carries and has read so far

(* What the transactions promise, the locks and the calls in flight hidden. *)
Book == INSTANCE GroupBook
          WITH People <- People, Owner <- Owner, Keys <- Keys, Contents <- Contents,
               MaxEntries <- MaxEntries, None <- None,
               removed <- removed, entries <- entries, spent <- spent

book == <<removed, entries, spent>>
locks == <<shared, removal>>
vars == <<removed, entries, spent, shared, removal, req>>

-----------------------------------------------------------------------------
(* A balance check reads the ledger by one statement per field. *)

NoRows == [x \in {} |-> None]
NothingSeen == [direction |-> NoRows, payers |-> NoRows, shares |-> NoRows,
                settlements |-> NoRows]

(* The list of expenses decides which allocations count.  An expense whose *)
(* allocations were not there by the time they were read has none.         *)
SeenRow(rows, e) == IF e \in DOMAIN rows THEN rows[e] ELSE NoRows
SeenBalance(s, p) ==
    MapThenSumSet(LAMBDA e : s.direction[e] *
                    (AmountOf(SeenRow(s.payers, e), p)
                       - AmountOf(SeenRow(s.shares, e), p)),
                  DOMAIN s.direction)
  + MapThenSumSet(LAMBDA e : Effect(s.settlements[e], p), DOMAIN s.settlements)

(* computeBalances throws on an expense that does not add up. *)
SeenBalanced(s) ==
  \A e \in DOMAIN s.direction :
    Total(SeenRow(s.payers, e)) = Total(SeenRow(s.shares, e))

-----------------------------------------------------------------------------
(* Calls and their locks. *)

Call(op, phase, content, entry, key, expected, opened, person) ==
  [op |-> op, phase |-> phase, content |-> content, entry |-> entry, key |-> key,
   expected |-> expected, opened |-> opened, person |-> person,
   previous |-> {}, seen |-> NothingSeen]
Idle == Call("none", "idle", None, None, None, None, None, None)

InPhase(r, phase) == req[r].phase = phase
Advance(r, phase) == req' = [req EXCEPT ![r].phase = phase]
Creating(r) == req[r].op \in {"create", "convert"}
KindOf(r) == req[r].content.kind

(* The transaction of r ends, and its locks with it. *)
End(r) ==
  /\ shared' = [p \in People |-> shared[p] \ {r}]
  /\ removal' = [p \in People |-> IF removal[p] = r THEN None ELSE removal[p]]
  /\ req' = [req EXCEPT ![r] = Idle]
RollBack(r) == End(r) /\ UNCHANGED book

KeyNames(k, kind) ==
  k # None /\ spent[k] # None /\ entries[spent[k]].content.kind = kind

(* Room for the inserts in flight, so that none of them meets the bound. *)
RoomToInsert ==
  Cardinality({e \in Entries : Exists(entries, e)})
    + Cardinality({r \in Requests : Creating(r)}) < MaxEntries
RoomToEdit(e) ==
  entries[e].version
    + Cardinality({r \in Requests : req[r].op = "edit" /\ req[r].entry = e})
    < MaxVersion

-----------------------------------------------------------------------------
(* Creating an entry, alone or in the place of one of the other kind. *)

(* The call starts with the fast path: a key already spent on this kind    *)
(* answers with the entry it made, and the ledger is left alone.           *)
Submit(r, op, c, k, source) ==
  /\ op \in Ops /\ InPhase(r, "idle") /\ RoomToInsert
  /\ ~KeyNames(k, c.kind)
  /\ req' = [req EXCEPT ![r] = Call(op, "lock", c, source, k, None, None, None)]
  /\ UNCHANGED <<book, locks>>

Create(r) ==
  \E c \in Contents, k \in Keys \cup {None} : Submit(r, "create", c, k, None)

Convert(r) ==
  \E c \in Contents, k \in Keys \cup {None}, e \in Entries :
    /\ Exists(entries, e) /\ entries[e].content.kind # c.kind
    /\ Submit(r, "convert", c, k, e)

Locked(r) == Names(req[r].content)

(* Mutant: FOR UPDATE, a lock that two calls cannot share. *)
RowAlone(p) == removal[p] = None /\ shared[p] = {}
RowFree(p) == removal[p] = None

(* SELECT ... FOR SHARE on everyone named, with no ORDER BY: one row after *)
(* the other in any order, holding those it has, and waiting for a removal *)
(* that holds the next.  Whose row is held cannot leave or come back, so   *)
(* what the query returns of each of them is so when all are held.         *)
LockRow(r) ==
  /\ InPhase(r, "lock")
  /\ \E p \in Locked(r) :
       /\ r \notin shared[p] /\ RowFree(p)
       /\ shared' = [shared EXCEPT ![p] = @ \cup {r}]
  /\ UNCHANGED <<book, removal, req>>

AllLocked(r) == InPhase(r, "lock") /\ \A p \in Locked(r) : r \in shared[p]

(* Mutant: only the payers are looked up. *)
GonePayers(r) == DOMAIN req[r].content.payers \cap removed
Gone(r) == Names(req[r].content) \cap removed

(* Everyone named is in the group, or was on the entry before this edit. *)
AcceptNamed(r) ==
  /\ AllLocked(r)
  /\ Gone(r) \subseteq req[r].previous
  /\ Advance(r, "write")
  /\ UNCHANGED <<book, locks>>

(* A new repayment may name somebody removed, to clear what they left. *)
ClearRemoved(r) ==
  /\ AllLocked(r)
  /\ Creating(r) /\ KindOf(r) = "settlement" /\ Gone(r) # {}
  /\ Advance(r, "expenses")
  /\ UNCHANGED <<book, locks>>

RefuseRemoved(r) ==
  /\ AllLocked(r)
  /\ ~(Gone(r) \subseteq req[r].previous)
  /\ ~(Creating(r) /\ KindOf(r) = "settlement")
  /\ RollBack(r)

(* It pays a debt of the payer or a credit of the payee, and no more. *)
Outstanding(r, p) ==
  LET balance == SeenBalance(req[r].seen, p) IN
  IF p \in DOMAIN req[r].content.payers THEN -balance ELSE balance
(* Mutant: what is outstanding, either way. *)
ClearsEitherWay(r, p) ==
  LET amount == Total(req[r].content.payers) IN
  amount <= Outstanding(r, p) \/ amount <= -Outstanding(r, p)
Clears(r, p) ==
  Outstanding(r, p) > 0 /\ Total(req[r].content.payers) <= Outstanding(r, p)

MayWrite(r) ==
  KindOf(r) = "settlement" /\ Gone(r) # {} =>
    SeenBalanced(req[r].seen) /\ \A p \in Gone(r) : Clears(r, p)

(* Mutant: no unique index on the key. *)
KeyUnchecked(r) == TRUE
KeyFree(r) == req[r].key # None => spent[req[r].key] = None
(* Mutant: the deletion half of a conversion finds an entry already gone. *)
SourceUnchecked(r) == TRUE
SourceLive(r) == req[r].op = "convert" => entries[req[r].entry].live

WriteNew(r) ==
  LET c == req[r].content  k == req[r].key  source == req[r].entry IN
  /\ InPhase(r, "write") /\ Creating(r)
  /\ MayWrite(r) /\ KeyFree(r) /\ SourceLive(r)
  /\ \E e \in Entries :
       /\ IsNextId(entries, e)
       /\ entries' = [d \in Entries |->
                        IF d = e THEN Row(c, k, source)
                        ELSE IF d = source THEN [entries[d] EXCEPT !.live = FALSE]
                        ELSE entries[d]]
       /\ spent' = IF k = None THEN spent ELSE [spent EXCEPT ![k] = e]
  /\ UNCHANGED removed
  /\ End(r)

(* A refused repayment, a unique violation on the key, which is answered   *)
(* with the entry the key names when that is of this kind, or a source     *)
(* that is already gone: the copy of the new row goes with the rollback.   *)
RefuseNew(r) ==
  /\ InPhase(r, "write") /\ Creating(r)
  /\ ~(MayWrite(r) /\ KeyFree(r) /\ SourceLive(r))
  /\ RollBack(r)

-----------------------------------------------------------------------------
(* Editing an entry. *)

(* A form is opened on what the entry says now, and submitted later. *)
Open(r) ==
  /\ "edit" \in Ops /\ InPhase(r, "idle")
  /\ \E e \in Entries, c \in Contents, versioned \in Versioned :
       /\ IsKind(entries, e, c.kind) /\ entries[e].live /\ RoomToEdit(e)
       /\ req' = [req EXCEPT ![r] =
                    Call("edit", "existing", c, e, None,
                         IF versioned THEN entries[e].version ELSE None,
                         entries[e].content, None)]
  /\ UNCHANGED <<book, locks>>

(* A repayment's two sides are read with the row itself. *)
ReadExisting(r) ==
  LET e == req[r].entry IN
  /\ InPhase(r, "existing") /\ entries[e].live
  /\ req' = [req EXCEPT ![r].phase =
               IF KindOf(r) = "settlement" THEN "lock" ELSE "previousPayers",
             ![r].previous =
               IF KindOf(r) = "settlement" THEN Names(entries[e].content) ELSE {}]
  /\ UNCHANGED <<book, locks>>

RefuseDeleted(r) ==
  InPhase(r, "existing") /\ ~entries[req[r].entry].live /\ RollBack(r)

(* participantsOfExpense: the payers, then the shares. *)
ReadPreviousPayers(r) ==
  /\ InPhase(r, "previousPayers")
  /\ req' = [req EXCEPT ![r].phase = "previousShares",
               ![r].previous = DOMAIN entries[req[r].entry].content.payers]
  /\ UNCHANGED <<book, locks>>

ReadPreviousShares(r) ==
  /\ InPhase(r, "previousShares")
  /\ req' = [req EXCEPT ![r].phase = "lock",
               ![r].previous =
                 req[r].previous \cup DOMAIN entries[req[r].entry].content.shares]
  /\ UNCHANGED <<book, locks>>

(* The UPDATE checks the version, and not that the entry is still live. *)
(* Mutant: any version from the one the edit was made from passes. *)
VersionReached(r) ==
  req[r].expected # None => entries[req[r].entry].version >= req[r].expected
VersionHolds(r) ==
  req[r].expected # None => entries[req[r].entry].version = req[r].expected

WriteEdit(r) ==
  /\ InPhase(r, "write") /\ req[r].op = "edit" /\ VersionHolds(r)
  /\ entries' = [entries EXCEPT ![req[r].entry].content = req[r].content,
                                ![req[r].entry].version = @ + 1]
  /\ UNCHANGED <<removed, spent>>
  /\ End(r)

RefuseEdit(r) ==
  /\ InPhase(r, "write") /\ req[r].op = "edit" /\ ~VersionHolds(r)
  /\ RollBack(r)

-----------------------------------------------------------------------------
(* Deleting an entry, and the undo of it: one UPDATE that names no person. *)

Stamp(op, e, live) ==
  /\ op \in Ops
  /\ Exists(entries, e) /\ entries[e].live # live
  /\ entries' = [entries EXCEPT ![e].live = live]
  /\ UNCHANGED <<removed, spent, locks, req>>

Delete(e) == Stamp("delete", e, FALSE)
Undelete(e) == Stamp("undelete", e, TRUE)

-----------------------------------------------------------------------------
(* Taking a person out of the group, and putting them back. *)

Removable(p) == p # Owner /\ p \notin removed

(* Mutant: a lock mode that FOR SHARE does not conflict with. *)
TargetUnshared(p) == removal[p] = None
TargetFree(p) == removal[p] = None /\ shared[p] = {}

LockTarget(r, p) ==
  /\ "remove" \in Ops /\ InPhase(r, "idle")
  /\ Removable(p) /\ TargetFree(p)
  /\ removal' = [removal EXCEPT ![p] = r]
  /\ req' = [req EXCEPT ![r] =
               Call("remove", "expenses", None, None, None, None, None, p)]
  /\ UNCHANGED <<book, shared>>

LiveExpenses == LiveOf(entries, "expense")

Saw(r, next, seen) ==
  /\ req' = [req EXCEPT ![r].phase = next, ![r].seen = seen]
  /\ UNCHANGED <<book, locks>>

ReadExpenses(r) ==
  /\ InPhase(r, "expenses")
  /\ Saw(r, "payers", [req[r].seen EXCEPT !.direction =
                          [e \in LiveExpenses |-> entries[e].content.dir]])

ReadPayers(r) ==
  /\ InPhase(r, "payers")
  /\ Saw(r, "shares", [req[r].seen EXCEPT !.payers =
                          [e \in LiveExpenses |-> entries[e].content.payers]])

ReadShares(r) ==
  /\ InPhase(r, "shares")
  /\ Saw(r, "settlements", [req[r].seen EXCEPT !.shares =
                               [e \in LiveExpenses |-> entries[e].content.shares]])

ReadSettlements(r) ==
  /\ InPhase(r, "settlements")
  /\ Saw(r, "write", [req[r].seen EXCEPT !.settlements =
                         [e \in LiveOf(entries, "settlement") |-> entries[e].content]])

(* Mutant: only those who owe are refused. *)
OwesNothing(r) ==
  LET s == req[r].seen IN SeenBalanced(s) /\ SeenBalance(s, req[r].person) >= 0
Square(r) ==
  LET s == req[r].seen IN SeenBalanced(s) /\ SeenBalance(s, req[r].person) = 0

Remove(r) ==
  /\ InPhase(r, "write") /\ req[r].op = "remove" /\ Square(r)
  /\ removed' = removed \cup {req[r].person}
  /\ UNCHANGED <<entries, spent>>
  /\ End(r)

RefuseRemoval(r) ==
  /\ InPhase(r, "write") /\ req[r].op = "remove" /\ ~Square(r)
  /\ RollBack(r)

(* One UPDATE of the person's row, which waits for both kinds of lock. *)
RestorePerson(p) ==
  /\ "restore" \in Ops /\ p \in removed
  /\ shared[p] = {} /\ removal[p] = None
  /\ removed' = removed \ {p}
  /\ UNCHANGED <<entries, spent, locks, req>>

-----------------------------------------------------------------------------
(* The connection or the server is lost before the commit. *)
Crash(r) == ~InPhase(r, "idle") /\ RollBack(r)

Init ==
  /\ Book!Init
  /\ shared = [p \in People |-> {}]
  /\ removal = [p \in People |-> None]
  /\ req = [r \in Requests |-> Idle]

(* The statements of a transaction that has begun, but for the row locks. *)
Proceed(r) ==
  \/ AcceptNamed(r) \/ ClearRemoved(r) \/ RefuseRemoved(r)
  \/ ReadExisting(r) \/ RefuseDeleted(r)
  \/ ReadPreviousPayers(r) \/ ReadPreviousShares(r)
  \/ ReadExpenses(r) \/ ReadPayers(r) \/ ReadShares(r) \/ ReadSettlements(r)
  \/ WriteNew(r) \/ RefuseNew(r)
  \/ WriteEdit(r) \/ RefuseEdit(r)
  \/ Remove(r) \/ RefuseRemoval(r)

Next ==
  \/ \E r \in Requests :
       \/ Create(r) \/ Convert(r) \/ Open(r)
       \/ \E p \in People : LockTarget(r, p)
       \/ LockRow(r) \/ Proceed(r) \/ Crash(r)
  \/ \E e \in Entries : Delete(e) \/ Undelete(e)
  \/ \E p \in People : RestorePerson(p)

Spec == Init /\ [][Next]_vars

(* A statement that has nothing to wait for completes.  One that waits for *)
(* a removal's row lock is in PostgreSQL's queue for the tuple, so it does *)
(* not lose the row to removals that come after it for ever.               *)
Fairness ==
  \A r \in Requests : WF_vars(Proceed(r)) /\ SF_vars(LockRow(r))
FairSpec == Spec /\ Fairness

-----------------------------------------------------------------------------
(* Properties. *)

Balancing == {"expenses", "payers", "shares", "settlements"}
Phases == {"idle", "existing", "previousPayers", "previousShares", "lock", "write"}
            \cup Balancing

ReadOf(V) == UNION {[S -> V] : S \in SUBSET Entries}
Seen == [direction : ReadOf({c.dir : c \in Contents}),
         payers : ReadOf({c.payers : c \in Contents}),
         shares : ReadOf({c.shares : c \in Contents}),
         settlements : ReadOf(Contents)]
Calls == [op : {"none", "create", "convert", "edit", "remove"}, phase : Phases,
          content : Contents \cup {None}, entry : Entries \cup {None},
          key : Keys \cup {None}, expected : Nat \cup {None},
          opened : Contents \cup {None}, previous : SUBSET People,
          person : People \cup {None}, seen : Seen]

(* Every variable has its type, and the owner is in the group. *)
TypeOK ==
  /\ removed \in SUBSET (People \ {Owner})
  /\ entries \in [Entries -> Rows \cup {Absent}]
  /\ spent \in [Keys -> Entries \cup {None}]
  /\ shared \in [People -> SUBSET Requests]
  /\ removal \in [People -> Requests \cup {None}]
  /\ req \in [Requests -> Calls]

(* The two row locks exclude each other, and a call past its lock still    *)
(* holds everyone it names: nobody it has checked can have left since, and *)
(* a person being removed is on no entry that is about to be written.      *)
Writing(r) ==
  req[r].op \in {"create", "convert", "edit"}
    /\ req[r].phase \in Balancing \cup {"write"}
LockExclusion ==
  /\ \A p \in People : removal[p] # None => shared[p] = {}
  /\ \A r \in Requests : Writing(r) =>
       \A p \in Names(req[r].content) : r \in shared[p]

(* What each kind of call carries, by the phase it has reached. *)
CallShape ==
  \A r \in Requests :
    LET q == req[r] IN
    /\ q.op = "none" <=> q.phase = "idle"
    /\ q.op \in {"create", "convert"} => q.phase \in Balancing \cup {"lock", "write"}
    /\ q.op = "remove" => q.phase \in Balancing \cup {"write"}
    /\ q.op = "edit" => q.phase \notin Balancing
    /\ q.op \in {"create", "convert", "edit"} => q.content \in Contents
    /\ q.op = "create" => q.entry = None
    /\ q.op \in {"convert", "edit"} =>
         q.entry \in Entries /\ Exists(entries, q.entry)
    /\ q.op = "convert" => entries[q.entry].content.kind # q.content.kind
    /\ q.op = "edit" => entries[q.entry].content.kind = q.content.kind

(* A removal holds the row of somebody who is still in the group. *)
TargetHeld ==
  \A r \in Requests : req[r].op = "remove" =>
    /\ req[r].person \in People \ (removed \cup {Owner})
    /\ removal[req[r].person] = r

(* Whoever a call names past its lock is in the group, but for those an    *)
(* edit found on the entry and those a new repayment may be clearing.      *)
NamedStay ==
  \A r \in Requests : Writing(r) =>
    \/ Gone(r) \subseteq req[r].previous
    \/ Creating(r) /\ KindOf(r) = "settlement"

(* What an edit read of the entry is what the entry still says, as long as *)
(* the entry has the version the edit carries.                             *)
EditsFresh ==
  \A r \in Requests : req[r].op = "edit" /\ req[r].expected # None =>
    LET row == entries[req[r].entry] IN
    /\ req[r].expected <= row.version
    /\ row.version = req[r].expected =>
         row.content = req[r].opened /\ req[r].previous \subseteq Names(row.content)

CreatesAddNobody == \A r \in Requests : Creating(r) => req[r].previous = {}

IndInv == TypeOK /\ LockExclusion /\ CallShape /\ TargetHeld /\ NamedStay
            /\ EditsFresh /\ CreatesAddNobody

(* While somebody's removal is being decided no entry gains them: a debt   *)
(* the removal did not see cannot be added beneath it.                     *)
RemovalShutsOut ==
  [][\A p \in People, e \in Entries :
       /\ removal[p] # None
       /\ entries'[e] # Absent /\ p \in Names(entries'[e].content)
       => entries[e] # Absent /\ p \in Names(entries[e].content)]_vars

(* An edit that carries a version overwrites only what its author saw,     *)
(* whatever else was edited, deleted or put back in between.               *)
EditOverwritesWhatItSaw ==
  [][\A r \in Requests :
       WriteEdit(r) /\ req[r].expected # None
         => entries[req[r].entry].content = req[r].opened]_vars

(* A key makes one entry at most, and names it for good, deletion included. *)
OneEntryPerKey ==
  \A k \in Keys, e \in Entries :
    Exists(entries, e) /\ entries[e].key = k <=> spent[k] = e

(* Where nothing is undone, a replaced entry stays gone and has exactly    *)
(* one replacement: the same money is never counted twice.                 *)
ReplacedOnce ==
  \A d, e \in Entries :
    entries[e].replaces = d =>
      /\ ~entries[d].live
      /\ \A f \in Entries : entries[f].replaces = d => f = e

(* The operations take effect as if each were one step. *)
ImplementsBook == Book!Spec

(* What a balance check has read is still so.                              *)
Stands(s) ==
  /\ \A e \in DOMAIN s.direction :
       /\ entries[e].live /\ entries[e].content.dir = s.direction[e]
       /\ entries[e].content.payers = SeenRow(s.payers, e)
       /\ entries[e].content.shares = SeenRow(s.shares, e)
  /\ \A e \in DOMAIN s.settlements :
       entries[e].live /\ entries[e].content = s.settlements[e]

(* A person's removal commits only while they are square, whatever was     *)
(* created meanwhile, unless what the removal has read was edited or       *)
(* deleted, which takes no lock on them, or something was undeleted.       *)
RemovedWhenSquare ==
  [][\A r \in Requests : Remove(r) /\ Stands(req[r].seen)
       => Balance(entries, req[r].person) = 0]_vars

(* A repayment recorded for somebody removed moves their balance towards   *)
(* zero and not past it, unless the ledger has changed since it was read.  *)
Settles(p) ==
  LET before == Balance(entries, p)  after == Balance(entries', p) IN
  IF before > 0 THEN after \in 0..before ELSE after \in before..0
SeenAll(s) ==
  Stands(s) /\ DOMAIN s.direction = LiveExpenses
            /\ DOMAIN s.settlements = LiveOf(entries, "settlement")
RepaymentClears ==
  [][\A r \in Requests :
       /\ WriteNew(r) /\ req[r].op = "create" /\ KindOf(r) = "settlement"
       /\ SeenAll(req[r].seen)
       => \A p \in Gone(r) : Settles(p)]_vars

(* A repayment that names somebody removed can close a debt, and never     *)
(* opens one, however it came to be written.                               *)
RepaymentOpensNoDebt ==
  [][\A e \in Entries :
       entries[e] = Absent /\ IsKind(entries', e, "settlement") =>
         \A p \in Names(entries'[e].content) \cap removed : Settles(p)]_vars

(* Every call that has begun comes to an end: whatever order the rows of   *)
(* those it names are locked in, no two calls, and no call and a removal,  *)
(* wait for each other.  (The model has no deadlock detector: calls that   *)
(* PostgreSQL would have to abort would stay here for ever.)               *)
CallsEnd == \A r \in Requests : ~InPhase(r, "idle") ~> InPhase(r, "idle")
=============================================================================
