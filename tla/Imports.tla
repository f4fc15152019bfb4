------------------------------- MODULE Imports -------------------------------
(***************************************************************************)
(* modules/imports/service.ts, commitImportRun: writing a staged file into *)
(* a group.  One transaction for the file, a savepoint for each row, and a *)
(* unique fingerprint for each line, by which a line that is already in    *)
(* the group is known.  The wizard's action commits while the person       *)
(* waits, and may be sent again meanwhile; two people may import one file. *)
(*                                                                         *)
(* A line stands for its fingerprint.  Who is named in it, and what it     *)
(* becomes, is left out: writing it may be refused for reasons of its own. *)
(* So is the fingerprint under which an earlier release took the same line *)
(* (`formerFingerprint`): no commit inserts one, so a line known by it is  *)
(* known to every commit, and is skipped like one that is in ReadPrints.   *)
(***************************************************************************)
EXTENDS Naturals, Sequences, FiniteSets, SequencesExt

CONSTANTS
  Lines,        \* fingerprints
  ImportRuns,   \* staged files
  FileOf,       \* the lines of each, in the file's order
  Commits,      \* requests under way, one at a time each
  NoImport      \* null

ASSUME NoImportAssumption == NoImport \notin ImportRuns
ASSUME FileAssumption ==
  /\ FileOf \in [ImportRuns -> Seq(Lines)]
  /\ \A i \in ImportRuns : IsInjective(FileOf[i])

VARIABLES
  completed,  \* runs whose status is that
  rowStatus,  \* import_rows.status, by run and line
  prints,     \* imported_fingerprints: the run each line came in by
  entries,    \* expenses and settlements written for each line
  commits     \* what each request has read, written and not committed

importVars == <<completed, rowStatus, prints, entries, commits>>

-----------------------------------------------------------------------------
RowStatus == {"pending", "imported", "skipped_duplicate", "error"}
Commit == [phase: {"idle", "rows", "prints", "write"}, run: ImportRuns \cup {NoImport},
           next: Nat, before: SUBSET Lines, known: SUBSET Lines,
           wrote: SUBSET Lines, marks: SUBSET (Lines \X RowStatus)]

NoCommit == [phase |-> "idle", run |-> NoImport, next |-> 1, before |-> {}, known |-> {},
             wrote |-> {}, marks |-> {}]

ImportTypeOK ==
  /\ completed \subseteq ImportRuns
  /\ rowStatus \in [ImportRuns \X Lines -> RowStatus]
  /\ prints \in [Lines -> ImportRuns \cup {NoImport}]
  /\ entries \in [Lines -> Nat]
  /\ commits \in [Commits -> Commit]
  \* a fingerprint not committed yet belongs to one request
  /\ \A c, d \in Commits : c # d => commits[c].wrote \cap commits[d].wrote = {}

\* a run is staged, and its people are mapped
ImportInit ==
  /\ completed = {}
  /\ rowStatus = [x \in ImportRuns \X Lines |-> "pending"]
  /\ prints = [l \in Lines |-> NoImport]
  /\ entries = [l \in Lines |-> 0]
  /\ commits = [c \in Commits |-> NoCommit]

-----------------------------------------------------------------------------
File(c) == FileOf[commits[c].run]
LinesLeft(c) == commits[c].phase = "write" /\ commits[c].next <= Len(File(c))
Line(c) == File(c)[commits[c].next]

\* the status is read before the transaction: a finished run is left alone
BeginCommit(c, i) ==
  /\ commits[c].phase = "idle" /\ i \notin completed
  /\ commits' = [commits EXCEPT ![c] = [NoCommit EXCEPT !.phase = "rows", !.run = i]]
  /\ UNCHANGED <<completed, rowStatus, prints, entries>>

\* in the transaction: the rows, and then the fingerprints the group has
ReadRows(c) ==
  /\ commits[c].phase = "rows"
  /\ commits' = [commits EXCEPT ![c].phase = "prints",
       ![c].before = {l \in Lines : rowStatus[<<commits[c].run, l>>] = "imported"}]
  /\ UNCHANGED <<completed, rowStatus, prints, entries>>

ReadPrints(c) ==
  /\ commits[c].phase = "prints"
  /\ commits' = [commits EXCEPT ![c].phase = "write",
       ![c].known = {l \in Lines : prints[l] # NoImport}]
  /\ UNCHANGED <<completed, rowStatus, prints, entries>>

-----------------------------------------------------------------------------
(* One row. *)

Marked(c, status) == commits[c].marks \cup {<<Line(c), status>>}

\* another request has marked the same row and not committed
RowHeld(c) ==
  \E d \in Commits \ {c} : /\ commits[d].run = commits[c].run
                           /\ \E mark \in commits[d].marks : mark[1] = Line(c)
\* another request has inserted the same fingerprint and not committed
PrintHeld(c) == \E d \in Commits \ {c} : Line(c) \in commits[d].wrote

PassRow(c) ==
  /\ LinesLeft(c) /\ Line(c) \in commits[c].before
  /\ commits' = [commits EXCEPT ![c].next = @ + 1]
  /\ UNCHANGED <<completed, rowStatus, prints, entries>>

NewRow(c) == LinesLeft(c) /\ Line(c) \notin commits[c].before

SkipDuplicate(c) ==
  /\ NewRow(c) /\ Line(c) \in commits[c].known /\ ~RowHeld(c)
  /\ commits' = [commits EXCEPT ![c].next = @ + 1, ![c].marks = Marked(c, "skipped_duplicate")]
  /\ UNCHANGED <<completed, rowStatus, prints, entries>>

TakenAsRead(c) == Line(c) \in commits[c].known

\* imported_fingerprints_group_fingerprint_unique
TakenPrint(c) == prints[Line(c)] # NoImport

\* the entry, its fingerprint and the row's mark, in a savepoint
WriteRow(c) ==
  /\ NewRow(c) /\ Line(c) \notin commits[c].known
  /\ ~PrintHeld(c) /\ ~TakenPrint(c)
  /\ commits' = [commits EXCEPT ![c].next = @ + 1, ![c].wrote = @ \cup {Line(c)},
                                ![c].marks = Marked(c, "imported")]
  /\ UNCHANGED <<completed, rowStatus, prints, entries>>

\* what a savepoint that was rolled back leaves on the row
ErrorMark == "error"

\* the fingerprint is taken by now, the entry is refused, or the two requests
\* wait for each other and this one is chosen: the savepoint is rolled back
FailRow(c) ==
  /\ NewRow(c) /\ Line(c) \notin commits[c].known /\ ~RowHeld(c)
  /\ commits' = [commits EXCEPT ![c].next = @ + 1, ![c].marks = Marked(c, ErrorMark)]
  /\ UNCHANGED <<completed, rowStatus, prints, entries>>

\* everything lands: rows, fingerprints, entries and the run's status
FinishCommit(c) ==
  LET i == commits[c].run IN
  /\ commits[c].phase = "write" /\ ~LinesLeft(c)
  /\ completed' = completed \cup {i}
  /\ rowStatus' = [x \in ImportRuns \X Lines |->
       IF x[1] = i /\ \E mark \in commits[c].marks : mark[1] = x[2]
         THEN (CHOOSE mark \in commits[c].marks : mark[1] = x[2])[2]
         ELSE rowStatus[x]]
  /\ prints' = [l \in Lines |-> IF l \in commits[c].wrote THEN i ELSE prints[l]]
  /\ entries' = [l \in Lines |-> IF l \in commits[c].wrote THEN entries[l] + 1 ELSE entries[l]]
  /\ commits' = [commits EXCEPT ![c] = NoCommit]

\* the process is lost, somebody mapped is gone: nothing lands
AbortCommit(c) ==
  /\ commits[c].phase # "idle"
  /\ commits' = [commits EXCEPT ![c] = NoCommit]
  /\ UNCHANGED <<completed, rowStatus, prints, entries>>

ImportNext ==
  \E c \in Commits :
    \/ \E i \in ImportRuns : BeginCommit(c, i)
    \/ ReadRows(c) \/ ReadPrints(c)
    \/ PassRow(c) \/ SkipDuplicate(c) \/ WriteRow(c) \/ FailRow(c)
    \/ FinishCommit(c) \/ AbortCommit(c)

ImportSpec == ImportInit /\ [][ImportNext]_importVars

-----------------------------------------------------------------------------
(* Properties. *)

\* A line's money is in the group once, and under its fingerprint, however many
\* requests commit files that hold it (service.ts:64-66).
LineOnce == \A l \in Lines : entries[l] = IF prints[l] = NoImport THEN 0 ELSE 1

\* What the report calls imported or already there is in the group: a request
\* that took another's word for it would leave the line out of both.
ReportTrue ==
  \A i \in ImportRuns, l \in Lines :
    rowStatus[<<i, l>>] \in {"imported", "skipped_duplicate"} => prints[l] # NoImport

\* Neither is a line's money there twice, nor does a report speak of money that is not there.
ImportSafety == LineOnce /\ ReportTrue

\* A row that has been imported goes on saying so ("Re-running a finished import
\* is a no-op", service.ts:615).  It fails: the status is read before the
\* transaction, and the second of two requests marks what the first has written.
ImportedStays ==
  [][\A x \in DOMAIN rowStatus :
       rowStatus[x] = "imported" => rowStatus'[x] = "imported"]_importVars
=============================================================================
