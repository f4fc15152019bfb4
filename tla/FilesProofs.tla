---------------------------- MODULE FilesProofs ----------------------------
(***************************************************************************)
(* Theorems about Imports and Attachments, for any number of files, lines  *)
(* and requests: a line's money is in the group once and a report speaks   *)
(* of no other; a group keeps no more files than it may, and no stored     *)
(* object is left that nobody will remove.                                 *)
(***************************************************************************)
EXTENDS Imports, Attachments, FiniteSetTheorems, TLAPS

-----------------------------------------------------------------------------
(* Imports                                                                 *)

Printed == {l \in Lines : prints[l] # NoImport}

(* What a request carries: it marks as imported only what it has written,  *)
(* and as a duplicate only what it has read a fingerprint of.              *)
CommitOK(call) ==
  /\ call \in Commit /\ call.next >= 1
  /\ call.phase # "idle" => call.run \in ImportRuns
  /\ \A mark \in call.marks :
       /\ mark[2] = "imported" => mark[1] \in call.wrote
       /\ mark[2] = "skipped_duplicate" => mark[1] \in call.known

(* What it has read is still so, and what it has written nobody else has.  *)
CommitSeen(call) ==
  /\ call.known \subseteq Printed
  /\ call.before \subseteq Printed
  /\ call.wrote \cap Printed = {}

CommitsOK ==
  /\ commits \in [Commits -> Commit]
  /\ \A c \in Commits : CommitOK(commits[c]) /\ CommitSeen(commits[c])
  /\ \A c, d \in Commits : c # d => commits[c].wrote \cap commits[d].wrote = {}

TablesOK ==
  /\ completed \subseteq ImportRuns
  /\ rowStatus \in [ImportRuns \X Lines -> RowStatus]
  /\ prints \in [Lines -> ImportRuns \cup {NoImport}]
  /\ entries \in [Lines -> Nat]

ImportInv == TablesOK /\ CommitsOK /\ LineOnce /\ ReportTrue

USE NoImportAssumption, FileAssumption

tables == <<completed, rowStatus, prints, entries>>

-----------------------------------------------------------------------------
(* A request that moves on without committing. *)
LEMMA OneCommit ==
  ASSUME ImportInv, UNCHANGED tables, NEW c \in Commits, NEW call,
         CommitOK(call), CommitSeen(call),
         \A d \in Commits : d # c => call.wrote \cap commits[d].wrote = {},
         commits' = [commits EXCEPT ![c] = call]
  PROVE  ImportInv'
  <1>1. commits' \in [Commits -> Commit]
    BY DEF ImportInv, CommitsOK, CommitOK
  <1>2. Printed' = Printed
    BY DEF Printed, tables
  <1>3. \A d \in Commits : commits'[d] = IF d = c THEN call ELSE commits[d]
    BY DEF ImportInv, CommitsOK
  <1>4. ASSUME NEW d \in Commits
        PROVE  (CommitOK(commits[d]) /\ CommitSeen(commits[d]))'
    <2>1. CASE d = c
      BY <1>2, <1>3, <2>1 DEF CommitOK, CommitSeen
    <2>2. CASE d # c
      BY <1>2, <1>3, <2>2 DEF ImportInv, CommitsOK, CommitOK, CommitSeen
    <2> QED BY <2>1, <2>2
  <1>5. ASSUME NEW d \in Commits, NEW e \in Commits, d # e
        PROVE  commits'[d].wrote \cap commits'[e].wrote = {}
    BY <1>3, <1>5 DEF ImportInv, CommitsOK
  <1>6. CommitsOK'
    BY <1>1, <1>4, <1>5 DEF CommitsOK
  <1>7. TablesOK' /\ LineOnce' /\ ReportTrue'
    BY DEF ImportInv, TablesOK, LineOnce, ReportTrue, tables
  <1> QED BY <1>6, <1>7 DEF ImportInv

LEMMA NoCommitOK == CommitOK(NoCommit) /\ CommitSeen(NoCommit) /\ NoCommit.wrote = {}
  <1>1. NoCommit \in Commit
    BY DEF NoCommit, Commit
  <1> QED BY <1>1 DEF CommitOK, CommitSeen, NoCommit

(* The line a request is at. *)
LEMMA AtALine ==
  ASSUME ImportInv, NEW c \in Commits, LinesLeft(c)
  PROVE  Line(c) \in Lines
  <1> DEFINE call == commits[c]
  <1>1. call.run \in ImportRuns /\ call.next \in Nat /\ call.next >= 1
        /\ call.next <= Len(FileOf[call.run])
    BY DEF ImportInv, CommitsOK, CommitOK, Commit, LinesLeft, File
  <1>2. FileOf[call.run] \in Seq(Lines)
    BY <1>1
  <1> HIDE DEF call
  <1>3. FileOf[call.run][call.next] \in Lines
    BY <1>1, <1>2
  <1> QED BY <1>3 DEF Line, File, call

-----------------------------------------------------------------------------
(* The reads. *)

LEMMA BeginKeeps ==
  ASSUME ImportInv, NEW c \in Commits, NEW i \in ImportRuns, BeginCommit(c, i)
  PROVE  ImportInv'
  <1> DEFINE call == [NoCommit EXCEPT !.phase = "rows", !.run = i]
  <1>1. /\ NoCommit \in Commit /\ NoCommit.next = 1 /\ NoCommit.before = {}
        /\ NoCommit.known = {} /\ NoCommit.wrote = {} /\ NoCommit.marks = {}
    BY NoCommitOK DEF CommitOK, NoCommit
  <1>2. call \in Commit
    BY <1>1 DEF Commit
  <1>3. /\ call.run = i /\ call.next = 1 /\ call.before = {}
        /\ call.known = {} /\ call.wrote = {} /\ call.marks = {}
    BY <1>1 DEF Commit
  <1>4. commits' = [commits EXCEPT ![c] = call]
    BY DEF BeginCommit
  <1> HIDE DEF call
  <1>5. CommitOK(call) /\ CommitSeen(call)
    BY <1>2, <1>3 DEF CommitOK, CommitSeen
  <1>6. \A d \in Commits : d # c => call.wrote \cap commits[d].wrote = {}
    BY <1>3
  <1> QED BY <1>4, <1>5, <1>6, OneCommit DEF BeginCommit, tables

(* Of a request in a phase, the fields that a step leaves. *)
LEMMA Moved ==
  ASSUME ImportInv, NEW c \in Commits
  PROVE  /\ commits[c] \in Commit /\ CommitOK(commits[c]) /\ CommitSeen(commits[c])
         /\ \A d \in Commits : d # c => commits[c].wrote \cap commits[d].wrote = {}
  BY DEF ImportInv, CommitsOK

LEMMA ReadRowsKeeps ==
  ASSUME ImportInv, NEW c \in Commits, ReadRows(c)
  PROVE  ImportInv'
  <1> DEFINE old == commits[c]
             imported == {l \in Lines : rowStatus[<<old.run, l>>] = "imported"}
             call == [old EXCEPT !.phase = "prints", !.before = imported]
  <1>1. old \in Commit /\ CommitOK(old) /\ CommitSeen(old) /\ old.phase = "rows"
    BY Moved DEF ReadRows
  <1>2. imported \subseteq Printed
    BY <1>1 DEF ImportInv, ReportTrue, CommitOK, Printed
  <1>3. commits' = [commits EXCEPT ![c] = call]
    BY DEF ReadRows
  <1>4. \A d \in Commits : d # c => old.wrote \cap commits[d].wrote = {}
    BY Moved
  <1> HIDE DEF old, imported
  <1>5. call \in Commit
    BY <1>1, <1>2 DEF Commit, Printed
  <1>6. /\ call.phase = "prints" /\ call.run = old.run /\ call.next = old.next
        /\ call.before = imported /\ call.known = old.known /\ call.wrote = old.wrote
        /\ call.marks = old.marks
    BY <1>1 DEF Commit
  <1> HIDE DEF call
  <1>7. CommitOK(call) /\ CommitSeen(call)
    BY <1>1, <1>2, <1>5, <1>6 DEF CommitOK, CommitSeen
  <1> QED BY <1>3, <1>4, <1>6, <1>7, OneCommit DEF ReadRows, tables

LEMMA ReadPrintsKeeps ==
  ASSUME ImportInv, NEW c \in Commits, ReadPrints(c)
  PROVE  ImportInv'
  <1> DEFINE old == commits[c]
             call == [old EXCEPT !.phase = "write", !.known = Printed]
  <1>1. old \in Commit /\ CommitOK(old) /\ CommitSeen(old) /\ old.phase = "prints"
    BY Moved DEF ReadPrints
  <1>3. commits' = [commits EXCEPT ![c] = call]
    BY DEF ReadPrints, Printed
  <1>4. \A d \in Commits : d # c => old.wrote \cap commits[d].wrote = {}
    BY Moved
  <1>8. \A mark \in old.marks : mark[2] = "skipped_duplicate" => mark[1] \in Printed
    BY <1>1 DEF CommitOK, CommitSeen
  <1> HIDE DEF old
  <1>5. call \in Commit
    BY <1>1 DEF Commit, Printed
  <1>6. /\ call.phase = "write" /\ call.run = old.run /\ call.next = old.next
        /\ call.before = old.before /\ call.known = Printed /\ call.wrote = old.wrote
        /\ call.marks = old.marks
    BY <1>1 DEF Commit
  <1> HIDE DEF call
  <1>7. CommitOK(call) /\ CommitSeen(call)
    BY <1>1, <1>5, <1>6, <1>8 DEF CommitOK, CommitSeen
  <1> QED BY <1>3, <1>4, <1>6, <1>7, OneCommit DEF ReadPrints, tables

-----------------------------------------------------------------------------
(* One row. *)

LEMMA PassRowKeeps ==
  ASSUME ImportInv, NEW c \in Commits, PassRow(c)
  PROVE  ImportInv'
  <1> DEFINE old == commits[c]
             call == [old EXCEPT !.next = @ + 1]
  <1>1. old \in Commit /\ CommitOK(old) /\ CommitSeen(old)
    BY Moved
  <1>3. commits' = [commits EXCEPT ![c] = call]
    BY DEF PassRow
  <1>4. \A d \in Commits : d # c => old.wrote \cap commits[d].wrote = {}
    BY Moved
  <1> HIDE DEF old
  <1>9. old.next + 1 \in Nat
    BY <1>1 DEF Commit
  <1>5. call \in Commit
    BY <1>1, <1>9 DEF Commit
  <1>6. /\ call.phase = old.phase /\ call.run = old.run /\ call.next = old.next + 1
        /\ call.before = old.before /\ call.known = old.known /\ call.wrote = old.wrote
        /\ call.marks = old.marks /\ old.next \in Nat
    BY <1>1 DEF Commit
  <1> HIDE DEF call
  <1>7. CommitOK(call) /\ CommitSeen(call)
    BY <1>1, <1>5, <1>6 DEF CommitOK, CommitSeen
  <1> QED BY <1>3, <1>4, <1>6, <1>7, OneCommit DEF PassRow, tables

(* A row is marked, and a line perhaps written. *)
LEMMA MarkKeeps ==
  ASSUME ImportInv, NEW c \in Commits, LinesLeft(c), UNCHANGED tables,
         NEW status \in RowStatus, NEW more \in SUBSET Lines,
         commits' = [commits EXCEPT ![c].next = @ + 1, ![c].wrote = @ \cup more,
                                    ![c].marks = Marked(c, status)],
         more \cap Printed = {},
         \A d \in Commits : d # c => more \cap commits[d].wrote = {},
         status = "imported" => Line(c) \in more,
         status = "skipped_duplicate" => Line(c) \in commits[c].known
  PROVE  ImportInv'
  <1> DEFINE old == commits[c]
             mark == <<Line(c), status>>
             call == [old EXCEPT !.next = @ + 1, !.wrote = @ \cup more,
                                 !.marks = old.marks \cup {mark}]
  <1>1. old \in Commit /\ CommitOK(old) /\ CommitSeen(old)
    BY Moved
  <1>2. mark \in Lines \X RowStatus /\ mark[1] = Line(c) /\ mark[2] = status
    BY AtALine
  <1>3. commits' = [commits EXCEPT ![c] = call]
    BY DEF Marked
  <1>4. \A d \in Commits : d # c => (old.wrote \cup more) \cap commits[d].wrote = {}
    BY Moved
  <1>8. status = "skipped_duplicate" => Line(c) \in old.known
    OBVIOUS
  <1> HIDE DEF old, mark
  <1>9. old.next + 1 \in Nat /\ old.marks \cup {mark} \in SUBSET (Lines \X RowStatus)
    BY <1>1, <1>2 DEF Commit
  <1>5. call \in Commit
    BY <1>1, <1>9 DEF Commit
  <1>6. /\ call.phase = old.phase /\ call.run = old.run /\ call.next = old.next + 1
        /\ call.before = old.before /\ call.known = old.known
        /\ call.wrote = old.wrote \cup more
        /\ call.marks = old.marks \cup {mark} /\ old.next \in Nat
    BY <1>1 DEF Commit
  <1> HIDE DEF call
  <1>7. CommitOK(call) /\ CommitSeen(call)
    BY <1>1, <1>2, <1>5, <1>6, <1>8 DEF CommitOK, CommitSeen
  <1> QED BY <1>3, <1>4, <1>6, <1>7, OneCommit

(* A row is marked, and no line written. *)
LEMMA MarkAloneKeeps ==
  ASSUME ImportInv, NEW c \in Commits, LinesLeft(c), UNCHANGED tables,
         NEW status \in RowStatus \ {"imported"},
         commits' = [commits EXCEPT ![c].next = @ + 1, ![c].marks = Marked(c, status)],
         status = "skipped_duplicate" => Line(c) \in commits[c].known
  PROVE  ImportInv'
  <1> DEFINE old == commits[c]
             mark == <<Line(c), status>>
             call == [old EXCEPT !.next = @ + 1, !.marks = old.marks \cup {mark}]
  <1>1. old \in Commit /\ CommitOK(old) /\ CommitSeen(old)
    BY Moved
  <1>2. mark \in Lines \X RowStatus /\ mark[1] = Line(c) /\ mark[2] = status
    BY AtALine
  <1>3. commits' = [commits EXCEPT ![c] = call]
    BY DEF Marked
  <1>4. \A d \in Commits : d # c => old.wrote \cap commits[d].wrote = {}
    BY Moved
  <1>8. status = "skipped_duplicate" => Line(c) \in old.known
    OBVIOUS
  <1> HIDE DEF old, mark
  <1>9. old.next + 1 \in Nat /\ old.marks \cup {mark} \in SUBSET (Lines \X RowStatus)
    BY <1>1, <1>2 DEF Commit
  <1>5. call \in Commit
    BY <1>1, <1>9 DEF Commit
  <1>6. /\ call.phase = old.phase /\ call.run = old.run /\ call.next = old.next + 1
        /\ call.before = old.before /\ call.known = old.known /\ call.wrote = old.wrote
        /\ call.marks = old.marks \cup {mark} /\ old.next \in Nat
    BY <1>1 DEF Commit
  <1> HIDE DEF call
  <1>7. CommitOK(call) /\ CommitSeen(call)
    BY <1>1, <1>2, <1>5, <1>6, <1>8 DEF CommitOK, CommitSeen
  <1> QED BY <1>3, <1>4, <1>6, <1>7, OneCommit

-----------------------------------------------------------------------------
(* Everything lands. *)
LEMMA FinishKeeps ==
  ASSUME ImportInv, NEW c \in Commits, FinishCommit(c)
  PROVE  ImportInv'
  <1> DEFINE old == commits[c]
             i == old.run
  <1>1. old \in Commit /\ CommitOK(old) /\ CommitSeen(old) /\ i \in ImportRuns
    BY Moved DEF FinishCommit, CommitOK
  <1>2. /\ prints' = [l \in Lines |-> IF l \in old.wrote THEN i ELSE prints[l]]
        /\ entries' = [l \in Lines |-> IF l \in old.wrote THEN entries[l] + 1 ELSE entries[l]]
        /\ completed' = completed \cup {i}
        /\ commits' = [commits EXCEPT ![c] = NoCommit]
    BY DEF FinishCommit
  <1>3. ASSUME NEW x \in ImportRuns \X Lines
        PROVE  \/ rowStatus'[x] = rowStatus[x]
               \/ \E mark \in old.marks : mark[1] = x[2] /\ rowStatus'[x] = mark[2]
    BY DEF FinishCommit
  <1>4. rowStatus' \in [ImportRuns \X Lines -> RowStatus]
    <2>1. \A mark \in old.marks : mark[2] \in RowStatus
      BY <1>1 DEF Commit
    <2>2. \A x \in ImportRuns \X Lines : rowStatus'[x] \in RowStatus
      BY <1>3, <2>1 DEF ImportInv, TablesOK
    <2> QED BY <2>2 DEF FinishCommit
  <1>5. TablesOK'
    BY <1>1, <1>2, <1>4 DEF ImportInv, TablesOK
  <1>6. \A l \in Lines : prints'[l] # NoImport <=> l \in Printed \/ l \in old.wrote
    BY <1>1, <1>2 DEF Printed
  <1>7. Printed' = Printed \cup old.wrote
    BY <1>1, <1>6 DEF Printed, Commit
  <1>8. LineOnce'
    <2> SUFFICES ASSUME NEW l \in Lines
                 PROVE  entries'[l] = IF prints'[l] = NoImport THEN 0 ELSE 1
      BY DEF LineOnce
    <2>1. entries[l] = IF prints[l] = NoImport THEN 0 ELSE 1
      BY DEF ImportInv, LineOnce
    <2>2. CASE l \in old.wrote
      <3>1. prints[l] = NoImport
        BY <1>1, <2>2 DEF CommitSeen, Printed
      <3> QED BY <1>1, <1>2, <2>1, <2>2, <3>1
    <2>3. CASE l \notin old.wrote
      BY <1>2, <2>1, <2>3
    <2> QED BY <2>2, <2>3
  <1>9. ReportTrue'
    <2> SUFFICES ASSUME NEW j \in ImportRuns, NEW l \in Lines,
                        rowStatus'[<<j, l>>] \in {"imported", "skipped_duplicate"}
                 PROVE  prints'[l] # NoImport
      BY DEF ReportTrue
    <2>1. CASE rowStatus'[<<j, l>>] = rowStatus[<<j, l>>]
      BY <1>6, <2>1 DEF ImportInv, ReportTrue, Printed
    <2>2. CASE \E mark \in old.marks : mark[1] = l /\ rowStatus'[<<j, l>>] = mark[2]
      <3>1. PICK mark \in old.marks : mark[1] = l /\ rowStatus'[<<j, l>>] = mark[2]
        BY <2>2
      <3>2. l \in old.wrote \/ l \in old.known
        BY <1>1, <3>1 DEF CommitOK
      <3> QED BY <1>1, <1>6, <3>2 DEF CommitSeen
    <2>3. <<j, l>> \in ImportRuns \X Lines /\ <<j, l>>[2] = l
      OBVIOUS
    <2> QED BY <1>3, <2>1, <2>2, <2>3
  <1>10. ASSUME NEW d \in Commits
         PROVE  commits'[d] = IF d = c THEN NoCommit ELSE commits[d]
    BY <1>2 DEF ImportInv, CommitsOK
  <1>11. commits' \in [Commits -> Commit]
    BY <1>2, NoCommitOK DEF CommitOK, ImportInv, CommitsOK
  <1>12. ASSUME NEW d \in Commits
         PROVE  (CommitOK(commits[d]) /\ CommitSeen(commits[d]))'
    <2>1. CASE d = c
      BY <1>10, <2>1, NoCommitOK DEF CommitOK, CommitSeen, NoCommit
    <2>2. CASE d # c
      <3>1. CommitOK(commits[d]) /\ CommitSeen(commits[d])
            /\ old.wrote \cap commits[d].wrote = {}
        BY <2>2, Moved
      <3> QED BY <1>7, <1>10, <2>2, <3>1 DEF CommitOK, CommitSeen
    <2> QED BY <2>1, <2>2
  <1>13. ASSUME NEW d \in Commits, NEW e \in Commits, d # e
         PROVE  commits'[d].wrote \cap commits'[e].wrote = {}
    BY <1>10, <1>13, NoCommitOK DEF ImportInv, CommitsOK
  <1>14. CommitsOK'
    BY <1>11, <1>12, <1>13 DEF CommitsOK
  <1> QED BY <1>5, <1>8, <1>9, <1>14 DEF ImportInv

-----------------------------------------------------------------------------
LEMMA ImportStepKeeps == ImportInv /\ [ImportNext]_importVars => ImportInv'
  <1> SUFFICES ASSUME ImportInv, [ImportNext]_importVars PROVE ImportInv'
    OBVIOUS
  <1>1. ASSUME NEW c \in Commits, NEW i \in ImportRuns, BeginCommit(c, i) PROVE ImportInv'
    BY <1>1, BeginKeeps
  <1>2. ASSUME NEW c \in Commits, ReadRows(c) PROVE ImportInv'
    BY <1>2, ReadRowsKeeps
  <1>3. ASSUME NEW c \in Commits, ReadPrints(c) PROVE ImportInv'
    BY <1>3, ReadPrintsKeeps
  <1>4. ASSUME NEW c \in Commits, PassRow(c) PROVE ImportInv'
    BY <1>4, PassRowKeeps
  <1>5. ASSUME NEW c \in Commits, SkipDuplicate(c) PROVE ImportInv'
    BY <1>5, MarkAloneKeeps DEF SkipDuplicate, NewRow, tables, RowStatus
  <1>6. ASSUME NEW c \in Commits, WriteRow(c) PROVE ImportInv'
    <2> DEFINE more == {Line(c)}
    <2>1. LinesLeft(c) /\ Line(c) \in Lines
      BY <1>6, AtALine DEF WriteRow, NewRow
    <2>2. more \in SUBSET Lines /\ more \cap Printed = {} /\ "imported" \in RowStatus
      BY <1>6, <2>1 DEF WriteRow, TakenPrint, Printed, RowStatus
    <2>3. \A d \in Commits : d # c => more \cap commits[d].wrote = {}
      BY <1>6 DEF WriteRow, PrintHeld
    <2> QED BY <1>6, <2>1, <2>2, <2>3, MarkKeeps DEF WriteRow, tables
  <1>7. ASSUME NEW c \in Commits, FailRow(c) PROVE ImportInv'
    <2>1. "error" \in RowStatus \ {"imported"}
      BY DEF RowStatus
    <2>2. /\ LinesLeft(c) /\ UNCHANGED tables
          /\ commits' = [commits EXCEPT ![c].next = @ + 1, ![c].marks = Marked(c, "error")]
      BY <1>7 DEF FailRow, NewRow, ErrorMark, tables
    <2> HIDE DEF Marked
    <2> QED BY <2>1, <2>2, MarkAloneKeeps
  <1>8. ASSUME NEW c \in Commits, FinishCommit(c) PROVE ImportInv'
    BY <1>8, FinishKeeps
  <1>9. ASSUME NEW c \in Commits, AbortCommit(c) PROVE ImportInv'
    BY <1>9, NoCommitOK, OneCommit DEF AbortCommit, tables
  <1>10. CASE UNCHANGED importVars
    BY <1>10 DEF importVars, ImportInv, TablesOK, CommitsOK, CommitOK, CommitSeen, Printed,
                 LineOnce, ReportTrue
  <1> QED BY <1>1, <1>2, <1>3, <1>4, <1>5, <1>6, <1>7, <1>8, <1>9, <1>10 DEF ImportNext

(* Every reachable state satisfies ImportInv. *)
THEOREM ImportsInductive == ImportSpec => []ImportInv
  <1>1. ImportInit => ImportInv
    <2> SUFFICES ASSUME ImportInit PROVE ImportInv
      OBVIOUS
    <2>1. CommitsOK
      BY NoCommitOK DEF ImportInit, CommitsOK, CommitOK
    <2>2. TablesOK /\ LineOnce
      BY DEF ImportInit, TablesOK, LineOnce, RowStatus
    <2>3. ReportTrue
      BY DEF ImportInit, ReportTrue
    <2> QED BY <2>1, <2>2, <2>3 DEF ImportInv
  <1> QED BY <1>1, ImportStepKeeps, PTL DEF ImportSpec

(* The variables keep their types, and two requests write no line both. *)
THEOREM ImportTypeCorrect == ImportSpec => []ImportTypeOK
  <1>1. ImportInv => ImportTypeOK
    BY DEF ImportInv, TablesOK, CommitsOK, ImportTypeOK
  <1> QED BY <1>1, ImportsInductive, PTL

(* A line's money is there once, and no report speaks of money that is not *)
(* (commitImportRun): the unique fingerprint decides between two requests. *)
THEOREM OnceAndReported == ImportSpec => []ImportSafety
  <1>1. ImportInv => ImportSafety
    BY DEF ImportInv, ImportSafety
  <1> QED BY <1>1, ImportsInductive, PTL

-----------------------------------------------------------------------------
(* Attachments                                                             *)

USE LocksAssumption, FilesAssumption, MaxFilesAssumption

(* What an upload has counted is not less than what there is: only the one *)
(* that holds the lock can add a row.                                      *)
CountedStands ==
  \A f \in Files : uploads[f].phase = "counted" => Cardinality(Kept) <= uploads[f].held

(* A file with a row, or in the sweeper's hands, is uploaded; and what the *)
(* sweeper has removed nobody puts back.                                   *)
UploadedOnce ==
  /\ \A f \in Files : rows[f] # "none" => uploads[f].phase = "over"
  /\ \A f \in sweep.todo \cup sweep.removed : uploads[f].phase = "over"
  /\ sweep.removed \cap objects = {}

(* The keys read for the deletion of the group name every row until the    *)
(* rows go, and none comes after.                                          *)
KeysRead ==
  /\ folder = "there" => groupKeys = {}
  /\ folder = "dropping" => \A f \in Files : rows[f] # "none" => f \in groupKeys
  /\ folder = "gone" => \A f \in Files : rows[f] = "none"

(* An object that no row names has somebody to remove it.                  *)
Underway(f) == uploads[f].phase \in {"stored", "counted", "failed"}

NamedOrRemoved ==
  \A f \in objects :
    \/ rows[f] # "none" \/ Underway(f) \/ f \in abandoned \cup lost
    \/ folder = "gone" /\ f \in groupKeys

AttachInv ==
  /\ AttachmentTypeOK /\ CountedStands /\ CeilingKept /\ UploadedOnce /\ KeysRead /\ NamedOrRemoved

-----------------------------------------------------------------------------
LEMMA FewerKept ==
  ASSUME NEW S, NEW T, T \subseteq Files, S \subseteq T
  PROVE  /\ Cardinality(S) \in Nat /\ Cardinality(T) \in Nat
         /\ Cardinality(S) <= Cardinality(T)
  BY FS_Subset, FS_CardinalityType

LEMMA OneMoreKept ==
  ASSUME NEW S, S \subseteq Files, NEW f \in Files
  PROVE  Cardinality(S \cup {f}) <= Cardinality(S) + 1
  <1>1. IsFiniteSet(S) /\ Cardinality(S) \in Nat
    BY FS_Subset, FS_CardinalityType
  <1>2. Cardinality(S \cup {f}) \in {Cardinality(S), Cardinality(S) + 1}
    BY <1>1, FS_AddElement
  <1> QED BY <1>1, <1>2

LEMMA AttachmentsBegin == AttachmentInit => AttachInv
  <1> SUFFICES ASSUME AttachmentInit PROVE AttachInv
    OBVIOUS
  <1> USE DEF AttachmentInit
  <1>1. Cardinality(Files) \in Nat
    BY FS_CardinalityType
  <1>2. AttachmentTypeOK
    BY <1>1 DEF AttachmentTypeOK, Upload, Sweep, NoSweep
  <1>3. Cardinality(Kept) = 0
    <2>1. Kept = {}
      BY DEF Kept
    <2> QED BY <2>1, FS_EmptySet
  <1>4. CountedStands /\ CeilingKept
    BY <1>3 DEF CountedStands, CeilingKept
  <1>5. UploadedOnce /\ KeysRead /\ NamedOrRemoved
    BY DEF UploadedOnce, KeysRead, NamedOrRemoved, NoSweep
  <1> QED BY <1>2, <1>4, <1>5 DEF AttachInv

(* An upload that moves on.                                                *)
LEMMA PhaseSet ==
  ASSUME AttachInv, NEW f \in Files,
         NEW phase \in {"none", "stored", "counted", "failed", "over"}, UploadPhase(f, phase)
  PROVE  /\ uploads' \in [Files -> Upload] /\ uploads'[f].phase = phase
         /\ \A g \in Files : g # f => uploads'[g] = uploads[g]
  <1> DEFINE upload == [uploads[f] EXCEPT !.phase = phase]
  <1>1. upload \in Upload /\ upload.phase = phase
    BY DEF AttachInv, AttachmentTypeOK, Upload
  <1>2. uploads' = [uploads EXCEPT ![f] = upload]
    BY DEF UploadPhase
  <1> HIDE DEF upload
  <1> QED BY <1>1, <1>2 DEF AttachInv, AttachmentTypeOK

(* A step that adds no row and starts no counting.                         *)
LEMMA RowsOnlyGo ==
  ASSUME AttachInv, Kept' \subseteq Kept,
         \A f \in Files : uploads'[f].phase = "counted" => uploads'[f] = uploads[f]
  PROVE  CountedStands' /\ CeilingKept'
  <1>1. Kept \subseteq Files
    BY DEF Kept
  <1>2. /\ Cardinality(Kept') \in Nat /\ Cardinality(Kept) \in Nat
        /\ Cardinality(Kept') <= Cardinality(Kept)
    BY <1>1, FewerKept
  <1>3. \A f \in Files : uploads[f].held \in Nat
    BY FS_CardinalityType DEF AttachInv, AttachmentTypeOK, Upload
  <1> QED BY <1>2, <1>3 DEF AttachInv, CountedStands, CeilingKept

LEMMA StoreUploadKeeps ==
  ASSUME AttachInv, NEW f \in Files, StoreUpload(f)
  PROVE  AttachInv'
  <1>1. /\ uploads[f].phase = "none" /\ folder # "gone" /\ objects' = objects \cup {f}
        /\ UploadPhase(f, "stored")
        /\ UNCHANGED <<folder, lock, rows, aged, deleting, groupKeys, sweep, abandoned, lost, faults>>
    BY DEF StoreUpload
  <1>2. /\ uploads' \in [Files -> Upload] /\ uploads'[f].phase = "stored"
        /\ \A g \in Files : g # f => uploads'[g] = uploads[g]
    BY <1>1, PhaseSet
  <1>3. AttachmentTypeOK'
    BY <1>1, <1>2 DEF AttachInv, AttachmentTypeOK
  <1>4. CountedStands' /\ CeilingKept'
    <2>1. Kept' \subseteq Kept
      BY <1>1 DEF Kept
    <2> QED BY <1>2, <2>1, RowsOnlyGo
  <1>5. sweep.todo \subseteq Files /\ sweep.removed \subseteq Files
    BY DEF AttachInv, AttachmentTypeOK, Sweep
  <1>6. UploadedOnce'
    BY <1>1, <1>2, <1>5 DEF AttachInv, UploadedOnce
  <1>7. KeysRead'
    BY <1>1 DEF AttachInv, KeysRead
  <1>8. NamedOrRemoved'
    BY <1>1, <1>2 DEF AttachInv, AttachmentTypeOK, NamedOrRemoved, Underway
  <1> QED BY <1>3, <1>4, <1>6, <1>7, <1>8 DEF AttachInv

LEMMA CountFilesKeeps ==
  ASSUME AttachInv, NEW f \in Files, CountFiles(f)
  PROVE  AttachInv'
  <1> DEFINE upload == [phase |-> "counted", held |-> Cardinality(Kept)]
  <1>1. /\ uploads[f].phase = "stored" /\ lock = NoLock /\ lock' = f
        /\ uploads' = [uploads EXCEPT ![f] = upload]
        /\ UNCHANGED <<folder, rows, aged, objects, deleting, groupKeys, sweep, abandoned, lost, faults>>
    BY DEF CountFiles, LockFree
  <1>2. Cardinality(Kept) \in 0..Cardinality(Files)
    <2>1. Kept \subseteq Files
      BY DEF Kept
    <2> QED BY <2>1, FewerKept
  <1>3. upload \in Upload /\ upload.phase = "counted" /\ upload.held = Cardinality(Kept)
    BY <1>2 DEF Upload
  <1> HIDE DEF upload
  <1>4. /\ uploads' \in [Files -> Upload] /\ uploads'[f] = upload
        /\ \A g \in Files : g # f => uploads'[g] = uploads[g]
    BY <1>1, <1>3 DEF AttachInv, AttachmentTypeOK
  <1>5. \A g \in Files : uploads'[g].phase = "counted" => g = f
    BY <1>1, <1>4 DEF AttachInv, AttachmentTypeOK
  <1>6. AttachmentTypeOK'
    <2>1. folder # "dropping"
      BY <1>1 DEF AttachInv, AttachmentTypeOK
    <2> QED BY <1>1, <1>4, <1>5, <2>1 DEF AttachInv, AttachmentTypeOK
  <1>7. CountedStands' /\ CeilingKept'
    <2>1. Kept' = Kept
      BY <1>1 DEF Kept
    <2> QED BY <1>2, <1>3, <1>4, <1>5, <2>1, FS_CardinalityType DEF AttachInv, CountedStands, CeilingKept
  <1>8. sweep.todo \subseteq Files /\ sweep.removed \subseteq Files
    BY DEF AttachInv, AttachmentTypeOK, Sweep
  <1>9. UploadedOnce'
    BY <1>1, <1>4, <1>8 DEF AttachInv, UploadedOnce
  <1>10. KeysRead'
    BY <1>1 DEF AttachInv, KeysRead
  <1>11. NamedOrRemoved'
    BY <1>1, <1>3, <1>4 DEF AttachInv, AttachmentTypeOK, NamedOrRemoved, Underway
  <1> QED BY <1>6, <1>7, <1>9, <1>10, <1>11 DEF AttachInv

LEMMA InsertRowKeeps ==
  ASSUME AttachInv, NEW f \in Files, InsertRow(f)
  PROVE  AttachInv'
  <1> DEFINE fits == folder # "gone" /\ uploads[f].held + 1 <= MaxFiles
             phase == IF fits THEN "over" ELSE "failed"
  <1>1. /\ uploads[f].phase = "counted" /\ lock' = NoLock
        /\ rows' = IF fits THEN [rows EXCEPT ![f] = "loose"] ELSE rows
        /\ UploadPhase(f, phase)
        /\ UNCHANGED <<folder, aged, objects, deleting, groupKeys, sweep, abandoned, lost, faults>>
    BY DEF InsertRow
  <1>2. /\ uploads' \in [Files -> Upload] /\ uploads'[f].phase = phase
        /\ \A g \in Files : g # f => uploads'[g] = uploads[g]
    BY <1>1, PhaseSet
  <1>3. lock = f /\ folder # "dropping" /\ rows[f] = "none"
    BY <1>1 DEF AttachInv, AttachmentTypeOK, UploadedOnce
  <1>4. \A g \in Files : uploads'[g].phase # "counted"
    BY <1>2, <1>3 DEF AttachInv, AttachmentTypeOK
  <1>5. /\ rows' \in [Files -> {"none", "loose", "linked", "deleted"}]
        /\ fits => rows'[f] = "loose"
        /\ \A g \in Files : g # f \/ ~fits => rows'[g] = rows[g]
    BY <1>1 DEF AttachInv, AttachmentTypeOK
  <1>6. AttachmentTypeOK'
    BY <1>1, <1>2, <1>3, <1>4, <1>5 DEF AttachInv, AttachmentTypeOK
  <1>7. CeilingKept'
    <2>1. Kept \subseteq Files
      BY DEF Kept
    <2>2. CASE fits
      <3>1. Kept' = Kept \cup {f}
        BY <1>5, <2>2 DEF Kept
      <3>2. Cardinality(Kept) <= uploads[f].held /\ uploads[f].held \in Nat
        BY <1>1, FS_CardinalityType DEF AttachInv, AttachmentTypeOK, Upload, CountedStands
      <3>3. Cardinality(Kept') <= Cardinality(Kept) + 1
        BY <2>1, <3>1, OneMoreKept
      <3>4. Cardinality(Kept) \in Nat /\ Cardinality(Kept') \in Nat
        BY <2>1, <3>1, FewerKept
      <3> QED BY <2>2, <3>2, <3>3, <3>4 DEF CeilingKept
    <2>3. CASE ~fits
      <3>1. Kept' = Kept
        BY <1>5, <2>3 DEF Kept
      <3> QED BY <3>1 DEF AttachInv, CeilingKept
    <2> QED BY <2>2, <2>3
  <1>8. CountedStands'
    BY <1>4 DEF CountedStands
  <1>9. sweep.todo \subseteq Files /\ sweep.removed \subseteq Files
    BY DEF AttachInv, AttachmentTypeOK, Sweep
  <1>10. UploadedOnce'
    BY <1>1, <1>2, <1>5, <1>9 DEF AttachInv, UploadedOnce
  <1>11. KeysRead'
    BY <1>1, <1>3, <1>5 DEF AttachInv, KeysRead
  <1>12. NamedOrRemoved'
    BY <1>1, <1>2, <1>5 DEF AttachInv, AttachmentTypeOK, NamedOrRemoved, Underway
  <1> QED BY <1>6, <1>7, <1>8, <1>10, <1>11, <1>12 DEF AttachInv

LEMMA UploadEndsKeeps ==
  ASSUME AttachInv, NEW f \in Files, TakeBackObject(f) \/ UploaderDies(f)
  PROVE  AttachInv'
  <1>1. /\ uploads[f].phase \in {"stored", "counted", "failed"} /\ UploadPhase(f, "over")
        /\ \/ objects' = objects \ {f} /\ abandoned' = abandoned /\ lost' = lost
           \/ /\ objects' = objects
              /\ abandoned' \cup lost' = abandoned \cup lost \cup {f}
        /\ abandoned' \subseteq abandoned \cup {f} /\ lost' \subseteq lost \cup {f}
        /\ lock' = lock \/ (lock = f /\ lock' = NoLock)
        /\ UNCHANGED <<folder, rows, aged, deleting, groupKeys, sweep>>
    BY DEF TakeBackObject, UploaderDies
  <1>2. /\ uploads' \in [Files -> Upload] /\ uploads'[f].phase = "over"
        /\ \A g \in Files : g # f => uploads'[g] = uploads[g]
    BY <1>1, PhaseSet
  <1>3. faults' \in 0..MaxFaults
    BY DEF TakeBackObject, UploaderDies, Fault, AttachInv, AttachmentTypeOK
  <1>4. AttachmentTypeOK'
    BY <1>1, <1>2, <1>3 DEF AttachInv, AttachmentTypeOK
  <1>5. CountedStands' /\ CeilingKept'
    <2>1. Kept' \subseteq Kept
      BY <1>1 DEF Kept
    <2> QED BY <1>2, <2>1, RowsOnlyGo
  <1>6. sweep.todo \subseteq Files /\ sweep.removed \subseteq Files
    BY DEF AttachInv, AttachmentTypeOK, Sweep
  <1>7. UploadedOnce'
    BY <1>1, <1>2, <1>6 DEF AttachInv, UploadedOnce
  <1>8. KeysRead'
    BY <1>1 DEF AttachInv, KeysRead
  <1>9. NamedOrRemoved'
    BY <1>1, <1>2 DEF AttachInv, AttachmentTypeOK, NamedOrRemoved, Underway
  <1> QED BY <1>4, <1>5, <1>7, <1>8, <1>9 DEF AttachInv

(* Steps of a row that stays a row.                                        *)
LEMMA RowChangesKeeps ==
  ASSUME AttachInv, NEW f \in Files, LinkUpload(f) \/ MarkDeleted(f) \/ GraceEnds(f)
  PROVE  AttachInv'
  <1>1. /\ rows[f] # "none"
        /\ \/ rows' = [rows EXCEPT ![f] = "linked"] /\ f \in Kept
           \/ rows' = [rows EXCEPT ![f] = "deleted"]
           \/ UNCHANGED rows
        /\ UNCHANGED <<folder, lock, objects, uploads, groupKeys, sweep, abandoned, lost, faults>>
    BY DEF LinkUpload, MarkDeleted, GraceEnds, Kept
  <1>2. /\ rows' \in [Files -> {"none", "loose", "linked", "deleted"}]
        /\ \A g \in Files : rows'[g] # "none" <=> rows[g] # "none"
    BY <1>1 DEF AttachInv, AttachmentTypeOK
  <1>3. AttachmentTypeOK'
    <2>1. aged' \subseteq Files /\ deleting' \subseteq Files
      BY DEF LinkUpload, MarkDeleted, GraceEnds, AttachInv, AttachmentTypeOK
    <2> QED BY <1>1, <1>2, <2>1 DEF AttachInv, AttachmentTypeOK
  <1>4. CountedStands' /\ CeilingKept'
    <2>1. Kept' \subseteq Kept
      BY <1>1 DEF Kept, AttachInv, AttachmentTypeOK
    <2> QED BY <1>1, <2>1, RowsOnlyGo
  <1>5. UploadedOnce' /\ KeysRead'
    BY <1>1, <1>2 DEF AttachInv, UploadedOnce, KeysRead
  <1>6. NamedOrRemoved'
    BY <1>1, <1>2 DEF AttachInv, AttachmentTypeOK, NamedOrRemoved, Underway
  <1> QED BY <1>3, <1>4, <1>5, <1>6 DEF AttachInv

(* Steps that remove an object, or leave it, and the sweeper's own.        *)
LEMMA ObjectsGoKeeps ==
  ASSUME AttachInv,
         \/ \E f \in Files : RemoveObject(f) \/ PurgeObject(f) \/ RemoveStored(f)
         \/ SelectOrphans \/ SelectDeleted \/ SweeperDies \/ RemoverDies
  PROVE  AttachInv'
  <1>1. UNCHANGED <<folder, lock, rows, aged, uploads>> /\ objects' \subseteq objects
    BY DEF RemoveObject, PurgeObject, RemoveStored, SelectOrphans, SelectDeleted, SweeperDies, RemoverDies
  <1>2. /\ deleting' \subseteq deleting
        /\ groupKeys' \subseteq groupKeys
        /\ abandoned \subseteq abandoned' /\ abandoned' \subseteq abandoned \cup Files
        /\ lost \subseteq lost' /\ lost' \subseteq lost \cup groupKeys
    BY DEF RemoveObject, PurgeObject, RemoveStored, SelectOrphans, SelectDeleted, SweeperDies, RemoverDies
  <1>3. faults' \in 0..MaxFaults
    <2>1. faults' = faults \/ Fault
      BY DEF RemoveObject, PurgeObject, RemoveStored, SelectOrphans, SelectDeleted, SweeperDies, RemoverDies
    <2> QED BY <2>1 DEF Fault, AttachInv, AttachmentTypeOK
  <1>4. /\ sweep' \in Sweep
        /\ \A g \in sweep'.todo : g \in sweep.todo \/ (g \in Files /\ rows[g] # "none")
        /\ \A g \in sweep'.removed : g \in sweep.removed \/ (g \in sweep.todo /\ g \notin objects')
    <2> USE DEF AttachInv, AttachmentTypeOK, Sweep
    <2>1. CASE UNCHANGED sweep
      BY <2>1
    <2>2. CASE SelectOrphans
      BY <2>2 DEF SelectOrphans, NoSweep
    <2>3. CASE SelectDeleted
      BY <2>3 DEF SelectDeleted, DeletedLong
    <2>4. CASE SweeperDies
      BY <2>4 DEF SweeperDies, NoSweep
    <2>5. ASSUME NEW f \in Files, PurgeObject(f)
          PROVE  /\ sweep' \in Sweep
                 /\ \A g \in sweep'.todo : g \in sweep.todo
                 /\ \A g \in sweep'.removed :
                      g \in sweep.removed \/ (g \in sweep.todo /\ g \notin objects')
      <3>1. f \in sweep.todo /\ sweep \in Sweep
        BY <2>5 DEF PurgeObject
      <3>2. CASE objects' = objects \ {f}
                 /\ sweep' = [sweep EXCEPT !.todo = @ \ {f}, !.removed = @ \cup {f}]
        <4> DEFINE less == [sweep EXCEPT !.todo = @ \ {f}]
        <4>1. /\ less \in Sweep /\ less.removed = sweep.removed /\ less.todo = sweep.todo \ {f}
          BY <3>1
        <4>2. sweep' = [less EXCEPT !.removed = sweep.removed \cup {f}]
          BY <3>2
        <4> HIDE DEF less
        <4>3. /\ sweep' \in Sweep /\ sweep'.todo = sweep.todo \ {f}
              /\ sweep'.removed = sweep.removed \cup {f}
          BY <4>1, <4>2
        <4> QED BY <3>1, <3>2, <4>3
      <3>3. CASE sweep' = [sweep EXCEPT !.todo = @ \ {f}]
        BY <3>1, <3>3
      <3> QED BY <2>5, <3>2, <3>3 DEF PurgeObject
    <2> QED BY <2>1, <2>2, <2>3, <2>4, <2>5 DEF RemoveObject, RemoveStored, RemoverDies
  <1>5. AttachmentTypeOK'
    BY <1>1, <1>2, <1>3, <1>4 DEF AttachInv, AttachmentTypeOK
  <1>6. CountedStands' /\ CeilingKept'
    <2>1. Kept' \subseteq Kept
      BY <1>1 DEF Kept
    <2> QED BY <1>1, <2>1, RowsOnlyGo
  <1>7. UploadedOnce'
    BY <1>1, <1>4 DEF AttachInv, UploadedOnce
  <1>8. KeysRead'
    <2>1. folder = "dropping" => groupKeys' = groupKeys
      BY DEF RemoveObject, PurgeObject, RemoveStored, SelectOrphans, SelectDeleted, SweeperDies, RemoverDies
    <2> QED BY <1>1, <1>2, <2>1 DEF AttachInv, KeysRead
  <1>9. NamedOrRemoved'
    <2>1. \A g \in objects' : g \in groupKeys => g \in groupKeys' \/ g \in abandoned' \cup lost'
      BY DEF RemoveObject, PurgeObject, RemoveStored, SelectOrphans, SelectDeleted, SweeperDies, RemoverDies
    <2> QED BY <1>1, <1>2, <2>1 DEF AttachInv, AttachmentTypeOK, NamedOrRemoved, Underway
  <1> QED BY <1>5, <1>6, <1>7, <1>8, <1>9 DEF AttachInv

LEMMA PurgeRowsKeeps ==
  ASSUME AttachInv, PurgeRows
  PROVE  AttachInv'
  <1>1. /\ rows' = [f \in Files |-> IF f \in sweep.removed THEN "none" ELSE rows[f]]
        /\ sweep' = NoSweep
        /\ UNCHANGED <<folder, lock, aged, objects, uploads, deleting, groupKeys, abandoned, lost, faults>>
    BY DEF PurgeRows, Purged
  <1>2. /\ rows' \in [Files -> {"none", "loose", "linked", "deleted"}]
        /\ \A f \in Files : rows'[f] = IF f \in sweep.removed THEN "none" ELSE rows[f]
    BY <1>1 DEF AttachInv, AttachmentTypeOK
  <1>3. sweep' \in Sweep /\ sweep'.todo = {} /\ sweep'.removed = {}
    BY <1>1 DEF NoSweep, Sweep
  <1>4. AttachmentTypeOK'
    BY <1>1, <1>2, <1>3 DEF AttachInv, AttachmentTypeOK
  <1>5. CountedStands' /\ CeilingKept'
    <2>1. Kept' \subseteq Kept
      BY <1>2 DEF Kept
    <2> QED BY <1>1, <2>1, RowsOnlyGo
  <1>6. UploadedOnce' /\ KeysRead'
    BY <1>1, <1>2, <1>3 DEF AttachInv, UploadedOnce, KeysRead
  <1>7. NamedOrRemoved'
    BY <1>1, <1>2 DEF AttachInv, AttachmentTypeOK, UploadedOnce, NamedOrRemoved, Underway
  <1> QED BY <1>4, <1>5, <1>6, <1>7 DEF AttachInv

LEMMA ReadGroupKeysKeeps ==
  ASSUME AttachInv, ReadGroupKeys
  PROVE  AttachInv'
  <1>1. /\ folder = "there" /\ folder' = "dropping" /\ lock = NoLock /\ lock' = GroupLock
        /\ groupKeys' = {f \in Files : rows[f] # "none"}
        /\ UNCHANGED <<rows, aged, objects, uploads, deleting, sweep, abandoned, lost, faults>>
    BY DEF ReadGroupKeys, LockFree
  <1>2. AttachmentTypeOK'
    BY <1>1 DEF AttachInv, AttachmentTypeOK
  <1>3. CountedStands' /\ CeilingKept'
    <2>1. Kept' \subseteq Kept
      BY <1>1 DEF Kept
    <2> QED BY <1>1, <2>1, RowsOnlyGo
  <1>4. UploadedOnce' /\ KeysRead'
    BY <1>1 DEF AttachInv, UploadedOnce, KeysRead
  <1>5. NamedOrRemoved'
    BY <1>1 DEF AttachInv, NamedOrRemoved, Underway
  <1> QED BY <1>2, <1>3, <1>4, <1>5 DEF AttachInv

LEMMA DropGroupKeeps ==
  ASSUME AttachInv, DropGroup
  PROVE  AttachInv'
  <1>1. /\ folder = "dropping" /\ lock = GroupLock /\ lock' = NoLock
        /\ UNCHANGED <<aged, objects, uploads, deleting, sweep, abandoned, lost>>
        /\ faults' \in 0..MaxFaults
        /\ \/ /\ folder' = "gone" /\ rows' = [f \in Files |-> "none"] /\ groupKeys' = groupKeys
           \/ /\ folder' = "there" /\ rows' = rows /\ groupKeys' = {}
    BY DEF DropGroup, Fault, AttachInv, AttachmentTypeOK
  <1>2. AttachmentTypeOK'
    BY <1>1 DEF AttachInv, AttachmentTypeOK
  <1>3. CountedStands' /\ CeilingKept'
    <2>1. Kept' \subseteq Kept
      BY <1>1 DEF Kept
    <2> QED BY <1>1, <2>1, RowsOnlyGo
  <1>4. UploadedOnce' /\ KeysRead'
    BY <1>1 DEF AttachInv, UploadedOnce, KeysRead
  <1>5. NamedOrRemoved'
    BY <1>1 DEF AttachInv, AttachmentTypeOK, KeysRead, NamedOrRemoved, Underway
  <1> QED BY <1>2, <1>3, <1>4, <1>5 DEF AttachInv

LEMMA AttachmentStepKeeps == AttachInv /\ [AttachmentNext]_attachmentVars => AttachInv'
  <1>1. ASSUME AttachInv, UNCHANGED attachmentVars PROVE AttachInv'
    BY <1>1 DEF attachmentVars, AttachInv, AttachmentTypeOK, CountedStands, CeilingKept, Kept,
                UploadedOnce, KeysRead, NamedOrRemoved, Underway
  <1>2. ASSUME AttachInv, AttachmentNext PROVE AttachInv'
    BY <1>2, StoreUploadKeeps, CountFilesKeeps, InsertRowKeeps, UploadEndsKeeps, RowChangesKeeps,
       ObjectsGoKeeps, PurgeRowsKeeps, ReadGroupKeysKeeps, DropGroupKeeps DEF AttachmentNext
  <1> QED BY <1>1, <1>2

(* Every reachable state satisfies AttachInv. *)
THEOREM AttachmentsInductive == AttachmentSpec => []AttachInv
  BY AttachmentsBegin, AttachmentStepKeeps, PTL DEF AttachmentSpec

(* One upload counts at a time, and none while the group's files are being *)
(* listed for deletion (uploadAttachment, storageKeysOfGroup).             *)
THEOREM AttachmentTypeCorrect == AttachmentSpec => []AttachmentTypeOK
  <1>1. AttachInv => AttachmentTypeOK
    BY DEF AttachInv
  <1> QED BY <1>1, AttachmentsInductive, PTL

(* However uploads, removals, sweeps and the deletion of the group fall    *)
(* together, a group keeps no more files than it may; and the only objects *)
(* left that nobody will remove are those whose removal failed without a   *)
(* row to try again by, those of uploads lost before their row, and those  *)
(* of a deleted group whose process was lost before it removed them.       *)
THEOREM AttachmentsSafe == AttachmentSpec => []AttachmentSafety
  <1>1. AttachInv => AttachmentSafety
    BY DEF AttachInv, NamedOrRemoved, Underway, AttachmentSafety, ObjectsAccounted, LedTo
  <1> QED BY <1>1, AttachmentsInductive, PTL
=============================================================================
