---------------------------- MODULE Attachments ----------------------------
(***************************************************************************)
(* modules/attachments/service.ts: the receipts of one group.  A receipt   *)
(* is a row and an object in storage under the row's key; the two cannot   *)
(* change together, and the order in which they do is what keeps either    *)
(* from outliving the other.  Files are identified by their key.  A file   *)
(* counts one; its bytes are left out.                                     *)
(***************************************************************************)
EXTENDS Naturals, FiniteSets

CONSTANTS
  Files,        \* keys that uploads may get
  GroupLock,    \* the deletion of the group, as a holder of the group's row
  NoLock,       \* null
  MaxFiles,     \* GROUP_STORAGE_MAX_FILES
  MaxFaults     \* bound: calls storage refuses, and processes lost

ASSUME LocksAssumption == {GroupLock, NoLock} \cap Files = {} /\ GroupLock # NoLock
ASSUME FilesAssumption == IsFiniteSet(Files)
ASSUME MaxFilesAssumption == MaxFiles \in Nat /\ MaxFaults \in Nat

VARIABLES
  folder,     \* the group's row: "there", "dropping" (its keys are read), "gone"
  lock,       \* who holds it against other uploads
  rows,       \* attachments: whether linked to an expense, marked deleted
  aged,       \* loose or deleted for longer than the sweeper's grace
  objects,    \* storage
  uploads,    \* where each upload stands, and how many files it counted
  deleting,   \* deleteAttachment between the row and the object
  groupKeys,  \* keys that removeStoredReceipts has still to remove
  sweep,      \* what sweepOrphanedAttachments has selected and removed
  abandoned,  \* objects whose last removal failed, and which no row names
  lost,       \* objects left by a process that was lost before it wrote their row, or
              \* after the commit that deleted it
  faults

attachmentVars == <<folder, lock, rows, aged, objects, uploads, deleting,
                    groupKeys, sweep, abandoned, lost, faults>>

-----------------------------------------------------------------------------
Upload == [phase: {"none", "stored", "counted", "failed", "over"}, held: 0..Cardinality(Files)]
Sweep == [phase: {"idle", "deleted", "purge"}, todo: SUBSET Files, removed: SUBSET Files]
NoSweep == [phase |-> "idle", todo |-> {}, removed |-> {}]

AttachmentTypeOK ==
  /\ folder \in {"there", "dropping", "gone"}
  /\ lock \in Files \cup {GroupLock, NoLock}
  /\ rows \in [Files -> {"none", "loose", "linked", "deleted"}]
  /\ aged \subseteq Files /\ objects \subseteq Files
  /\ uploads \in [Files -> Upload]
  /\ deleting \subseteq Files /\ groupKeys \subseteq Files
  /\ abandoned \subseteq Files /\ lost \subseteq Files
  /\ sweep \in Sweep
  /\ faults \in 0..MaxFaults
  \* one upload counts at a time, and none while the group is being deleted
  /\ \A f \in Files : uploads[f].phase = "counted" => lock = f
  /\ folder = "dropping" => lock = GroupLock

AttachmentInit ==
  /\ folder = "there" /\ lock = NoLock
  /\ rows = [f \in Files |-> "none"]
  /\ aged = {} /\ objects = {} /\ deleting = {} /\ groupKeys = {}
  /\ abandoned = {} /\ lost = {}
  /\ uploads = [f \in Files |-> [phase |-> "none", held |-> 0]]
  /\ sweep = NoSweep
  /\ faults = 0

Kept == {f \in Files : rows[f] \in {"loose", "linked"}}
Fault == faults < MaxFaults /\ faults' = faults + 1
UploadPhase(f, phase) == uploads' = [uploads EXCEPT ![f].phase = phase]

-----------------------------------------------------------------------------
(* uploadAttachment: the object, then the row. *)

StoreUpload(f) ==
  /\ uploads[f].phase = "none" /\ folder # "gone"
  /\ objects' = objects \cup {f}
  /\ UploadPhase(f, "stored")
  /\ UNCHANGED <<folder, lock, rows, aged, deleting, groupKeys, sweep, abandoned, lost, faults>>

\* the row of the group is locked, by an upload or by the group's deletion
LockFree == lock = NoLock

CountFiles(f) ==
  /\ uploads[f].phase = "stored"
  /\ LockFree
  /\ lock' = f
  /\ uploads' = [uploads EXCEPT ![f] = [phase |-> "counted", held |-> Cardinality(Kept)]]
  /\ UNCHANGED <<folder, rows, aged, objects, deleting, groupKeys, sweep, abandoned, lost, faults>>

\* the row, if the group has room for it and is still there
InsertRow(f) ==
  LET fits == folder # "gone" /\ uploads[f].held + 1 <= MaxFiles IN
  /\ uploads[f].phase = "counted"
  /\ lock' = NoLock
  /\ rows' = IF fits THEN [rows EXCEPT ![f] = "loose"] ELSE rows
  /\ UploadPhase(f, IF fits THEN "over" ELSE "failed")
  /\ UNCHANGED <<folder, aged, objects, deleting, groupKeys, sweep, abandoned, lost, faults>>

\* the object of a refused upload goes, if storage answers
TakeBackObject(f) ==
  /\ uploads[f].phase = "failed"
  /\ UploadPhase(f, "over")
  /\ \/ objects' = objects \ {f} /\ UNCHANGED <<abandoned, faults>>
     \/ Fault /\ abandoned' = abandoned \cup {f} /\ UNCHANGED objects
  /\ UNCHANGED <<folder, lock, rows, aged, deleting, groupKeys, sweep, lost>>

\* between storage.put and the row, or before the object of a refused upload goes
UploaderDies(f) ==
  /\ uploads[f].phase \in {"stored", "counted", "failed"}
  /\ Fault
  /\ UploadPhase(f, "over")
  /\ lock' = IF lock = f THEN NoLock ELSE lock
  /\ lost' = lost \cup {f}
  /\ UNCHANGED <<folder, rows, aged, objects, deleting, groupKeys, sweep, abandoned>>

\* linkAttachments, in the transaction of the expense
LinkUpload(f) ==
  /\ rows[f] = "loose"
  /\ rows' = [rows EXCEPT ![f] = "linked"]
  /\ UNCHANGED <<folder, lock, aged, objects, uploads, deleting, groupKeys, sweep, abandoned, lost, faults>>

-----------------------------------------------------------------------------
(* deleteAttachment: the row, then the object. *)

MarkDeleted(f) ==
  /\ f \in Kept
  /\ rows' = [rows EXCEPT ![f] = "deleted"]
  /\ aged' = aged \ {f}
  /\ deleting' = deleting \cup {f}
  /\ UNCHANGED <<folder, lock, objects, uploads, groupKeys, sweep, abandoned, lost, faults>>

\* a failure is left to the sweeper; so is a process that is lost
RemoveObject(f) ==
  /\ f \in deleting
  /\ deleting' = deleting \ {f}
  /\ \/ objects' = objects \ {f} /\ UNCHANGED faults
     \/ Fault /\ UNCHANGED objects
  /\ UNCHANGED <<folder, lock, rows, aged, uploads, groupKeys, sweep, abandoned, lost>>

-----------------------------------------------------------------------------
(* sweepOrphanedAttachments: two reads, the objects, then the rows. *)

GraceEnds(f) ==
  /\ rows[f] \in {"loose", "deleted"} /\ f \notin aged
  /\ aged' = aged \cup {f}
  /\ UNCHANGED <<folder, lock, rows, objects, uploads, deleting, groupKeys, sweep, abandoned, lost, faults>>

SelectOrphans ==
  /\ sweep.phase = "idle"
  /\ sweep' = [NoSweep EXCEPT !.phase = "deleted", !.todo = {f \in aged : rows[f] = "loose"}]
  /\ UNCHANGED <<folder, lock, rows, aged, objects, uploads, deleting, groupKeys, abandoned, lost, faults>>

DeletedLong == {f \in aged : rows[f] = "deleted"}

SelectDeleted ==
  /\ sweep.phase = "deleted"
  /\ sweep' = [sweep EXCEPT !.phase = "purge", !.todo = @ \cup DeletedLong]
  /\ UNCHANGED <<folder, lock, rows, aged, objects, uploads, deleting, groupKeys, abandoned, lost, faults>>

PurgeObject(f) ==
  /\ sweep.phase = "purge" /\ f \in sweep.todo
  /\ \/ /\ objects' = objects \ {f}
        /\ sweep' = [sweep EXCEPT !.todo = @ \ {f}, !.removed = @ \cup {f}]
        /\ UNCHANGED faults
     \/ /\ Fault
        /\ sweep' = [sweep EXCEPT !.todo = @ \ {f}]
        /\ UNCHANGED objects
  /\ UNCHANGED <<folder, lock, rows, aged, uploads, deleting, groupKeys, abandoned, lost>>

PurgedAll == {f \in Files : rows[f] # "none" /\ f \in aged}

\* only the rows whose object is gone
Purged == sweep.removed

PurgeRows ==
  /\ sweep.phase = "purge" /\ sweep.todo = {}
  /\ rows' = [f \in Files |-> IF f \in Purged THEN "none" ELSE rows[f]]
  /\ sweep' = NoSweep
  /\ UNCHANGED <<folder, lock, aged, objects, uploads, deleting, groupKeys, abandoned, lost, faults>>

SweeperDies ==
  /\ sweep.phase # "idle" /\ Fault
  /\ sweep' = NoSweep
  /\ UNCHANGED <<folder, lock, rows, aged, objects, uploads, deleting, groupKeys, abandoned, lost>>

-----------------------------------------------------------------------------
(* deleteGroup, and deleteAccount for a group nobody is left in. *)

\* storageKeysOfGroup: the group's row is locked, the keys read
ReadGroupKeys ==
  /\ folder = "there" /\ LockFree
  /\ lock' = GroupLock /\ folder' = "dropping"
  /\ groupKeys' = {f \in Files : rows[f] # "none"}
  /\ UNCHANGED <<rows, aged, objects, uploads, deleting, sweep, abandoned, lost, faults>>

\* the rows go with the group; or the process is lost, and nothing has happened
DropGroup ==
  /\ folder = "dropping"
  /\ lock' = IF lock = GroupLock THEN NoLock ELSE lock
  /\ \/ /\ folder' = "gone" /\ rows' = [f \in Files |-> "none"]
        /\ UNCHANGED <<groupKeys, faults>>
     \/ /\ Fault /\ folder' = "there" /\ groupKeys' = {}
        /\ UNCHANGED rows
  /\ UNCHANGED <<aged, objects, uploads, deleting, sweep, abandoned, lost>>

\* removeStoredReceipts, after the commit; what fails here has no row to go by
RemoveStored(f) ==
  /\ folder = "gone" /\ f \in groupKeys
  /\ groupKeys' = groupKeys \ {f}
  /\ \/ objects' = objects \ {f} /\ UNCHANGED <<abandoned, faults>>
     \/ Fault /\ abandoned' = abandoned \cup {f} /\ UNCHANGED objects
  /\ UNCHANGED <<folder, lock, rows, aged, uploads, deleting, sweep, lost>>

\* between the commit and the last of the objects
RemoverDies ==
  /\ groupKeys # {} /\ folder = "gone" /\ Fault
  /\ lost' = lost \cup groupKeys /\ groupKeys' = {}
  /\ UNCHANGED <<folder, lock, rows, aged, objects, uploads, deleting, sweep, abandoned>>

AttachmentNext ==
  \/ \E f \in Files :
       \/ StoreUpload(f) \/ CountFiles(f) \/ InsertRow(f) \/ TakeBackObject(f) \/ UploaderDies(f)
       \/ LinkUpload(f) \/ MarkDeleted(f) \/ RemoveObject(f) \/ GraceEnds(f)
       \/ PurgeObject(f) \/ RemoveStored(f)
  \/ SelectOrphans \/ SelectDeleted \/ PurgeRows \/ SweeperDies
  \/ ReadGroupKeys \/ DropGroup \/ RemoverDies

AttachmentSpec == AttachmentInit /\ [][AttachmentNext]_attachmentVars

\* time passes, maintenance runs every day, and storage answers in the end
AttachmentFairness ==
  /\ \A f \in Files : /\ WF_attachmentVars(GraceEnds(f))
                      /\ WF_attachmentVars(PurgeObject(f))
                      /\ WF_attachmentVars(RemoveStored(f))
                      /\ WF_attachmentVars(RemoveObject(f))
  /\ WF_attachmentVars(DropGroup)
  /\ WF_attachmentVars(SelectOrphans) /\ WF_attachmentVars(SelectDeleted)
  /\ WF_attachmentVars(PurgeRows)

-----------------------------------------------------------------------------
(* Properties. *)

\* A group keeps no more files than it may, although uploads arrive together.
CeilingKept == Cardinality(Kept) <= MaxFiles

\* something still leads to the object: its row, its upload or its removal
LedTo(f) ==
  \/ rows[f] # "none"
  \/ uploads[f].phase \in {"stored", "counted", "failed"}
  \/ f \in groupKeys

\* Nothing lies in storage that nobody will remove, but for two residues: objects
\* whose last removal failed, and those whose process was lost before it wrote
\* their row or after it had deleted it (purge: rows only for the objects that
\* went; storageKeysOfGroup: no upload between the keys and the rows).
ObjectsAccounted == \A f \in objects : LedTo(f) \/ f \in abandoned \cup lost

\* A group's files and the storage's objects stay within bounds and accounted for.
AttachmentSafety == CeilingKept /\ ObjectsAccounted

\* The sweeper takes "the residue of ... a transaction that rolled back after the
\* blob was written" (service.ts:347-350).  It fails, and no run checks it: the
\* sweeper goes by rows, and an upload whose process is lost after storage.put
\* has none.
ResidueSwept == \A f \in objects : LedTo(f) \/ f \in abandoned

\* A receipt marked deleted is gone in the end, row and object, whichever of the
\* two removals failed (deleteAttachment, "it will be swept later").
DeletedGoes ==
  \A f \in Files : rows[f] = "deleted" ~> (rows[f] = "none" /\ f \notin objects \ (abandoned \cup lost))

\* A receipt linked to an expense can be opened (the sweeper "Removes uploads that
\* were never attached").  It fails: an upload linked between the sweeper's
\* reading and its removal loses its object, and then its row.
LinkedKept == \A f \in Files : rows[f] = "linked" => f \in objects
=============================================================================
