------------------------------- MODULE MCJobs -------------------------------
(***************************************************************************)
(* The background jobs for TLC: Recurring, BackupRuns, Deliveries,         *)
(* Attachments, Imports and WorkerHost.  They share no state, so a         *)
(* behaviour is one of one component's: `part` says whose, and the others  *)
(* stay in their initial state.                                            *)
(***************************************************************************)
EXTENDS MCRecurring, BackupRuns, Deliveries, Attachments, Imports, WorkerHost

CONSTANTS line1, line2, file1, file2

\* two files of the same two lines
SameLines == (file1 :> <<line1, line2>>) @@ (file2 :> <<line2, line1>>)

VARIABLE part

jobsVars == <<vars, backupVars, deliveryVars, attachmentVars, importVars, hostVars, part>>

JobsInit ==
  /\ Init /\ BackupInit /\ DeliveryInit /\ AttachmentInit /\ ImportInit /\ HostInit
  /\ part \in {"recurring", "backup", "delivery", "attachments", "imports", "host"}
  /\ part # "backup" => dest.status = "active"

JobsNext ==
  \/ /\ part = "recurring" /\ Next
     /\ UNCHANGED <<backupVars, deliveryVars, attachmentVars, importVars, hostVars, part>>
  \/ /\ part = "backup" /\ BackupNext
     /\ UNCHANGED <<vars, deliveryVars, attachmentVars, importVars, hostVars, part>>
  \/ /\ part = "delivery" /\ DeliveryNext
     /\ UNCHANGED <<vars, backupVars, attachmentVars, importVars, hostVars, part>>
  \/ /\ part = "attachments" /\ AttachmentNext
     /\ UNCHANGED <<vars, backupVars, deliveryVars, importVars, hostVars, part>>
  \/ /\ part = "imports" /\ ImportNext
     /\ UNCHANGED <<vars, backupVars, deliveryVars, attachmentVars, hostVars, part>>
  \/ /\ part = "host" /\ HostNext
     /\ UNCHANGED <<vars, backupVars, deliveryVars, attachmentVars, importVars, part>>

JobsSpec == JobsInit /\ [][JobsNext]_jobsVars

\* each is one set of model values that several components use: TLC permutes few
JobsSymmetry ==
  Permutations(Actors) \cup Permutations(Runs)

-----------------------------------------------------------------------------
(* Liveness, each part under its own fairness. *)

\* EveryDateMade (Recurring).
DatesGetMade == part = "recurring" /\ Fairness => EveryDateMade

\* What a lost process leaves half done, a sweep settles: RunCloses (BackupRuns),
\* EveryNoticeStamped (Deliveries) and DeletedGoes (Attachments).
RowsGetSettled ==
  /\ part = "backup" /\ BackupFairness => RunCloses
  /\ part = "delivery" /\ DeliveryFairness => EveryNoticeStamped
  /\ part = "attachments" /\ AttachmentFairness => DeletedGoes

\* WorkerComesUp (WorkerHost).
WorkerGetsUp == part = "host" /\ HostFairness => WorkerComesUp
=============================================================================
