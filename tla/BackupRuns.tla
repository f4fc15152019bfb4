----------------------------- MODULE BackupRuns -----------------------------
(***************************************************************************)
(* modules/backup/service.ts: the runs of one cloud destination.  The      *)
(* scheduler's sweep and the person's "Back up now" open a run and queue a *)
(* job for it; a worker copies the destination's row when it takes the     *)
(* job, and writes back from that copy when the backup is done, which may  *)
(* be much later.                                                          *)
(*                                                                         *)
(* nextRunAt is whether its moment has come, startedAt whether it is       *)
(* longer ago than STALE_RUN_MS.  Receipts, encryption and the transport's *)
(* own protocol are left out: a step of theirs succeeds or fails.          *)
(***************************************************************************)
EXTENDS Naturals, FiniteSets, FiniteSetsExt

CONSTANTS
  Runs,          \* ids that rows of backup_runs may take
  BackupWorkers, \* jobs in hand, one at a time each
  KeepLast,      \* backup_destinations.keep_last
  NoRun,         \* null
  MaxCopies      \* bound: backups that are begun

ASSUME NoRunAssumption == NoRun \notin Runs
ASSUME KeepLastAssumption == KeepLast \in Nat \ {0} /\ MaxCopies \in Nat

VARIABLES
  dest,      \* the row of backup_destinations
  runs,      \* backup_runs
  opening,   \* runs opened whose job is not published yet
  jobs,      \* jobs of QUEUES.backupRun
  workers,   \* what each job in hand has read and done
  sweeping,  \* where sweepDueBackups stands
  copies,    \* the files in the cloud, each named by when its run began
  began,     \* how many have begun
  newest,    \* the latest name ever put, 0 before the first
  asked      \* whether the person has last asked for a pause

backupVars == <<dest, runs, opening, jobs, workers, sweeping, copies, began, newest, asked>>

-----------------------------------------------------------------------------
Statuses == {"setup", "active", "paused", "needs_reconnect", "gone"}
Run == [state: {"none", "running", "closed"}, old: BOOLEAN, scheduled: BOOLEAN]
WorkPhases == {"idle", "work", "list", "prune", "finish", "marked", "failed", "refused"}
Work == [phase: WorkPhases, run: Runs \cup {NoRun}, seen: Statuses, name: Nat, doomed: SUBSET Nat]

BackupTypeOK ==
  /\ dest \in [status: Statuses, due: BOOLEAN]
  /\ runs \in [Runs -> Run]
  /\ opening \subseteq Runs /\ jobs \subseteq Runs /\ opening \cap jobs = {}
  /\ workers \in [BackupWorkers -> Work]
  /\ sweeping \in {"idle", "select", "open"}
  /\ began \in Nat /\ copies \subseteq 1..began /\ newest \in 0..began
  /\ asked \in BOOLEAN
  \* retryLimit 0: a job handed to a worker is not in the queue any more
  /\ \A w \in BackupWorkers : workers[w].phase # "idle" => workers[w].run \notin jobs

Unused == [state |-> "none", old |-> FALSE, scheduled |-> FALSE]
NoWork == [phase |-> "idle", run |-> NoRun, seen |-> "gone", name |-> 0,
           doomed |-> {}]

\* createDestination, as a draft or not
BackupInit ==
  /\ dest \in [status: {"setup", "active"}, due: {TRUE}]
  /\ runs = [r \in Runs |-> Unused]
  /\ opening = {} /\ jobs = {}
  /\ workers = [w \in BackupWorkers |-> NoWork]
  /\ sweeping = "idle"
  /\ copies = {} /\ newest = 0 /\ began = 0
  /\ asked = FALSE

Open(r) == runs[r].state = "running"
Working(w) == workers[w].phase \in {"work", "list", "prune", "finish"}

\* finishRun
Closed(r) == [runs EXCEPT ![r].state = IF @ = "none" THEN @ ELSE "closed"]

-----------------------------------------------------------------------------
(* Opening a run. *)

NeverBusy == FALSE

\* startRun looks, under an advisory lock, for a run young enough to be going
Busy == \E r \in Runs : Open(r) /\ ~runs[r].old

Unheld(r) ==
  /\ r \notin opening \cup jobs
  /\ \A w \in BackupWorkers : workers[w].phase # "idle" => workers[w].run # r

Free(r) == runs[r].state = "none" /\ Unheld(r)

StartRun(r, scheduled) ==
  /\ dest.status # "gone" /\ ~Busy
  /\ Free(r)
  /\ runs' = [runs EXCEPT ![r] = [state |-> "running", old |-> FALSE, scheduled |-> scheduled]]
  /\ opening' = opening \cup {r}

\* requestRun
BackUpNow(r) ==
  /\ StartRun(r, FALSE)
  /\ UNCHANGED <<dest, jobs, workers, sweeping, copies, began, newest, asked>>

Publish(r) ==
  /\ r \in opening
  /\ opening' = opening \ {r} /\ jobs' = jobs \cup {r}
  /\ UNCHANGED <<dest, runs, workers, sweeping, copies, began, newest, asked>>

\* the queue could not be reached: the row must not claim to be under way
PublishFails(r) ==
  /\ r \in opening
  /\ opening' = opening \ {r} /\ runs' = Closed(r)
  /\ UNCHANGED <<dest, jobs, workers, sweeping, copies, began, newest, asked>>

\* the process ends before it has published, or before it has noted the failure
OpenerDies(r) ==
  /\ r \in opening
  /\ opening' = opening \ {r}
  /\ UNCHANGED <<dest, runs, jobs, workers, sweeping, copies, began, newest, asked>>

ReapNothing == UNCHANGED runs

\* reapStaleRuns
Reap ==
  runs' = [r \in Runs |-> IF Open(r) /\ runs[r].old THEN [runs[r] EXCEPT !.state = "closed"]
                          ELSE runs[r]]

\* sweepDueBackups: stale runs are closed, what is due is read, a run opened
SweepBackups ==
  /\ sweeping = "idle"
  /\ Reap
  /\ sweeping' = "select"
  /\ UNCHANGED <<dest, opening, jobs, workers, copies, began, newest, asked>>

SelectDue ==
  /\ sweeping = "select"
  /\ sweeping' = IF dest.status = "active" /\ dest.due THEN "open" ELSE "idle"
  /\ UNCHANGED <<dest, runs, opening, jobs, workers, copies, began, newest, asked>>

OpenDue ==
  /\ sweeping = "open"
  /\ sweeping' = "idle"
  /\ \/ \E r \in Runs : StartRun(r, TRUE)
     \/ /\ Busy \/ dest.status = "gone" \/ ~\E r \in Runs : Free(r)  \* bound: rows
        /\ UNCHANGED <<runs, opening>>
  /\ UNCHANGED <<dest, jobs, workers, copies, began, newest, asked>>

-----------------------------------------------------------------------------
(* Running it: runBackup. *)

SetPhase(w, phase) == workers' = [workers EXCEPT ![w].phase = phase]

\* the row is copied, unless it is gone or switched off
TakeJob(w, r) ==
  /\ workers[w].phase = "idle" /\ r \in jobs
  /\ jobs' = jobs \ {r}
  /\ IF dest.status = "gone" \/ (runs[r].scheduled /\ dest.status # "active")
       THEN /\ runs' = Closed(r)
            /\ UNCHANGED <<workers, began>>
       ELSE /\ began < MaxCopies
            /\ began' = began + 1
            /\ workers' = [workers EXCEPT ![w] =
                 [phase |-> "work", run |-> r, seen |-> dest.status,
                  name |-> began + 1, doomed |-> {}]]
            /\ UNCHANGED runs
  /\ UNCHANGED <<dest, opening, sweeping, copies, newest, asked>>

\* nothing has changed since the last backup, and nobody asked for one
SkipUnchanged(w) ==
  /\ workers[w].phase = "work" /\ runs[workers[w].run].scheduled
  /\ runs' = Closed(workers[w].run)
  /\ SetPhase(w, "marked")
  /\ UNCHANGED <<dest, opening, jobs, sweeping, copies, began, newest, asked>>

Put(w) ==
  /\ workers[w].phase = "work"
  /\ copies' = copies \cup {workers[w].name}
  /\ newest' = Max({newest, workers[w].name})
  /\ SetPhase(w, "list")
  /\ UNCHANGED <<dest, runs, opening, jobs, sweeping, began, asked>>

Newer(names, n) == {m \in names : m > n}

ExpiredEarly(names) == {n \in names : Cardinality(Newer(names, n)) >= KeepLast - 1}

\* selectExpired: all but the newest KeepLast
Expired(names) == {n \in names : Cardinality(Newer(names, n)) >= KeepLast}

\* retention comes after the write; its failure costs nothing
ListCopies(w) ==
  /\ workers[w].phase = "list"
  /\ workers' = [workers EXCEPT ![w].phase = "prune", ![w].doomed = Expired(copies)]
  /\ UNCHANGED <<dest, runs, opening, jobs, sweeping, copies, began, newest, asked>>

RemoveCopy(w) ==
  /\ workers[w].phase = "prune" /\ workers[w].doomed # {}
  /\ LET oldest == Min(workers[w].doomed) IN
       /\ copies' = copies \ {oldest}
       /\ workers' = [workers EXCEPT ![w].doomed = @ \ {oldest}]
  /\ UNCHANGED <<dest, runs, opening, jobs, sweeping, began, newest, asked>>

\* nothing left to prune, or the cloud did not answer
EndRetention(w) ==
  /\ workers[w].phase \in {"list", "prune"}
  /\ workers' = [workers EXCEPT ![w].phase = "finish", ![w].doomed = {}]
  /\ UNCHANGED <<dest, runs, opening, jobs, sweeping, copies, began, newest, asked>>

RunSucceeds(w) ==
  /\ workers[w].phase = "finish"
  /\ runs' = Closed(workers[w].run)
  /\ SetPhase(w, "marked")
  /\ UNCHANGED <<dest, opening, jobs, sweeping, copies, began, newest, asked>>

\* "refused": the grant to the provider is gone, and a retry would not help
RunFails(w, how) ==
  /\ workers[w].phase = "work"
  /\ runs' = Closed(workers[w].run)
  /\ SetPhase(w, how)
  /\ UNCHANGED <<dest, opening, jobs, sweeping, copies, began, newest, asked>>

\* the status that goes back is made from the copy, not from the row
Outcome(w) ==
  LET seen == workers[w].seen IN
  IF workers[w].phase = "marked" /\ seen = "needs_reconnect" THEN "active"
  ELSE IF workers[w].phase = "refused" /\ seen = "active" THEN "needs_reconnect"
  ELSE seen

\* markSuccess, markFailure
Mark(w) ==
  /\ workers[w].phase \in {"marked", "failed", "refused"}
  /\ dest' = IF dest.status = "gone" THEN dest ELSE [status |-> Outcome(w), due |-> FALSE]
  /\ workers' = [workers EXCEPT ![w] = NoWork]
  /\ UNCHANGED <<runs, opening, jobs, sweeping, copies, began, newest, asked>>

BackupWorkerDies(w) ==
  /\ workers[w].phase # "idle"
  /\ workers' = [workers EXCEPT ![w] = NoWork]
  /\ UNCHANGED <<dest, runs, opening, jobs, sweeping, copies, began, newest, asked>>

-----------------------------------------------------------------------------
(* The person, and time. *)

SetDest(status, due) ==
  /\ dest' = [status |-> status, due |-> due]
  /\ UNCHANGED <<runs, opening, jobs, workers, sweeping, copies, began, newest>>

\* updateDestination
PauseBackups == dest.status = "active" /\ asked' = TRUE /\ SetDest("paused", dest.due)
ResumeBackups == dest.status = "paused" /\ asked' = FALSE /\ SetDest("active", TRUE)

\* finishSetup, replaceCredentials
FinishSetup == dest.status = "setup" /\ asked' = FALSE /\ SetDest("active", TRUE)
Reconnect == dest.status # "gone" /\ asked' = FALSE /\ SetDest("active", TRUE)

\* deleteDestination, or reapStaleSetups; the rows of its runs go with it
ForgetDestination ==
  /\ dest.status # "gone"
  /\ dest' = [status |-> "gone", due |-> FALSE]
  /\ runs' = [r \in Runs |-> Unused]
  /\ asked' = FALSE
  /\ UNCHANGED <<opening, jobs, workers, sweeping, copies, began, newest>>

\* pruneRuns: long over, and many newer
PruneRun(r) ==
  /\ runs[r].state = "closed" /\ Unheld(r)
  /\ runs' = [runs EXCEPT ![r] = Unused]
  /\ UNCHANGED <<dest, opening, jobs, workers, sweeping, copies, began, newest, asked>>

ComeDue ==
  /\ dest.status # "gone" /\ ~dest.due
  /\ dest' = [dest EXCEPT !.due = TRUE]
  /\ UNCHANGED <<runs, opening, jobs, workers, sweeping, copies, began, newest, asked>>

GrowOld(r) ==
  /\ Open(r) /\ ~runs[r].old
  /\ runs' = [runs EXCEPT ![r].old = TRUE]
  /\ UNCHANGED <<dest, opening, jobs, workers, sweeping, copies, began, newest, asked>>

BackupNext ==
  \/ \E r \in Runs : \/ BackUpNow(r) \/ Publish(r) \/ PublishFails(r) \/ OpenerDies(r)
                     \/ PruneRun(r) \/ GrowOld(r)
  \/ SweepBackups \/ SelectDue \/ OpenDue
  \/ \E w \in BackupWorkers, r \in Runs : TakeJob(w, r)
  \/ \E w \in BackupWorkers :
       \/ SkipUnchanged(w) \/ Put(w) \/ ListCopies(w) \/ RemoveCopy(w) \/ EndRetention(w)
       \/ RunSucceeds(w) \/ Mark(w) \/ BackupWorkerDies(w)
       \/ \E how \in {"failed", "refused"} : RunFails(w, how)
  \/ PauseBackups \/ ResumeBackups \/ FinishSetup \/ Reconnect \/ ForgetDestination
  \/ ComeDue

BackupSpec == BackupInit /\ [][BackupNext]_backupVars

\* time passes, the scheduler ticks every ten minutes, and each sweep ends
BackupFairness ==
  /\ \A r \in Runs : WF_backupVars(GrowOld(r))
  /\ WF_backupVars(SweepBackups) /\ WF_backupVars(SelectDue) /\ WF_backupVars(OpenDue)

-----------------------------------------------------------------------------
(* Properties. *)

\* Two workers write to one destination at once only when the run of one has
\* outlasted STALE_RUN_MS, or its row is gone (startRun, service.ts:726).
OneRunAtATime ==
  \A v, w \in BackupWorkers : v # w /\ Working(v) /\ Working(w) =>
    \E x \in {v, w} : runs[workers[x].run].old \/ ~Open(workers[x].run)

\* The newest backup ever written is in the cloud, whatever two runs prune at
\* the same time.
LatestKept == newest # 0 => newest \in copies

\* Runs that overlap neither write one destination together nor prune away what
\* one of them has just written.
BackupSafety == OneRunAtATime /\ LatestKept

\* A run does not say "running" for ever, whatever process was lost.
RunCloses == \A r \in Runs : Open(r) ~> ~Open(r)

\* A destination that the person has paused is not switched on behind their back
\* (docs/cloud-backup.md:44, "a pause switch stops the schedule").  It fails: the
\* run under way when they pause writes back the status it has read.
PausedStays == asked => dest.status # "active"

\* Retention deletes only while the destination exists (service.ts:621-622).  It
\* fails: a run under way when the destination is deleted goes on to its end.
PrunesWhileThere == [][dest.status = "gone" => copies \ copies' = {}]_backupVars
=============================================================================
