----------------------------- MODULE WorkerHost -----------------------------
(***************************************************************************)
(* The background worker inside the web process: worker/supervise.ts keeps *)
(* trying to start it, worker/shutdown.ts stops it, and lib/jobs/queue.ts  *)
(* holds the pg-boss instance in use.  Next bundles instrumentation.ts,    *)
(* which brings the worker and the shutdown, apart from what answers       *)
(* requests (worker-status.ts:19-22), so the process has two copies of     *)
(* queue.ts, each with an instance of its own: requests publish through    *)
(* the one, jobs through the other.                                        *)
(*                                                                         *)
(* A step is what runs between two awaits: nothing else of the process can *)
(* come in between.  So a start that is refused, and what its awaiters do  *)
(* up to their own next await, is one step.                                *)
(***************************************************************************)
EXTENDS Naturals, FiniteSets

CONSTANTS
  Bosses,       \* pg-boss instances that may be made
  Publishers,   \* requests and jobs that publish
  NoBoss,       \* undefined
  MaxRefusals   \* bound: times the database refuses

ASSUME NoBossAssumption == NoBoss \notin Bosses
ASSUME MaxRefusalsAssumption == MaxRefusals \in Nat

VARIABLES
  workerState,  \* worker-status.ts
  bosses,       \* each instance: its state, the copy that made it, its subscriptions
  boss,         \* queue.ts, each copy's: the instance in use
  starting,     \* queue.ts, each copy's: the attempt callers share
  supervisor,   \* where superviseWorker stands, and with which instance
  publishers,   \* the instance each publish waits for
  shutdown,     \* where the signal's handler stands, and with which instance
  refusals

hostVars == <<workerState, bosses, boss, starting, supervisor, publishers, shutdown, refusals>>

-----------------------------------------------------------------------------
Copies == {"worker", "requests"}

\* a stop given up on leaves an instance whose pool may still be open
Boss == [state: {"none", "starting", "live", "closing", "left", "closed"},
         of: Copies, subscribed: 0..2]
Waiting == [phase: {"begin", "start", "subscribe", "clear", "wait", "done"},
            on: Bosses \cup {NoBoss}]
Draining == [phase: {"none", "drain", "exited"}, on: Bosses \cup {NoBoss}]

HostTypeOK ==
  /\ workerState \in {"starting", "running", "failed", "stopping"}
  /\ bosses \in [Bosses -> Boss]
  /\ {boss, starting} \subseteq [Copies -> Bosses \cup {NoBoss}]
  /\ supervisor \in Waiting
  /\ publishers \in [Publishers -> Bosses \cup {NoBoss}]
  /\ shutdown \in Draining
  /\ refusals \in 0..MaxRefusals
  \* what is in use has been started, and no failure is kept for later callers
  /\ \A c \in Copies :
       /\ boss[c] # NoBoss => bosses[boss[c]].state = "live"
       /\ starting[c] # NoBoss => bosses[starting[c]].state \in {"starting", "live"}

HostInit ==
  /\ workerState = "starting"
  /\ bosses = [b \in Bosses |-> [state |-> "none", of |-> "worker", subscribed |-> 0]]
  /\ boss = [c \in Copies |-> NoBoss] /\ starting = [c \in Copies |-> NoBoss]
  /\ supervisor = [phase |-> "begin", on |-> NoBoss]
  /\ publishers = [p \in Publishers |-> NoBoss]
  /\ shutdown = [phase |-> "none", on |-> NoBoss]
  /\ refusals = 0

Alive == shutdown.phase # "exited"
Refused == refusals < MaxRefusals /\ refusals' = refusals + 1

-----------------------------------------------------------------------------
(* queue.ts *)

\* an instance nothing in the process refers to any more
Fresh(b) ==
  /\ bosses[b].state \in {"none", "closed"}
  /\ b \notin {supervisor.on, shutdown.on}
  /\ \A c \in Copies : b \notin {boss[c], starting[c]}
  /\ \A p \in Publishers : publishers[p] # b

\* getBoss in copy c: the one there is, the attempt under way, or a new attempt
GetBoss(c, b) ==
  IF boss[c] # NoBoss THEN b = boss[c] /\ UNCHANGED <<bosses, starting>>
  ELSE IF starting[c] # NoBoss THEN b = starting[c] /\ UNCHANGED <<bosses, starting>>
  ELSE /\ Fresh(b)
       /\ bosses' = [bosses EXCEPT ![b] = [state |-> "starting", of |-> c, subscribed |-> 0]]
       /\ starting' = [starting EXCEPT ![c] = b]

\* start() resolves, and its awaiters go on
BossStarts(b) ==
  /\ Alive /\ bosses[b].state = "starting"
  /\ bosses' = [bosses EXCEPT ![b].state = "live"]
  /\ boss' = [boss EXCEPT ![bosses[b].of] = b]
  /\ supervisor' = IF supervisor.on = b THEN [supervisor EXCEPT !.phase = "subscribe"] ELSE supervisor
  /\ UNCHANGED <<workerState, starting, publishers, shutdown, refusals>>

\* a failed start is forgotten, and only this one
ForgetFailed(b) == [c \in Copies |-> IF starting[c] = b THEN NoBoss ELSE starting[c]]

KeepBoss(all) == UNCHANGED <<boss, starting>> /\ bosses' = all

\* stopBoss in the worker's copy, up to its await; `all` is what the instances
\* are by then.  Nothing stops the requests' instance.
ClearBoss(all) ==
  /\ boss' = [boss EXCEPT !["worker"] = NoBoss]
  /\ starting' = [starting EXCEPT !["worker"] = NoBoss]
  /\ bosses' = IF boss["worker"] = NoBoss THEN all
                ELSE [all EXCEPT ![boss["worker"]].state = "closing"]

\* and after it: pg-boss has closed, or it is given up on ...
StopSettles(b) ==
  /\ Alive /\ bosses[b].state = "closing"
  /\ \/ bosses' = [bosses EXCEPT ![b].state = "closed"] /\ UNCHANGED refusals
     \/ bosses' = [bosses EXCEPT ![b].state = "left"] /\ Refused
  /\ UNCHANGED <<workerState, boss, starting, supervisor, publishers, shutdown>>

\* ... and closes later, or never
ClosesLate(b) ==
  /\ Alive /\ bosses[b].state = "left"
  /\ bosses' = [bosses EXCEPT ![b].state = "closed"]
  /\ UNCHANGED <<workerState, boss, starting, supervisor, publishers, shutdown, refusals>>

-----------------------------------------------------------------------------
(* publish *)

\* a job is in hand: its queue is subscribed, or among those subscribed so far
JobInHand ==
  \/ supervisor.phase = "subscribe"
  \/ \E b \in Bosses : bosses[b].subscribed > 0 /\ bosses[b].state \in {"live", "closing", "left"}

\* a request publishes through its own copy, a job through the worker's
PublishJob(p, c, b) ==
  /\ Alive /\ publishers[p] = NoBoss
  /\ c = "worker" => JobInHand
  /\ GetBoss(c, b)
  /\ publishers' = [publishers EXCEPT ![p] = b]
  /\ UNCHANGED <<workerState, boss, supervisor, shutdown, refusals>>

Sent(p) ==
  /\ Alive /\ publishers[p] # NoBoss /\ bosses[publishers[p]].state # "starting"
  /\ publishers' = [publishers EXCEPT ![p] = NoBoss]
  /\ UNCHANGED <<workerState, bosses, boss, starting, supervisor, shutdown, refusals>>

-----------------------------------------------------------------------------
(* superviseWorker *)

AwaitBoss(b) ==
  /\ Alive /\ supervisor.phase = "begin"
  /\ GetBoss("worker", b)
  /\ supervisor' = [phase |-> IF boss["worker"] = NoBoss THEN "start" ELSE "subscribe", on |-> b]
  /\ UNCHANGED <<workerState, boss, publishers, shutdown, refusals>>

\* the catch, up to its await
AttemptFailed ==
  IF workerState = "stopping"
    THEN /\ supervisor' = [phase |-> "done", on |-> NoBoss]
         /\ UNCHANGED workerState
    ELSE /\ workerState' = "failed"
         /\ supervisor' = [phase |-> "clear", on |-> boss["worker"]]

\* start() is refused: every awaiter hears of it
StartRefused(b) ==
  /\ Alive /\ bosses[b].state = "starting" /\ Refused
  /\ publishers' = [p \in Publishers |-> IF publishers[p] = b THEN NoBoss ELSE publishers[p]]
  /\ LET closed == [bosses EXCEPT ![b].state = "closed"] IN
     IF supervisor = [phase |-> "start", on |-> b]
       THEN /\ AttemptFailed
            /\ IF workerState = "stopping"
                 THEN bosses' = closed /\ starting' = ForgetFailed(b) /\ UNCHANGED boss
                 ELSE ClearBoss(closed)
       ELSE /\ bosses' = closed /\ starting' = ForgetFailed(b)
            /\ UNCHANGED <<workerState, supervisor, boss>>
  /\ UNCHANGED shutdown

Subscribed(b) == [bosses EXCEPT ![b].subscribed = IF @ = 2 THEN 2 ELSE @ + 1]

\* a process that is stopping is not called running
MayRun == workerState # "stopping"

\* startWorker has subscribed every queue
WorkerRuns ==
  /\ Alive /\ supervisor.phase = "subscribe"
  /\ bosses' = Subscribed(supervisor.on)
  /\ workerState' = IF MayRun THEN "running" ELSE workerState
  /\ supervisor' = [phase |-> "done", on |-> NoBoss]
  /\ UNCHANGED <<boss, starting, publishers, shutdown, refusals>>

\* it is refused halfway: what is half started is cleared away
SubscribeRefused ==
  /\ Alive /\ supervisor.phase = "subscribe"
  /\ \/ Refused
     \/ bosses[supervisor.on].state # "live" /\ UNCHANGED refusals
  /\ AttemptFailed
  /\ \E half \in {bosses, Subscribed(supervisor.on)} :
       IF workerState = "stopping" THEN bosses' = half /\ UNCHANGED <<boss, starting>>
       ELSE ClearBoss(half)
  /\ UNCHANGED <<publishers, shutdown>>

\* what it cleared away has closed
Cleared ==
  /\ Alive /\ supervisor.phase = "clear"
  /\ supervisor.on # NoBoss => bosses[supervisor.on].state # "closing"
  /\ supervisor' = [phase |-> "wait", on |-> NoBoss]
  /\ UNCHANGED <<workerState, bosses, boss, starting, publishers, shutdown, refusals>>

TriesOnce == "done"

AfterWaiting == IF workerState = "stopping" THEN "done" ELSE "begin"

\* retryDelayMs has passed
TryAgain ==
  /\ Alive /\ supervisor.phase = "wait"
  /\ supervisor' = [supervisor EXCEPT !.phase = AfterWaiting]
  /\ UNCHANGED <<workerState, bosses, boss, starting, publishers, shutdown, refusals>>

-----------------------------------------------------------------------------
(* createShutdown: the first signal; another is ignored *)

Signal ==
  /\ shutdown.phase = "none"
  /\ shutdown' = [phase |-> "drain", on |-> boss["worker"]]
  /\ workerState' = "stopping"
  /\ ClearBoss(bosses)
  /\ UNCHANGED <<supervisor, publishers, refusals>>

Exit ==
  /\ shutdown.phase = "drain"
  /\ shutdown.on # NoBoss => bosses[shutdown.on].state # "closing"
  /\ shutdown' = [shutdown EXCEPT !.phase = "exited"]
  /\ UNCHANGED <<workerState, bosses, boss, starting, supervisor, publishers, refusals>>

-----------------------------------------------------------------------------
HostNext ==
  \/ \E b \in Bosses : BossStarts(b) \/ StartRefused(b) \/ AwaitBoss(b)
                        \/ StopSettles(b) \/ ClosesLate(b)
  \/ \E p \in Publishers :
       Sent(p) \/ \E c \in Copies, b \in Bosses : PublishJob(p, c, b)
  \/ WorkerRuns \/ SubscribeRefused \/ Cleared \/ TryAgain
  \/ Signal \/ Exit

HostSpec == HostInit /\ [][HostNext]_hostVars

\* The database answers in the end, pg-boss closes or is given up on, and a
\* step under way goes on.  Nothing makes a request publish or a signal come,
\* and nothing closes a pool that was left open.
HostFairness ==
  /\ WF_hostVars(\E b \in Bosses : BossStarts(b))
  /\ WF_hostVars(\E b \in Bosses : StopSettles(b))
  /\ WF_hostVars(\E b \in Bosses : AwaitBoss(b))
  /\ WF_hostVars(WorkerRuns) /\ WF_hostVars(Cleared) /\ WF_hostVars(TryAgain)

-----------------------------------------------------------------------------
\* No instance has its queues subscribed a second time: that would run every
\* job twice at once (supervise.ts, before stop()).
SubscribedOnce == \A b \in Bosses : bosses[b].subscribed < 2

\* When the process says that its worker runs, the worker's own instance is live
\* and subscribed; a process that is stopping never says so.
RunningServes ==
  workerState = "running" =>
    /\ shutdown.phase = "none" /\ boss["worker"] # NoBoss
    /\ LET b == bosses[boss["worker"]] IN b.state = "live" /\ b.subscribed = 1

\* No copy holds two pools: each instance that is live is in use by the copy that
\* made it, and each one that starts is the attempt its callers share.  After a
\* signal this is still so of the requests' copy, which no stop clears; a job
\* that publishes late may start an instance that nothing stops.
NoneForgotten ==
  \A b \in Bosses :
    shutdown.phase = "none" \/ bosses[b].of = "requests" =>
      /\ bosses[b].state = "live" => b = boss[bosses[b].of]
      /\ bosses[b].state = "starting" => b = starting[bosses[b].of]

\* Each copy uses one instance at a time, the worker's is subscribed once, and
\* the others are closed or were given up on.
HostSafety == SubscribedOnce /\ RunningServes /\ NoneForgotten

\* A database that is late only delays the worker: unless the process is
\* stopped, it runs in the end (supervise.ts, its opening comment).
WorkerComesUp == <>(workerState \in {"running", "stopping"})
=============================================================================
