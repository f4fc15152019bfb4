----------------------------- MODULE Deliveries -----------------------------
(***************************************************************************)
(* modules/notifications/delivery.ts: announcing what is in the inbox.     *)
(* A change commits its notifications, and then asks the queue for a job   *)
(* that pushes them; the job may never be queued, or be handed out twice.  *)
(* A sweep every five minutes pushes what nobody has.  Both claim a        *)
(* notification by stamping pushed_at, and then talk to the push services. *)
(*                                                                         *)
(* One reader, and push is configured.  A notification's age is 0, 1 once  *)
(* it is older than SWEEP_DELAY_MS, and 2 after STALE_AFTER_MS.            *)
(***************************************************************************)
EXTENDS Naturals, FiniteSets

CONSTANTS
  Notices,      \* ids that rows of notifications may take
  Devices,      \* ids that rows of push_subscriptions may take
  Pushers,      \* jobs of QUEUES.notificationsDeliver in hand
  Sweeper,      \* the job of QUEUES.notificationsSweep
  MaxFailures   \* MAX_CONSECUTIVE_FAILURES

ASSUME SweeperAssumption == Sweeper \notin Pushers
ASSUME MaxFailuresAssumption == MaxFailures \in Nat \ {0}

VARIABLES
  notices,   \* notifications: pushed_at and age
  queued,    \* jobs that wait, by the notification they name
  devices,   \* push_subscriptions: failureCount
  pushes,    \* what each job in hand has claimed, read and been answered
  \* history
  reached,   \* how often each notification has been sent to each device
  misses     \* jobs in a row that were answered by each device, and not reached it

deliveryVars == <<notices, queued, devices, pushes, reached, misses>>

-----------------------------------------------------------------------------
Hands == Pushers \cup {Sweeper}
Notice == [state: {"none", "pending", "stamped"}, age: 0..2]
Device == [there: BOOLEAN, failures: 0..MaxFailures]
PushPhase == {"idle", "claim", "devices", "send", "reset", "count", "drop"}
Push == [phase: PushPhase, batch: SUBSET Notices, todo: SUBSET (Notices \X Devices),
         worked: SUBSET Devices, expired: SUBSET Devices, failing: SUBSET Devices]

NoPush == [phase |-> "idle", batch |-> {}, todo |-> {},
           worked |-> {}, expired |-> {}, failing |-> {}]

DeliveryTypeOK ==
  /\ notices \in [Notices -> Notice]
  /\ queued \subseteq Notices
  /\ devices \in [Devices -> Device]
  /\ pushes \in [Hands -> Push]
  /\ reached \in [Notices \X Devices -> 0..2]
  /\ misses \in [Devices -> 0..MaxFailures]
  \* what is being pushed has been claimed, and by nobody else
  /\ \A h \in Hands : \A n \in pushes[h].batch :
       notices[n].state = "stamped" /\ \A g \in Hands \ {h} : n \notin pushes[g].batch

DeliveryInit ==
  /\ notices = [n \in Notices |-> [state |-> "none", age |-> 0]]
  /\ queued = {}
  /\ devices = [d \in Devices |-> [there |-> TRUE, failures |-> 0]]
  /\ pushes = [h \in Hands |-> NoPush]
  /\ reached = [x \in Notices \X Devices |-> 0]
  /\ misses = [d \in Devices |-> 0]

-----------------------------------------------------------------------------
(* What is not theirs: changes, devices, the queue and time. *)

\* recordNotifications, in the transaction of the change
Record(n) ==
  /\ notices[n].state = "none"
  /\ notices' = [notices EXCEPT ![n] = [state |-> "pending", age |-> 0]]
  /\ UNCHANGED <<queued, devices, pushes, reached, misses>>

\* dispatchNotifications, at any time after it or not at all; and pg-boss
\* handing out again a job that has already run
Enqueue(n) ==
  /\ notices[n].state # "none"
  /\ queued' = queued \cup {n}
  /\ UNCHANGED <<notices, devices, pushes, reached, misses>>

\* a job in hand has read this row, or been answered by its endpoint
Named(d) ==
  \E h \in Hands : \/ \E n \in Notices : <<n, d>> \in pushes[h].todo
                  \/ d \in pushes[h].worked \cup pushes[h].expired \cup pushes[h].failing

CountsKept(ds) == devices

\* failure_count = 0
Zeroed(ds) ==
  [d \in Devices |-> IF d \in ds THEN [devices[d] EXCEPT !.failures = 0] ELSE devices[d]]

\* saveSubscription: the endpoint's row is set anew, or another is inserted
Subscribe(d) ==
  /\ devices[d].there \/ ~Named(d)
  /\ devices' = [Zeroed({d}) EXCEPT ![d].there = TRUE]
  /\ misses' = [misses EXCEPT ![d] = 0]
  /\ UNCHANGED <<notices, queued, pushes, reached>>

Without(ds) ==
  [d \in Devices |-> IF d \in ds THEN [there |-> FALSE, failures |-> 0] ELSE devices[d]]

\* deleteSubscription: the reader's own doing, or a sign-out's
Unsubscribe(d) ==
  /\ devices[d].there
  /\ devices' = Without({d})
  /\ UNCHANGED <<notices, queued, pushes, reached, misses>>

Grow(n) ==
  /\ notices[n].state = "pending" /\ notices[n].age < 2
  /\ notices' = [notices EXCEPT ![n].age = @ + 1]
  /\ UNCHANGED <<queued, devices, pushes, reached, misses>>

\* pruneNotifications, months later
Discard(n) ==
  /\ notices[n].state = "stamped"
  /\ n \notin queued /\ \A h \in Hands : n \notin pushes[h].batch
  /\ notices' = [notices EXCEPT ![n] = [state |-> "none", age |-> 0]]
  /\ reached' = [x \in Notices \X Devices |-> IF x[1] = n THEN 0 ELSE reached[x]]
  /\ UNCHANGED <<queued, devices, pushes, misses>>

-----------------------------------------------------------------------------
(* Claiming. *)

ClaimableAnyway(n) == notices[n].state # "none"

\* pushed_at is still null
Claimable(n) == notices[n].state = "pending"

Stamped(ns) ==
  [n \in Notices |-> IF n \in ns THEN [notices[n] EXCEPT !.state = "stamped"] ELSE notices[n]]

\* pushClaimed has nothing to do with an empty batch
Claim(h, ns) ==
  /\ notices' = Stamped(ns)
  /\ pushes' = [pushes EXCEPT ![h] =
       [NoPush EXCEPT !.phase = IF ns = {} THEN "idle" ELSE "devices", !.batch = ns]]

\* deliverNotifications
TakeDelivery(h, n) ==
  /\ h \in Pushers /\ pushes[h].phase = "idle" /\ n \in queued
  /\ queued' = queued \ {n}
  /\ Claim(h, IF Claimable(n) THEN {n} ELSE {})
  /\ UNCHANGED <<devices, reached, misses>>

\* too old to be worth announcing
Stale == {n \in Notices : Claimable(n) /\ notices[n].age = 2}

\* sweepPendingNotifications: what is stale is stamped ...
SweepStale ==
  /\ pushes[Sweeper].phase = "idle"
  /\ notices' = Stamped(Stale)
  /\ pushes' = [pushes EXCEPT ![Sweeper].phase = "claim"]
  /\ UNCHANGED <<queued, devices, reached, misses>>

\* ... and what the fast path has missed is claimed
SweepClaim ==
  /\ pushes[Sweeper].phase = "claim"
  /\ Claim(Sweeper, {n \in Notices : Claimable(n) /\ notices[n].age >= 1})
  /\ UNCHANGED <<queued, devices, reached, misses>>

-----------------------------------------------------------------------------
(* Pushing: pushClaimed. *)

ReadDevices(h) ==
  /\ pushes[h].phase = "devices"
  /\ pushes' = [pushes EXCEPT ![h].phase = "send",
       ![h].todo = pushes[h].batch \X {d \in Devices : devices[d].there}]
  /\ UNCHANGED <<notices, queued, devices, reached, misses>>

\* sendPush: the endpoint took it, is gone, or failed
Answer(h, n, d, outcome) ==
  /\ pushes[h].phase = "send" /\ <<n, d>> \in pushes[h].todo
  /\ pushes' = [pushes EXCEPT ![h].todo = @ \ {<<n, d>>},
       ![h].worked = IF outcome = "sent" THEN @ \cup {d} ELSE @,
       ![h].expired = IF outcome = "expired" THEN @ \cup {d} ELSE @,
       ![h].failing = IF outcome = "failed" THEN @ \cup {d} ELSE @]
  /\ reached' = IF outcome = "sent" /\ reached[<<n, d>>] < 2
                  THEN [reached EXCEPT ![<<n, d>>] = @ + 1] ELSE reached
  /\ UNCHANGED <<notices, queued, devices, misses>>

\* a job that was answered by a failure, if only once
FailingAtAll(h) == pushes[h].failing

\* it was answered by nothing else
StillFailing(h) == pushes[h].failing \ pushes[h].worked

\* what the answers of a job say, as of the statement that records them: it has
\* reached the device, or it was answered by failures only
Heard(h, phase) ==
  [d \in Devices |->
     IF d \in pushes[h].worked THEN IF phase = "reset" THEN 0 ELSE misses[d]
     ELSE IF d \in pushes[h].failing /\ phase = "count" /\ misses[d] < MaxFailures
            THEN misses[d] + 1 ELSE misses[d]]

Statement(h, phase, next, rows) ==
  /\ pushes[h].phase = phase
  /\ devices' = rows
  /\ pushes' = [pushes EXCEPT ![h] = IF next = "idle" THEN NoPush ELSE [@ EXCEPT !.phase = next]]
  /\ misses' = Heard(h, phase)
  /\ UNCHANGED <<notices, queued, reached>>

\* four statements, each on the rows that are there by then
DropExpired(h) ==
  /\ pushes[h].todo = {}
  /\ Statement(h, "send", "reset", Without(pushes[h].expired))

ResetFailures(h) == Statement(h, "reset", "count", Zeroed(pushes[h].worked))

CountFailure(h) ==
  Statement(h, "count", "drop",
    [d \in Devices |->
       IF d \in StillFailing(h) /\ devices[d].there /\ devices[d].failures < MaxFailures
         THEN [devices[d] EXCEPT !.failures = @ + 1] ELSE devices[d]])

RetiredAnyway(ds) == ds

Retired(ds) == {d \in ds : devices[d].failures >= MaxFailures}

DropFailing(h) == Statement(h, "drop", "idle", Without(Retired(StillFailing(h))))

\* what was claimed and not sent yet is not pushed any more
PusherDies(h) ==
  /\ pushes[h].phase # "idle"
  /\ pushes' = [pushes EXCEPT ![h] = NoPush]
  /\ UNCHANGED <<notices, queued, devices, reached, misses>>

Pushing(h) ==
  \/ ReadDevices(h)
  \/ \E n \in Notices, d \in Devices, outcome \in {"sent", "expired", "failed"} :
       Answer(h, n, d, outcome)
  \/ DropExpired(h) \/ ResetFailures(h) \/ CountFailure(h) \/ DropFailing(h)

DeliveryNext ==
  \/ \E n \in Notices : Record(n) \/ Enqueue(n) \/ Grow(n) \/ Discard(n)
  \/ \E d \in Devices : Subscribe(d) \/ Unsubscribe(d)
  \/ \E h \in Pushers, n \in Notices : TakeDelivery(h, n)
  \/ SweepStale \/ SweepClaim
  \/ \E h \in Hands : Pushing(h) \/ PusherDies(h)

DeliverySpec == DeliveryInit /\ [][DeliveryNext]_deliveryVars

\* the sweep is scheduled every five minutes, sends are bounded by a timeout
DeliveryFairness ==
  /\ \A n \in Notices : WF_deliveryVars(Grow(n))
  /\ WF_deliveryVars(SweepStale) /\ WF_deliveryVars(SweepClaim \/ Pushing(Sweeper))

-----------------------------------------------------------------------------
(* Properties. *)

\* A notification is sent to a device once at most, although the fast path, a
\* job handed out again and the sweep meet (delivery.ts:26-29, "without any
\* chance of sending the same notification twice").
PushedOnce == \A n \in Notices, d \in Devices : reached[<<n, d>>] <= 1

\* A job forgets a device because its push service has just told it that it is
\* gone, or because MaxFailures jobs in a row failed to reach it: no job that
\* reached it, and no subscription, was recorded between two of them or between
\* the last and the deletion (docs/notifications.md:209).  The order is that of
\* the jobs' statements; a device that has answered a job which has yet to say
\* so is still forgotten by another.
DroppedForCause ==
  [][\A d \in Devices : pushes' # pushes /\ devices[d].there /\ ~devices'[d].there =>
       \/ misses[d] = MaxFailures
       \/ \E h \in Hands : d \in pushes[h].expired /\ pushes'[h].phase = "reset"]_deliveryVars

\* Every notification is looked at in the end, also one whose job was never
\* queued or whose worker died.
EveryNoticeStamped == \A n \in Notices : notices[n].state = "pending" ~> notices[n].state # "pending"
=============================================================================
