---------------------------- MODULE WorkerProofs ----------------------------
(***************************************************************************)
(* Theorems about the jobs of the background worker and about the worker   *)
(* itself, for any number of notifications, devices, runs, jobs in hand    *)
(* and instances.  Deliveries: a push is sent once at most, and a device   *)
(* is dropped for cause.  BackupRuns: one run writes at a time, and the    *)
(* newest copy stays.  WorkerHost: the worker's pg-boss instance is one,   *)
(* and subscribed once.                                                    *)
(***************************************************************************)
EXTENDS Deliveries, BackupRuns, WorkerHost, FiniteSetTheorems, WellFoundedInduction, TLAPS

-----------------------------------------------------------------------------
(* Deliveries                                                              *)

(* What a job in hand is about: it sends what it has claimed, and nothing  *)
(* before it has read the devices.                                         *)
PushOK(push) ==
  /\ push \in Push
  /\ push.todo \subseteq push.batch \X Devices
  /\ push.phase \in {"idle", "claim"} => push.batch = {}
  /\ push.phase \in {"idle", "claim", "devices"} => push.todo = {}

(* A job that may yet send a notification to a device. *)
Owes(push, n, d) ==
  \/ push.phase = "devices" /\ n \in push.batch
  \/ <<n, d>> \in push.todo

DeliveryTables ==
  /\ notices \in [Notices -> Notice]
  /\ queued \subseteq Notices
  /\ devices \in [Devices -> Device]
  /\ reached \in [Notices \X Devices -> 0..2]

(* Whoever has claimed a notification is the only one. *)
Claims ==
  /\ pushes \in [Hands -> Push]
  /\ \A h \in Hands : PushOK(pushes[h])
  /\ \A h \in Hands : \A n \in pushes[h].batch : notices[n].state = "stamped"
  /\ \A g, h \in Hands : g # h => pushes[g].batch \cap pushes[h].batch = {}

(* What has been sent is claimed, and nobody owes it any more. *)
SentIsSettled ==
  \A n \in Notices, d \in Devices : reached[<<n, d>>] # 0 =>
    /\ notices[n].state = "stamped"
    /\ \A h \in Hands : ~Owes(pushes[h], n, d)

DeliveryInv == DeliveryTables /\ Claims /\ SentIsSettled /\ PushedOnce

(* The count in a device's row is never above the jobs in a row that did   *)
(* not reach it: what forgets a device by its count has seen as many.      *)
Tallied ==
  /\ misses \in [Devices -> 0..MaxFailures]
  /\ \A d \in Devices : devices[d].failures <= misses[d]

USE SweeperAssumption, MaxFailuresAssumption

-----------------------------------------------------------------------------
(* Parts of the invariant that several steps keep. *)

LEMMA NoPushOK == PushOK(NoPush) /\ NoPush.batch = {} /\ NoPush.todo = {} /\ NoPush.phase = "idle"
  <1>1. NoPush \in Push
    BY DEF NoPush, Push, PushPhase
  <1> QED BY <1>1 DEF PushOK, NoPush

LEMMA OfPush ==
  ASSUME DeliveryInv, NEW h \in Hands
  PROVE  PushOK(pushes[h]) /\ pushes[h] \in Push
  BY DEF DeliveryInv, Claims, PushOK

(* A job that moves on with what it has claimed. *)
LEMMA OnePush ==
  ASSUME DeliveryInv, NEW h \in Hands, NEW push, PushOK(push),
         push.batch \subseteq pushes[h].batch,
         \A n \in Notices, d \in Devices : Owes(push, n, d) => Owes(pushes[h], n, d),
         pushes' = [pushes EXCEPT ![h] = push],
         UNCHANGED <<notices, reached, queued>>, devices' \in [Devices -> Device]
  PROVE  DeliveryInv'
  <1>1. \A g \in Hands : pushes'[g] = IF g = h THEN push ELSE pushes[g]
    BY DEF DeliveryInv, Claims
  <1>2. pushes' \in [Hands -> Push]
    BY DEF DeliveryInv, Claims, PushOK
  <1>3. ASSUME NEW g \in Hands
        PROVE  /\ PushOK(pushes'[g]) /\ pushes'[g].batch \subseteq pushes[g].batch
               /\ \A n \in Notices, d \in Devices :
                    Owes(pushes'[g], n, d) => Owes(pushes[g], n, d)
    BY <1>1 DEF DeliveryInv, Claims
  <1>4. Claims'
    <2>1. \A g \in Hands : \A n \in pushes'[g].batch : notices'[n].state = "stamped"
      BY <1>3 DEF DeliveryInv, Claims
    <2>2. \A f, g \in Hands : f # g => pushes'[f].batch \cap pushes'[g].batch = {}
      BY <1>3 DEF DeliveryInv, Claims
    <2>3. \A g \in Hands : PushOK(pushes'[g])
      BY <1>3
    <2> QED BY <1>2, <2>1, <2>2, <2>3 DEF Claims
  <1>5. SentIsSettled'
    BY <1>3 DEF DeliveryInv, SentIsSettled
  <1> QED BY <1>4, <1>5 DEF DeliveryInv, DeliveryTables, PushedOnce

(* Stamping notifications that nobody has claimed. *)
LEMMA Stamps ==
  ASSUME DeliveryInv, NEW ns \in SUBSET Notices, notices' = Stamped(ns)
  PROVE  /\ notices' \in [Notices -> Notice]
         /\ \A n \in Notices :
              notices'[n].state = IF n \in ns THEN "stamped" ELSE notices[n].state
  <1>1. \A n \in Notices : notices[n] \in Notice
    BY DEF DeliveryInv, DeliveryTables
  <1>2. \A n \in Notices : /\ [notices[n] EXCEPT !.state = "stamped"] \in Notice
                           /\ [notices[n] EXCEPT !.state = "stamped"].state = "stamped"
    BY <1>1 DEF Notice
  <1>3. \A n \in Notices : notices'[n] = IF n \in ns THEN [notices[n] EXCEPT !.state = "stamped"]
                                         ELSE notices[n]
    BY DEF Stamped
  <1>4. notices' \in [Notices -> Notice]
    BY <1>1, <1>2 DEF Stamped
  <1> QED BY <1>2, <1>3, <1>4

(* A job with nothing in hand takes pending notifications. *)
LEMMA ClaimKeeps ==
  ASSUME DeliveryInv, NEW h \in Hands, NEW ns \in SUBSET Notices, Claim(h, ns),
         \A n \in ns : notices[n].state = "pending",
         UNCHANGED <<devices, reached>>, queued' \subseteq Notices
  PROVE  DeliveryInv'
  <1> DEFINE push == [NoPush EXCEPT !.phase = IF ns = {} THEN "idle" ELSE "devices",
                                    !.batch = ns]
  <1>1. NoPush \in Push /\ NoPush.todo = {}
    BY NoPushOK DEF PushOK
  <1>2. push \in Push
    BY <1>1 DEF Push, PushPhase
  <1>3. /\ push.batch = ns /\ push.todo = {}
        /\ push.phase = IF ns = {} THEN "idle" ELSE "devices"
    BY <1>1 DEF Push
  <1>4. pushes' = [pushes EXCEPT ![h] = push] /\ notices' = Stamped(ns)
    BY DEF Claim
  <1> HIDE DEF push
  <1>5. PushOK(push)
    BY <1>2, <1>3 DEF PushOK
  <1>6. /\ notices' \in [Notices -> Notice]
        /\ \A n \in Notices :
             notices'[n].state = IF n \in ns THEN "stamped" ELSE notices[n].state
    BY <1>4, Stamps
  <1>7. \A g \in Hands : pushes'[g] = IF g = h THEN push ELSE pushes[g]
    BY <1>4 DEF DeliveryInv, Claims
  <1>8. \A g \in Hands : ns \cap pushes[g].batch = {}
    BY DEF DeliveryInv, Claims
  <1>9. \A g \in Hands : pushes[g].batch \subseteq Notices
    BY OfPush DEF Push
  <1>10. Claims'
    <2>1. pushes' \in [Hands -> Push]
      BY <1>2, <1>4 DEF DeliveryInv, Claims
    <2>2. \A g \in Hands : PushOK(pushes'[g])
      BY <1>5, <1>7 DEF DeliveryInv, Claims
    <2>3. \A g \in Hands : \A n \in pushes'[g].batch : notices'[n].state = "stamped"
      BY <1>3, <1>6, <1>7, <1>9 DEF DeliveryInv, Claims
    <2>4. \A f, g \in Hands : f # g => pushes'[f].batch \cap pushes'[g].batch = {}
      BY <1>3, <1>7, <1>8 DEF DeliveryInv, Claims
    <2> QED BY <2>1, <2>2, <2>3, <2>4 DEF Claims
  <1>11. SentIsSettled'
    <2> SUFFICES ASSUME NEW n \in Notices, NEW d \in Devices, reached[<<n, d>>] # 0
                 PROVE  /\ notices'[n].state = "stamped"
                        /\ \A g \in Hands : ~Owes(pushes'[g], n, d)
      BY DEF SentIsSettled
    <2>1. notices[n].state = "stamped" /\ \A g \in Hands : ~Owes(pushes[g], n, d)
      BY DEF DeliveryInv, SentIsSettled
    <2>2. n \notin ns
      BY <2>1
    <2>3. ~Owes(push, n, d)
      BY <1>3, <2>2 DEF Owes
    <2> QED BY <1>6, <1>7, <2>1, <2>2, <2>3
  <1>12. DeliveryTables'
    BY <1>6 DEF DeliveryInv, DeliveryTables
  <1> QED BY <1>10, <1>11, <1>12 DEF DeliveryInv, PushedOnce

-----------------------------------------------------------------------------
(* What is not theirs. *)

LEMMA OutsideKeeps ==
  ASSUME DeliveryInv, NEW n \in Notices, Record(n) \/ Enqueue(n) \/ Grow(n) \/ Discard(n)
  PROVE  DeliveryInv'
  <1>1. CASE Enqueue(n)
    BY <1>1 DEF Enqueue, DeliveryInv, DeliveryTables, Claims, SentIsSettled, PushedOnce
  <1>2. ASSUME NEW row \in Notice, notices' = [notices EXCEPT ![n] = row],
               UNCHANGED <<pushes, reached, devices>>, queued' \subseteq Notices,
               notices[n].state = "stamped" => row.state = "stamped"
        PROVE  DeliveryInv'
    <2>1. /\ notices' \in [Notices -> Notice]
          /\ \A m \in Notices : notices[m].state = "stamped" => notices'[m].state = "stamped"
      BY <1>2 DEF DeliveryInv, DeliveryTables
    <2>2. \A h \in Hands : pushes[h].batch \subseteq Notices
      BY OfPush DEF Push
    <2> QED BY <1>2, <2>1, <2>2
            DEF DeliveryInv, DeliveryTables, Claims, SentIsSettled, PushedOnce
  <1>3. CASE Record(n)
    <2>1. [state |-> "pending", age |-> 0] \in Notice
      BY DEF Notice
    <2> QED BY <1>2, <1>3, <2>1 DEF Record, DeliveryInv, DeliveryTables
  <1>4. CASE Grow(n)
    <2> DEFINE row == [notices[n] EXCEPT !.age = @ + 1]
    <2>1. notices[n] \in Notice /\ notices[n].age + 1 \in 0..2 /\ notices[n].state = "pending"
      BY <1>4 DEF Grow, DeliveryInv, DeliveryTables, Notice
    <2>2. row \in Notice
      BY <2>1 DEF Notice
    <2>3. notices' = [notices EXCEPT ![n] = row] /\ UNCHANGED <<queued, devices, pushes, reached>>
      BY <1>4 DEF Grow
    <2> HIDE DEF row
    <2> QED BY <1>2, <2>1, <2>2, <2>3 DEF DeliveryInv, DeliveryTables
  <1>5. CASE Discard(n)
    <2>1. [state |-> "none", age |-> 0] \in Notice
      BY DEF Notice
    <2>2. /\ notices' = [notices EXCEPT ![n] = [state |-> "none", age |-> 0]]
          /\ reached' = [x \in Notices \X Devices |-> IF x[1] = n THEN 0 ELSE reached[x]]
          /\ \A h \in Hands : n \notin pushes[h].batch
          /\ UNCHANGED <<queued, devices, pushes>>
      BY <1>5 DEF Discard
    <2>3. DeliveryTables'
      BY <2>1, <2>2 DEF DeliveryInv, DeliveryTables
    <2>4. \A m \in Notices : m # n => notices'[m] = notices[m]
      BY <2>2 DEF DeliveryInv, DeliveryTables
    <2>5. \A m \in Notices, d \in Devices :
            reached'[<<m, d>>] = IF m = n THEN 0 ELSE reached[<<m, d>>]
      BY <2>2
    <2>6. \A h \in Hands : pushes[h].batch \subseteq Notices
      BY OfPush DEF Push
    <2>7. Claims'
      BY <2>2, <2>4, <2>6 DEF DeliveryInv, Claims
    <2>8. SentIsSettled' /\ PushedOnce'
      BY <2>2, <2>4, <2>5 DEF DeliveryInv, SentIsSettled, PushedOnce
    <2> QED BY <2>3, <2>7, <2>8 DEF DeliveryInv
  <1> QED BY <1>1, <1>3, <1>4, <1>5

LEMMA WithoutType ==
  ASSUME DeliveryInv, NEW ds
  PROVE  Without(ds) \in [Devices -> Device]
  <1>1. [there |-> FALSE, failures |-> 0] \in Device
    BY DEF Device
  <1> QED BY <1>1 DEF Without, DeliveryInv, DeliveryTables

LEMMA ThereAgain ==
  ASSUME NEW row \in Device, row.failures = 0
  PROVE  [row EXCEPT !.there = TRUE] \in Device /\ [row EXCEPT !.there = TRUE].failures = 0
  BY DEF Device

(* What a subscription writes, whether it resets a row or makes one. *)
LEMMA SubscribeWrites ==
  ASSUME DeliveryInv, NEW d \in Devices, Subscribe(d)
  PROVE  /\ devices' \in [Devices -> Device] /\ devices'[d].failures = 0
         /\ \A e \in Devices : e # d => devices'[e] = devices[e]
  <1> DEFINE rows == Zeroed({d})
             row == [rows[d] EXCEPT !.there = TRUE]
  <1>1. devices \in [Devices -> Device]
    BY DEF DeliveryInv, DeliveryTables
  <1>2. rows \in [Devices -> Device] /\ rows[d].failures = 0 /\ \A e \in Devices : e # d => rows[e] = devices[e]
    <2>1. \A e \in Devices : [devices[e] EXCEPT !.failures = 0] \in Device
                              /\ [devices[e] EXCEPT !.failures = 0].failures = 0
      BY <1>1 DEF Device
    <2> QED BY <1>1, <2>1 DEF Zeroed
  <1>3. devices' = [rows EXCEPT ![d] = row]
    BY DEF Subscribe
  <1> HIDE DEF rows
  <1>4. row \in Device /\ row.failures = 0
    BY <1>2, ThereAgain
  <1> HIDE DEF row
  <1> QED BY <1>2, <1>3, <1>4

LEMMA SubscribeKeeps ==
  ASSUME DeliveryInv, NEW d \in Devices, Subscribe(d) \/ Unsubscribe(d)
  PROVE  DeliveryInv'
  <1>1. devices' \in [Devices -> Device]
    <2>1. CASE Subscribe(d)
      BY <2>1, SubscribeWrites
    <2>2. CASE Unsubscribe(d)
      BY <2>2, WithoutType DEF Unsubscribe
    <2> QED BY <2>1, <2>2
  <1> QED BY <1>1 DEF Subscribe, Unsubscribe, DeliveryInv, DeliveryTables, Claims, SentIsSettled, PushedOnce

-----------------------------------------------------------------------------
(* Claiming. *)

LEMMA TakeKeeps ==
  ASSUME DeliveryInv, NEW h \in Pushers, NEW n \in Notices, TakeDelivery(h, n)
  PROVE  DeliveryInv'
  <1> DEFINE ns == IF Claimable(n) THEN {n} ELSE {}
  <1>1. ns \in SUBSET Notices /\ \A m \in ns : notices[m].state = "pending"
    BY DEF Claimable
  <1>2. Claim(h, ns) /\ UNCHANGED <<devices, reached>> /\ queued' = queued \ {n} /\ h \in Hands
    BY DEF TakeDelivery, Hands
  <1> HIDE DEF ns
  <1>3. queued' \subseteq Notices
    BY <1>2 DEF DeliveryInv, DeliveryTables
  <1> QED BY <1>1, <1>2, <1>3, ClaimKeeps

LEMMA SweepClaimKeeps ==
  ASSUME DeliveryInv, SweepClaim
  PROVE  DeliveryInv'
  <1> DEFINE ns == {n \in Notices : Claimable(n) /\ notices[n].age >= 1}
  <1>1. ns \in SUBSET Notices /\ \A m \in ns : notices[m].state = "pending"
    BY DEF Claimable
  <1>2. Claim(Sweeper, ns) /\ UNCHANGED <<queued, devices, reached>> /\ Sweeper \in Hands
    BY DEF SweepClaim, Hands
  <1> HIDE DEF ns
  <1>3. queued' \subseteq Notices
    BY <1>2 DEF DeliveryInv, DeliveryTables
  <1> QED BY <1>1, <1>2, <1>3, ClaimKeeps

(* What is stale is stamped, and sent by nobody. *)
LEMMA SweepStaleKeeps ==
  ASSUME DeliveryInv, SweepStale
  PROVE  DeliveryInv'
  <1> DEFINE push == [pushes[Sweeper] EXCEPT !.phase = "claim"]
  <1>1. Sweeper \in Hands /\ pushes[Sweeper].phase = "idle"
    BY DEF Hands, SweepStale
  <1>2. /\ pushes[Sweeper] \in Push
        /\ pushes[Sweeper].batch = {} /\ pushes[Sweeper].todo = {}
    BY <1>1, OfPush DEF PushOK
  <1>3. push \in Push /\ push.batch = {} /\ push.todo = {} /\ push.phase = "claim"
    BY <1>2 DEF Push, PushPhase
  <1>4. /\ pushes' = [pushes EXCEPT ![Sweeper] = push]
        /\ notices' = Stamped(Stale) /\ UNCHANGED <<queued, devices, reached>>
    BY DEF SweepStale
  <1> HIDE DEF push
  <1>5. /\ notices' \in [Notices -> Notice]
        /\ \A n \in Notices :
             notices'[n].state = IF n \in Stale THEN "stamped" ELSE notices[n].state
    BY <1>4, Stamps DEF Stale
  <1>6. \A g \in Hands : pushes'[g] = IF g = Sweeper THEN push ELSE pushes[g]
    BY <1>4 DEF DeliveryInv, Claims
  <1>7. \A g \in Hands : pushes[g].batch \subseteq Notices
    BY OfPush DEF Push
  <1>8. Claims'
    <2>1. pushes' \in [Hands -> Push]
      BY <1>3, <1>4 DEF DeliveryInv, Claims
    <2>2. PushOK(push)
      BY <1>3 DEF PushOK
    <2>3. \A g \in Hands : PushOK(pushes'[g])
      BY <1>6, <2>2 DEF DeliveryInv, Claims
    <2>4. \A g \in Hands : \A n \in pushes'[g].batch : notices'[n].state = "stamped"
      BY <1>3, <1>5, <1>6, <1>7 DEF DeliveryInv, Claims
    <2>5. \A f, g \in Hands : f # g => pushes'[f].batch \cap pushes'[g].batch = {}
      BY <1>3, <1>6 DEF DeliveryInv, Claims
    <2> QED BY <2>1, <2>3, <2>4, <2>5 DEF Claims
  <1>9. SentIsSettled'
    BY <1>3, <1>4, <1>5, <1>6 DEF DeliveryInv, SentIsSettled, Owes
  <1> QED BY <1>4, <1>5, <1>8, <1>9 DEF DeliveryInv, DeliveryTables, PushedOnce

-----------------------------------------------------------------------------
(* Pushing. *)

LEMMA ReadDevicesKeeps ==
  ASSUME DeliveryInv, NEW h \in Hands, ReadDevices(h)
  PROVE  DeliveryInv'
  <1> DEFINE old == pushes[h]
             owed == old.batch \X {d \in Devices : devices[d].there}
             push == [old EXCEPT !.phase = "send", !.todo = owed]
  <1>1. old \in Push /\ old.phase = "devices"
    BY OfPush DEF ReadDevices
  <1>2. pushes' = [pushes EXCEPT ![h] = push]
        /\ UNCHANGED <<notices, queued, devices, reached>>
    BY DEF ReadDevices
  <1>3. owed \subseteq old.batch \X Devices
    OBVIOUS
  <1>7. \A n, d : <<n, d>> \in owed => n \in old.batch
    OBVIOUS
  <1> HIDE DEF old, owed
  <1>4. push \in Push
    <2>1. owed \in SUBSET (Notices \X Devices)
      BY <1>1, <1>3 DEF Push
    <2> QED BY <1>1, <2>1 DEF Push, PushPhase
  <1>5. push.phase = "send" /\ push.todo = owed /\ push.batch = old.batch
    BY <1>1 DEF Push
  <1> HIDE DEF push
  <1>6. PushOK(push)
    BY <1>3, <1>4, <1>5 DEF PushOK
  <1>8. \A n \in Notices, d \in Devices : Owes(push, n, d) => Owes(old, n, d)
    BY <1>1, <1>5, <1>7 DEF Owes
  <1>9. devices' \in [Devices -> Device]
    BY <1>2 DEF DeliveryInv, DeliveryTables
  <1> QED BY <1>2, <1>5, <1>6, <1>8, <1>9, OnePush DEF old

(* One answer of a push service. *)
LEMMA AnswerKeeps ==
  ASSUME DeliveryInv, NEW h \in Hands, NEW n \in Notices, NEW d \in Devices,
         NEW outcome \in {"sent", "expired", "failed"}, Answer(h, n, d, outcome)
  PROVE  DeliveryInv'
  <1> DEFINE old == pushes[h]
             works == IF outcome = "sent" THEN old.worked \cup {d} ELSE old.worked
             gone  == IF outcome = "expired" THEN old.expired \cup {d} ELSE old.expired
             fails == IF outcome = "failed" THEN old.failing \cup {d} ELSE old.failing
             push == [old EXCEPT !.todo = old.todo \ {<<n, d>>}, !.worked = works,
                                 !.expired = gone, !.failing = fails]
  <1>1. old \in Push /\ PushOK(old) /\ old.phase = "send" /\ <<n, d>> \in old.todo
    BY OfPush DEF Answer
  <1>2. pushes' = [pushes EXCEPT ![h] = push] /\ UNCHANGED <<notices, queued, devices>>
    BY DEF Answer
  <1>3. n \in old.batch /\ reached[<<n, d>>] = 0
    BY <1>1 DEF PushOK, Owes, DeliveryInv, SentIsSettled
  <1>4. reached' = IF outcome = "sent" THEN [reached EXCEPT ![<<n, d>>] = 1] ELSE reached
    BY <1>3 DEF Answer
  <1>5. works \subseteq Devices /\ gone \subseteq Devices /\ fails \subseteq Devices
    BY <1>1 DEF Push
  <1> HIDE DEF works, gone, fails
  <1>6. /\ notices[n].state = "stamped"
        /\ \A g \in Hands : g # h => n \notin pushes[g].batch
    BY <1>3 DEF DeliveryInv, Claims
  <1> HIDE DEF old
  <1>7. push \in Push
    <2>1. old.todo \ {<<n, d>>} \in SUBSET (Notices \X Devices)
      BY <1>1 DEF Push
    <2> QED BY <1>1, <1>5, <2>1 DEF Push
  <1>8. push.phase = "send" /\ push.todo = old.todo \ {<<n, d>>} /\ push.batch = old.batch
    BY <1>1 DEF Push
  <1> HIDE DEF push
  <1>9. PushOK(push)
    BY <1>1, <1>7, <1>8 DEF PushOK
  <1>10. \A g \in Hands : pushes'[g] = IF g = h THEN push ELSE pushes[g]
    BY <1>2 DEF DeliveryInv, Claims
  <1>11. Claims'
    <2>1. pushes' \in [Hands -> Push]
      BY <1>2, <1>7 DEF DeliveryInv, Claims
    <2>2. \A g \in Hands : PushOK(pushes'[g]) /\ pushes'[g].batch = pushes[g].batch
      BY <1>8, <1>9, <1>10 DEF DeliveryInv, Claims, old
    <2> QED BY <1>2, <2>1, <2>2 DEF DeliveryInv, Claims
  <1>12. \A m \in Notices, e \in Devices :
           reached'[<<m, e>>] # 0 => reached[<<m, e>>] # 0 \/ (m = n /\ e = d)
    BY <1>4 DEF DeliveryInv, DeliveryTables
  <1>13. SentIsSettled'
    <2> SUFFICES ASSUME NEW m \in Notices, NEW e \in Devices, reached'[<<m, e>>] # 0,
                        NEW g \in Hands
                 PROVE  notices[m].state = "stamped" /\ ~Owes(pushes'[g], m, e)
      BY <1>2, <1>6, <1>12 DEF SentIsSettled, DeliveryInv
    <2>1. CASE m = n /\ e = d
      <3>1. CASE g = h
        BY <1>6, <1>8, <1>10, <2>1, <3>1 DEF Owes
      <3>2. CASE g # h
        <4>1. PushOK(pushes[g]) /\ n \notin pushes[g].batch
          BY <1>6, <3>2, OfPush
        <4> QED BY <1>6, <1>10, <2>1, <3>2, <4>1 DEF Owes, PushOK
      <3> QED BY <3>1, <3>2
    <2>2. CASE reached[<<m, e>>] # 0
      <3>1. notices[m].state = "stamped" /\ ~Owes(pushes[g], m, e)
        BY <2>2 DEF DeliveryInv, SentIsSettled
      <3>2. CASE g = h
        BY <1>1, <1>8, <1>10, <3>1, <3>2 DEF Owes, old
      <3>3. CASE g # h
        BY <1>10, <3>1, <3>3
      <3> QED BY <3>2, <3>3
    <2> QED BY <1>12, <2>1, <2>2
  <1>14. DeliveryTables' /\ PushedOnce'
    BY <1>2, <1>4 DEF DeliveryInv, DeliveryTables, PushedOnce
  <1> QED BY <1>11, <1>13, <1>14 DEF DeliveryInv

(* The four statements that clear up, and a job that is lost. *)
LEMMA StatementKeeps ==
  ASSUME DeliveryInv, NEW h \in Hands, NEW phase, NEW next \in {"reset", "count", "drop", "idle"},
         NEW rows \in [Devices -> Device], Statement(h, phase, next, rows)
  PROVE  DeliveryInv'
  <1> DEFINE old == pushes[h]
             push == IF next = "idle" THEN NoPush ELSE [old EXCEPT !.phase = next]
  <1>1. old \in Push /\ PushOK(old)
    BY OfPush
  <1>2. pushes' = [pushes EXCEPT ![h] = push] /\ devices' = rows
        /\ UNCHANGED <<notices, queued, reached>>
    BY DEF Statement
  <1> HIDE DEF old
  <1>3. PushOK(push) /\ push.batch \subseteq old.batch /\ push.todo \subseteq old.todo
        /\ push.phase # "devices"
    <2>1. CASE next = "idle"
      BY <2>1, NoPushOK
    <2>2. CASE next # "idle"
      <3>1. push \in Push
        BY <1>1, <2>2 DEF Push, PushPhase
      <3>2. push.phase = next /\ push.batch = old.batch /\ push.todo = old.todo
        BY <1>1, <2>2 DEF Push
      <3> QED BY <1>1, <2>2, <3>1, <3>2 DEF PushOK
    <2> QED BY <2>1, <2>2
  <1> HIDE DEF push
  <1>4. \A n \in Notices, d \in Devices : Owes(push, n, d) => Owes(old, n, d)
    BY <1>3 DEF Owes
  <1> QED BY <1>2, <1>3, <1>4, OnePush DEF old

LEMMA ClearUpKeeps ==
  ASSUME DeliveryInv, NEW h \in Hands,
         DropExpired(h) \/ ResetFailures(h) \/ CountFailure(h) \/ DropFailing(h)
  PROVE  DeliveryInv'
  <1>0. \A d \in Devices : devices[d] \in Device
    BY DEF DeliveryInv, DeliveryTables
  <1>1. CASE DropExpired(h)
    BY <1>1, WithoutType, StatementKeeps DEF DropExpired
  <1>2. CASE ResetFailures(h)
    <2> DEFINE rows == Zeroed(pushes[h].worked)
    <2>1. \A d \in Devices : [devices[d] EXCEPT !.failures = 0] \in Device
      BY <1>0 DEF Device
    <2>2. rows \in [Devices -> Device]
      BY <1>0, <2>1 DEF Zeroed
    <2>3. Statement(h, "reset", "count", rows)
      BY <1>2 DEF ResetFailures
    <2> HIDE DEF rows
    <2> QED BY <2>2, <2>3, StatementKeeps
  <1>3. CASE CountFailure(h)
    <2> DEFINE counted(d) == d \in StillFailing(h) /\ devices[d].there
                             /\ devices[d].failures < MaxFailures
               rows == [d \in Devices |-> IF counted(d)
                          THEN [devices[d] EXCEPT !.failures = @ + 1] ELSE devices[d]]
    <2>1. ASSUME NEW d \in Devices, counted(d)
          PROVE  [devices[d] EXCEPT !.failures = @ + 1] \in Device
      <3>1. devices[d].failures + 1 \in 0..MaxFailures
        BY <1>0, <2>1 DEF Device
      <3> QED BY <1>0, <3>1 DEF Device
    <2> HIDE DEF counted
    <2>2. rows \in [Devices -> Device]
      BY <1>0, <2>1
    <2>3. Statement(h, "count", "drop", rows)
      BY <1>3 DEF CountFailure, counted
    <2> HIDE DEF rows
    <2> QED BY <2>2, <2>3, StatementKeeps
  <1>4. CASE DropFailing(h)
    BY <1>4, WithoutType, StatementKeeps DEF DropFailing
  <1> QED BY <1>1, <1>2, <1>3, <1>4

LEMMA DiesKeeps ==
  ASSUME DeliveryInv, NEW h \in Hands, PusherDies(h)
  PROVE  DeliveryInv'
  <1>1. /\ pushes' = [pushes EXCEPT ![h] = NoPush]
        /\ UNCHANGED <<notices, reached, queued>> /\ devices' \in [Devices -> Device]
    BY DEF PusherDies, DeliveryInv, DeliveryTables
  <1>2. \A n \in Notices, d \in Devices : ~Owes(NoPush, n, d)
    BY NoPushOK DEF Owes
  <1>3. NoPush.batch \subseteq pushes[h].batch /\ PushOK(NoPush)
    BY NoPushOK
  <1> HIDE DEF NoPush
  <1> QED BY <1>1, <1>2, <1>3, OnePush

-----------------------------------------------------------------------------
LEMMA DeliveryStepKeeps == DeliveryInv /\ [DeliveryNext]_deliveryVars => DeliveryInv'
  <1> SUFFICES ASSUME DeliveryInv, [DeliveryNext]_deliveryVars PROVE DeliveryInv'
    OBVIOUS
  <1>1. ASSUME NEW n \in Notices, Record(n) \/ Enqueue(n) \/ Grow(n) \/ Discard(n)
        PROVE  DeliveryInv'
    BY <1>1, OutsideKeeps
  <1>2. ASSUME NEW d \in Devices, Subscribe(d) \/ Unsubscribe(d) PROVE DeliveryInv'
    BY <1>2, SubscribeKeeps
  <1>3. ASSUME NEW h \in Pushers, NEW n \in Notices, TakeDelivery(h, n) PROVE DeliveryInv'
    BY <1>3, TakeKeeps
  <1>4. ASSUME SweepStale PROVE DeliveryInv'
    BY <1>4, SweepStaleKeeps
  <1>5. ASSUME SweepClaim PROVE DeliveryInv'
    BY <1>5, SweepClaimKeeps
  <1>6. ASSUME NEW h \in Hands, Pushing(h) PROVE DeliveryInv'
    BY <1>6, ReadDevicesKeeps, AnswerKeeps, ClearUpKeeps DEF Pushing
  <1>7. ASSUME NEW h \in Hands, PusherDies(h) PROVE DeliveryInv'
    BY <1>7, DiesKeeps
  <1>8. CASE UNCHANGED deliveryVars
    BY <1>8 DEF deliveryVars, DeliveryInv, DeliveryTables, Claims, SentIsSettled, PushedOnce
  <1> QED BY <1>1, <1>2, <1>3, <1>4, <1>5, <1>6, <1>7, <1>8 DEF DeliveryNext

(* A statement of a job that clears up: the rows and the history together. *)
LEMMA ClearUpTallies ==
  ASSUME DeliveryInv, Tallied, NEW h \in Hands,
         DropExpired(h) \/ ResetFailures(h) \/ CountFailure(h) \/ DropFailing(h)
  PROVE  Tallied'
  <1>1. PICK phase \in {"send", "reset", "count", "drop"} : misses' = Heard(h, phase) /\
          \/ phase = "reset" /\ ResetFailures(h)
          \/ phase = "count" /\ CountFailure(h)
          \/ phase \in {"send", "drop"} /\ \E ds : devices' = Without(ds)
    BY DEF DropExpired, ResetFailures, CountFailure, DropFailing, Statement
  <1>2. \A d \in Devices : misses[d] \in 0..MaxFailures /\ devices[d] \in Device
                           /\ devices[d].failures <= misses[d]
    BY DEF Tallied, DeliveryInv, DeliveryTables
  <1>3. \A d \in Devices : devices[d].failures \in 0..MaxFailures
    BY <1>2 DEF Device
  <1>4. misses' \in [Devices -> 0..MaxFailures]
    BY <1>1, <1>2 DEF Heard
  <1>5. CASE phase = "reset" /\ ResetFailures(h)
    <2>1. devices' = Zeroed(pushes[h].worked)
      BY <1>5 DEF ResetFailures, Statement
    <2>2. ASSUME NEW d \in Devices PROVE devices'[d].failures <= misses'[d]
      <3>1. CASE d \in pushes[h].worked
        <4>1. devices'[d] = [devices[d] EXCEPT !.failures = 0]
          BY <2>1, <3>1 DEF Zeroed
        <4>2. devices'[d].failures = 0
          BY <1>2, <4>1 DEF Device
        <4> QED BY <1>4, <4>2
      <3>2. CASE d \notin pushes[h].worked
        BY <1>1, <1>2, <1>5, <2>1, <3>2 DEF Zeroed, Heard
      <3> QED BY <3>1, <3>2
    <2> QED BY <1>4, <2>2 DEF Tallied
  <1>6. CASE phase = "count" /\ CountFailure(h)
    <2>1. ASSUME NEW d \in Devices PROVE devices'[d].failures <= misses'[d]
      <3> DEFINE counted == d \in StillFailing(h) /\ devices[d].there /\ devices[d].failures < MaxFailures
      <3>1. devices'[d] = IF counted THEN [devices[d] EXCEPT !.failures = @ + 1] ELSE devices[d]
        BY <1>6 DEF CountFailure, Statement
      <3>2. misses'[d] = IF d \in StillFailing(h) /\ misses[d] < MaxFailures
                           THEN misses[d] + 1 ELSE misses[d]
        BY <1>1, <1>6 DEF Heard, StillFailing
      <3>3. CASE counted
        <4>1. devices'[d].failures = devices[d].failures + 1
          BY <1>2, <3>1, <3>3 DEF Device
        <4> QED BY <1>2, <1>3, <3>2, <3>3, <4>1
      <3>4. CASE ~counted
        BY <1>2, <1>3, <3>1, <3>2, <3>4
      <3> QED BY <3>3, <3>4
    <2> QED BY <1>4, <2>1 DEF Tallied
  <1>7. CASE phase \in {"send", "drop"} /\ \E ds : devices' = Without(ds)
    <2>1. \A d \in Devices : misses'[d] = misses[d]
      BY <1>1, <1>7 DEF Heard
    <2>2. \A d \in Devices : devices'[d].failures = 0 \/ devices'[d] = devices[d]
      BY <1>7 DEF Without
    <2> QED BY <1>2, <1>4, <2>1, <2>2 DEF Tallied
  <1> QED BY <1>1, <1>5, <1>6, <1>7

LEMMA StepTallies ==
  ASSUME DeliveryInv, Tallied, [DeliveryNext]_deliveryVars
  PROVE  Tallied'
  <1>1. ASSUME UNCHANGED <<devices, misses>> PROVE Tallied'
    BY <1>1 DEF Tallied
  <1>2. ASSUME NEW d \in Devices, Subscribe(d) \/ Unsubscribe(d) PROVE Tallied'
    <2>1. /\ misses' \in [Devices -> 0..MaxFailures]
          /\ \A e \in Devices :
               devices'[e].failures = 0 \/ (devices'[e] = devices[e] /\ misses'[e] = misses[e])
      <3>1. CASE Subscribe(d)
        <4>1. misses' = [misses EXCEPT ![d] = 0]
          BY <3>1 DEF Subscribe
        <4>2. misses' \in [Devices -> 0..MaxFailures]
          BY <4>1 DEF Tallied
        <4>3. /\ devices'[d].failures = 0
              /\ \A e \in Devices : e # d => devices'[e] = devices[e] /\ misses'[e] = misses[e]
          BY <3>1, <4>1, SubscribeWrites DEF Tallied
        <4>4. ASSUME NEW e \in Devices
              PROVE  devices'[e].failures = 0 \/ (devices'[e] = devices[e] /\ misses'[e] = misses[e])
          <5>1. CASE e = d
            BY <4>3, <5>1
          <5>2. CASE e # d
            BY <4>3, <5>2
          <5> QED BY <5>1, <5>2
        <4> QED BY <4>2, <4>4
      <3>2. CASE Unsubscribe(d)
        <4>1. misses' = misses /\ devices' = Without({d})
          BY <3>2 DEF Unsubscribe
        <4>2. \A e \in Devices : devices'[e].failures = 0 \/ devices'[e] = devices[e]
          BY <4>1 DEF Without
        <4> QED BY <4>1, <4>2 DEF Tallied
      <3> QED BY <1>2, <3>1, <3>2
    <2>2. \A e \in Devices : misses'[e] \in 0..MaxFailures /\ misses[e] \in 0..MaxFailures
                            /\ devices[e].failures <= misses[e]
      BY <2>1 DEF Tallied
    <2> QED BY <2>1, <2>2 DEF Tallied
  <1>3. ASSUME NEW h \in Hands, Pushing(h) \/ PusherDies(h) PROVE Tallied'
    BY <1>1, <1>3, ClearUpTallies DEF Pushing, PusherDies, ReadDevices, Answer
  <1>4. ASSUME NEW n \in Notices, Record(n) \/ Enqueue(n) \/ Grow(n) \/ Discard(n) PROVE Tallied'
    BY <1>1, <1>4 DEF Record, Enqueue, Grow, Discard
  <1>5. ASSUME NEW h \in Pushers, NEW n \in Notices, TakeDelivery(h, n) PROVE Tallied'
    BY <1>1, <1>5 DEF TakeDelivery
  <1>6. ASSUME SweepStale \/ SweepClaim PROVE Tallied'
    BY <1>1, <1>6 DEF SweepStale, SweepClaim
  <1>7. CASE UNCHANGED deliveryVars
    BY <1>1, <1>7 DEF deliveryVars
  <1> QED BY <1>2, <1>3, <1>4, <1>5, <1>6, <1>7 DEF DeliveryNext

(* Every reachable state satisfies DeliveryInv, and the history agrees. *)
THEOREM DeliveriesInductive == DeliverySpec => [](DeliveryInv /\ Tallied)
  <1>1. DeliveryInit => DeliveryInv /\ Tallied
    <2> SUFFICES ASSUME DeliveryInit PROVE DeliveryInv /\ Tallied
      OBVIOUS
    <2>1. /\ [state |-> "none", age |-> 0] \in Notice
          /\ [there |-> TRUE, failures |-> 0] \in Device
      BY DEF Notice, Device
    <2>2. DeliveryTables
      BY <2>1 DEF DeliveryInit, DeliveryTables
    <2>3. pushes \in [Hands -> Push] /\ \A h \in Hands : pushes[h] = NoPush
      BY NoPushOK DEF DeliveryInit, PushOK
    <2>4. Claims
      BY <2>3, NoPushOK DEF Claims
    <2>5. SentIsSettled /\ PushedOnce
      BY DEF DeliveryInit, SentIsSettled, PushedOnce
    <2>6. Tallied
      BY DEF DeliveryInit, Tallied
    <2> QED BY <2>2, <2>4, <2>5, <2>6 DEF DeliveryInv
  <1>2. DeliveryInv /\ Tallied /\ [DeliveryNext]_deliveryVars => (DeliveryInv /\ Tallied)'
    BY DeliveryStepKeeps, StepTallies
  <1> QED BY <1>1, <1>2, PTL DEF DeliverySpec

(* The variables keep their types, and what is claimed is one job's. *)
THEOREM DeliveryTypeCorrect == DeliverySpec => []DeliveryTypeOK
  <1>1. DeliveryInv /\ Tallied => DeliveryTypeOK
    <2> SUFFICES ASSUME DeliveryInv, Tallied, NEW h \in Hands, NEW n \in pushes[h].batch,
                        NEW g \in Hands \ {h}
                 PROVE  notices[n].state = "stamped" /\ n \notin pushes[g].batch
      BY DEF DeliveryInv, DeliveryTables, Claims, Tallied, DeliveryTypeOK
    <2> QED BY DEF DeliveryInv, Claims
  <1> QED BY <1>1, DeliveriesInductive, PTL

(* A notification is sent to a device once at most (delivery.ts:26-29): the *)
(* claim decides between the fast path, its repetition and the sweep.       *)
THEOREM SentOnce == DeliverySpec => []PushedOnce
  <1>1. DeliveryInv => PushedOnce
    BY DEF DeliveryInv
  <1> QED BY <1>1, DeliveriesInductive, PTL

(* A job forgets a device when its service says it is gone, or when as many *)
(* jobs in a row as the limit has failed to reach it: none that did, and no *)
(* subscription, was recorded since the first of them (pushClaimed).        *)
THEOREM ForgottenForCause == DeliverySpec => DroppedForCause
  <1> DEFINE Cause(d) == \/ misses[d] = MaxFailures
                         \/ \E h \in Hands : d \in pushes[h].expired /\ pushes'[h].phase = "reset"
             Causes == \A d \in Devices :
                         pushes' # pushes /\ devices[d].there /\ ~devices'[d].there => Cause(d)
  <1>1. DeliveryInv /\ Tallied /\ [DeliveryNext]_deliveryVars => Causes
    <2> SUFFICES ASSUME DeliveryInv, Tallied, [DeliveryNext]_deliveryVars, NEW d \in Devices,
                        pushes' # pushes, devices[d].there, ~devices'[d].there
                 PROVE  Cause(d)
      OBVIOUS
    <2>0. devices[d] \in Device /\ devices \in [Devices -> Device]
      BY DEF DeliveryInv, DeliveryTables
    <2> HIDE DEF Cause
    <2>1. ASSUME UNCHANGED devices PROVE FALSE
      BY <2>1
    <2>2. ASSUME NEW e \in Devices, Subscribe(e) \/ Unsubscribe(e) PROVE FALSE
      BY <2>2 DEF Subscribe, Unsubscribe
    <2>3. ASSUME NEW h \in Hands, ResetFailures(h) PROVE FALSE
      <3>1. devices'[d] = IF d \in pushes[h].worked
                            THEN [devices[d] EXCEPT !.failures = 0] ELSE devices[d]
        BY <2>3 DEF ResetFailures, Statement, Zeroed
      <3> QED BY <2>0, <3>1 DEF Device
    <2>4. ASSUME NEW h \in Hands, CountFailure(h) PROVE FALSE
      <3>1. devices'[d] = [devices[d] EXCEPT !.failures = @ + 1] \/ devices'[d] = devices[d]
        BY <2>4 DEF CountFailure, Statement
      <3> QED BY <2>0, <3>1 DEF Device
    <2>5. ASSUME NEW h \in Hands, DropExpired(h) PROVE Cause(d)
      <3>1. d \in pushes[h].expired
        BY <2>5 DEF DropExpired, Statement, Without
      <3>2. pushes'[h] = [pushes[h] EXCEPT !.phase = "reset"] /\ pushes[h] \in Push
        BY <2>5, OfPush DEF DropExpired, Statement, DeliveryInv, Claims
      <3>3. pushes'[h].phase = "reset"
        BY <3>2 DEF Push
      <3> QED BY <3>1, <3>3 DEF Cause
    <2>6. ASSUME NEW h \in Hands, DropFailing(h) PROVE Cause(d)
      <3>1. d \in Retired(StillFailing(h))
        BY <2>6 DEF DropFailing, Statement, Without
      <3>2. devices[d].failures >= MaxFailures
        BY <3>1 DEF Retired
      <3>3. devices[d].failures \in 0..MaxFailures
        BY <2>0 DEF Device
      <3>4. misses[d] \in 0..MaxFailures /\ devices[d].failures <= misses[d]
        BY DEF Tallied
      <3> QED BY <3>2, <3>3, <3>4 DEF Cause
    <2>7. ASSUME NEW h \in Hands, Pushing(h) PROVE Cause(d)
      BY <2>1, <2>3, <2>4, <2>5, <2>6, <2>7 DEF Pushing, ReadDevices, Answer
    <2>8. ASSUME NEW n \in Notices, Record(n) \/ Enqueue(n) \/ Grow(n) \/ Discard(n)
          PROVE  FALSE
      BY <2>1, <2>8 DEF Record, Enqueue, Grow, Discard
    <2>9. ASSUME NEW h \in Hands, PusherDies(h) PROVE FALSE
      BY <2>1, <2>9 DEF PusherDies
    <2>10. ASSUME NEW h \in Pushers, NEW n \in Notices, TakeDelivery(h, n) PROVE FALSE
      BY <2>1, <2>10 DEF TakeDelivery
    <2>11. ASSUME SweepStale \/ SweepClaim PROVE FALSE
      BY <2>1, <2>11 DEF SweepStale, SweepClaim
    <2>12. CASE UNCHANGED deliveryVars
      BY <2>1, <2>12 DEF deliveryVars
    <2> QED BY <2>2, <2>7, <2>8, <2>9, <2>10, <2>11, <2>12 DEF DeliveryNext
  <1>2. DeliveryInv /\ Tallied /\ [DeliveryNext]_deliveryVars => [Causes]_deliveryVars
    BY <1>1
  <1> QED BY <1>2, DeliveriesInductive, PTL DEF DeliverySpec, DroppedForCause

-----------------------------------------------------------------------------
(* BackupRuns                                                              *)

USE NoRunAssumption, KeepLastAssumption

(* A run that still counts as going.                                       *)
Young(r) == Open(r) /\ ~runs[r].old

OneYoung == \A r, s \in Runs : Young(r) /\ Young(s) => r = s

(* A run is in one place: to be published, queued, or in one job's hands.  *)
HeldOnce ==
  /\ \A w \in BackupWorkers : workers[w].phase # "idle" =>
       workers[w].run \in Runs /\ workers[w].run \notin opening \cup jobs
  /\ \A v, w \in BackupWorkers :
       v # w /\ workers[v].phase # "idle" /\ workers[w].phase # "idle" =>
         workers[v].run # workers[w].run

(* Nothing in the cloud is newer than the newest, and what a worker is     *)
(* about to prune is older.                                                *)
NamesOrdered ==
  /\ copies \subseteq 1..newest
  /\ \A w \in BackupWorkers : workers[w].phase = "work" => workers[w].name \in 1..began
  /\ \A w \in BackupWorkers : \A n \in workers[w].doomed : n < newest

BackupInv == BackupTypeOK /\ OneYoung /\ HeldOnce /\ NamesOrdered /\ LatestKept

-----------------------------------------------------------------------------
LEMMA LeastOf ==
  ASSUME NEW S, S \subseteq Nat, S # {}
  PROVE  \E x \in S : \A y \in S : x <= y
  <1>1. PICK x \in S : \A y \in S : ~(<<y, x>> \in OpToRel(<, Nat))
    BY WFMin, NatLessThanWellFounded
  <1>2. ASSUME NEW y \in S PROVE x <= y
    <2>1. <<y, x>> \notin OpToRel(<, Nat)
      BY <1>1
    <2>2. ~(y < x)
      BY <2>1 DEF OpToRel
    <2> QED BY <2>2
  <1> QED BY <1>2

LEMMA MinOf ==
  ASSUME NEW S, S \subseteq Nat, S # {}
  PROVE  Min(S) \in S
  BY LeastOf DEF Min

LEMMA MaxOfTwo ==
  ASSUME NEW m \in Nat, NEW n \in Nat
  PROVE  Max({m, n}) = IF m >= n THEN m ELSE n
  BY DEF Max

LEMMA ExpiredIsOlder ==
  ASSUME BackupInv, NEW n \in Expired(copies)
  PROVE  n \in Nat /\ n < newest
  <1>1. n \in copies /\ Cardinality(Newer(copies, n)) >= KeepLast
    BY DEF Expired
  <1>2. newest \in Nat /\ copies \subseteq 1..newest
    BY DEF BackupInv, BackupTypeOK, NamesOrdered
  <1>3. Newer(copies, n) # {}
    BY <1>1, FS_EmptySet
  <1>4. PICK m \in copies : m > n
    BY <1>3 DEF Newer
  <1>5. n \in Nat /\ m \in Nat /\ m <= newest
    BY <1>1, <1>2
  <1> QED BY <1>2, <1>4, <1>5

LEMMA DestMade ==
  ASSUME NEW status \in Statuses, NEW due \in BOOLEAN
  PROVE  [status |-> status, due |-> due] \in [status: Statuses, due: BOOLEAN]
  OBVIOUS

LEMMA BackupBegins == BackupInit => BackupInv
  <1> SUFFICES ASSUME BackupInit PROVE BackupInv
    OBVIOUS
  <1> USE DEF BackupInit, NoWork, Unused
  <1>1. BackupTypeOK
    <2>1. dest \in [status: Statuses, due: BOOLEAN]
      BY DEF Statuses
    <2>2. runs \in [Runs -> Run]
      BY DEF Run
    <2>3. workers \in [BackupWorkers -> Work]
      <3>1. NoWork \in Work
        BY DEF Work, WorkPhases, Statuses
      <3> QED BY <3>1
    <2>4. /\ began \in Nat /\ copies \subseteq 1..began /\ newest \in 0..began
          /\ \A w \in BackupWorkers : workers[w].phase = "idle"
      OBVIOUS
    <2> QED BY <2>1, <2>2, <2>3, <2>4 DEF BackupTypeOK
  <1>2. OneYoung /\ HeldOnce /\ NamesOrdered /\ LatestKept
    BY DEF OneYoung, HeldOnce, NamesOrdered, LatestKept, Young, Open
  <1> QED BY <1>1, <1>2 DEF BackupInv

(* Steps that touch the rows of the runs, and the queue: not the jobs in   *)
(* hand, not the cloud.                                                    *)
LEMMA RowsStep ==
  ASSUME BackupInv, UNCHANGED <<workers, copies, began, newest>>,
         dest' \in [status: Statuses, due: BOOLEAN], asked' \in BOOLEAN,
         sweeping' \in {"idle", "select", "open"},
         runs' \in [Runs -> Run], OneYoung',
         opening' \subseteq Runs, jobs' \subseteq Runs, opening' \cap jobs' = {},
         \A w \in BackupWorkers : workers[w].phase # "idle" =>
           workers[w].run \notin opening' \cup jobs'
  PROVE  BackupInv'
  <1>1. BackupTypeOK'
    BY DEF BackupInv, BackupTypeOK
  <1>2. HeldOnce'
    BY DEF BackupInv, HeldOnce
  <1>3. NamesOrdered' /\ LatestKept'
    BY DEF BackupInv, NamesOrdered, LatestKept
  <1> QED BY <1>1, <1>2, <1>3 DEF BackupInv

LEMMA RowSet ==
  ASSUME BackupInv, NEW r \in Runs, NEW row \in Run,
         NEW now, now = [runs EXCEPT ![r] = row]
  PROVE  now \in [Runs -> Run] /\ now[r] = row /\ \A s \in Runs : s # r => now[s] = runs[s]
  BY DEF BackupInv, BackupTypeOK

(* Closing a run, or none.                                                 *)
LEMMA ClosedKeeps ==
  ASSUME BackupInv, NEW r \in Runs, runs' = Closed(r)
  PROVE  runs' \in [Runs -> Run] /\ OneYoung'
  <1> DEFINE row == [runs[r] EXCEPT !.state = IF @ = "none" THEN @ ELSE "closed"]
  <1>1. row \in Run /\ row.state # "running"
    BY DEF BackupInv, BackupTypeOK, Run
  <1>2. runs' = [runs EXCEPT ![r] = row]
    BY DEF Closed
  <1> HIDE DEF row
  <1>3. /\ runs' \in [Runs -> Run] /\ runs'[r].state # "running"
        /\ \A s \in Runs : s # r => runs'[s] = runs[s]
    BY <1>1, <1>2 DEF BackupInv, BackupTypeOK
  <1> QED BY <1>3 DEF BackupInv, OneYoung, Young, Open

LEMMA StartRunKeeps ==
  ASSUME BackupInv, NEW r \in Runs, NEW scheduled \in BOOLEAN, StartRun(r, scheduled)
  PROVE  /\ runs' \in [Runs -> Run] /\ OneYoung'
         /\ opening' = opening \cup {r} /\ r \notin jobs
         /\ \A w \in BackupWorkers : workers[w].phase # "idle" => workers[w].run # r
  <1> DEFINE row == [state |-> "running", old |-> FALSE, scheduled |-> scheduled]
  <1>1. row \in Run /\ runs' = [runs EXCEPT ![r] = row]
    BY DEF Run, StartRun
  <1> HIDE DEF row
  <1>2. runs' \in [Runs -> Run] /\ \A s \in Runs : s # r => runs'[s] = runs[s]
    BY <1>1 DEF BackupInv, BackupTypeOK
  <1>3. \A s \in Runs : ~Young(s)
    BY DEF StartRun, Busy, Young
  <1>4. OneYoung'
    BY <1>2, <1>3 DEF OneYoung, Young, Open
  <1> QED BY <1>2, <1>4 DEF StartRun, Free, Unheld

LEMMA OpeningKeeps ==
  ASSUME BackupInv, (\E r \in Runs : BackUpNow(r)) \/ OpenDue
  PROVE  BackupInv'
  <1>1. UNCHANGED <<dest, jobs, workers, copies, began, newest, asked>>
    BY DEF BackUpNow, OpenDue
  <1>2. sweeping' \in {"idle", "select", "open"}
    BY DEF BackUpNow, OpenDue, BackupInv, BackupTypeOK
  <1>3. CASE \E r \in Runs, scheduled \in BOOLEAN : StartRun(r, scheduled)
    <2>1. PICK r \in Runs, scheduled \in BOOLEAN : StartRun(r, scheduled)
      BY <1>3
    <2>2. /\ runs' \in [Runs -> Run] /\ OneYoung'
          /\ opening' = opening \cup {r} /\ r \notin jobs
          /\ \A w \in BackupWorkers : workers[w].phase # "idle" => workers[w].run # r
      BY <2>1, StartRunKeeps
    <2>3. opening' \subseteq Runs /\ jobs' \subseteq Runs /\ opening' \cap jobs' = {}
      BY <1>1, <2>2 DEF BackupInv, BackupTypeOK
    <2>4. \A w \in BackupWorkers : workers[w].phase # "idle" => workers[w].run \notin opening' \cup jobs'
      BY <1>1, <2>2 DEF BackupInv, HeldOnce
    <2>5. dest' \in [status: Statuses, due: BOOLEAN] /\ asked' \in BOOLEAN
      BY <1>1 DEF BackupInv, BackupTypeOK
    <2> QED BY <1>1, <1>2, <2>2, <2>3, <2>4, <2>5, RowsStep
  <1>4. CASE UNCHANGED <<runs, opening>>
    BY <1>1, <1>2, <1>4, RowsStep DEF BackupInv, BackupTypeOK, HeldOnce, OneYoung, Young, Open
  <1> QED BY <1>3, <1>4 DEF BackUpNow, OpenDue

LEMMA QueueKeeps ==
  ASSUME BackupInv, NEW r \in Runs, Publish(r) \/ PublishFails(r) \/ OpenerDies(r)
  PROVE  BackupInv'
  <1>1. /\ UNCHANGED <<dest, workers, sweeping, copies, began, newest, asked>>
        /\ r \in opening /\ opening' = opening \ {r}
        /\ jobs' \in {jobs, jobs \cup {r}}
        /\ UNCHANGED runs \/ runs' = Closed(r)
    BY DEF Publish, PublishFails, OpenerDies
  <1>2. runs' \in [Runs -> Run] /\ OneYoung'
    BY <1>1, ClosedKeeps DEF BackupInv, BackupTypeOK, OneYoung, Young, Open
  <1>3. opening' \subseteq Runs /\ jobs' \subseteq Runs /\ opening' \cap jobs' = {}
    BY <1>1 DEF BackupInv, BackupTypeOK
  <1>4. \A w \in BackupWorkers : workers[w].phase # "idle" => workers[w].run \notin opening' \cup jobs'
    BY <1>1 DEF BackupInv, HeldOnce
  <1>5. /\ dest' \in [status: Statuses, due: BOOLEAN] /\ asked' \in BOOLEAN
        /\ sweeping' \in {"idle", "select", "open"}
    BY <1>1 DEF BackupInv, BackupTypeOK
  <1> QED BY <1>1, <1>2, <1>3, <1>4, <1>5, RowsStep

(* Nothing but the destination, the sweep and rows that come to count less. *)
LEMMA LessYoungKeeps ==
  ASSUME BackupInv, UNCHANGED <<opening, jobs, workers, copies, began, newest>>,
         dest' \in [status: Statuses, due: BOOLEAN], asked' \in BOOLEAN,
         sweeping' \in {"idle", "select", "open"},
         runs' \in [Runs -> Run],
         \A s \in Runs : Young(s)' => Young(s)
  PROVE  BackupInv'
  <1>1. OneYoung'
    BY DEF BackupInv, OneYoung
  <1> QED BY <1>1, RowsStep DEF BackupInv, BackupTypeOK, HeldOnce

LEMMA PersonKeeps ==
  ASSUME BackupInv,
         \/ PauseBackups \/ ResumeBackups \/ FinishSetup \/ Reconnect \/ ForgetDestination
         \/ ComeDue \/ SelectDue \/ SweepBackups
         \/ \E r \in Runs : PruneRun(r) \/ GrowOld(r)
  PROVE  BackupInv'
  <1> USE DEF BackupInv, BackupTypeOK
  <1>1. UNCHANGED <<opening, jobs, workers, copies, began, newest>>
    BY DEF PauseBackups, ResumeBackups, FinishSetup, Reconnect, SetDest, ForgetDestination, ComeDue,
           SelectDue, SweepBackups, PruneRun, GrowOld
  <1>2. dest' \in [status: Statuses, due: BOOLEAN]
    <2>1. dest.due \in BOOLEAN /\ dest.status \in Statuses
      OBVIOUS
    <2>2. \/ dest' = dest
          \/ dest' = [status |-> dest.status, due |-> TRUE]
          \/ \E status \in Statuses, due \in BOOLEAN : dest' = [status |-> status, due |-> due]
      BY <2>1 DEF PauseBackups, ResumeBackups, FinishSetup, Reconnect, SetDest, ForgetDestination,
                  ComeDue, SelectDue, SweepBackups, PruneRun, GrowOld, Statuses
    <2> QED BY <2>1, <2>2, DestMade
  <1>3. asked' \in BOOLEAN /\ sweeping' \in {"idle", "select", "open"}
    BY DEF PauseBackups, ResumeBackups, FinishSetup, Reconnect, SetDest, ForgetDestination, ComeDue,
           SelectDue, SweepBackups, PruneRun, GrowOld
  <1>4. runs' \in [Runs -> Run] /\ \A s \in Runs : Young(s)' => Young(s)
    <2> USE DEF Young, Open
    <2>1. CASE UNCHANGED runs
      BY <2>1
    <2>2. CASE SweepBackups
      <3>1. \A s \in Runs :
              runs'[s] = IF Open(s) /\ runs[s].old THEN [runs[s] EXCEPT !.state = "closed"] ELSE runs[s]
        BY <2>2 DEF SweepBackups, Reap
      <3>2. \A s \in Runs : /\ runs'[s] \in Run
                            /\ runs'[s] = runs[s] \/ runs'[s].state # "running"
        <4> TAKE s \in Runs
        <4>1. CASE Open(s) /\ runs[s].old
          BY <3>1, <4>1 DEF Run
        <4>2. CASE ~(Open(s) /\ runs[s].old)
          BY <3>1, <4>2
        <4> QED BY <4>1, <4>2
      <3>3. runs' \in [Runs -> Run]
        BY <2>2, <3>2 DEF SweepBackups, Reap
      <3> QED BY <3>2, <3>3
    <2>3. CASE ForgetDestination
      BY <2>3 DEF ForgetDestination, Unused, Run
    <2>4. ASSUME NEW r \in Runs, PruneRun(r)
          PROVE  runs' \in [Runs -> Run] /\ \A s \in Runs : Young(s)' => Young(s)
      BY <2>4 DEF PruneRun, Unused, Run
    <2>5. ASSUME NEW r \in Runs, GrowOld(r)
          PROVE  runs' \in [Runs -> Run] /\ \A s \in Runs : Young(s)' => Young(s)
      <3> DEFINE row == [runs[r] EXCEPT !.old = TRUE]
      <3>1. runs' = [runs EXCEPT ![r] = row]
        BY <2>5 DEF GrowOld
      <3>2. runs[r] \in Run
        OBVIOUS
      <3>3. row \in Run /\ row.old
        BY <3>2 DEF Run
      <3> HIDE DEF row
      <3> QED BY <3>1, <3>3
    <2> QED BY <2>1, <2>2, <2>3, <2>4, <2>5
        DEF PauseBackups, ResumeBackups, FinishSetup, Reconnect, SetDest, ComeDue, SelectDue
  <1> QED BY <1>1, <1>2, <1>3, <1>4, LessYoungKeeps

(* A job in hand that moves on, or ends.                                   *)
LEMMA WorkerStep ==
  ASSUME BackupInv, NEW w \in BackupWorkers, NEW work \in Work,
         workers' = [workers EXCEPT ![w] = work],
         work.phase # "idle" => workers[w].phase # "idle" /\ work.run = workers[w].run,
         work.phase # "work",
         UNCHANGED <<opening, jobs, sweeping, began, asked>>,
         dest' \in [status: Statuses, due: BOOLEAN],
         runs' \in [Runs -> Run], OneYoung',
         newest' \in newest..began, copies' \subseteq 1..newest',
         \A n \in work.doomed : n < newest',
         LatestKept'
  PROVE  BackupInv'
  <1>1. workers' \in [BackupWorkers -> Work] /\ workers'[w] = work
    BY DEF BackupInv, BackupTypeOK
  <1>2. \A v \in BackupWorkers : v # w => workers'[v] = workers[v]
    BY DEF BackupInv, BackupTypeOK
  <1>3. newest' \in 0..began /\ copies' \subseteq 1..began
    BY DEF BackupInv, BackupTypeOK
  <1>4. BackupTypeOK'
    BY <1>1, <1>2, <1>3 DEF BackupInv, BackupTypeOK
  <1>5. HeldOnce'
    BY <1>1, <1>2 DEF BackupInv, HeldOnce
  <1>6. \A v \in BackupWorkers : \A n \in workers'[v].doomed : n < newest'
    <2>1. \A v \in BackupWorkers : workers[v].doomed \subseteq Nat
      BY DEF BackupInv, BackupTypeOK, Work
    <2> QED BY <1>1, <1>2, <2>1 DEF BackupInv, BackupTypeOK, NamesOrdered
  <1>7. NamesOrdered'
    BY <1>1, <1>2, <1>6 DEF BackupInv, NamesOrdered
  <1> QED BY <1>4, <1>5, <1>7 DEF BackupInv

LEMMA PhaseSet ==
  ASSUME BackupInv, NEW w \in BackupWorkers, NEW phase \in WorkPhases, SetPhase(w, phase)
  PROVE  \E work \in Work : /\ workers' = [workers EXCEPT ![w] = work]
                            /\ work.phase = phase /\ work.run = workers[w].run
                            /\ work.doomed = workers[w].doomed
  <1> DEFINE work == [workers[w] EXCEPT !.phase = phase]
  <1>1. /\ work \in Work /\ work.phase = phase /\ work.run = workers[w].run
        /\ work.doomed = workers[w].doomed
    BY DEF BackupInv, BackupTypeOK, Work
  <1>2. workers' = [workers EXCEPT ![w] = work]
    BY DEF SetPhase
  <1> QED BY <1>1, <1>2

LEMMA TakeJobKeeps ==
  ASSUME BackupInv, NEW w \in BackupWorkers, NEW r \in Runs, TakeJob(w, r)
  PROVE  BackupInv'
  <1>1. /\ workers[w].phase = "idle" /\ r \in jobs /\ jobs' = jobs \ {r}
        /\ UNCHANGED <<dest, opening, sweeping, copies, newest, asked>>
    BY DEF TakeJob
  <1>2. /\ opening' \subseteq Runs /\ jobs' \subseteq Runs /\ opening' \cap jobs' = {}
        /\ dest' \in [status: Statuses, due: BOOLEAN] /\ asked' \in BOOLEAN
        /\ sweeping' \in {"idle", "select", "open"}
    BY <1>1 DEF BackupInv, BackupTypeOK
  <1>3. CASE runs' = Closed(r) /\ UNCHANGED <<workers, began>>
    BY <1>1, <1>2, <1>3, ClosedKeeps, RowsStep DEF BackupInv, HeldOnce
  <1>4. CASE /\ began' = began + 1 /\ UNCHANGED runs
             /\ workers' = [workers EXCEPT ![w] =
                  [phase |-> "work", run |-> r, seen |-> dest.status, name |-> began + 1, doomed |-> {}]]
    <2> DEFINE work == [phase |-> "work", run |-> r, seen |-> dest.status, name |-> began + 1,
                        doomed |-> {}]
    <2>1. /\ work \in Work /\ work.phase = "work" /\ work.run = r /\ work.name = began + 1
          /\ work.doomed = {}
      BY DEF BackupInv, BackupTypeOK, Work, WorkPhases
    <2>2. workers' = [workers EXCEPT ![w] = work]
      BY <1>4
    <2> HIDE DEF work
    <2>3. /\ workers' \in [BackupWorkers -> Work] /\ workers'[w] = work
          /\ \A v \in BackupWorkers : v # w => workers'[v] = workers[v]
      BY <2>1, <2>2 DEF BackupInv, BackupTypeOK
    <2>4. /\ began' \in Nat /\ copies' \subseteq 1..began' /\ newest' \in 0..began'
          /\ began \in Nat /\ 1..began \subseteq 1..began'
      BY <1>1, <1>4 DEF BackupInv, BackupTypeOK
    <2>5. HeldOnce'
      BY <1>1, <2>1, <2>3 DEF BackupInv, BackupTypeOK, HeldOnce
    <2>6. BackupTypeOK'
      BY <1>1, <1>2, <1>4, <2>3, <2>4, <2>5 DEF BackupInv, BackupTypeOK, HeldOnce
    <2>7. NamesOrdered'
      BY <1>1, <1>4, <2>1, <2>3, <2>4 DEF BackupInv, NamesOrdered
    <2>8. OneYoung' /\ LatestKept'
      BY <1>1, <1>4 DEF BackupInv, OneYoung, Young, Open, LatestKept
    <2> QED BY <2>5, <2>6, <2>7, <2>8 DEF BackupInv
  <1> QED BY <1>3, <1>4 DEF TakeJob

(* A run that ends, well or badly.                                         *)
LEMMA EndsKeeps ==
  ASSUME BackupInv, NEW w \in BackupWorkers,
         SkipUnchanged(w) \/ RunSucceeds(w) \/ RunFails(w, "failed") \/ RunFails(w, "refused")
  PROVE  BackupInv'
  <1>1. /\ workers[w].phase # "idle" /\ runs' = Closed(workers[w].run)
        /\ UNCHANGED <<dest, opening, jobs, sweeping, copies, began, newest, asked>>
        /\ \E phase \in {"marked", "failed", "refused"} : SetPhase(w, phase)
    BY DEF SkipUnchanged, RunSucceeds, RunFails
  <1>2. PICK phase \in {"marked", "failed", "refused"}, work \in Work :
          /\ workers' = [workers EXCEPT ![w] = work]
          /\ work.phase = phase /\ work.run = workers[w].run /\ work.doomed = workers[w].doomed
    BY <1>1, PhaseSet DEF WorkPhases
  <1>3. workers[w].run \in Runs
    BY <1>1 DEF BackupInv, HeldOnce
  <1>4. runs' \in [Runs -> Run] /\ OneYoung'
    BY <1>1, <1>3, ClosedKeeps
  <1>5. /\ newest' \in newest..began /\ copies' \subseteq 1..newest'
        /\ \A n \in work.doomed : n < newest'
        /\ LatestKept' /\ dest' \in [status: Statuses, due: BOOLEAN]
    BY <1>1, <1>2 DEF BackupInv, BackupTypeOK, NamesOrdered, LatestKept
  <1> QED BY <1>1, <1>2, <1>4, <1>5, WorkerStep

LEMMA PutKeeps ==
  ASSUME BackupInv, NEW w \in BackupWorkers, Put(w)
  PROVE  BackupInv'
  <1> DEFINE name == workers[w].name
  <1>1. /\ workers[w].phase = "work" /\ copies' = copies \cup {name}
        /\ newest' = Max({newest, name}) /\ SetPhase(w, "list")
        /\ UNCHANGED <<dest, runs, opening, jobs, sweeping, began, asked>>
    BY DEF Put
  <1>2. PICK work \in Work :
          /\ workers' = [workers EXCEPT ![w] = work]
          /\ work.phase = "list" /\ work.run = workers[w].run /\ work.doomed = workers[w].doomed
    BY <1>1, PhaseSet DEF WorkPhases
  <1>3. /\ name \in 1..began /\ began \in Nat /\ newest \in 0..began /\ copies \subseteq 1..newest
        /\ \A n \in work.doomed : n \in Nat /\ n < newest
        /\ newest # 0 => newest \in copies
    BY <1>1, <1>2 DEF BackupInv, BackupTypeOK, NamesOrdered, Work, LatestKept
  <1> HIDE DEF name
  <1>4. newest' = IF newest >= name THEN newest ELSE name
    BY <1>1, <1>3, MaxOfTwo
  <1>5. /\ newest' \in newest..began /\ copies' \subseteq 1..newest'
        /\ \A n \in work.doomed : n < newest'
        /\ newest' # 0 => newest' \in copies'
    <2>1. /\ newest \in Nat /\ name \in Nat /\ newest' \in Nat
          /\ newest <= newest' /\ name <= newest' /\ newest' <= began
      BY <1>3, <1>4
    <2>2. copies' \subseteq 1..newest'
      BY <1>1, <1>3, <2>1
    <2>3. \A n \in work.doomed : n < newest'
      BY <1>3, <2>1
    <2>4. newest' # 0 => newest' \in copies'
      BY <1>1, <1>3, <1>4
    <2> QED BY <1>3, <2>1, <2>2, <2>3, <2>4
  <1>6. /\ runs' \in [Runs -> Run] /\ OneYoung' /\ LatestKept'
        /\ dest' \in [status: Statuses, due: BOOLEAN]
    BY <1>1, <1>5 DEF BackupInv, BackupTypeOK, OneYoung, Young, Open, LatestKept
  <1> QED BY <1>1, <1>2, <1>5, <1>6, WorkerStep

LEMMA RetentionKeeps ==
  ASSUME BackupInv, NEW w \in BackupWorkers,
         ListCopies(w) \/ RemoveCopy(w) \/ EndRetention(w)
  PROVE  BackupInv'
  <1>1. /\ workers[w].phase \in {"list", "prune"}
        /\ UNCHANGED <<dest, runs, opening, jobs, sweeping, began, newest, asked>>
    BY DEF ListCopies, RemoveCopy, EndRetention
  <1>2. /\ workers[w].doomed \subseteq Nat /\ \A n \in workers[w].doomed : n < newest
        /\ workers[w] \in Work /\ newest \in 0..began /\ began \in Nat /\ copies \subseteq 1..newest
        /\ LatestKept
    BY DEF BackupInv, BackupTypeOK, NamesOrdered, Work
  <1>3. \E work \in Work :
          /\ workers' = [workers EXCEPT ![w] = work]
          /\ work.phase \in {"list", "prune", "finish"} /\ work.run = workers[w].run
          /\ \A n \in work.doomed : n < newest
    <2>1. CASE ListCopies(w)
      <3> DEFINE work == [workers[w] EXCEPT !.phase = "prune", !.doomed = Expired(copies)]
      <3>1. Expired(copies) \subseteq Nat /\ \A n \in Expired(copies) : n < newest
        BY ExpiredIsOlder
      <3>2. workers' = [workers EXCEPT ![w] = work]
        BY <2>1 DEF ListCopies
      <3>3. work \in Work /\ work.phase = "prune" /\ work.run = workers[w].run /\ work.doomed = Expired(copies)
        BY <1>2, <3>1 DEF Work, WorkPhases
      <3> QED BY <3>1, <3>2, <3>3
    <2>2. CASE RemoveCopy(w)
      <3> DEFINE left == workers[w].doomed \ {Min(workers[w].doomed)}
                 work == [workers[w] EXCEPT !.doomed = left]
      <3>1. left \subseteq workers[w].doomed
        OBVIOUS
      <3>2. workers' = [workers EXCEPT ![w] = work]
        BY <2>2 DEF RemoveCopy
      <3>3. work \in Work /\ work.phase = workers[w].phase /\ work.run = workers[w].run /\ work.doomed = left
        BY <1>2 DEF Work, WorkPhases
      <3> QED BY <1>1, <1>2, <3>1, <3>2, <3>3
    <2>3. CASE EndRetention(w)
      <3> DEFINE work == [workers[w] EXCEPT !.phase = "finish", !.doomed = {}]
      <3>1. workers' = [workers EXCEPT ![w] = work]
        BY <2>3 DEF EndRetention
      <3>2. work \in Work /\ work.phase = "finish" /\ work.run = workers[w].run /\ work.doomed = {}
        BY <1>2 DEF Work, WorkPhases
      <3> QED BY <3>1, <3>2
    <2> QED BY <2>1, <2>2, <2>3
  <1>4. copies' = copies \/ \E n \in Nat : n < newest /\ copies' = copies \ {n}
    <2>1. CASE RemoveCopy(w)
      BY <1>2, <2>1, MinOf DEF RemoveCopy
    <2> QED BY <2>1 DEF ListCopies, EndRetention, RemoveCopy
  <1>5. /\ newest' \in newest..began /\ copies' \subseteq 1..newest' /\ LatestKept'
    <2>1. newest' = newest /\ newest \in newest..began /\ copies' \subseteq copies
      <3>1. newest' = newest /\ copies' \subseteq copies
        BY <1>1, <1>4
      <3>2. newest \in Nat /\ began \in Nat /\ newest <= began
        BY <1>2
      <3> QED BY <3>1, <3>2
    <2>2. LatestKept'
      BY <1>1, <1>2, <1>4 DEF LatestKept
    <2> QED BY <1>2, <2>1, <2>2
  <1>6. /\ runs' \in [Runs -> Run] /\ OneYoung'
        /\ dest' \in [status: Statuses, due: BOOLEAN]
    BY <1>1 DEF BackupInv, BackupTypeOK, OneYoung, Young, Open
  <1> QED BY <1>1, <1>3, <1>5, <1>6, WorkerStep

LEMMA MarkKeeps ==
  ASSUME BackupInv, NEW w \in BackupWorkers, Mark(w) \/ BackupWorkerDies(w)
  PROVE  BackupInv'
  <1>1. /\ workers' = [workers EXCEPT ![w] = NoWork]
        /\ UNCHANGED <<runs, opening, jobs, sweeping, copies, began, newest, asked>>
    BY DEF Mark, BackupWorkerDies
  <1>2. NoWork \in Work /\ NoWork.phase = "idle" /\ NoWork.doomed = {}
    BY DEF NoWork, Work, WorkPhases, Statuses
  <1>3. dest' \in [status: Statuses, due: BOOLEAN]
    <2>1. workers[w].seen \in Statuses
      BY DEF BackupInv, BackupTypeOK, Work
    <2>2. Outcome(w) \in Statuses
      BY <2>1 DEF Outcome, Statuses
    <2>3. dest' = dest \/ dest' = [status |-> Outcome(w), due |-> FALSE]
      BY DEF Mark, BackupWorkerDies
    <2>4. dest \in [status: Statuses, due: BOOLEAN]
      BY DEF BackupInv, BackupTypeOK
    <2> QED BY <2>2, <2>3, <2>4, DestMade
  <1>4. /\ newest' \in newest..began /\ copies' \subseteq 1..newest' /\ LatestKept'
        /\ runs' \in [Runs -> Run] /\ OneYoung'
    BY <1>1 DEF BackupInv, BackupTypeOK, NamesOrdered, OneYoung, Young, Open, LatestKept
  <1> QED BY <1>1, <1>2, <1>3, <1>4, WorkerStep

LEMMA BackupStepKeeps == BackupInv /\ [BackupNext]_backupVars => BackupInv'
  <1>1. ASSUME BackupInv, UNCHANGED backupVars PROVE BackupInv'
    BY <1>1, LessYoungKeeps DEF backupVars, BackupInv, BackupTypeOK, Young, Open
  <1>2. ASSUME BackupInv, BackupNext PROVE BackupInv'
    BY <1>2, OpeningKeeps, QueueKeeps, PersonKeeps, TakeJobKeeps, EndsKeeps, PutKeeps,
       RetentionKeeps, MarkKeeps DEF BackupNext
  <1> QED BY <1>1, <1>2

(* Every reachable state satisfies BackupInv. *)
THEOREM BackupInductive == BackupSpec => []BackupInv
  BY BackupBegins, BackupStepKeeps, PTL DEF BackupSpec

(* The names in the cloud are those of backups that have begun, and a run  *)
(* that a job has taken is not queued (retryLimit 0).                      *)
THEOREM BackupTypeCorrect == BackupSpec => []BackupTypeOK
  <1>1. BackupInv => BackupTypeOK
    BY DEF BackupInv
  <1> QED BY <1>1, BackupInductive, PTL

(* Two jobs write to one destination only when a run has outlasted         *)
(* STALE_RUN_MS or is gone, and the newest backup is never pruned, whatever *)
(* two runs prune at the same time (startRun, selectExpired).              *)
THEOREM BackupIsSafe == BackupSpec => []BackupSafety
  <1>1. BackupInv => BackupSafety
    <2> SUFFICES ASSUME BackupInv PROVE OneRunAtATime
      BY DEF BackupInv, BackupSafety
    <2> SUFFICES ASSUME NEW v \in BackupWorkers, NEW w \in BackupWorkers,
                        v # w, Working(v), Working(w)
                 PROVE  \E x \in {v, w} : runs[workers[x].run].old \/ ~Open(workers[x].run)
      BY DEF OneRunAtATime
    <2>1. /\ workers[v].run \in Runs /\ workers[w].run \in Runs
          /\ workers[v].run # workers[w].run
      BY DEF BackupInv, HeldOnce, Working
    <2> QED BY <2>1 DEF BackupInv, OneYoung, Young
  <1> QED BY <1>1, BackupInductive, PTL

-----------------------------------------------------------------------------
(* WorkerHost                                                              *)

USE NoBossAssumption, MaxRefusalsAssumption

HostTyped ==
  /\ workerState \in {"starting", "running", "failed", "stopping"}
  /\ bosses \in [Bosses -> Boss]
  /\ boss \in [Copies -> Bosses \cup {NoBoss}] /\ starting \in [Copies -> Bosses \cup {NoBoss}]
  /\ supervisor \in Waiting
  /\ publishers \in [Publishers -> Bosses \cup {NoBoss}]
  /\ shutdown \in Draining
  /\ refusals \in 0..MaxRefusals

(* The instance a copy uses is one it made, and live; its shared attempt   *)
(* is under way or has become the instance in use.                         *)
InUse ==
  \A c \in Copies :
    /\ boss[c] # NoBoss => bosses[boss[c]].state = "live" /\ bosses[boss[c]].of = c
    /\ starting[c] # NoBoss => /\ bosses[starting[c]].state \in {"starting", "live"}
                               /\ bosses[starting[c]].of = c
    /\ boss[c] = NoBoss /\ starting[c] # NoBoss => bosses[starting[c]].state = "starting"

(* What the supervisor waits for, by its phase. *)
Supervised ==
  /\ supervisor.on # NoBoss => bosses[supervisor.on].of = "worker"
  /\ supervisor.phase \in {"start", "subscribe"} => supervisor.on \in Bosses
  /\ supervisor.phase = "start" => bosses[supervisor.on].state = "starting"
  /\ supervisor.phase = "subscribe" => bosses[supervisor.on].subscribed = 0
                                       /\ bosses[supervisor.on].state # "starting"
  /\ supervisor.phase = "clear" /\ supervisor.on # NoBoss =>
       bosses[supervisor.on].state \in {"closing", "left", "closed"}
  /\ supervisor.phase \in {"begin", "wait", "done"} => supervisor.on = NoBoss

(* Until the supervisor is done, no instance that runs or starts has its   *)
(* queues subscribed, and none of the requests' ever has.                  *)
Unsubscribed ==
  \A b \in Bosses :
    /\ supervisor.phase # "done" \/ bosses[b].of = "requests"
    /\ bosses[b].state \in {"starting", "live"}
    => bosses[b].subscribed = 0

(* Before a signal, and in the requests' copy always, a copy has one       *)
(* instance at a time.                                                     *)
BeforeSignal ==
  /\ workerState = "stopping" <=> shutdown.phase # "none"
  /\ \A c \in Copies :
       shutdown.phase = "none" \/ c = "requests" => (boss[c] # NoBoss => boss[c] = starting[c])
  /\ shutdown.phase = "none" /\ supervisor.phase = "subscribe" => boss["worker"] = supervisor.on

HostInv ==
  /\ HostTyped /\ InUse /\ Supervised /\ Unsubscribed /\ BeforeSignal
  /\ SubscribedOnce /\ RunningServes /\ NoneForgotten

LEMMA HostBegins == HostInit => HostInv
  <1> SUFFICES ASSUME HostInit PROVE HostInv
    OBVIOUS
  <1> USE DEF HostInit
  <1>1. HostTyped
    BY DEF HostTyped, Boss, Copies, Waiting, Draining
  <1>2. InUse /\ Supervised /\ Unsubscribed /\ BeforeSignal
    BY DEF InUse, Supervised, Unsubscribed, BeforeSignal
  <1>3. SubscribedOnce /\ RunningServes /\ NoneForgotten
    BY DEF SubscribedOnce, RunningServes, NoneForgotten
  <1> QED BY <1>1, <1>2, <1>3 DEF HostInv

(* An instance whose state, or whose subscriptions, a step changes. *)
LEMMA StateSet ==
  ASSUME NEW all \in [Bosses -> Boss], NEW b \in Bosses,
         NEW s \in {"none", "starting", "live", "closing", "left", "closed"},
         NEW now, now = [all EXCEPT ![b].state = s]
  PROVE  /\ now \in [Bosses -> Boss]
         /\ now[b].state = s /\ now[b].of = all[b].of
         /\ now[b].subscribed = all[b].subscribed
         /\ \A c \in Bosses : c # b => now[c] = all[c]
  <1> DEFINE row == [all[b] EXCEPT !.state = s]
  <1>1. row \in Boss /\ row.state = s /\ row.of = all[b].of /\ row.subscribed = all[b].subscribed
    BY DEF Boss
  <1>2. now = [all EXCEPT ![b] = row]
    OBVIOUS
  <1> HIDE DEF row
  <1> QED BY <1>1, <1>2

LEMMA SubscribedSet ==
  ASSUME bosses \in [Bosses -> Boss], NEW b \in Bosses, bosses[b].subscribed = 0
  PROVE  /\ Subscribed(b) \in [Bosses -> Boss]
         /\ Subscribed(b)[b].state = bosses[b].state /\ Subscribed(b)[b].of = bosses[b].of
         /\ Subscribed(b)[b].subscribed = 1
         /\ \A c \in Bosses : c # b => Subscribed(b)[c] = bosses[c]
  <1> DEFINE row == [bosses[b] EXCEPT !.subscribed = 1]
  <1>1. row \in Boss /\ row.state = bosses[b].state /\ row.of = bosses[b].of /\ row.subscribed = 1
    BY DEF Boss
  <1>2. Subscribed(b) = [bosses EXCEPT ![b] = row]
    BY DEF Subscribed
  <1> HIDE DEF row
  <1> QED BY <1>1, <1>2

(* What each step does, one lemma per action, all the parts at once. *)
LEMMA BossStartsKeeps ==
  ASSUME HostInv, NEW b \in Bosses, BossStarts(b)
  PROVE  HostInv'
  <1> DEFINE own == bosses[b].of
  <1>1. /\ bosses' \in [Bosses -> Boss] /\ bosses'[b].of = own
        /\ bosses'[b].state = "live" /\ bosses'[b].subscribed = bosses[b].subscribed
        /\ \A c \in Bosses : c # b => bosses'[c] = bosses[c]
    BY StateSet DEF HostInv, HostTyped, BossStarts
  <1>2. own \in Copies
    BY DEF HostInv, HostTyped, Boss
  <1> HIDE DEF own
  <1>3. /\ bosses[b].state = "starting" /\ boss' \in [Copies -> Bosses \cup {NoBoss}]
        /\ boss'[own] = b /\ \A c \in Copies : c # own => boss'[c] = boss[c]
        /\ supervisor' = IF supervisor.on = b THEN [supervisor EXCEPT !.phase = "subscribe"] ELSE supervisor
        /\ UNCHANGED <<workerState, starting, publishers, shutdown, refusals>>
    BY <1>2 DEF BossStarts, HostInv, HostTyped, own
  <1>4. supervisor.on = b => supervisor.phase = "start" /\ own = "worker"
    BY <1>3 DEF HostInv, HostTyped, Supervised, Waiting, own
  <1>5. /\ supervisor' \in Waiting /\ supervisor'.on = supervisor.on
        /\ supervisor'.phase = IF supervisor.on = b THEN "subscribe" ELSE supervisor.phase
    BY <1>3 DEF HostInv, HostTyped, Waiting
  <1>13. shutdown.phase = "none" \/ own = "requests" => b = starting[own] /\ boss[own] = NoBoss
    BY <1>2, <1>3 DEF HostInv, NoneForgotten, BeforeSignal, InUse, own
  <1>6. HostTyped'
    BY <1>1, <1>3, <1>5 DEF HostInv, HostTyped
  <1>7. InUse'
    BY <1>1, <1>2, <1>3 DEF HostInv, HostTyped, InUse, own
  <1>8. Supervised'
    BY <1>1, <1>3, <1>4, <1>5 DEF HostInv, HostTyped, Supervised, Unsubscribed, Waiting, own
  <1>9. Unsubscribed'
    BY <1>1, <1>3, <1>4, <1>5 DEF HostInv, Unsubscribed, own
  <1>10. BeforeSignal'
    <2>1. ASSUME NEW c \in Copies, shutdown.phase = "none" \/ c = "requests", boss'[c] # NoBoss
          PROVE  boss'[c] = starting'[c]
      BY <1>3, <1>13, <2>1 DEF HostInv, BeforeSignal
    <2>2. shutdown.phase = "none" /\ supervisor'.phase = "subscribe" => boss'["worker"] = supervisor.on
      <3> SUFFICES ASSUME shutdown.phase = "none", supervisor'.phase = "subscribe"
                   PROVE  boss'["worker"] = supervisor.on
        OBVIOUS
      <3>1. CASE supervisor.on = b
        BY <1>3, <1>4, <3>1
      <3>2. CASE supervisor.on # b
        <4>1. supervisor.phase = "subscribe" /\ boss["worker"] = supervisor.on /\ "worker" \in Copies
          BY <1>5, <3>2 DEF HostInv, BeforeSignal, Copies
        <4>2. boss["worker"] # NoBoss
          BY <4>1 DEF HostInv, Supervised
        <4> QED BY <1>3, <1>13, <4>1, <4>2
      <3> QED BY <3>1, <3>2
    <2> QED BY <1>3, <1>5, <2>1, <2>2 DEF HostInv, BeforeSignal
  <1>11. SubscribedOnce' /\ NoneForgotten'
    <2>1. SubscribedOnce'
      BY <1>1 DEF HostInv, SubscribedOnce
    <2>2. ASSUME NEW c \in Bosses, shutdown.phase = "none" \/ bosses'[c].of = "requests"
          PROVE  /\ bosses'[c].state = "live" => c = boss'[bosses'[c].of]
                 /\ bosses'[c].state = "starting" => c = starting'[bosses'[c].of]
      <3>1. CASE c = b
        BY <1>1, <1>3, <3>1
      <3>2. CASE c # b
        <4>1. bosses'[c] = bosses[c] /\ bosses[c].of \in Copies
          BY <1>1, <3>2 DEF HostInv, HostTyped, Boss
        <4>2. bosses[c].of = own => bosses[c].state # "live"
          BY <1>13, <2>2, <4>1, NoBossAssumption DEF HostInv, NoneForgotten
        <4> QED BY <1>3, <2>2, <4>1, <4>2 DEF HostInv, NoneForgotten
      <3> QED BY <3>1, <3>2
    <2> QED BY <1>3, <2>1, <2>2 DEF NoneForgotten
  <1>12. RunningServes'
    <2> SUFFICES ASSUME workerState = "running" PROVE RunningServes'
      BY <1>3 DEF RunningServes
    <2>1. /\ shutdown.phase = "none" /\ boss["worker"] # NoBoss /\ "worker" \in Copies
          /\ bosses[boss["worker"]].state = "live" /\ bosses[boss["worker"]].subscribed = 1
      BY DEF HostInv, RunningServes, Copies
    <2>2. own # "worker" /\ boss["worker"] \in Bosses /\ boss["worker"] # b
      BY <1>3, <1>13, <2>1 DEF HostInv, HostTyped
    <2> QED BY <1>1, <1>3, <2>1, <2>2 DEF RunningServes
  <1> QED BY <1>6, <1>7, <1>8, <1>9, <1>10, <1>11, <1>12 DEF HostInv

LEMMA StartRefusedKeeps ==
  ASSUME HostInv, NEW b \in Bosses, StartRefused(b)
  PROVE  HostInv'
  <1> DEFINE closed == [bosses EXCEPT ![b].state = "closed"]
             forgotten == \A c \in Copies : starting'[c] = IF starting[c] = b THEN NoBoss ELSE starting[c]
  <1>0. closed = [bosses EXCEPT ![b].state = "closed"]
    OBVIOUS
  <1> HIDE DEF closed
  <1>1. /\ closed \in [Bosses -> Boss] /\ closed[b].of = bosses[b].of
        /\ closed[b].state = "closed" /\ closed[b].subscribed = bosses[b].subscribed
        /\ \A c \in Bosses : c # b => closed[c] = bosses[c]
    BY <1>0, StateSet DEF HostInv, HostTyped
  <1>2. bosses[b].state = "starting" /\ UNCHANGED shutdown
    BY DEF StartRefused
  <1>3. \A c \in Copies : boss[c] # b
    BY <1>2 DEF HostInv, InUse
  <1>4. /\ publishers' \in [Publishers -> Bosses \cup {NoBoss}]
        /\ refusals' \in 0..MaxRefusals
    BY DEF StartRefused, Refused, HostInv, HostTyped
  <1>5. /\ bosses' = closed
        /\ starting' \in [Copies -> Bosses \cup {NoBoss}] /\ forgotten
        /\ boss' \in [Copies -> Bosses \cup {NoBoss}] /\ \A c \in Copies : boss'[c] = boss[c]
        /\ \/ /\ UNCHANGED workerState /\ supervisor' = [phase |-> "done", on |-> NoBoss]
           \/ /\ UNCHANGED <<workerState, supervisor>>
              /\ supervisor # [phase |-> "start", on |-> b]
           \/ /\ workerState # "stopping" /\ workerState' = "failed"
              /\ supervisor.phase = "start" /\ supervisor' = [phase |-> "clear", on |-> NoBoss]
    <2>1. CASE supervisor # [phase |-> "start", on |-> b] \/ workerState = "stopping"
      BY <1>0, <2>1 DEF StartRefused, AttemptFailed, ForgetFailed, HostInv, HostTyped
    <2>2. CASE supervisor = [phase |-> "start", on |-> b] /\ workerState # "stopping"
      <3>1. supervisor.phase = "start" /\ supervisor.on = b
        BY <2>2
      <3>2. bosses[b].of = "worker" /\ shutdown.phase = "none"
        BY <2>2, <3>1 DEF HostInv, Supervised, BeforeSignal
      <3>3. boss["worker"] = NoBoss /\ starting["worker"] = b
        <4>1. "worker" \in Copies
          BY DEF Copies
        <4> QED BY <1>2, <1>3, <3>2, <4>1 DEF HostInv, NoneForgotten, BeforeSignal
      <3>4. \A c \in Copies : c # "worker" => starting[c] # b
        BY <3>2 DEF HostInv, InUse
      <3>5. /\ bosses' = closed
            /\ boss' = [boss EXCEPT !["worker"] = NoBoss]
            /\ starting' = [starting EXCEPT !["worker"] = NoBoss]
            /\ workerState' = "failed" /\ supervisor' = [phase |-> "clear", on |-> NoBoss]
        BY <1>0, <2>2, <3>3 DEF StartRefused, AttemptFailed, ClearBoss
      <3> QED BY <2>2, <3>1, <3>3, <3>4, <3>5 DEF HostInv, HostTyped
    <2> QED BY <2>1, <2>2
  <1>6. /\ supervisor' \in Waiting
        /\ \/ UNCHANGED workerState /\ supervisor'.phase = "done" /\ supervisor'.on = NoBoss
           \/ UNCHANGED <<workerState, supervisor>> /\ (supervisor.phase = "start" => supervisor.on # b)
           \/ /\ workerState # "stopping" /\ workerState' = "failed" /\ supervisor.phase = "start"
              /\ supervisor'.phase = "clear" /\ supervisor'.on = NoBoss
    BY <1>5 DEF HostInv, HostTyped, Waiting
  <1>7. HostTyped'
    BY <1>1, <1>2, <1>4, <1>5, <1>6 DEF HostInv, HostTyped
  <1>8. InUse'
    BY <1>1, <1>3, <1>5 DEF HostInv, HostTyped, InUse
  <1>9. Supervised'
    BY <1>1, <1>2, <1>5, <1>6 DEF HostInv, HostTyped, Supervised, Waiting
  <1>10. Unsubscribed' /\ SubscribedOnce'
    BY <1>1, <1>5, <1>6 DEF HostInv, Unsubscribed, SubscribedOnce
  <1>11. BeforeSignal'
    BY <1>2, <1>3, <1>5, <1>6 DEF HostInv, BeforeSignal, Copies
  <1>12. NoneForgotten'
    <2> SUFFICES ASSUME NEW c \in Bosses, shutdown.phase = "none" \/ bosses'[c].of = "requests"
                 PROVE  /\ bosses'[c].state = "live" => c = boss'[bosses'[c].of]
                        /\ bosses'[c].state = "starting" => c = starting'[bosses'[c].of]
      BY <1>2 DEF NoneForgotten
    <2>1. CASE c = b
      BY <1>1, <1>5, <2>1
    <2>2. CASE c # b
      <3>1. bosses'[c] = bosses[c] /\ bosses[c].of \in Copies
        BY <1>1, <1>5, <2>2 DEF HostInv, HostTyped, Boss
      <3> QED BY <1>5, <2>2, <3>1 DEF HostInv, NoneForgotten
    <2> QED BY <2>1, <2>2
  <1>13. RunningServes'
    <2> SUFFICES ASSUME workerState' = "running" PROVE RunningServes'
      BY DEF RunningServes
    <2>1. /\ shutdown.phase = "none" /\ boss["worker"] # NoBoss /\ "worker" \in Copies
          /\ bosses[boss["worker"]].state = "live" /\ bosses[boss["worker"]].subscribed = 1
      BY <1>6 DEF HostInv, RunningServes, Copies
    <2>2. boss["worker"] \in Bosses /\ boss["worker"] # b
      BY <1>3, <2>1 DEF HostInv, HostTyped
    <2> QED BY <1>1, <1>2, <1>5, <2>1, <2>2 DEF RunningServes
  <1> QED BY <1>7, <1>8, <1>9, <1>10, <1>11, <1>12, <1>13 DEF HostInv

LEMMA ClosingKeeps ==
  ASSUME HostInv, NEW b \in Bosses, StopSettles(b) \/ ClosesLate(b)
  PROVE  HostInv'
  <1>1. PICK s \in {"left", "closed"} : bosses' = [bosses EXCEPT ![b].state = s]
    BY DEF StopSettles, ClosesLate
  <1>2. /\ bosses' \in [Bosses -> Boss] /\ bosses'[b].of = bosses[b].of
        /\ bosses'[b].state \in {"left", "closed"} /\ bosses'[b].subscribed = bosses[b].subscribed
        /\ \A c \in Bosses : c # b => bosses'[c] = bosses[c]
    BY <1>1, StateSet DEF HostInv, HostTyped
  <1>3. /\ bosses[b].state \in {"closing", "left"} /\ refusals' \in 0..MaxRefusals
        /\ UNCHANGED <<workerState, boss, starting, supervisor, publishers, shutdown>>
    BY DEF StopSettles, ClosesLate, Refused, HostInv, HostTyped
  <1>4. HostTyped'
    BY <1>2, <1>3 DEF HostInv, HostTyped
  <1>5. InUse' /\ Supervised'
    BY <1>2, <1>3 DEF HostInv, HostTyped, InUse, Supervised, Waiting
  <1>6. Unsubscribed' /\ BeforeSignal'
    BY <1>2, <1>3 DEF HostInv, Unsubscribed, BeforeSignal
  <1>7. SubscribedOnce' /\ NoneForgotten'
    BY <1>2, <1>3 DEF HostInv, SubscribedOnce, NoneForgotten
  <1>8. RunningServes'
    <2>1. "worker" \in Copies
      BY DEF Copies
    <2> QED BY <1>2, <1>3, <2>1 DEF HostInv, HostTyped, RunningServes, InUse
  <1> QED BY <1>4, <1>5, <1>6, <1>7, <1>8 DEF HostInv

(* What getBoss answers with: the instance in use, the attempt under way,  *)
(* or an attempt of its own.                                               *)
LEMMA GetBossGives ==
  ASSUME HostInv, NEW own \in Copies, NEW b \in Bosses, GetBoss(own, b)
  PROVE  /\ bosses' \in [Bosses -> Boss] /\ starting' \in [Copies -> Bosses \cup {NoBoss}]
         /\ \/ /\ bosses' = bosses /\ starting' = starting
               /\ (boss[own] # NoBoss => b = boss[own])
               /\ (boss[own] = NoBoss => b = starting[own] /\ starting[own] # NoBoss)
            \/ /\ boss[own] = NoBoss /\ starting[own] = NoBoss /\ starting'[own] = b
               /\ \A c \in Copies : c # own => starting'[c] = starting[c]
               /\ bosses'[b].state = "starting" /\ bosses'[b].of = own /\ bosses'[b].subscribed = 0
               /\ \A d \in Bosses : d # b => bosses'[d] = bosses[d]
               /\ b # supervisor.on /\ \A c \in Copies : boss[c] # b /\ starting[c] # b
  <1>1. CASE boss[own] = NoBoss /\ starting[own] = NoBoss
    <2> DEFINE row == [state |-> "starting", of |-> own, subscribed |-> 0]
    <2>1. row \in Boss /\ row.state = "starting" /\ row.of = own /\ row.subscribed = 0
      BY DEF Boss
    <2>2. /\ bosses' = [bosses EXCEPT ![b] = row] /\ starting' = [starting EXCEPT ![own] = b]
          /\ b # supervisor.on /\ \A c \in Copies : boss[c] # b /\ starting[c] # b
      BY <1>1 DEF GetBoss, Fresh
    <2> HIDE DEF row
    <2> QED BY <1>1, <2>1, <2>2 DEF HostInv, HostTyped
  <1>2. CASE ~(boss[own] = NoBoss /\ starting[own] = NoBoss)
    BY <1>2 DEF GetBoss, HostInv, HostTyped
  <1> QED BY <1>1, <1>2

(* An attempt that getBoss makes or joins: what it leaves as it was. *)
LEMMA GetBossKeeps ==
  ASSUME HostInv, NEW own \in Copies, NEW b \in Bosses, GetBoss(own, b),
         UNCHANGED <<boss, shutdown, workerState>>
  PROVE  /\ InUse' /\ SubscribedOnce' /\ RunningServes' /\ NoneForgotten'
         /\ \A c \in Copies : shutdown.phase = "none" \/ c = "requests" =>
              (boss[c] # NoBoss => boss[c] = starting'[c])
  <1>1. InUse'
    BY GetBossGives DEF HostInv, HostTyped, InUse
  <1>2. SubscribedOnce'
    BY GetBossGives DEF HostInv, SubscribedOnce
  <1>3. NoneForgotten'
    <2> SUFFICES ASSUME NEW d \in Bosses, shutdown.phase = "none" \/ bosses'[d].of = "requests"
                 PROVE  /\ bosses'[d].state = "live" => d = boss[bosses'[d].of]
                        /\ bosses'[d].state = "starting" => d = starting'[bosses'[d].of]
      BY DEF NoneForgotten
    <2>1. CASE bosses' = bosses /\ starting' = starting
      BY <2>1 DEF HostInv, NoneForgotten
    <2>2. CASE ~(bosses' = bosses /\ starting' = starting)
      <3>1. CASE d = b
        BY <2>2, <3>1, GetBossGives
      <3>2. CASE d # b
        <4>1. bosses'[d] = bosses[d] /\ bosses[d].of \in Copies
          BY <2>2, <3>2, GetBossGives DEF HostInv, HostTyped, Boss
        <4>2. starting[own] = NoBoss /\ \A c \in Copies : c # own => starting'[c] = starting[c]
          BY <2>2, GetBossGives
        <4> QED BY <4>1, <4>2, NoBossAssumption DEF HostInv, NoneForgotten
      <3> QED BY <3>1, <3>2
    <2> QED BY <2>1, <2>2
  <1>4. RunningServes'
    <2>1. "worker" \in Copies
      BY DEF Copies
    <2> QED BY <2>1, GetBossGives DEF HostInv, HostTyped, RunningServes
  <1>5. ASSUME NEW c \in Copies, shutdown.phase = "none" \/ c = "requests", boss[c] # NoBoss
        PROVE  boss[c] = starting'[c]
    BY <1>5, GetBossGives DEF HostInv, BeforeSignal
  <1> QED BY <1>1, <1>2, <1>3, <1>4, <1>5

LEMMA PublishJobKeeps ==
  ASSUME HostInv, NEW p \in Publishers, NEW own \in Copies, NEW b \in Bosses, PublishJob(p, own, b)
  PROVE  HostInv'
  <1>1. GetBoss(own, b) /\ UNCHANGED <<workerState, boss, supervisor, shutdown, refusals>>
    BY DEF PublishJob
  <1>2. publishers' \in [Publishers -> Bosses \cup {NoBoss}]
    BY DEF PublishJob, HostInv, HostTyped
  <1>3. HostTyped'
    BY <1>1, <1>2, GetBossGives DEF HostInv, HostTyped
  <1>5. Supervised'
    BY <1>1, GetBossGives DEF HostInv, HostTyped, Supervised, Waiting
  <1>6. Unsubscribed'
    BY <1>1, GetBossGives DEF HostInv, Unsubscribed
  <1>7. BeforeSignal'
    BY <1>1, GetBossKeeps DEF HostInv, BeforeSignal
  <1> QED BY <1>1, <1>3, <1>5, <1>6, <1>7, GetBossKeeps DEF HostInv

LEMMA AwaitBossKeeps ==
  ASSUME HostInv, NEW b \in Bosses, AwaitBoss(b)
  PROVE  HostInv'
  <1>0. "worker" \in Copies
    BY DEF Copies
  <1>1. /\ GetBoss("worker", b) /\ supervisor.phase = "begin"
        /\ UNCHANGED <<workerState, boss, publishers, shutdown, refusals>>
    BY DEF AwaitBoss
  <1>2. /\ supervisor' \in Waiting /\ supervisor'.on = b
        /\ supervisor'.phase = IF boss["worker"] = NoBoss THEN "start" ELSE "subscribe"
    BY DEF AwaitBoss, Waiting
  <1>3. HostTyped'
    BY <1>0, <1>1, <1>2, GetBossGives DEF HostInv, HostTyped
  <1>4. Supervised'
    BY <1>0, <1>1, <1>2, GetBossGives DEF HostInv, Supervised, InUse, Unsubscribed
  <1>5. Unsubscribed'
    BY <1>0, <1>1, <1>2, GetBossGives DEF HostInv, Unsubscribed
  <1>6. BeforeSignal'
    <2>1. boss["worker"] # NoBoss => b = boss["worker"]
      BY <1>0, <1>1, GetBossGives
    <2> QED BY <1>0, <1>1, <1>2, <2>1, GetBossKeeps DEF HostInv, BeforeSignal
  <1> QED BY <1>0, <1>1, <1>3, <1>4, <1>5, <1>6, GetBossKeeps DEF HostInv

LEMMA SentKeeps ==
  ASSUME HostInv, NEW p \in Publishers, Sent(p)
  PROVE  HostInv'
  <1>1. UNCHANGED <<workerState, bosses, boss, starting, supervisor, shutdown, refusals>>
    BY DEF Sent
  <1>2. publishers' \in [Publishers -> Bosses \cup {NoBoss}]
    BY DEF Sent, HostInv, HostTyped
  <1> QED BY <1>1, <1>2 DEF HostInv, HostTyped, InUse, Supervised, Unsubscribed, BeforeSignal,
                            SubscribedOnce, RunningServes, NoneForgotten

LEMMA WorkerRunsKeeps ==
  ASSUME HostInv, WorkerRuns
  PROVE  HostInv'
  <1> DEFINE on == supervisor.on
  <1>1. /\ on \in Bosses /\ on # NoBoss /\ bosses[on].subscribed = 0 /\ bosses[on].of = "worker"
    BY DEF HostInv, Supervised, WorkerRuns
  <1>2. /\ bosses' \in [Bosses -> Boss]
        /\ bosses'[on].state = bosses[on].state /\ bosses'[on].of = "worker"
        /\ bosses'[on].subscribed = 1
        /\ \A c \in Bosses : c # on => bosses'[c] = bosses[c]
    BY <1>1, SubscribedSet DEF HostInv, HostTyped, WorkerRuns
  <1>3. /\ supervisor.phase = "subscribe"
        /\ workerState' = IF workerState # "stopping" THEN "running" ELSE workerState
        /\ UNCHANGED <<boss, starting, publishers, shutdown, refusals>>
    BY DEF WorkerRuns, MayRun
  <1>4. supervisor' \in Waiting /\ supervisor'.phase = "done" /\ supervisor'.on = NoBoss
    BY DEF WorkerRuns, Waiting
  <1> HIDE DEF on
  <1>5. HostTyped'
    BY <1>2, <1>3, <1>4 DEF HostInv, HostTyped
  <1>6. InUse'
    BY <1>1, <1>2, <1>3 DEF HostInv, HostTyped, InUse
  <1>7. Supervised'
    BY <1>4 DEF Supervised
  <1>11. Unsubscribed'
    BY <1>1, <1>2, <1>4 DEF HostInv, Unsubscribed
  <1>8. BeforeSignal'
    BY <1>3, <1>4 DEF HostInv, BeforeSignal
  <1>9. SubscribedOnce' /\ NoneForgotten'
    BY <1>1, <1>2, <1>3 DEF HostInv, SubscribedOnce, NoneForgotten
  <1>10. RunningServes'
    <2> SUFFICES ASSUME workerState' = "running" PROVE RunningServes'
      BY DEF RunningServes
    <2>1. workerState # "stopping" /\ shutdown'.phase = "none"
      BY <1>3 DEF HostInv, BeforeSignal
    <2>2. boss["worker"] = on /\ boss'["worker"] = on /\ on # NoBoss /\ "worker" \in Copies
      BY <1>1, <1>3, <2>1 DEF HostInv, BeforeSignal, Copies, on
    <2>3. bosses'[on].state = "live" /\ bosses'[on].subscribed = 1
      BY <1>1, <1>2, <2>2 DEF HostInv, InUse
    <2> QED BY <2>1, <2>2, <2>3 DEF RunningServes
  <1> QED BY <1>5, <1>6, <1>7, <1>8, <1>9, <1>10, <1>11 DEF HostInv

LEMMA SubscribeRefusedKeeps ==
  ASSUME HostInv, SubscribeRefused
  PROVE  HostInv'
  <1> DEFINE on == supervisor.on
  <1>1. /\ on \in Bosses /\ bosses[on].subscribed = 0 /\ supervisor.phase = "subscribe"
        /\ on # NoBoss /\ bosses[on].of = "worker" /\ "worker" \in Copies
        /\ UNCHANGED <<publishers, shutdown>>
    BY DEF HostInv, Supervised, SubscribeRefused, Copies
  <1>2. refusals' \in 0..MaxRefusals
    BY DEF SubscribeRefused, Refused, HostInv, HostTyped
  <1>3. PICK half \in {bosses, Subscribed(on)} :
          /\ AttemptFailed
          /\ IF workerState = "stopping" THEN bosses' = half /\ UNCHANGED <<boss, starting>>
             ELSE ClearBoss(half)
    BY DEF SubscribeRefused
  <1>4. /\ half \in [Bosses -> Boss] /\ half[on].of = "worker"
        /\ half[on].state = bosses[on].state /\ half[on].subscribed \in {0, 1}
        /\ \A c \in Bosses : c # on => half[c] = bosses[c]
    BY <1>1, SubscribedSet DEF HostInv, HostTyped
  <1>5. CASE workerState = "stopping"
    <2>1. /\ bosses' = half /\ UNCHANGED <<workerState, boss, starting>>
          /\ supervisor' = [phase |-> "done", on |-> NoBoss]
      BY <1>3, <1>5 DEF AttemptFailed
    <2>2. supervisor' \in Waiting /\ supervisor'.phase = "done" /\ supervisor'.on = NoBoss
      BY <2>1 DEF Waiting
    <2> HIDE DEF on
    <2>3. shutdown'.phase # "none"
      BY <1>1, <1>5 DEF HostInv, BeforeSignal
    <2>4. HostTyped'
      BY <1>1, <1>2, <1>4, <2>1, <2>2 DEF HostInv, HostTyped
    <2>5. InUse'
      BY <1>1, <1>4, <2>1 DEF HostInv, HostTyped, InUse
    <2>6. Supervised' /\ RunningServes'
      BY <1>5, <2>1, <2>2 DEF Supervised, RunningServes
    <2>7. BeforeSignal'
      BY <1>1, <2>1, <2>2, <2>3 DEF HostInv, BeforeSignal
    <2>8. Unsubscribed' /\ SubscribedOnce' /\ NoneForgotten'
      BY <1>1, <1>4, <2>1, <2>2, <2>3 DEF HostInv, Unsubscribed, SubscribedOnce, NoneForgotten
    <2> QED BY <2>4, <2>5, <2>6, <2>7, <2>8 DEF HostInv
  <1>6. CASE workerState # "stopping"
    <2>1. shutdown.phase = "none" /\ boss["worker"] = on /\ starting["worker"] = on
      BY <1>1, <1>6 DEF HostInv, BeforeSignal
    <2>2. /\ bosses' = [half EXCEPT ![on].state = "closing"]
          /\ boss' = [boss EXCEPT !["worker"] = NoBoss]
          /\ starting' = [starting EXCEPT !["worker"] = NoBoss] /\ workerState' = "failed"
          /\ supervisor' = [phase |-> "clear", on |-> on]
      BY <1>1, <1>3, <1>6, <2>1 DEF AttemptFailed, ClearBoss
    <2>3. supervisor' \in Waiting /\ supervisor'.phase = "clear" /\ supervisor'.on = on
      BY <1>1, <2>2 DEF Waiting
    <2> HIDE DEF on
    <2>4. /\ bosses' \in [Bosses -> Boss] /\ bosses'[on].of = "worker"
          /\ bosses'[on].state = "closing" /\ bosses'[on].subscribed \in {0, 1}
          /\ \A c \in Bosses : c # on => bosses'[c] = bosses[c]
      BY <1>1, <1>4, <2>2, StateSet
    <2>5. /\ boss' \in [Copies -> Bosses \cup {NoBoss}] /\ starting' \in [Copies -> Bosses \cup {NoBoss}]
          /\ boss'["worker"] = NoBoss /\ starting'["worker"] = NoBoss
          /\ \A c \in Copies : c # "worker" => boss'[c] = boss[c] /\ starting'[c] = starting[c]
      BY <1>1, <2>2 DEF HostInv, HostTyped
    <2>6. HostTyped'
      BY <1>1, <1>2, <2>2, <2>3, <2>4, <2>5 DEF HostInv, HostTyped
    <2>7. \A c \in Copies : c # "worker" => boss[c] # on /\ starting[c] # on
      BY <1>1 DEF HostInv, InUse
    <2>8. InUse'
      BY <1>1, <2>4, <2>5, <2>7 DEF HostInv, HostTyped, InUse
    <2>9. RunningServes' /\ Supervised'
      BY <1>1, <2>2, <2>3, <2>4 DEF RunningServes, Supervised
    <2>10. Unsubscribed' /\ SubscribedOnce'
      BY <1>1, <2>3, <2>4 DEF HostInv, Unsubscribed, SubscribedOnce
    <2>11. NoneForgotten'
      <3> SUFFICES ASSUME NEW c \in Bosses, c # on
                   PROVE  /\ bosses'[c].state = "live" => c = boss'[bosses'[c].of]
                          /\ bosses'[c].state = "starting" => c = starting'[bosses'[c].of]
        BY <2>4 DEF NoneForgotten
      <3>1. bosses'[c] = bosses[c] /\ bosses[c].of \in Copies
        BY <2>4 DEF HostInv, HostTyped, Boss
      <3>2. /\ bosses[c].state = "live" => c = boss[bosses[c].of]
            /\ bosses[c].state = "starting" => c = starting[bosses[c].of]
        BY <2>1 DEF HostInv, NoneForgotten
      <3> QED BY <2>1, <2>5, <3>1, <3>2
    <2>12. BeforeSignal'
      BY <1>1, <2>1, <2>2, <2>3, <2>5 DEF HostInv, BeforeSignal
    <2> QED BY <2>6, <2>8, <2>9, <2>10, <2>11, <2>12 DEF HostInv
  <1> QED BY <1>5, <1>6

LEMMA WaitingKeeps ==
  ASSUME HostInv, Cleared \/ TryAgain
  PROVE  HostInv'
  <1>1. UNCHANGED <<workerState, bosses, boss, starting, publishers, shutdown, refusals>>
    BY DEF Cleared, TryAgain
  <1>2. /\ supervisor' \in Waiting /\ supervisor'.on = NoBoss
        /\ supervisor'.phase \in {"wait", "begin", "done"} /\ supervisor.phase # "done"
    BY DEF HostInv, HostTyped, Supervised, Waiting, Cleared, TryAgain, AfterWaiting
  <1>3. HostTyped' /\ InUse'
    BY <1>1, <1>2 DEF HostInv, HostTyped, InUse
  <1>4. Supervised' /\ Unsubscribed' /\ BeforeSignal'
    BY <1>1, <1>2 DEF HostInv, Supervised, Unsubscribed, BeforeSignal
  <1>5. SubscribedOnce' /\ RunningServes' /\ NoneForgotten'
    BY <1>1 DEF HostInv, SubscribedOnce, RunningServes, NoneForgotten
  <1> QED BY <1>3, <1>4, <1>5 DEF HostInv

LEMMA SignalKeeps ==
  ASSUME HostInv, Signal
  PROVE  HostInv'
  <1>0. "worker" \in Copies
    BY DEF Copies
  <1>1. /\ workerState' = "stopping"
        /\ boss' = [boss EXCEPT !["worker"] = NoBoss]
        /\ starting' = [starting EXCEPT !["worker"] = NoBoss]
        /\ UNCHANGED <<supervisor, publishers, refusals>>
        /\ bosses' = IF boss["worker"] = NoBoss THEN bosses
                     ELSE [bosses EXCEPT ![boss["worker"]].state = "closing"]
    BY DEF Signal, ClearBoss
  <1>2. shutdown' \in Draining /\ shutdown'.phase = "drain"
    BY <1>0 DEF Signal, HostInv, HostTyped, Draining
  <1>3. /\ bosses' \in [Bosses -> Boss]
        /\ \A c \in Bosses : bosses'[c].subscribed = bosses[c].subscribed /\ bosses'[c].of = bosses[c].of
        /\ \A c \in Bosses : \/ bosses'[c] = bosses[c]
                             \/ c = boss["worker"] /\ bosses'[c].state = "closing"
    BY <1>0, <1>1, StateSet DEF HostInv, HostTyped
  <1>4. /\ boss' \in [Copies -> Bosses \cup {NoBoss}] /\ starting' \in [Copies -> Bosses \cup {NoBoss}]
        /\ boss'["worker"] = NoBoss /\ starting'["worker"] = NoBoss
        /\ \A c \in Copies : c # "worker" => boss'[c] = boss[c] /\ starting'[c] = starting[c]
    BY <1>0, <1>1 DEF HostInv, HostTyped
  <1>5. HostTyped'
    BY <1>1, <1>2, <1>3, <1>4 DEF HostInv, HostTyped
  <1>6. Supervised'
    BY <1>0, <1>1, <1>3 DEF HostInv, HostTyped, InUse, Supervised, Waiting
  <1>7. Unsubscribed' /\ SubscribedOnce'
    BY <1>1, <1>3 DEF HostInv, Unsubscribed, SubscribedOnce
  <1>8. \A c \in Copies : c # "worker" =>
          /\ boss[c] # NoBoss => boss[c] # boss["worker"]
          /\ starting[c] # NoBoss => starting[c] # boss["worker"]
    BY <1>0 DEF HostInv, InUse
  <1>9. InUse'
    BY <1>3, <1>4, <1>8 DEF HostInv, HostTyped, InUse
  <1>10. BeforeSignal' /\ RunningServes'
    BY <1>1, <1>2, <1>4 DEF HostInv, BeforeSignal, RunningServes
  <1>11. NoneForgotten'
    <2> SUFFICES ASSUME NEW c \in Bosses, bosses[c].of = "requests"
                 PROVE  /\ bosses'[c].state = "live" => c = boss'["requests"]
                        /\ bosses'[c].state = "starting" => c = starting'["requests"]
      BY <1>2, <1>3 DEF NoneForgotten
    <2>1. "requests" \in Copies
      BY DEF Copies
    <2>2. /\ bosses[c].state = "live" => c = boss["requests"]
          /\ bosses[c].state = "starting" => c = starting["requests"]
      BY DEF HostInv, NoneForgotten
    <2> QED BY <1>3, <1>4, <2>1, <2>2
  <1> QED BY <1>5, <1>6, <1>7, <1>9, <1>10, <1>11 DEF HostInv

LEMMA ExitKeeps ==
  ASSUME HostInv, Exit
  PROVE  HostInv'
  <1>1. UNCHANGED <<workerState, bosses, boss, starting, supervisor, publishers, refusals>>
    BY DEF Exit
  <1>2. shutdown' \in Draining /\ shutdown'.phase = "exited" /\ shutdown.phase = "drain"
    BY DEF Exit, HostInv, HostTyped, Draining
  <1> QED BY <1>1, <1>2 DEF HostInv, HostTyped, InUse, Supervised, Unsubscribed, BeforeSignal,
                            SubscribedOnce, RunningServes, NoneForgotten

LEMMA HostStepKeeps == HostInv /\ [HostNext]_hostVars => HostInv'
  <1>1. ASSUME HostInv, UNCHANGED hostVars PROVE HostInv'
    BY <1>1 DEF hostVars, HostInv, HostTyped, InUse, Supervised, Unsubscribed, BeforeSignal,
                SubscribedOnce, RunningServes, NoneForgotten
  <1>2. ASSUME HostInv, HostNext PROVE HostInv'
    BY <1>2, BossStartsKeeps, StartRefusedKeeps, ClosingKeeps, AwaitBossKeeps, SentKeeps,
       PublishJobKeeps, WorkerRunsKeeps, SubscribeRefusedKeeps, WaitingKeeps, SignalKeeps,
       ExitKeeps DEF HostNext
  <1> QED BY <1>1, <1>2

(* Every reachable state satisfies HostInv. *)
THEOREM HostInductive == HostSpec => []HostInv
  BY HostBegins, HostStepKeeps, PTL DEF HostSpec

(* Whatever is in use has been started, and no failed start is kept for    *)
(* the callers that come later (lib/jobs/queue.ts).                        *)
THEOREM HostTypeCorrect == HostSpec => []HostTypeOK
  <1>1. HostInv => HostTypeOK
    BY DEF HostInv, HostTyped, InUse, HostTypeOK
  <1> QED BY <1>1, HostInductive, PTL

(* Each copy of the queue module uses one instance at a time; the worker's *)
(* is subscribed once, and live whenever the process calls itself running; *)
(* before a signal no other is open, unless its stop was given up on       *)
(* (supervise.ts, queue.ts).                                               *)
THEOREM HostIsSafe == HostSpec => []HostSafety
  <1>1. HostInv => HostSafety
    BY DEF HostInv, HostSafety
  <1> QED BY <1>1, HostInductive, PTL
=============================================================================
