-------------------------- MODULE RecurringProofs ---------------------------
(***************************************************************************)
(* Proofs about Recurring, for any number of runs and requests, any rules  *)
(* and any length of time: its types, that a date is made into one expense *)
(* only, and that no expense is made before its time; and, where one run   *)
(* or request is under way at a time, that a series keeps its count and    *)
(* its marker, and that what is over is not made again.                    *)
(***************************************************************************)
EXTENDS RecurringHistory, TLAPS

(* A rule's step is a whole number of days, and at least one. *)
LEMMA StepPositive ==
  ASSUME NEW rule \in RuleType
  PROVE  Step(rule) \in Int /\ Step(rule) > 0
  <1>1. rule.interval \in Int /\ rule.unit \in Int /\ rule.interval > 0 /\ rule.unit > 0
    BY DEF RuleType
  <1>2. \A x, y \in Int : x > 0 /\ y > 0 => x * y \in Int /\ x * y > 0
    OBVIOUS
  <1> QED BY <1>1, <1>2 DEF Step

(* Whatever the rule and the date it goes on from, the next occurrence is  *)
(* a day or there is none.                                                 *)
LEMMA OccurrenceIsDay ==
  ASSUME NEW rule \in RuleType, NEW last \in Int \cup {None}, NEW day \in Int
  PROVE  OccurrenceFrom(rule, last, day) \in Int \cup {None}
  <1>1. Step(rule) \in Int /\ Step(rule) > 0
    BY StepPositive
  <1>2. rule.start \in Int /\ rule.weekday \in Int /\ rule.unit \in Int /\ rule.unit > 0
    BY DEF RuleType
  <1>3. Aligned(rule) \in Int
    BY <1>2 DEF Aligned
  <1>4. WalkFrom(rule, last) \in Int
    BY <1>1, <1>3 DEF WalkFrom
  <1> DEFINE from == WalkFrom(rule, last)
             steps == (day - from + Step(rule) - 1) \div Step(rule)
  <1> HIDE DEF from
  <1>5. from \in Int
    BY <1>4 DEF from
  <1>6. steps \in Int
    BY <1>1, <1>5
  <1>7. from + (Step(rule) * steps) \in Int
    BY <1>1, <1>5, <1>6
  <1> QED BY <1>5, <1>7 DEF OccurrenceFrom, WithinRange, from

(* So is the first occurrence of a rule. *)
LEMMA FirstIsDay ==
  ASSUME NEW rule \in RuleType
  PROVE  FirstOccurrence(rule) \in Int \cup {None}
  BY DEF FirstOccurrence, WithinRange, Aligned, RuleType

(* A sequence numbers its elements from one, and each is of its set. *)
LEMMA ElementsOfSeq ==
  ASSUME NEW S, NEW s \in Seq(S)
  PROVE  /\ Len(s) \in Nat /\ DOMAIN s = 1..Len(s)
         /\ \A j \in DOMAIN s : s[j] \in S
  OBVIOUS

(* The date of the last occurrence is one of the dates, when there is one. *)
LEMMA LastIsDay ==
  ASSUME TypeOK, HasLatest
  PROVE  LastDate \in Int \cup {None}
  <1>1. CASE added = <<>>
    BY <1>1 DEF LastDate
  <1>2. CASE added # <<>>
    <2>1. PICK i \in DOMAIN added : \A j \in DOMAIN added : added[j].date <= added[i].date
      BY <1>2 DEF HasLatest
    <2> DEFINE Made == [date : Int, rule : RuleType]
    <2>2. added \in Seq(Made)
      BY DEF TypeOK
    <2>5. \A j \in DOMAIN added : added[j] \in Made
      BY <2>2, ElementsOfSeq
    <2>6. \A j \in DOMAIN added : added[j].date \in Int
      BY <2>5
    <2>3. \E x \in Dates(added) : \A y \in Dates(added) : x >= y
      BY <2>1, <2>6 DEF Dates
    <2>4. Max(Dates(added)) \in Dates(added)
      BY <2>3 DEF Max
    <2> QED BY <1>2, <2>6, <2>4 DEF LastDate, Dates
  <1> QED BY <1>1, <1>2

(* The date a run goes on to, for one that has its copy of the row. *)
LEMMA NextIsDay ==
  ASSUME TypeOK, NEW a \in Actors, act[a].row # None
  PROVE  NextDate(a) \in Int \cup {None}
  <1>1. act[a].row.rule \in RuleType /\ act[a].row.next \in Int \cup {None}
        /\ act[a].last \in Int \cup {None}
    BY DEF TypeOK, ActType, TemplateType
  <1> DEFINE floor == act[a].row.next
             from == IF floor = None THEN 0 ELSE floor
  <1>2. from \in Int
    BY <1>1
  <1>3. OccurrenceFrom(act[a].row.rule, act[a].last, from) \in Int \cup {None}
    BY <1>1, <1>2, OccurrenceIsDay
  <1> QED BY <1>3 DEF NextDate

-----------------------------------------------------------------------------
(* The steps, one lemma for each kind of step.  A step that ends what an   *)
(* actor is doing, or moves it on, keeps the shape of the other actors.    *)

(* An actor with nothing under way has the type of one. *)
LEMMA IdleIsAct == Idle \in ActType
  BY DEF Idle, ActType

(* An actor that begins with a copy of the row, or with none. *)
LEMMA BeginKeeps ==
  ASSUME IndInv, NEW a \in Actors, NEW op \in {"tick", "setup", "resume", "unarchive"},
         NEW phase \in {"created", "last", "write"}, NEW row \in TemplateType \cup {None},
         Begin(a, op, phase, row), UNCHANGED <<clock, archived, gone, added>>,
         template' \in TemplateType \cup {None},
         Exists' => ~Ended(template'.rule, template'.rule.start),
         Exists => Exists',
         row # None \/ phase = "created" => Exists',
         phase = "created" => op = "setup",
         phase = "last" \/ op = "resume" => row # None
  PROVE  IndInv'
  <1>1. Act(op, phase, row) \in ActType
    BY DEF Act, ActType, IndInv, TypeOK
  <1>2. TypeOK'
    BY <1>1 DEF IndInv, TypeOK, Begin
  <1>3. ActShape'
    BY DEF IndInv, ActShape, Shape, TypeOK, Begin, Act
  <1>4. HasLatest' /\ OneExpensePerDate'
    BY DEF IndInv, HasLatest, OneExpensePerDate
  <1> QED BY <1>2, <1>3, <1>4 DEF IndInv

(* An actor that ends, whatever it writes to the template. *)
LEMMA FinishKeeps ==
  ASSUME IndInv, NEW a \in Actors, Finish(a), UNCHANGED <<clock, gone, added>>,
         archived' \in BOOLEAN,
         template' \in TemplateType \cup {None},
         Exists' => ~Ended(template'.rule, template'.rule.start),
         Exists => Exists'
  PROVE  IndInv'
  <1>1. TypeOK'
    BY IdleIsAct DEF IndInv, TypeOK, Finish
  <1>2. ActShape'
    BY DEF IndInv, ActShape, Shape, TypeOK, Finish, Idle
  <1>3. HasLatest' /\ OneExpensePerDate'
    BY DEF IndInv, HasLatest, OneExpensePerDate
  <1> QED BY <1>1, <1>2, <1>3 DEF IndInv

(* An actor that goes on from what it has read, the database unchanged. *)
LEMMA AdvanceKeeps ==
  ASSUME IndInv, NEW a \in Actors, NEW q \in ActType,
         act' = [act EXCEPT ![a] = q], Shape(q),
         UNCHANGED <<clock, archived, gone, template, added>>
  PROVE  IndInv'
  <1>1. TypeOK'
    BY DEF IndInv, TypeOK, Exists
  <1>2. ActShape'
    BY DEF IndInv, ActShape, Shape, TypeOK, Exists
  <1>3. HasLatest' /\ OneExpensePerDate'
    BY DEF IndInv, HasLatest, OneExpensePerDate
  <1> QED BY <1>1, <1>2, <1>3 DEF IndInv

(* A tick begins with a copy of a template that stands. *)
LEMMA TickKeeps ==
  ASSUME IndInv, NEW a \in Actors, Tick(a)
  PROVE  IndInv'
  <1>1. template \in TemplateType /\ Exists
    BY DEF Tick, Stands, Exists, IndInv, TypeOK
  <1> QED BY <1>1, BeginKeeps DEF Tick, IndInv, TypeOK, Exists

(* A template is created with a rule whose first date is within its end,   *)
(* so the rule does not end before it starts.                              *)
LEMMA CreateKeeps ==
  ASSUME IndInv, NEW a \in Actors, Create(a)
  PROVE  IndInv'
  <1>1. PICK r \in Rules : FirstOccurrence(r) # None
                           /\ template' = Template(r, FirstOccurrence(r))
    BY DEF Create
  <1>2. r \in RuleType
    BY RulesAssumption
  <1>3. Template(r, FirstOccurrence(r)) \in TemplateType
    BY <1>2, FirstIsDay DEF Template, TemplateType
  <1>4. template'.rule = r /\ template' \in TemplateType
    BY <1>1, <1>3 DEF Template
  <1>5. ~Ended(r, r.start)
    <2>1. Aligned(r) \in Int /\ Aligned(r) >= r.start /\ ~Ended(r, Aligned(r))
      <3>1. /\ r.start \in Int /\ r.unit \in Int /\ r.unit > 0
            /\ r.weekday - r.start \in Int
        BY <1>2 DEF RuleType
      <3>2. (r.weekday - r.start) % r.unit \in 0..(r.unit - 1)
        BY <3>1
      <3> QED BY <1>1, <3>1, <3>2 DEF Aligned, FirstOccurrence, WithinRange
    <2> QED BY <1>2, <2>1 DEF Ended, RuleType
  <1>6. template' # None
    BY <1>4, TemplateAssumption
  <1> QED BY <1>4, <1>5, <1>6, BeginKeeps DEF Create, Exists

(* The request that created a template reads it back. *)
LEMMA SetUpKeeps ==
  ASSUME IndInv, NEW a \in Actors, SetUp(a)
  PROVE  IndInv'
  <1>1. Exists /\ template \in TemplateType /\ act[a] \in ActType /\ Shape(act[a])
    BY DEF SetUp, At, IndInv, ActShape, Shape, TypeOK, Exists
  <1> DEFINE q == IF template.next # None /\ template.next <= Today(act[a].now)
                  THEN [act[a] EXCEPT !.row = template, !.phase = "last"]
                  ELSE Idle
  <1>2. q \in ActType
    BY <1>1, IdleIsAct DEF ActType
  <1>3. Shape(q)
    BY <1>1 DEF Shape, Idle, SetUp, At, ActType, IndInv, TypeOK, Exists
  <1>4. act' = [act EXCEPT ![a] = q]
    BY DEF SetUp
  <1> QED BY <1>2, <1>3, <1>4, AdvanceKeeps DEF SetUp

(* A run reads the last date of the series, which is a day or none. *)
LEMMA ReadLastKeeps ==
  ASSUME IndInv, NEW a \in Actors, ReadLast(a)
  PROVE  IndInv'
  <1>1. act[a] \in ActType /\ Shape(act[a]) /\ act[a].phase = "last"
    BY DEF ReadLast, At, IndInv, ActShape, TypeOK
  <1> DEFINE phase == IF act[a].row.rule.count = None THEN Planned(a) ELSE "count"
             q == [act[a] EXCEPT !.last = LastDate, !.phase = phase]
  <1>2. LastDate \in Int \cup {None}
    BY LastIsDay DEF IndInv
  <1>3. phase \in {"make", "write", "count"}
        /\ (phase = "make" => act[a].op \in {"tick", "setup"})
    BY DEF Planned, Running
  <1> HIDE DEF phase
  <1>4. q \in ActType
    BY <1>1, <1>2, <1>3 DEF ActType
  <1>5. Shape(q)
    BY <1>1, <1>3 DEF Shape, ActType
  <1>6. act' = [act EXCEPT ![a] = q]
    BY DEF ReadLast, phase
  <1> QED BY <1>4, <1>5, <1>6, AdvanceKeeps DEF ReadLast

(* It counts the series, where the rule has a count. *)
LEMMA ReadCountKeeps ==
  ASSUME IndInv, NEW a \in Actors, ReadCount(a)
  PROVE  IndInv'
  <1>1. act[a] \in ActType /\ Shape(act[a]) /\ act[a].phase = "count"
    BY DEF ReadCount, At, IndInv, ActShape, TypeOK
  <1> DEFINE q == [act[a] EXCEPT !.generated = Len(added), !.phase = Planned(a)]
  <1>2. Len(added) \in Nat
    BY ElementsOfSeq DEF IndInv, TypeOK
  <1>3. q \in ActType
    BY <1>1, <1>2 DEF ActType, Planned
  <1>4. Shape(q)
    BY <1>1 DEF Shape, ActType, Planned, Running
  <1>5. act' = [act EXCEPT ![a] = q]
    BY DEF ReadCount
  <1> QED BY <1>3, <1>4, <1>5, AdvanceKeeps DEF ReadCount

(* It counts again when nothing more is due. *)
LEMMA RecountKeeps ==
  ASSUME IndInv, NEW a \in Actors, Recount(a)
  PROVE  IndInv'
  <1>1. act[a] \in ActType /\ Shape(act[a]) /\ act[a].phase = "make"
    BY DEF Recount, At, IndInv, ActShape, TypeOK
  <1> DEFINE q == [act[a] EXCEPT !.phase = "mark", !.generated = Len(added)]
  <1>2. Len(added) \in Nat
    BY ElementsOfSeq DEF IndInv, TypeOK
  <1>3. q \in ActType
    BY <1>1, <1>2 DEF ActType
  <1>4. Shape(q)
    BY <1>1 DEF Shape, ActType
  <1>5. act' = [act EXCEPT ![a] = q]
    BY DEF Recount
  <1> QED BY <1>3, <1>4, <1>5, AdvanceKeeps DEF Recount

(* A run that takes a date: where it has come to, and that it is due. *)
LEMMA TakenKeeps ==
  ASSUME IndInv, NEW a \in Actors, At(a, "make"), HasDue(a)
  PROVE  LET q == [act[a] EXCEPT !.last = NextDate(a), !.taken = @ + 1] IN
         NextDate(a) \in Int /\ q \in ActType /\ Shape(q)
  <1>1. act[a] \in ActType /\ Shape(act[a]) /\ act[a].row # None
    BY DEF At, IndInv, ActShape, Shape, TypeOK
  <1>2. NextDate(a) \in Int
    BY <1>1, NextIsDay DEF HasDue, IndInv
  <1> DEFINE q == [act[a] EXCEPT !.last = NextDate(a), !.taken = @ + 1]
  <1>5. act[a].taken + 1 \in Nat
    <2>1. act[a].taken \in Nat
      BY <1>1 DEF ActType
    <2> QED BY <2>1
  <1>6. \A d \in Int, t \in Nat : [act[a] EXCEPT !.last = d, !.taken = t] \in ActType
    BY <1>1 DEF ActType
  <1>3. q \in ActType
    BY <1>2, <1>5, <1>6
  <1>4. Shape(q)
    BY <1>1 DEF Shape, ActType
  <1> QED BY <1>2, <1>3, <1>4

(* A run that passes over a date makes nothing. *)
LEMMA SkipKeeps ==
  ASSUME IndInv, NEW a \in Actors, Skip(a)
  PROVE  IndInv'
  BY TakenKeeps, AdvanceKeeps DEF Skip, PassOver

(* A run makes an expense for a date that none of the expenses has. *)
LEMMA GenerateKeeps ==
  ASSUME IndInv, NEW a \in Actors, Generate(a)
  PROVE  IndInv'
  <1> DEFINE d == NextDate(a)
             e == [date |-> d, rule |-> act[a].row.rule]
             q == [act[a] EXCEPT !.last = d, !.taken = @ + 1]
             Made == [date : Int, rule : RuleType]
             n == Len(added)
  <1>1. d \in Int /\ q \in ActType /\ Shape(q)
    BY TakenKeeps DEF Generate
  <1>2. act[a] \in ActType /\ Shape(act[a]) /\ act[a].row # None
    BY DEF Generate, At, IndInv, ActShape, Shape, TypeOK
  <1>3. act' = [act EXCEPT ![a] = q]
    BY DEF Generate, PassOver
  <1>4. added' = Append(added, e) /\ UNCHANGED <<clock, archived, gone, template>>
    BY DEF Generate
  <1>5. d \notin Dates(added)
    BY DEF Generate, Unclaimed
  <1> HIDE DEF d, q
  <1>6. e \in Made
    BY <1>1, <1>2 DEF ActType, TemplateType
  <1> HIDE DEF e
  <1>7. added \in Seq(Made)
    BY DEF IndInv, TypeOK
  <1>8. added' \in Seq(Made)
    BY <1>4, <1>6, <1>7
  <1>9. TypeOK'
    BY <1>1, <1>3, <1>4, <1>8 DEF IndInv, TypeOK, Exists
  <1>10. ActShape'
    BY <1>1, <1>3, <1>4 DEF IndInv, ActShape, Shape, TypeOK, Exists
  <1>11. /\ n \in Nat /\ DOMAIN added = 1..n /\ DOMAIN added' = 1..(n + 1)
         /\ \A j \in 1..n : added'[j] = added[j] /\ added[j].date \in Int
         /\ added'[n + 1].date = d
    <2>1. n \in Nat /\ DOMAIN added = 1..n /\ \A j \in 1..n : added[j] \in Made
      BY <1>7, ElementsOfSeq
    <2>2. \A j \in 1..n : added[j].date \in Int
      BY <2>1
    <2>3. DOMAIN added' = 1..(n + 1) /\ added'[n + 1] = e
          /\ \A j \in 1..n : added'[j] = added[j]
      BY <1>4, <1>6, <1>7, <2>1
    <2> QED BY <2>1, <2>2, <2>3 DEF e
  <1>12. \A j \in 1..n : added[j].date # d
    BY <1>5, <1>11 DEF Dates
  <1> HIDE DEF n
  <1>13. HasLatest'
    <2>1. CASE n = 0
      BY <1>1, <1>11, <2>1 DEF HasLatest
    <2>2. CASE n > 0
      <3>1. PICK i \in 1..n : \A j \in 1..n : added[j].date <= added[i].date
        <4>1. added # <<>>
          BY <1>11, <2>2
        <4> QED BY <4>1, <1>11 DEF IndInv, HasLatest
      <3>2. CASE d > added[i].date
        <4>1. \A j \in 1..(n + 1) : added'[j].date <= added'[n + 1].date
          BY <1>1, <1>11, <3>1, <3>2
        <4> QED BY <4>1, <1>11 DEF HasLatest
      <3>3. CASE d <= added[i].date
        <4>1. i \in 1..(n + 1)
          BY <1>11
        <4>2. \A j \in 1..(n + 1) : added'[j].date <= added'[i].date
          BY <1>1, <1>11, <3>1, <3>3
        <4> QED BY <4>1, <4>2, <1>11 DEF HasLatest
      <3> QED BY <1>1, <1>11, <3>2, <3>3
    <2> QED BY <1>11, <2>1, <2>2
  <1>14. OneExpensePerDate'
    <2> SUFFICES ASSUME NEW i \in 1..(n + 1), NEW j \in 1..(n + 1),
                        added'[i].date = added'[j].date
                 PROVE  i = j
      BY <1>11 DEF OneExpensePerDate
    <2>1. CASE i \in 1..n /\ j \in 1..n
      BY <2>1, <1>11 DEF IndInv, OneExpensePerDate
    <2>2. CASE i = n + 1 \/ j = n + 1
      BY <2>2, <1>11, <1>12
    <2> QED BY <2>1, <2>2, <1>11
  <1> QED BY <1>9, <1>10, <1>13, <1>14 DEF IndInv

(* A run writes the next date to the row as it is now. *)
LEMMA MoveMarkerKeeps ==
  ASSUME IndInv, NEW a \in Actors, MoveMarker(a)
  PROVE  IndInv'
  <1>1. act[a].row # None
    BY DEF MoveMarker, Counted, At, IndInv, ActShape, Shape
  <1>2. Upcoming(a) \in Int \cup {None}
    BY <1>1, NextIsDay DEF Upcoming, IndInv
  <1>3. Exists /\ template \in TemplateType
    BY <1>1 DEF IndInv, ActShape, Shape, TypeOK, Exists
  <1>4. template' \in TemplateType /\ template'.rule = template.rule
    BY <1>2, <1>3 DEF MoveMarker, TemplateType
  <1>5. ~Ended(template'.rule, template'.rule.start)
    BY <1>3, <1>4 DEF IndInv, TypeOK
  <1>6. Exists'
    BY <1>4, TemplateAssumption DEF Exists
  <1> QED BY <1>4, <1>5, <1>6, FinishKeeps DEF MoveMarker, IndInv, TypeOK

(* A run that fails, or is lost, leaves what it has committed. *)
LEMMA FailKeeps ==
  ASSUME IndInv, NEW a \in Actors, Fail(a)
  PROVE  IndInv'
  BY FinishKeeps DEF Fail, IndInv, TypeOK, Exists

(* Where a template that starts again starts is a day. *)
LEMMA ResumedIsDay ==
  ASSUME TypeOK, NEW a \in Actors, act[a].row # None
  PROVE  ResumedRunAt(a) \in Int \cup {None}
  <1>1. act[a].row.rule \in RuleType /\ act[a].last \in Int \cup {None}
        /\ act[a].now \in Nat
    BY DEF TypeOK, ActType, TemplateType
  <1>2. DueThrough(act[a].now) + 1 \in Int
    BY <1>1 DEF DueThrough
  <1> QED BY <1>1, <1>2, OccurrenceIsDay DEF ResumedRunAt

(* Resuming writes a day, or none, to the row as it is now. *)
LEMMA WriteResumedKeeps ==
  ASSUME IndInv, NEW a \in Actors, WriteResumed(a)
  PROVE  IndInv'
  <1>1. act[a].row # None
    BY DEF WriteResumed, IndInv, ActShape, Shape
  <1>2. ResumedRunAt(a) \in Int \cup {None}
    BY <1>1, ResumedIsDay DEF IndInv
  <1>3. Exists /\ template \in TemplateType
    BY <1>1 DEF IndInv, ActShape, Shape, TypeOK, Exists
  <1>4. template' \in TemplateType /\ template'.rule = template.rule
    BY <1>2, <1>3 DEF WriteResumed, TemplateType
  <1>5. ~Ended(template'.rule, template'.rule.start)
    BY <1>3, <1>4 DEF IndInv, TypeOK
  <1>6. Exists'
    BY <1>4, TemplateAssumption DEF Exists
  <1> QED BY <1>4, <1>5, <1>6, FinishKeeps DEF WriteResumed, IndInv, TypeOK

(* So does un-archiving the group, for a template that it reschedules. *)
LEMMA WriteUnarchivedKeeps ==
  ASSUME IndInv, NEW a \in Actors, WriteUnarchived(a)
  PROVE  IndInv'
  <1>1. CASE Rescheduled(act[a].row)
    <2>1. act[a].row # None
      BY <1>1 DEF Rescheduled
    <2>2. ResumedRunAt(a) \in Int \cup {None}
      BY <2>1, ResumedIsDay DEF IndInv
    <2>3. Exists /\ template \in TemplateType
      BY <2>1 DEF IndInv, ActShape, Shape, TypeOK, Exists
    <2>4. template' \in TemplateType /\ template'.rule = template.rule
      BY <1>1, <2>2, <2>3 DEF WriteUnarchived, TemplateType
    <2>5. ~Ended(template'.rule, template'.rule.start)
      BY <2>3, <2>4 DEF IndInv, TypeOK
    <2>6. Exists'
      BY <2>4, TemplateAssumption DEF Exists
    <2> QED BY <2>4, <2>5, <2>6, FinishKeeps DEF WriteUnarchived
  <1>2. CASE ~Rescheduled(act[a].row)
    BY <1>2, FinishKeeps DEF WriteUnarchived, IndInv, TypeOK, Exists
  <1> QED BY <1>1, <1>2

(* A request to resume begins with a copy of the row. *)
LEMMA ResumeKeeps ==
  ASSUME IndInv, NEW a \in Actors, Resume(a)
  PROVE  IndInv'
  <1>1. template \in TemplateType /\ Exists
    BY DEF Resume, Stands, Exists, IndInv, TypeOK
  <1> QED BY <1>1, BeginKeeps DEF Resume, IndInv, TypeOK, Exists

(* Un-archiving begins with a copy of the row, or without one. *)
LEMMA UnarchiveKeeps ==
  ASSUME IndInv, NEW a \in Actors, Unarchive(a)
  PROVE  IndInv'
  <1>1. template \in TemplateType \cup {None}
    BY DEF IndInv, TypeOK
  <1> QED BY <1>1, BeginKeeps DEF Unarchive, Stands, IndInv, TypeOK, Exists

(* A change to the template, or to the group, by nobody under way. *)
LEMMA TemplateKeeps ==
  ASSUME IndInv, UNCHANGED <<clock, added, act>>,
         archived' \in BOOLEAN, gone' \in BOOLEAN,
         template' \in TemplateType \cup {None},
         Exists' => ~Ended(template'.rule, template'.rule.start),
         Exists => Exists'
  PROVE  IndInv'
  <1>1. TypeOK'
    BY DEF IndInv, TypeOK
  <1>2. ActShape'
    BY DEF IndInv, ActShape, Shape
  <1>3. HasLatest' /\ OneExpensePerDate'
    BY DEF IndInv, HasLatest, OneExpensePerDate
  <1> QED BY <1>1, <1>2, <1>3 DEF IndInv

(* A rule that is edited starts no earlier than it may, and has not ended. *)
LEMMA EditKeeps ==
  ASSUME IndInv, Edit
  PROVE  IndInv'
  <1> DEFINE Marker(rule) ==
               IF Exhausted(rule, Len(added)) THEN None ELSE FirstOccurrence(rule)
  <1>1. PICK r \in Rules :
          /\ StartsInTime(StartLater(r))
          /\ template' = [template EXCEPT !.rule = StartLater(r),
                                          !.next = Marker(StartLater(r))]
    BY DEF Edit
  <1>2. r \in RuleType /\ template \in TemplateType
    BY RulesAssumption DEF Edit, Stands, Exists, IndInv, TypeOK
  <1>3. Earliest \in Int
    <2>1. LastDate \in Int \cup {None}
      BY LastIsDay DEF IndInv
    <2> QED BY <2>1 DEF Earliest, MaxOf, Today, IndInv, TypeOK
  <1>4. StartLater(r) \in RuleType
    BY <1>2, <1>3 DEF StartLater, MaxOf, RuleType
  <1>5. Marker(StartLater(r)) \in Int \cup {None}
    BY <1>4, FirstIsDay
  <1> HIDE DEF Marker
  <1>6. template' \in TemplateType /\ template'.rule = StartLater(r)
    BY <1>1, <1>2, <1>4, <1>5 DEF TemplateType
  <1>7. ~Ended(template'.rule, template'.rule.start)
    BY <1>1, <1>6 DEF StartsInTime
  <1>8. Exists'
    BY <1>6, TemplateAssumption DEF Exists
  <1> QED BY <1>6, <1>7, <1>8, TemplateKeeps DEF Edit, IndInv, TypeOK

(* Pausing, deleting and restoring leave the rule as it is. *)
LEMMA SameRuleKeeps ==
  ASSUME IndInv, Pause \/ Delete \/ Restore
  PROVE  IndInv'
  <1>1. Exists /\ template \in TemplateType
    BY DEF Pause, Delete, Restore, Stands, Exists, IndInv, TypeOK
  <1>2. template' \in TemplateType /\ template'.rule = template.rule
    BY <1>1 DEF Pause, Delete, Restore, TemplateType
  <1>3. ~Ended(template'.rule, template'.rule.start)
    BY <1>1, <1>2 DEF IndInv, TypeOK
  <1>4. Exists'
    BY <1>2, TemplateAssumption DEF Exists
  <1> QED BY <1>2, <1>3, <1>4, TemplateKeeps DEF Pause, Delete, Restore, IndInv, TypeOK

(* Archiving the group, and people who leave or return. *)
LEMMA GroupKeeps ==
  ASSUME IndInv, Archive \/ LeaveOrReturn
  PROVE  IndInv'
  BY TemplateKeeps DEF Archive, LeaveOrReturn, IndInv, TypeOK, Exists

(* Time passes: whatever started before now still did. *)
LEMMA ElapseKeeps ==
  ASSUME IndInv, Elapse
  PROVE  IndInv'
  <1>1. TypeOK'
    BY DEF Elapse, IndInv, TypeOK, Exists
  <1>2. ActShape'
    <2> SUFFICES ASSUME NEW a \in Actors PROVE Shape(act[a])'
      BY DEF ActShape
    <2>1. Shape(act[a]) /\ act[a] \in ActType
      BY DEF IndInv, ActShape, TypeOK
    <2> QED BY <2>1 DEF Elapse, IndInv, TypeOK, Shape, Exists, ActType
  <1>3. HasLatest' /\ OneExpensePerDate'
    BY DEF Elapse, IndInv, HasLatest, OneExpensePerDate
  <1> QED BY <1>1, <1>2, <1>3 DEF IndInv

-----------------------------------------------------------------------------
(* The invariant holds before there is a template. *)
LEMMA InitInv == Init => IndInv
  <1> SUFFICES ASSUME Init PROVE IndInv
    OBVIOUS
  <1>1. TypeOK
    <2>1. added \in Seq([date : Int, rule : RuleType])
      BY DEF Init
    <2>2. act \in [Actors -> ActType]
      BY IdleIsAct DEF Init
    <2>3. template = None /\ clock \in Nat /\ archived = FALSE /\ gone = FALSE
      BY DEF Init
    <2> QED BY <2>1, <2>2, <2>3 DEF TypeOK, Exists
  <1>2. ActShape
    BY DEF Init, ActShape, Shape, Idle
  <1>3. HasLatest /\ OneExpensePerDate
    BY DEF Init, HasLatest, OneExpensePerDate
  <1> QED BY <1>1, <1>2, <1>3 DEF IndInv

(* Every step keeps it. *)
LEMMA NextInv == IndInv /\ [Next]_vars => IndInv'
  <1> SUFFICES ASSUME IndInv, [Next]_vars PROVE IndInv'
    OBVIOUS
  <1>1. ASSUME NEW a \in Actors, Proceed(a) PROVE IndInv'
    BY <1>1, SetUpKeeps, ReadLastKeeps, ReadCountKeeps, GenerateKeeps, SkipKeeps,
       RecountKeeps, MoveMarkerKeeps, WriteResumedKeeps, WriteUnarchivedKeeps DEF Proceed
  <1>2. ASSUME NEW a \in Actors,
               Tick(a) \/ Create(a) \/ Resume(a) \/ Unarchive(a) \/ Fail(a)
        PROVE  IndInv'
    BY <1>2, TickKeeps, CreateKeeps, ResumeKeeps, UnarchiveKeeps, FailKeeps
  <1>3. CASE Edit \/ Pause \/ Delete \/ Restore \/ Archive \/ LeaveOrReturn \/ Elapse
    BY <1>3, EditKeeps, SameRuleKeeps, GroupKeeps, ElapseKeeps
  <1>4. CASE UNCHANGED vars
    BY <1>4 DEF vars, IndInv, TypeOK, ActShape, Shape, HasLatest, OneExpensePerDate, Exists
  <1> QED BY <1>1, <1>2, <1>3, <1>4 DEF Next

(* The invariant is inductive: it holds at first and every step keeps it.  *)
THEOREM Inductive == Spec => []IndInv
  BY InitInv, NextInv, PTL DEF Spec

(* The variables keep their types, and no rule that is stored ends before  *)
(* it starts, so that an edit cannot make a series that never comes round. *)
THEOREM TypeCorrect == Spec => []TypeOK
  <1>1. IndInv => TypeOK
    BY DEF IndInv
  <1> QED BY <1>1, Inductive, PTL

(* However many workers tick, however stale the copies their runs work on, *)
(* and however often a run is repeated after failing, a date is made into  *)
(* one expense: what the unique index on the template and date is for.     *)
THEOREM OneExpense == Spec => []OneExpensePerDate
  <1>1. IndInv => OneExpensePerDate
    BY DEF IndInv
  <1> QED BY <1>1, Inductive, PTL

(* No run makes an expense before its time, the worker's before nine on    *)
(* the date and a request's before the date, even if it is the run's copy  *)
(* of the template that sets the date.                                     *)
THEOREM NothingEarlyEver == Spec => NothingEarly
  <1>1. ASSUME IndInv, NEW a \in Actors, Generate(a)
        PROVE  IF act[a].op = "tick" THEN OccurrenceInstant(NextDate(a)) <= clock
               ELSE NextDate(a) <= Today(clock)
    <2>1. act[a] \in ActType /\ Shape(act[a]) /\ act[a].phase = "make" /\ clock \in Nat
      BY <1>1 DEF Generate, At, IndInv, ActShape, TypeOK
    <2>2. NextDate(a) \in Int /\ NextDate(a) <= Through(a)
      BY <1>1, TakenKeeps DEF Generate, HasDue
    <2>3. act[a].now \in Nat /\ act[a].now <= clock /\ act[a].op \in {"tick", "setup"}
      BY <2>1 DEF ActType, Shape
    <2> DEFINE d == NextDate(a)
    <2> HIDE DEF d
    <2>4. d \in Int /\ d <= Through(a)
      BY <2>2 DEF d
    <2>5. CASE act[a].op = "tick"
      BY <2>1, <2>3, <2>4, <2>5 DEF Through, DueThrough, OccurrenceInstant, d
    <2>6. CASE act[a].op = "setup"
      BY <2>1, <2>3, <2>4, <2>6 DEF Through, Today, d
    <2> QED BY <2>3, <2>5, <2>6
  <1>2. IndInv /\ [Next]_vars =>
          [\A a \in Actors : Generate(a) =>
             IF act[a].op = "tick" THEN OccurrenceInstant(NextDate(a)) <= clock
             ELSE NextDate(a) <= Today(clock)]_vars
    BY <1>1
  <1> QED BY <1>2, Inductive, PTL DEF Spec, NothingEarly

-----------------------------------------------------------------------------
(* A multiple of a number leaves nothing, and only a multiple does. *)
LEMMA Multiples ==
  ASSUME NEW s \in Int, s > 0
  PROVE  /\ \A m \in Int : (s * m) % s = 0
         /\ \A x \in Int : x % s = 0 => x = s * (x \div s) /\ x \div s \in Int
  <1>1. ASSUME NEW m \in Int PROVE (s * m) % s = 0
    <2> DEFINE x == s * m  q == x \div s  r == x % s
    <2>1. x \in Int /\ q \in Int /\ r \in Int
      OBVIOUS
    <2>2. x = s * q + r /\ 0 <= r /\ r < s
      BY <2>1
    <2>3. m - q \in Int /\ s * (m - q) = r
      BY <2>1, <2>2
    <2>4. \A k \in Int : k >= 1 => s * k >= s
      OBVIOUS
    <2>5. \A k \in Int : k <= -1 => s * k < 0
      OBVIOUS
    <2> DEFINE k == m - q
    <2>6. k = 0
      <3>1. k \in Int /\ s * k = r
        BY <2>3
      <3> HIDE DEF k, r
      <3> QED BY <3>1, <2>2, <2>4, <2>5
    <2>7. s * 0 = 0
      OBVIOUS
    <2> QED BY <2>3, <2>6, <2>7
  <1>2. ASSUME NEW x \in Int, x % s = 0 PROVE x = s * (x \div s) /\ x \div s \in Int
    BY <1>2
  <1> QED BY <1>1, <1>2

(* The steps a walk takes to reach a day, and no step more. *)
LEMMA StepsReach ==
  ASSUME NEW s \in Int, s > 0, NEW from \in Int, NEW day \in Int, day > from
  PROVE  LET steps == (day - from + s - 1) \div s IN
         /\ steps \in Int /\ steps >= 1 /\ s * steps \in Int
         /\ from + s * steps >= day /\ s * steps >= s
  <1> DEFINE x == day - from + s - 1  q == x \div s  r == x % s
  <1>1. x \in Int /\ q \in Int /\ r \in Int /\ x >= s
    OBVIOUS
  <1> HIDE DEF x
  <1>2. x = s * q + r /\ 0 <= r /\ r < s /\ s * q \in Int
    BY <1>1
  <1> HIDE DEF q, r
  <1>3. s * q > x - s
    BY <1>1, <1>2
  <1>4. q >= 1
    <2>1. \A k \in Int : k <= 0 => s * k <= 0
      OBVIOUS
    <2> QED BY <1>1, <1>3, <2>1
  <1>5. s * q >= s
    <2>1. \A k \in Int : k >= 1 => s * k >= s
      OBVIOUS
    <2> QED BY <1>1, <1>4, <2>1
  <1>6. s * q >= day - from
    BY <1>1, <1>2, <1>3 DEF x
  <1> QED BY <1>1, <1>2, <1>4, <1>5, <1>6 DEF q, x

-----------------------------------------------------------------------------
(* One run or request at a time. *)

(* A date of the rule's, whether or not the rule has ended by then; and one *)
(* that the rule does not reach back to.                                   *)
OnGrid(rule, d) == d >= Aligned(rule) /\ (d - Aligned(rule)) % Step(rule) = 0
Gridded(rule, d) == d # None /\ d >= rule.start => OnGrid(rule, d)

(* The numbers of a rule. *)
LEMMA RuleNumbers ==
  ASSUME NEW rule \in RuleType
  PROVE  /\ Step(rule) \in Int /\ Step(rule) > 0
         /\ rule.start \in Int /\ Aligned(rule) \in Int /\ Aligned(rule) >= rule.start
  <1>1. /\ rule.start \in Int /\ rule.unit \in Int /\ rule.unit > 0
        /\ rule.weekday - rule.start \in Int
    BY DEF RuleType
  <1>2. (rule.weekday - rule.start) % rule.unit \in 0..(rule.unit - 1)
    BY <1>1
  <1> QED BY <1>1, <1>2, StepPositive DEF Aligned

(* From a date of the rule, or from before it, a walk steps on its dates.  *)
LEMMA WalkOnGrid ==
  ASSUME NEW rule \in RuleType, NEW last \in Int \cup {None}, Gridded(rule, last),
         NEW day \in Int, OccurrenceFrom(rule, last, day) # None
  PROVE  OnRule(rule, OccurrenceFrom(rule, last, day))
  <1> DEFINE s == Step(rule)  first == Aligned(rule)  from == WalkFrom(rule, last)
             d == IF day <= from THEN from
                  ELSE from + s * ((day - from + s - 1) \div s)
  <1>1. s \in Int /\ s > 0 /\ first \in Int /\ rule.start \in Int /\ first >= rule.start
    BY RuleNumbers
  <1>2. OccurrenceFrom(rule, last, day) = d /\ ~Ended(rule, d)
    BY DEF OccurrenceFrom, WithinRange
  <1>3. from \in Int /\ \E k \in Int : k >= 0 /\ from = first + s * k
    <2>1. CASE last = None \/ last < rule.start
      <3>1. from = first /\ s * 0 = 0
        BY <1>1, <2>1 DEF WalkFrom
      <3> HIDE DEF from, s, first
      <3> QED BY <1>1, <3>1
    <2>2. CASE ~(last = None \/ last < rule.start)
      <3>1. last \in Int /\ last >= rule.start /\ OnGrid(rule, last) /\ from = last + s
        BY <1>1, <2>2 DEF WalkFrom, Gridded
      <3>2. last >= first /\ (last - first) % s = 0
        BY <3>1 DEF OnGrid
      <3> HIDE DEF from, s, first
      <3> DEFINE k == (last - first) \div s
      <3>3. last - first = s * k /\ k \in Int
        BY <1>1, <3>1, <3>2, Multiples
      <3>4. k >= 0
        BY <1>1, <3>1, <3>2
      <3> HIDE DEF k
      <3>5. from = first + s * (k + 1) /\ k + 1 \in Int /\ k + 1 >= 0
        BY <1>1, <3>1, <3>3, <3>4
      <3> QED BY <1>1, <3>1, <3>5
    <2> QED BY <2>1, <2>2
  <1> HIDE DEF from, s, first
  <1>4. PICK k \in Int : k >= 0 /\ from = first + s * k
    BY <1>3
  <1>5. d \in Int /\ \E j \in Int : j >= 0 /\ d = first + s * j
    <2>1. CASE day <= from
      BY <1>3, <1>4, <2>1
    <2>2. CASE ~(day <= from)
      <3> DEFINE steps == (day - from + s - 1) \div s
      <3>1. steps \in Int /\ steps >= 1 /\ d = from + s * steps
        BY <1>1, <1>3, <2>2, StepsReach
      <3> HIDE DEF steps, d
      <3>2. d = first + s * (k + steps) /\ k + steps \in Int /\ k + steps >= 0
        <4>1. \A x, y, z \in Int : x * (y + z) = x * y + x * z
          OBVIOUS
        <4>2. s * (k + steps) = s * k + s * steps
          BY <1>1, <1>4, <3>1, <4>1
        <4>3. s * k \in Int /\ s * steps \in Int
          BY <1>1, <1>4, <3>1
        <4> QED BY <1>1, <1>4, <3>1, <4>2, <4>3
      <3>3. s * (k + steps) \in Int
        BY <1>1, <3>2
      <3>4. d \in Int
        BY <1>1, <3>2, <3>3
      <3> QED BY <3>2, <3>4
    <2> QED BY <2>1, <2>2
  <1> HIDE DEF d
  <1>6. PICK j \in Int : j >= 0 /\ d = first + s * j
    BY <1>5
  <1>7. s * j >= 0 /\ s * j \in Int
    BY <1>1, <1>6
  <1>8. d >= first /\ (d - first) % s = 0
    <2>1. d - first = s * j
      BY <1>1, <1>6, <1>7
    <2> QED BY <1>1, <1>5, <1>7, <2>1, Multiples
  <1> QED BY <1>2, <1>8 DEF OnRule, s, first

(* A walk without an end comes to a date, no earlier than it was asked for *)
(* and later than the one it goes on from.                                 *)
LEMMA WalkAhead ==
  ASSUME NEW rule \in RuleType, rule.end = None, NEW last \in Int \cup {None},
         NEW day \in Int
  PROVE  LET d == OccurrenceFrom(rule, last, day) IN
         d \in Int /\ d >= day /\ (last # None => d > last)
  <1> DEFINE s == Step(rule)  from == WalkFrom(rule, last)
             steps == (day - from + s - 1) \div s
             d == IF day <= from THEN from ELSE from + s * steps
  <1>1. /\ s \in Int /\ s > 0 /\ rule.start \in Int
        /\ Aligned(rule) \in Int /\ Aligned(rule) >= rule.start
    BY RuleNumbers
  <1>2. OccurrenceFrom(rule, last, day) = d
    BY DEF OccurrenceFrom, WithinRange, Ended
  <1>3. from \in Int /\ (last # None => from > last)
    BY <1>1 DEF WalkFrom
  <1> HIDE DEF s, from
  <1>4. CASE day <= from
    BY <1>2, <1>3, <1>4
  <1>5. CASE ~(day <= from)
    <2>1. steps \in Int /\ s * steps \in Int /\ from + s * steps >= day /\ s * steps >= s
      BY <1>1, <1>3, <1>5, StepsReach
    <2> HIDE DEF steps
    <2> QED BY <1>1, <1>2, <1>3, <1>5, <2>1
  <1> QED BY <1>4, <1>5

(* A rule's first occurrence is one of its dates. *)
LEMMA FirstOnRule ==
  ASSUME NEW rule \in RuleType, FirstOccurrence(rule) # None
  PROVE  OnRule(rule, FirstOccurrence(rule))
  <1>1. Step(rule) \in Int /\ Step(rule) > 0 /\ Aligned(rule) \in Int
    BY RuleNumbers
  <1>2. Step(rule) * 0 = 0 /\ (Step(rule) * 0) % Step(rule) = 0
    BY <1>1, Multiples
  <1>3. Aligned(rule) - Aligned(rule) = 0
    BY <1>1
  <1> QED BY <1>1, <1>2, <1>3 DEF FirstOccurrence, WithinRange, OnRule

(* What the one at work carries: the row as it is, the time as it is, and  *)
(* a place on the rule's dates.                                            *)
Carries(q) ==
  /\ q.phase # "idle" => q.now = clock
  /\ q.phase \notin {"idle", "created"} => q.row = template
  /\ q.phase \in {"created", "last", "count"} => q.taken = 0
  /\ q.phase \in {"count", "make", "mark", "write"} => Gridded(q.row.rule, q.last)
  /\ q.phase = "make" /\ q.row.rule.count # None => Len(added) <= q.generated + q.taken

OneAtWork == \A a, b \in Actors : ~At(a, "idle") /\ ~At(b, "idle") => a = b
AllCarry == \A a \in Actors : Carries(act[a])

(* The series has no date that the rule, from its start on, does not name. *)
LogOfRule ==
  IF Exists THEN \A d \in Dates(added) : Gridded(template.rule, d) ELSE added = <<>>

AloneInv == OneAtWork /\ AllCarry /\ LogOfRule /\ CountKept /\ MarkerOfRule

(* A step of one actor's, which the others have nothing under way beside.  *)
LEMMA ActorStep ==
  ASSUME TypeOK, Undisturbed, NEW a \in Actors, \A b \in Actors : b # a => act'[b] = act[b],
         (~At(a, "idle") => Carries(act[a]))'
  PROVE  (OneAtWork /\ AllCarry)'
  <1>1. \A b \in Actors : b # a => act'[b].phase = "idle"
    BY DEF Undisturbed, At
  <1>2. OneAtWork'
    BY <1>1 DEF OneAtWork, At
  <1>3. AllCarry'
    BY <1>1 DEF AllCarry, Carries, At
  <1> QED BY <1>2, <1>3

(* What the actor and the others have after a step of its own. *)
LEMMA Moved ==
  ASSUME TypeOK, NEW a \in Actors, NEW q, act' = [act EXCEPT ![a] = q]
  PROVE  act'[a] = q /\ \A b \in Actors : b # a => act'[b] = act[b]
  BY DEF TypeOK

(* A step of nobody's, when nothing is under way. *)
LEMMA OutsideStep ==
  ASSUME Undisturbed, act' = act
  PROVE  (OneAtWork /\ AllCarry)' /\ \A a \in Actors : At(a, "idle")
  <1>1. \A a \in Actors : act[a].phase = "idle" /\ act'[a].phase = "idle"
    BY DEF Undisturbed, At
  <1> QED BY <1>1 DEF OneAtWork, AllCarry, Carries, At

(* The last date is one of the dates, and none is later. *)
LEMMA LastIsLatest ==
  ASSUME TypeOK, HasLatest
  PROVE  IF added = <<>> THEN LastDate = None
         ELSE LastDate \in Dates(added) /\ \A d \in Dates(added) : d \in Int /\ d <= LastDate
  <1>1. CASE added = <<>>
    BY <1>1 DEF LastDate
  <1>2. CASE added # <<>>
    <2>1. PICK i \in DOMAIN added : \A j \in DOMAIN added : added[j].date <= added[i].date
      BY <1>2 DEF HasLatest
    <2> DEFINE Made == [date : Int, rule : RuleType]
    <2>2. \A j \in DOMAIN added : added[j] \in Made
      BY ElementsOfSeq DEF TypeOK
    <2>3. \A j \in DOMAIN added : added[j].date \in Int
      BY <2>2
    <2>4. \E x \in Dates(added) : \A y \in Dates(added) : x >= y
      BY <2>1, <2>3 DEF Dates
    <2>5. Max(Dates(added)) \in Dates(added) /\ \A y \in Dates(added) : Max(Dates(added)) >= y
      BY <2>4 DEF Max
    <2>6. \A d \in Dates(added) : d \in Int
      BY <2>3 DEF Dates
    <2> QED BY <1>2, <2>5, <2>6 DEF LastDate
  <1> QED BY <1>1, <1>2

(* The series and the rule as they are; the marker perhaps not. *)
LEMMA SameSeries ==
  ASSUME AloneInv, UNCHANGED added, Exists <=> Exists',
         Exists => template'.rule = template.rule,
         Exists /\ template'.next # None /\ template'.next # template.next =>
           OnRule(template.rule, template'.next)
  PROVE  (LogOfRule /\ CountKept /\ MarkerOfRule)'
  <1>1. LogOfRule'
    BY DEF AloneInv, LogOfRule, Dates
  <1>2. CountKept'
    BY DEF AloneInv, CountKept
  <1>3. MarkerOfRule'
    BY DEF AloneInv, MarkerOfRule
  <1> QED BY <1>1, <1>2, <1>3

(* An actor that begins, or has nothing more to do, leaves a series that   *)
(* SameSeries is about.                                                    *)
LEMMA BeginsAlone ==
  ASSUME IndInv, AloneInv, Undisturbed, NEW a \in Actors,
         Tick(a) \/ Resume(a) \/ Unarchive(a)
  PROVE  AloneInv'
  <1>1. PICK op, phase : /\ act' = [act EXCEPT ![a] = Act(op, phase, template)]
                         /\ phase \in {"last", "write"}
                         /\ UNCHANGED <<clock, added, template>>
    BY DEF Tick, Resume, Unarchive, Begin
  <1>2. act'[a] = Act(op, phase, template) /\ \A b \in Actors : b # a => act'[b] = act[b]
    BY <1>1, Moved DEF IndInv
  <1>5. Carries(act[a])'
    BY <1>1, <1>2 DEF Carries, Act, Gridded
  <1>3. (OneAtWork /\ AllCarry)'
    BY <1>2, <1>5, ActorStep DEF IndInv
  <1>4. (LogOfRule /\ CountKept /\ MarkerOfRule)'
    BY <1>1, SameSeries DEF Exists
  <1> QED BY <1>3, <1>4 DEF AloneInv

(* A series starts empty, with a marker on the first date of its rule.     *)
LEMMA CreatesAlone ==
  ASSUME IndInv, AloneInv, Undisturbed, NEW a \in Actors, Create(a)
  PROVE  AloneInv'
  <1>1. PICK r \in Rules : FirstOccurrence(r) # None
                           /\ template' = Template(r, FirstOccurrence(r))
    BY DEF Create
  <1>2. r \in RuleType /\ template'.rule = r /\ template'.next = FirstOccurrence(r)
    BY <1>1, RulesAssumption DEF Template
  <1>3. Template(r, FirstOccurrence(r)) \in TemplateType
    BY <1>2, FirstIsDay DEF Template, TemplateType
  <1>4. Exists'
    BY <1>1, <1>3, TemplateAssumption DEF Exists
  <1>5. added = <<>> /\ added' = <<>>
    BY DEF Create, AloneInv, LogOfRule
  <1>6. LogOfRule' /\ CountKept'
    BY <1>4, <1>5 DEF LogOfRule, Dates, CountKept
  <1>7. MarkerOfRule'
    BY <1>1, <1>2, FirstOnRule DEF MarkerOfRule
  <1>8. (OneAtWork /\ AllCarry)'
    <2>1. act' = [act EXCEPT ![a] = Act("setup", "created", None)] /\ clock' = clock
      BY DEF Create, Begin
    <2>2. /\ act'[a] = Act("setup", "created", None)
          /\ \A b \in Actors : b # a => act'[b] = act[b]
      BY <2>1, Moved DEF IndInv
    <2>3. Carries(act[a])'
      BY <2>1, <2>2 DEF Carries, Act
    <2> QED BY <2>2, <2>3, ActorStep DEF IndInv
  <1> QED BY <1>6, <1>7, <1>8 DEF AloneInv

(* Setting up reads the row that has just been written.                    *)
LEMMA SetsUpAlone ==
  ASSUME IndInv, AloneInv, Undisturbed, NEW a \in Actors, SetUp(a)
  PROVE  AloneInv'
  <1> DEFINE q == IF template.next # None /\ template.next <= Today(act[a].now)
                  THEN [act[a] EXCEPT !.row = template, !.phase = "last"]
                  ELSE Idle
  <1>1. act' = [act EXCEPT ![a] = q] /\ UNCHANGED <<clock, template, added>>
    BY DEF SetUp
  <1>2. act[a] \in ActType /\ act[a].phase = "created" /\ Carries(act[a])
    BY DEF SetUp, At, IndInv, TypeOK, AloneInv, AllCarry
  <1>3. act'[a] = q /\ \A b \in Actors : b # a => act'[b] = act[b]
    <2> HIDE DEF q
    <2> QED BY <1>1, Moved DEF IndInv
  <1>6. (~At(a, "idle") => Carries(act[a]))'
    BY <1>1, <1>2, <1>3 DEF At, Carries, ActType, Idle
  <1>4. (OneAtWork /\ AllCarry)'
    BY <1>3, <1>6, ActorStep DEF IndInv
  <1>5. (LogOfRule /\ CountKept /\ MarkerOfRule)'
    BY <1>1, SameSeries DEF Exists
  <1> QED BY <1>4, <1>5 DEF AloneInv

(* Whoever has read the row has read it of a series that is there. *)
LEMMA RowAsItIs ==
  ASSUME IndInv, AloneInv, NEW a \in Actors, act[a].row # None,
         act[a].phase \notin {"idle", "created"}
  PROVE  /\ Exists /\ template \in TemplateType /\ act[a].row = template
         /\ act[a].row.rule \in RuleType /\ act[a] \in ActType /\ act[a].now = clock
         /\ Carries(act[a])
  BY DEF IndInv, TypeOK, ActShape, Shape, Exists, AloneInv, AllCarry, Carries, TemplateType

(* A run reads the last date and the count, and both stay true.            *)
LEMMA ReadsAlone ==
  ASSUME IndInv, AloneInv, Undisturbed, NEW a \in Actors, ReadLast(a) \/ ReadCount(a)
  PROVE  AloneInv'
  <1>1. /\ act[a].phase \in {"last", "count"} /\ act[a].row # None
        /\ UNCHANGED <<clock, template, added>>
    BY DEF ReadLast, ReadCount, At, IndInv, ActShape, Shape
  <1>2. /\ Exists /\ act[a].row = template /\ act[a] \in ActType /\ Carries(act[a])
        /\ act[a].now = clock
    BY <1>1, RowAsItIs
  <1>3. (LogOfRule /\ CountKept /\ MarkerOfRule)'
    BY <1>1, SameSeries DEF Exists
  <1>4. (OneAtWork /\ AllCarry)'
    <2>1. CASE ReadLast(a)
      <3> DEFINE phase == IF act[a].row.rule.count = None THEN Planned(a) ELSE "count"
                 q == [act[a] EXCEPT !.last = LastDate, !.phase = phase]
      <3>1. Gridded(template.rule, LastDate)
        BY <1>2, LastIsLatest DEF IndInv, AloneInv, LogOfRule, Gridded
      <3>2. /\ phase \in {"make", "write", "count"}
            /\ phase = "make" => act[a].row.rule.count = None
        BY DEF Planned
      <3>3. act' = [act EXCEPT ![a] = q] /\ act[a].phase = "last"
        BY <2>1 DEF ReadLast, At
      <3> HIDE DEF phase
      <3>4. act'[a] = q /\ \A b \in Actors : b # a => act'[b] = act[b]
        <4> HIDE DEF q
        <4> QED BY <3>3, Moved DEF IndInv
      <3>5. Carries(act[a])'
        BY <1>1, <1>2, <3>1, <3>2, <3>3, <3>4 DEF Carries, ActType
      <3> QED BY <3>4, <3>5, ActorStep DEF IndInv
    <2>2. CASE ReadCount(a)
      <3> DEFINE q == [act[a] EXCEPT !.generated = Len(added), !.phase = Planned(a)]
      <3>1. act' = [act EXCEPT ![a] = q] /\ act[a].phase = "count"
        BY <2>2 DEF ReadCount, At
      <3>2. Len(added) \in Nat /\ Len(added) <= Len(added) + 0
        BY ElementsOfSeq DEF IndInv, TypeOK
      <3>3. Planned(a) \in {"make", "write"}
        BY DEF Planned
      <3>4. act'[a] = q /\ \A b \in Actors : b # a => act'[b] = act[b]
        <4> HIDE DEF q
        <4> QED BY <3>1, Moved DEF IndInv
      <3>5. Carries(act[a])'
        BY <1>1, <1>2, <3>1, <3>2, <3>3, <3>4 DEF Carries, ActType
      <3> QED BY <3>4, <3>5, ActorStep DEF IndInv
    <2> QED BY <2>1, <2>2
  <1> QED BY <1>3, <1>4 DEF AloneInv

(* A run's next date is one of the rule's. *)
LEMMA NextOnRule ==
  ASSUME IndInv, AloneInv, NEW a \in Actors, act[a].phase \in {"make", "mark"},
         NextDate(a) # None
  PROVE  OnRule(template.rule, NextDate(a)) /\ Gridded(template.rule, NextDate(a))
  <1>1. act[a].row # None
    BY DEF IndInv, ActShape, Shape
  <1>2. /\ act[a].row = template /\ template.rule \in RuleType
        /\ template.next \in Int \cup {None} /\ act[a].last \in Int \cup {None}
        /\ Gridded(template.rule, act[a].last)
    BY <1>1, RowAsItIs DEF ActType, TemplateType, Carries
  <1> DEFINE floor == IF template.next = None THEN 0 ELSE template.next
  <1>3. NextDate(a) = OccurrenceFrom(template.rule, act[a].last, floor) /\ floor \in Int
    BY <1>2 DEF NextDate
  <1> HIDE DEF floor
  <1>4. OnRule(template.rule, NextDate(a))
    BY <1>2, <1>3, WalkOnGrid
  <1> QED BY <1>4 DEF OnRule, Gridded, OnGrid

(* A run that has taken a date stands on it. *)
LEMMA TakesOne ==
  ASSUME TypeOK, NEW a \in Actors, act[a].phase = "make", PassOver(a)
  PROVE  /\ \A b \in Actors : b # a => act'[b] = act[b]
         /\ act'[a].now = act[a].now /\ act'[a].phase = "make" /\ act'[a].row = act[a].row
         /\ act'[a].op = act[a].op /\ act'[a].last = NextDate(a)
         /\ act'[a].generated = act[a].generated /\ act'[a].taken = act[a].taken + 1
  <1> DEFINE d == NextDate(a)  k == act[a].taken + 1
             q == [act[a] EXCEPT !.last = d, !.taken = k]
  <1>1. act[a] \in ActType /\ act' = [act EXCEPT ![a] = q]
    BY DEF TypeOK, PassOver
  <1> HIDE DEF d, k
  <1>2. /\ q.now = act[a].now /\ q.phase = act[a].phase /\ q.row = act[a].row
        /\ q.op = act[a].op /\ q.last = d /\ q.generated = act[a].generated /\ q.taken = k
    BY <1>1 DEF ActType
  <1> HIDE DEF q
  <1>3. act'[a] = q /\ \A b \in Actors : b # a => act'[b] = act[b]
    BY <1>1, Moved
  <1> QED BY <1>2, <1>3 DEF d, k

(* A date passed over leaves the series as it is.                          *)
LEMMA SkipsAlone ==
  ASSUME IndInv, AloneInv, Undisturbed, NEW a \in Actors, Skip(a)
  PROVE  AloneInv'
  <1>1. /\ PassOver(a) /\ act[a].phase = "make" /\ NextDate(a) # None
        /\ UNCHANGED <<clock, template, added>> /\ act[a].row # None
    BY DEF Skip, HasDue, At, IndInv, ActShape, Shape
  <1>2. act[a].row = template /\ act[a] \in ActType /\ act[a].now = clock /\ Carries(act[a])
    BY <1>1, RowAsItIs
  <1>3. Gridded(template.rule, NextDate(a))
    BY <1>1, NextOnRule
  <1>4. Len(added) \in Nat
    BY ElementsOfSeq DEF IndInv, TypeOK
  <1> DEFINE t == act[a].taken  g == act[a].generated
  <1>5. /\ \A b \in Actors : b # a => act'[b] = act[b]
        /\ act'[a].now = act[a].now /\ act'[a].phase = "make" /\ act'[a].row = act[a].row
        /\ act'[a].last = NextDate(a) /\ act'[a].generated = g /\ act'[a].taken = t + 1
    BY <1>1, TakesOne DEF IndInv
  <1>6. t \in Nat /\ g \in Nat
    BY <1>2 DEF ActType
  <1>7. act[a].row.rule.count # None => Len(added) <= g + t
    BY <1>1, <1>2 DEF Carries
  <1> HIDE DEF t, g
  <1>8. act[a].row.rule.count # None => Len(added) <= g + (t + 1)
    BY <1>4, <1>6, <1>7
  <1>9. Carries(act[a])'
    BY <1>1, <1>2, <1>3, <1>5, <1>8 DEF Carries
  <1>10. (OneAtWork /\ AllCarry)'
    BY <1>5, <1>9, ActorStep DEF IndInv
  <1>11. (LogOfRule /\ CountKept /\ MarkerOfRule)'
    BY <1>1, SameSeries DEF Exists
  <1> QED BY <1>10, <1>11 DEF AloneInv

(* A date that is made is one of the rule's, and within its count.         *)
LEMMA GeneratesAlone ==
  ASSUME IndInv, IndInv', AloneInv, Undisturbed, NEW a \in Actors, Generate(a)
  PROVE  AloneInv'
  <1> DEFINE d == NextDate(a)  rule == act[a].row.rule  n == Len(added)
             e == [date |-> d, rule |-> rule]
  <1>1. /\ PassOver(a) /\ act[a].phase = "make" /\ d # None
        /\ UNCHANGED <<clock, template>> /\ act[a].row # None /\ added' = Append(added, e)
        /\ ~Exhausted(rule, act[a].generated + act[a].taken)
    BY DEF Generate, HasDue, At, IndInv, ActShape, Shape
  <1>2. /\ act[a].row = template /\ act[a] \in ActType /\ act[a].now = clock
        /\ Carries(act[a]) /\ Exists /\ rule \in RuleType
    BY <1>1, RowAsItIs
  <1>3. Gridded(template.rule, d)
    BY <1>1, NextOnRule
  <1>4. /\ n \in Nat /\ Len(added') = n + 1 /\ DOMAIN added = 1..n
        /\ DOMAIN added' = 1..(n + 1) /\ added'[n + 1] = e
        /\ \A j \in 1..n : added'[j] = added[j]
    <2>1. added \in Seq([date : Int, rule : RuleType])
      BY DEF IndInv, TypeOK
    <2>2. added' \in Seq([date : Int, rule : RuleType])
      BY DEF IndInv, TypeOK
    <2> HIDE DEF e
    <2>3. Len(added) \in Nat /\ DOMAIN added = 1..Len(added)
      BY <2>1, ElementsOfSeq
    <2>4. Len(added') = Len(added) + 1 /\ added'[Len(added) + 1] = e
          /\ \A j \in 1..Len(added) : added'[j] = added[j]
      BY <1>1, <2>1, <2>2
    <2>5. DOMAIN added' = 1..Len(added')
      BY <2>2, ElementsOfSeq
    <2> QED BY <2>3, <2>4, <2>5
  <1> DEFINE t == act[a].taken  g == act[a].generated
  <1>6. t \in Nat /\ g \in Nat
    BY <1>2 DEF ActType
  <1>7. /\ \A b \in Actors : b # a => act'[b] = act[b]
        /\ act'[a].now = act[a].now /\ act'[a].phase = "make" /\ act'[a].row = act[a].row
        /\ act'[a].last = d /\ act'[a].generated = g /\ act'[a].taken = t + 1
    BY <1>1, TakesOne DEF IndInv
  <1>8. rule.count # None => n <= g + t
    BY <1>1, <1>2 DEF Carries
  <1> HIDE DEF d, t, g, n
  <1>9. rule.count # None => n + 1 <= g + (t + 1)
    BY <1>4, <1>6, <1>8
  <1>10. Carries(act[a])'
    BY <1>1, <1>2, <1>3, <1>4, <1>7, <1>9 DEF Carries
  <1>11. (OneAtWork /\ AllCarry)'
    BY <1>7, <1>10, ActorStep DEF IndInv
  <1>12. LogOfRule'
    <2>1. \A x \in Dates(added') : x = d \/ x \in Dates(added)
      BY <1>4 DEF Dates
    <2> QED BY <1>1, <1>2, <1>3, <2>1 DEF AloneInv, LogOfRule, Exists
  <1>13. CountKept'
    <2> SUFFICES ASSUME NEW i \in 1..(n + 1), added'[i].rule.count # None
                 PROVE  i <= added'[i].rule.count
      BY <1>4 DEF CountKept
    <2>1. CASE i \in 1..n
      BY <1>4, <2>1 DEF AloneInv, CountKept
    <2>2. CASE i = n + 1
      <3>1. rule.count \in Nat /\ added'[i].rule = rule
        BY <1>2, <1>4, <2>2 DEF RuleType
      <3>2. g + t < rule.count
        BY <1>1, <1>6, <3>1, NoneAssumption DEF Exhausted, g, t
      <3> QED BY <1>4, <1>6, <1>8, <2>2, <3>1, <3>2
    <2> QED BY <1>4, <2>1, <2>2
  <1>14. MarkerOfRule'
    BY <1>1 DEF AloneInv, MarkerOfRule, Exists
  <1> QED BY <1>11, <1>12, <1>13, <1>14 DEF AloneInv

(* Counting again changes nothing but what the run knows.                  *)
LEMMA RecountsAlone ==
  ASSUME IndInv, AloneInv, Undisturbed, NEW a \in Actors, Recount(a)
  PROVE  AloneInv'
  <1> DEFINE q == [act[a] EXCEPT !.phase = "mark", !.generated = Len(added)]
  <1>1. /\ act' = [act EXCEPT ![a] = q] /\ act[a].phase = "make"
        /\ UNCHANGED <<clock, template, added>> /\ act[a].row # None
    BY DEF Recount, At, IndInv, ActShape, Shape
  <1>2. act[a].row = template /\ act[a] \in ActType /\ act[a].now = clock /\ Carries(act[a])
    BY <1>1, RowAsItIs
  <1>3. act'[a] = q /\ \A b \in Actors : b # a => act'[b] = act[b]
    <2> HIDE DEF q
    <2> QED BY <1>1, Moved DEF IndInv
  <1>4. Carries(act[a])'
    BY <1>1, <1>2, <1>3 DEF Carries, ActType
  <1>5. (OneAtWork /\ AllCarry)'
    BY <1>3, <1>4, ActorStep DEF IndInv
  <1>6. (LogOfRule /\ CountKept /\ MarkerOfRule)'
    BY <1>1, SameSeries DEF Exists
  <1> QED BY <1>5, <1>6 DEF AloneInv

(* Whoever ends leaves nothing under way. *)
LEMMA FinishesAlone ==
  ASSUME TypeOK, Undisturbed, NEW a \in Actors, Finish(a)
  PROVE  (OneAtWork /\ AllCarry)' /\ \A b \in Actors : act'[b].phase = "idle"
  <1>1. act'[a] = Idle /\ \A b \in Actors : b # a => act'[b] = act[b]
    BY Moved DEF Finish
  <1>2. (OneAtWork /\ AllCarry)'
    BY <1>1, ActorStep DEF At, Idle
  <1>3. \A b \in Actors : b # a => act[b].phase = "idle"
    BY <1>1 DEF Undisturbed, At
  <1> QED BY <1>1, <1>2, <1>3 DEF Idle

(* The marker is moved to a date of the rule's, or to none. *)
LEMMA EndsAlone ==
  ASSUME IndInv, AloneInv, Undisturbed, NEW a \in Actors,
         MoveMarker(a) \/ WriteResumed(a) \/ WriteUnarchived(a) \/ Fail(a)
  PROVE  AloneInv'
  <1>1. Finish(a) /\ UNCHANGED <<clock, added>>
    BY DEF MoveMarker, WriteResumed, WriteUnarchived, Fail
  <1>2. (OneAtWork /\ AllCarry)'
    BY <1>1, FinishesAlone DEF IndInv
  <1>3. ASSUME NEW d \in Int \cup {None}, Exists,
               \/ template' = [template EXCEPT !.paused = FALSE, !.next = d]
               \/ template' = [template EXCEPT !.next = d],
               d # None /\ d # template.next => OnRule(template.rule, d)
        PROVE  (LogOfRule /\ CountKept /\ MarkerOfRule)'
    <2>1. template \in TemplateType
      BY <1>3 DEF IndInv, TypeOK, Exists
    <2>2. template'.rule = template.rule /\ template'.next = d /\ template' \in TemplateType
      BY <1>3, <2>1 DEF TemplateType
    <2>3. Exists'
      BY <2>2, TemplateAssumption DEF Exists
    <2> QED BY <1>1, <1>3, <2>2, <2>3, SameSeries
  <1>4. CASE MoveMarker(a)
    <2>1. act[a].phase \in {"make", "mark"} /\ act[a].row # None
      BY <1>4 DEF MoveMarker, Counted, At, IndInv, ActShape, Shape
    <2>2. Exists
      BY <2>1, RowAsItIs
    <2>3. Upcoming(a) \in Int \cup {None}
      BY <2>1, NextIsDay DEF Upcoming, IndInv
    <2>4. Upcoming(a) # None => OnRule(template.rule, Upcoming(a))
      BY <2>1, NextOnRule DEF Upcoming
    <2> QED BY <1>2, <1>3, <1>4, <2>2, <2>3, <2>4 DEF MoveMarker, AloneInv
  <1>5. ASSUME act[a].phase = "write", act[a].row # None
        PROVE  ResumedRunAt(a) \in Int \cup {None}
               /\ (ResumedRunAt(a) # None => OnRule(template.rule, ResumedRunAt(a)))
    <2>1. /\ act[a].row = template /\ template.rule \in RuleType
          /\ act[a].last \in Int \cup {None} /\ Gridded(template.rule, act[a].last)
          /\ act[a].now \in Nat
      BY <1>5, RowAsItIs DEF ActType, Carries
    <2>2. DueThrough(act[a].now) + 1 \in Int
      BY <2>1 DEF DueThrough
    <2> QED BY <1>5, <2>1, <2>2, WalkOnGrid, ResumedIsDay DEF ResumedRunAt, IndInv
  <1>6. CASE WriteResumed(a)
    <2>1. act[a].phase = "write" /\ act[a].row # None
      BY <1>6 DEF WriteResumed, At, IndInv, ActShape, Shape
    <2>2. Exists /\ template.next \in Int \cup {None}
      BY <2>1, RowAsItIs DEF TemplateType
    <2> DEFINE d == IF act[a].row.paused THEN ResumedRunAt(a) ELSE template.next
    <2>3. template' = [template EXCEPT !.paused = FALSE, !.next = d]
      BY <1>6 DEF WriteResumed
    <2>4. d \in Int \cup {None} /\ (d # None /\ d # template.next => OnRule(template.rule, d))
      BY <1>5, <2>1, <2>2
    <2> HIDE DEF d
    <2> QED BY <1>2, <1>3, <2>2, <2>3, <2>4 DEF AloneInv
  <1>7. CASE WriteUnarchived(a)
    <2>1. CASE Rescheduled(act[a].row)
      <3>1. act[a].phase = "write" /\ act[a].row # None
        BY <1>7, <2>1 DEF WriteUnarchived, At, Rescheduled
      <3>2. Exists
        BY <3>1, RowAsItIs
      <3> QED BY <1>2, <1>3, <1>5, <1>7, <2>1, <3>1, <3>2 DEF WriteUnarchived, AloneInv
    <2>2. CASE ~Rescheduled(act[a].row)
      <3>1. template' = template
        BY <1>7, <2>2 DEF WriteUnarchived
      <3> QED BY <1>1, <1>2, <3>1, SameSeries DEF AloneInv, Exists
    <2> QED BY <2>1, <2>2
  <1>8. CASE Fail(a)
    BY <1>1, <1>2, <1>8, SameSeries DEF Fail, AloneInv, Exists
  <1> QED BY <1>4, <1>6, <1>7, <1>8

(* A step of nobody's that leaves the rule and its dates. *)
LEMMA OutsideAlone ==
  ASSUME IndInv, AloneInv, Undisturbed,
         Pause \/ Delete \/ Restore \/ Archive \/ LeaveOrReturn \/ Elapse
  PROVE  AloneInv'
  <1>1. (OneAtWork /\ AllCarry)'
    BY OutsideStep DEF Pause, Delete, Restore, Archive, LeaveOrReturn, Elapse
  <1>2. CASE Pause \/ Delete \/ Restore
    <2>1. Exists /\ template \in TemplateType
      BY <1>2 DEF Pause, Delete, Restore, Stands, Exists, IndInv, TypeOK
    <2>2. /\ template' \in TemplateType /\ template'.rule = template.rule
          /\ template'.next \in {None, template.next} /\ added' = added
      BY <1>2, <2>1 DEF Pause, Delete, Restore, TemplateType
    <2>3. Exists'
      BY <2>2, TemplateAssumption DEF Exists
    <2> QED BY <1>1, <2>1, <2>2, <2>3, SameSeries DEF AloneInv
  <1>3. CASE Archive \/ LeaveOrReturn \/ Elapse
    BY <1>1, <1>3, SameSeries DEF Archive, LeaveOrReturn, Elapse, AloneInv, Exists
  <1> QED BY <1>2, <1>3

(* An edited rule starts after every date the series has. *)
LEMMA EditsAlone ==
  ASSUME IndInv, AloneInv, Undisturbed, Edit
  PROVE  AloneInv'
  <1>1. PICK r \in Rules :
          template' = [template EXCEPT
            !.rule = StartLater(r),
            !.next = IF Exhausted(StartLater(r), Len(added)) THEN None
                     ELSE FirstOccurrence(StartLater(r))]
    BY DEF Edit
  <1> DEFINE rule == StartLater(r)
  <1>2. r \in RuleType /\ template \in TemplateType /\ added' = added /\ act' = act /\ Exists
    BY RulesAssumption DEF Edit, Stands, Exists, IndInv, TypeOK
  <1>3. Earliest \in Int /\ \A d \in Dates(added) : d \in Int /\ d < Earliest
    <2>1. clock \in Nat /\ Today(clock) \in Int
      BY DEF IndInv, TypeOK, Today
    <2>2. CASE added = <<>>
      BY <2>1, <2>2, LastIsLatest DEF IndInv, Earliest, Dates
    <2>3. CASE added # <<>>
      <3>1. LastDate \in Int /\ \A d \in Dates(added) : d \in Int /\ d <= LastDate
        BY <2>3, LastIsLatest DEF IndInv
      <3>2. Earliest \in Int /\ Earliest > LastDate
        BY <2>1, <3>1, NoneAssumption DEF Earliest, MaxOf
      <3> QED BY <3>1, <3>2
    <2> QED BY <2>2, <2>3
  <1>4. rule \in RuleType /\ rule.start >= Earliest
    BY <1>2, <1>3 DEF StartLater, MaxOf, RuleType
  <1> HIDE DEF rule
  <1>5. FirstOccurrence(rule) \in Int \cup {None}
    BY <1>4, FirstIsDay
  <1>6. /\ template' \in TemplateType /\ template'.rule = rule
        /\ template'.next = IF Exhausted(rule, Len(added)) THEN None ELSE FirstOccurrence(rule)
    BY <1>1, <1>2, <1>4, <1>5 DEF TemplateType, rule
  <1>7. Exists'
    BY <1>6, TemplateAssumption DEF Exists
  <1>8. LogOfRule'
    <2>1. rule.start \in Int
      BY <1>4 DEF RuleType
    <2>2. \A d \in Dates(added) : ~(d >= rule.start)
      BY <1>3, <1>4, <2>1
    <2> QED BY <1>2, <1>6, <1>7, <2>2 DEF LogOfRule, Gridded, Dates
  <1>9. MarkerOfRule'
    BY <1>4, <1>6, FirstOnRule DEF MarkerOfRule
  <1>10. CountKept'
    BY <1>2 DEF AloneInv, CountKept
  <1> QED BY <1>2, <1>8, <1>9, <1>10, OutsideStep DEF AloneInv

(* AloneInv holds at the start, in every step, and so always.              *)
LEMMA AloneStarts == Init => AloneInv
  BY DEF Init, AloneInv, OneAtWork, AllCarry, Carries, At, Idle, LogOfRule, CountKept, MarkerOfRule,
         Exists, Dates

LEMMA AloneStep == IndInv /\ AloneInv /\ [HistoryNext /\ Undisturbed]_historyVars => AloneInv'
  <1> SUFFICES ASSUME IndInv, AloneInv, [HistoryNext /\ Undisturbed]_historyVars
               PROVE  AloneInv'
    OBVIOUS
  <1>1. IndInv'
    BY NextInv DEF historyVars, HistoryNext, vars
  <1>2. CASE UNCHANGED vars
    BY <1>2 DEF vars, AloneInv, OneAtWork, AllCarry, Carries, At, LogOfRule, CountKept,
                MarkerOfRule, Exists, Dates
  <1>3. CASE Next /\ Undisturbed
    <2>1. ASSUME NEW a \in Actors, Proceed(a) PROVE AloneInv'
      BY <1>1, <1>3, <2>1, SetsUpAlone, ReadsAlone, GeneratesAlone, SkipsAlone, RecountsAlone,
         EndsAlone DEF Proceed
    <2>2. ASSUME NEW a \in Actors, Tick(a) \/ Create(a) \/ Resume(a) \/ Unarchive(a) \/ Fail(a)
          PROVE  AloneInv'
      BY <1>3, <2>2, BeginsAlone, CreatesAlone, EndsAlone
    <2>3. CASE Edit \/ Pause \/ Delete \/ Restore \/ Archive \/ LeaveOrReturn \/ Elapse
      BY <1>3, <2>3, EditsAlone, OutsideAlone
    <2> QED BY <1>3, <2>1, <2>2, <2>3 DEF Next
  <1> QED BY <1>2, <1>3 DEF historyVars, HistoryNext

LEMMA AloneHistory == AloneSpec => [](IndInv /\ AloneInv)
  <1>1. HistoryInit => IndInv /\ AloneInv
    BY InitInv, AloneStarts DEF HistoryInit
  <1>2. IndInv /\ AloneInv /\ [HistoryNext /\ Undisturbed]_historyVars => (IndInv /\ AloneInv)'
    <2>1. [HistoryNext /\ Undisturbed]_historyVars => [Next]_vars
      BY DEF historyVars, HistoryNext
    <2> QED BY <2>1, NextInv, AloneStep
  <1> QED BY <1>1, <1>2, PTL DEF AloneSpec

(* Where runs and requests come one at a time, a series never has more     *)
(* dates than the count of the rule it was given, and its marker is one of *)
(* its rule's dates: what a run reads of the template, of the last date    *)
(* and of the count is still so when it writes (runTemplate).              *)
THEOREM SeriesAlwaysKept == AloneSpec => []SeriesKept
  <1>1. IndInv /\ AloneInv => SeriesKept
    BY DEF AloneInv, SeriesKept
  <1> QED BY <1>1, AloneHistory, PTL

-----------------------------------------------------------------------------
(* One run or request at a time: what is over is not made again. *)

(* What is over: dates that were missed, and those passed over where no    *)
(* run fails.  (One that fails leaves the marker on a date it has passed.) *)
Past == IF "fail" \in Ops THEN missed ELSE missed \cup skipped
PastIsPast == \A d \in Past : d \in Int /\ d <= DueThrough(clock)

(* Without an end, only a series that has had its count has no marker.     *)
Marked ==
  IF Exists
    THEN /\ ~template.deleted /\ template.rule.end = None
         /\ template.next = None => Exhausted(template.rule, Len(added))
    ELSE Past = {}

(* Between runs the marker of a series that is not standing still is past  *)
(* what is over; in a run, the date it goes on to.                         *)
Going == Exists /\ ~template.paused /\ ~archived
InRun(a) == act[a].phase \in {"make", "mark"}
MarkerAhead ==
  Going /\ template.next # None /\ (\A a \in Actors : ~InRun(a)) =>
    \A d \in Past : d < template.next

(* What was missed, it is past in a run too. *)
MissedAhead == Going /\ template.next # None => \A d \in missed : d < template.next

Rereads(a) ==
  \/ act[a].op = "resume" /\ act[a].row.paused
  \/ act[a].op = "unarchive" /\ Rescheduled(act[a].row)
RunsAhead(a) ==
  /\ Running(a) => Going
  /\ act[a].op = "setup" => ~gone
  /\ InRun(a) => IF template.next = None THEN Exhausted(template.rule, act[a].generated)
                 ELSE \A d \in Past : d < NextDate(a)
  /\ At(a, "mark") /\ act[a].row.rule.count # None => act[a].generated = Len(added)
  /\ At(a, "write") /\ Rereads(a) /\ act[a].row.rule.count # None =>
       act[a].generated = Len(added)

PastInv == PastIsPast /\ Marked /\ MarkerAhead /\ \A a \in Actors : RunsAhead(a)

(* Nothing of this is about an actor with nothing under way. *)
LEMMA IdleAhead ==
  ASSUME NEW a \in Actors, act[a].phase = "idle", Shape(act[a])
  PROVE  RunsAhead(a)
  BY DEF RunsAhead, Running, InRun, At, Shape

(* While time stands still nothing is over but what a run passes over. *)
LEMMA PastGrows ==
  ASSUME TrackMissed, TrackSkipped, clock' = clock
  PROVE  /\ missed' \subseteq missed /\ skipped' \subseteq skipped \cup PassedOver
         /\ (\A a \in Actors : act[a].phase # "make") => Past' \subseteq Past
  BY DEF TrackMissed, TrackSkipped, Before, Past, PassedOver, Skip, At

(* A step of one actor's keeps what RunsAhead says of the others. *)
LEMMA OnlyOne ==
  ASSUME IndInv', Undisturbed, NEW a \in Actors, \A b \in Actors : b # a => act'[b] = act[b],
         RunsAhead(a)'
  PROVE  \A b \in Actors : RunsAhead(b)'
  <1>1. ASSUME NEW b \in Actors, b # a PROVE RunsAhead(b)'
    <2>1. act'[b].phase = "idle"
      BY <1>1 DEF Undisturbed, At
    <2>2. Shape(act[b])'
      BY DEF IndInv, ActShape
    <2> QED BY <2>1, <2>2 DEF RunsAhead, Running, InRun, At, Shape
  <1> QED BY <1>1

(* So does one of nobody's, or one that ends. *)
LEMMA NobodyLeft ==
  ASSUME IndInv', \A a \in Actors : act'[a].phase = "idle"
  PROVE  \A a \in Actors : RunsAhead(a)'
  <1> SUFFICES ASSUME NEW a \in Actors PROVE RunsAhead(a)'
    OBVIOUS
  <1>1. Shape(act[a])'
    BY DEF IndInv, ActShape
  <1> QED BY <1>1 DEF RunsAhead, Running, InRun, At, Shape

(* Where the series, and what is over, are as they were. *)
LEMMA SamePast ==
  ASSUME PastInv, UNCHANGED <<clock, template, added>>, Past' \subseteq Past,
         Going' => Going, \A a \in Actors : ~InRun(a)
  PROVE  (PastIsPast /\ Marked /\ MarkerAhead)'
  <1>1. PastIsPast'
    BY DEF PastInv, PastIsPast
  <1>2. Marked'
    BY DEF PastInv, Marked, Exists
  <1>3. MarkerAhead'
    BY DEF PastInv, MarkerAhead
  <1> QED BY <1>1, <1>2, <1>3

(* A run or a request begins where nothing is under way.                   *)
LEMMA BeginsAhead ==
  ASSUME IndInv, IndInv', PastInv, Undisturbed, TrackMissed, TrackSkipped, NEW a \in Actors,
         Tick(a) \/ Resume(a) \/ Unarchive(a)
  PROVE  PastInv'
  <1>1. UNCHANGED <<clock, archived, gone, added, template>>
    BY DEF Tick, Resume, Unarchive
  <1>2. /\ \A b \in Actors : b # a => act'[b] = act[b]
        /\ act'[a].phase \in {"last", "write"} /\ act'[a].op \in {"tick", "resume", "unarchive"}
        /\ act'[a].row = template
        /\ act'[a].op = "tick" => Going
        /\ act'[a].phase = "write" =>
             \/ act'[a].op = "resume" /\ ~template.paused
             \/ act'[a].op = "unarchive" /\ ~Rescheduled(template)
    <2>1. CASE Tick(a)
      <3>1. act'[a] = Act("tick", "last", template)
            /\ \A b \in Actors : b # a => act'[b] = act[b]
        BY <2>1, Moved DEF Tick, Begin, IndInv
      <3> QED BY <2>1, <3>1 DEF Tick, Going, Stands, Act
    <2>2. CASE Resume(a)
      <3> DEFINE phase == IF template.paused THEN "last" ELSE "write"
      <3>1. act'[a] = Act("resume", phase, template)
            /\ \A b \in Actors : b # a => act'[b] = act[b]
        BY <2>2, Moved DEF Resume, Begin, IndInv
      <3> QED BY <3>1 DEF Act
    <2>3. CASE Unarchive(a)
      <3> DEFINE phase == IF Stands /\ ~template.paused THEN "last" ELSE "write"
      <3>1. act'[a] = Act("unarchive", phase, template)
            /\ \A b \in Actors : b # a => act'[b] = act[b]
        BY <2>3, Moved DEF Unarchive, Begin, IndInv
      <3> QED BY <3>1 DEF Act, Rescheduled, Stands, Exists
    <2> QED BY <2>1, <2>2, <2>3
  <1>3. act[a].phase = "idle" /\ \A b \in Actors : act[b].phase = "idle"
    BY <1>2 DEF Tick, Resume, Unarchive, At, Undisturbed
  <1>4. (PastIsPast /\ Marked /\ MarkerAhead)'
    BY <1>1, <1>3, PastGrows, SamePast DEF Going, InRun, Exists
  <1>5. RunsAhead(a)'
    BY <1>1, <1>2 DEF RunsAhead, Running, InRun, At, Going, Exists, Rereads
  <1> QED BY <1>2, <1>4, <1>5, OnlyOne DEF PastInv

(* A new series has nothing behind it.                                     *)
LEMMA CreatesAhead ==
  ASSUME IndInv, IndInv', PastInv, Undisturbed, TrackMissed, TrackSkipped, NEW a \in Actors,
         \A r \in Rules : r.end = None, Create(a)
  PROVE  PastInv'
  <1>1. PICK r \in Rules : FirstOccurrence(r) # None
                           /\ template' = Template(r, FirstOccurrence(r))
    BY DEF Create
  <1>2. /\ template'.rule = r /\ template'.next = FirstOccurrence(r)
        /\ ~template'.paused /\ ~template'.deleted
    BY <1>1 DEF Template
  <1>3. act' = [act EXCEPT ![a] = Act("setup", "created", None)]
        /\ UNCHANGED <<clock, archived, gone, added>> /\ ~archived /\ ~gone /\ ~Exists
    BY DEF Create, Begin
  <1>4. act'[a] = Act("setup", "created", None) /\ \A b \in Actors : b # a => act'[b] = act[b]
    BY <1>3, Moved DEF IndInv
  <1>5. \A b \in Actors : act[b].phase = "idle"
    BY <1>4 DEF Create, At, Undisturbed
  <1>6. Past' = {}
    BY <1>3, <1>5, PastGrows DEF PastInv, Marked
  <1>7. Exists'
    BY <1>4 DEF IndInv, ActShape, Shape, Act
  <1>8. (PastIsPast /\ Marked /\ MarkerAhead)'
    BY <1>1, <1>2, <1>6, <1>7 DEF PastIsPast, Marked, MarkerAhead
  <1>9. RunsAhead(a)'
    BY <1>2, <1>3, <1>4, <1>7 DEF RunsAhead, Running, InRun, At, Act, Going, Rereads
  <1> QED BY <1>4, <1>8, <1>9, OnlyOne DEF PastInv

(* A series is set up while it is going, with nobody on it gone.           *)
LEMMA SetsUpAhead ==
  ASSUME IndInv, IndInv', PastInv, Undisturbed, TrackMissed, TrackSkipped, NEW a \in Actors,
         SetUp(a)
  PROVE  PastInv'
  <1> DEFINE q == IF template.next # None /\ template.next <= Today(act[a].now)
                  THEN [act[a] EXCEPT !.row = template, !.phase = "last"]
                  ELSE Idle
  <1>1. act' = [act EXCEPT ![a] = q] /\ UNCHANGED <<clock, archived, gone, template, added>>
        /\ act[a].phase = "created" /\ act[a] \in ActType /\ act[a].op \in {"tick", "setup"}
    BY DEF SetUp, At, IndInv, TypeOK, ActShape, Shape, ActType
  <1>2. act'[a] = q /\ \A b \in Actors : b # a => act'[b] = act[b]
    <2> HIDE DEF q
    <2> QED BY <1>1, Moved DEF IndInv
  <1>3. \A b \in Actors : act[b].phase \notin {"make", "mark"}
    BY <1>1, <1>2 DEF At, Undisturbed
  <1>4. (PastIsPast /\ Marked /\ MarkerAhead)'
    BY <1>1, <1>3, PastGrows, SamePast DEF Going, InRun, Exists
  <1>5. Running(a) /\ RunsAhead(a)
    BY <1>1 DEF Running, PastInv
  <1>6. act'[a].phase \in {"last", "idle"} /\ act'[a].op \in {act[a].op, "none"}
    <2> DEFINE z == [act[a] EXCEPT !.row = template, !.phase = "last"]
    <2>1. z.phase = "last" /\ z.op = act[a].op
      BY <1>1 DEF ActType
    <2>2. Idle.phase = "idle" /\ Idle.op = "none"
      BY DEF Idle
    <2>3. act'[a] = z \/ act'[a] = Idle
      BY <1>2
    <2> HIDE DEF z, q
    <2> QED BY <2>1, <2>2, <2>3
  <1>7. RunsAhead(a)'
    <2> HIDE DEF q
    <2>1. Going' = Going
      BY <1>1 DEF Going, Exists
    <2>2. Going /\ (act[a].op = "setup" => ~gone)
      BY <1>5 DEF RunsAhead
    <2> QED BY <1>1, <1>6, <2>1, <2>2 DEF RunsAhead, Running, InRun, At
  <1> QED BY <1>2, <1>4, <1>7, OnlyOne DEF PastInv

(* In a run of a series that has a marker, dates go on past what is over;  *)
(* a run of one that has none takes no date.                               *)
LEMMA GoesAhead ==
  ASSUME IndInv, AloneInv, PastInv, NEW a \in Actors, InRun(a)
  PROVE  /\ act[a].row = template /\ Exists /\ template.rule \in RuleType
         /\ template.rule.end = None /\ act[a] \in ActType /\ act[a].now = clock
         /\ NextDate(a) \in Int /\ (act[a].last # None => NextDate(a) > act[a].last)
         /\ HasDue(a) => template.next # None /\ \A d \in Past : d < NextDate(a)
  <1>1. act[a].row # None /\ act[a].phase \in {"make", "mark"}
    BY DEF InRun, IndInv, ActShape, Shape
  <1>2. /\ act[a].row = template /\ Exists /\ template \in TemplateType
        /\ act[a] \in ActType /\ act[a].now = clock
    BY <1>1, RowAsItIs
  <1>3. /\ template.rule \in RuleType /\ template.rule.end = None
        /\ act[a].last \in Int \cup {None} /\ template.next \in Int \cup {None}
    BY <1>2 DEF PastInv, Marked, TemplateType, ActType
  <1> DEFINE floor == IF template.next = None THEN 0 ELSE template.next
  <1>4. NextDate(a) = OccurrenceFrom(template.rule, act[a].last, floor) /\ floor \in Int
    BY <1>2, <1>3 DEF NextDate
  <1> HIDE DEF floor
  <1>5. NextDate(a) \in Int /\ (act[a].last # None => NextDate(a) > act[a].last)
    BY <1>3, <1>4, WalkAhead
  <1>6. ASSUME HasDue(a) PROVE template.next # None
    <2>1. SUFFICES ASSUME template.next = None PROVE FALSE
      OBVIOUS
    <2>2. Exhausted(template.rule, act[a].generated)
      BY <2>1 DEF PastInv, RunsAhead
    <2>3. act[a].generated \in Nat /\ act[a].taken \in Nat
      BY <1>2 DEF ActType
    <2>4. template.rule.count \in Nat
      BY <1>3, <2>2 DEF Exhausted, RuleType
    <2>5. Exhausted(template.rule, act[a].generated + act[a].taken)
      BY <2>2, <2>3, <2>4 DEF Exhausted
    <2> QED BY <1>2, <1>6, <2>5 DEF HasDue
  <1> QED BY <1>2, <1>3, <1>5, <1>6 DEF PastInv, RunsAhead

(* A run that takes a date, made or passed over. *)
LEMMA TakesAhead ==
  ASSUME IndInv, IndInv', AloneInv, PastInv, Undisturbed, TrackMissed, TrackSkipped,
         NEW a \in Actors, Generate(a) \/ Skip(a)
  PROVE  PastInv'
  <1>1. /\ PassOver(a) /\ act[a].phase = "make" /\ InRun(a) /\ HasDue(a)
        /\ UNCHANGED <<clock, archived, gone, template>>
    BY DEF Generate, Skip, At, InRun
  <1>2. /\ \A b \in Actors : b # a => act'[b] = act[b]
        /\ act'[a].now = act[a].now /\ act'[a].phase = "make" /\ act'[a].row = act[a].row
        /\ act'[a].op = act[a].op /\ act'[a].last = NextDate(a)
    BY <1>1, TakesOne DEF IndInv
  <1>3. /\ act[a].row = template /\ Exists /\ template.rule \in RuleType
        /\ act[a] \in ActType /\ act[a].now = clock /\ template.rule.end = None
        /\ NextDate(a) \in Int
        /\ template.next # None /\ \A d \in Past : d < NextDate(a)
    BY <1>1, GoesAhead
  <1>4. RunsAhead(a) /\ act[a].op \in {"tick", "setup"}
    BY <1>1 DEF PastInv, IndInv, ActShape, Shape
  <1>5. PassedOver \subseteq {NextDate(a)} /\ (PassedOver # {} => act[a].op = "tick")
    <2>1. \A b \in Actors : Skip(b) => b = a
      BY <1>1 DEF Skip, At, AloneInv, OneAtWork
    <2>2. Skip(a) /\ Unclaimed(NextDate(a)) => gone
      BY DEF Skip
    <2>3. act[a].op = "setup" => ~gone
      BY <1>4 DEF RunsAhead
    <2> QED BY <1>4, <2>1, <2>2, <2>3 DEF PassedOver
  <1>6. Past' \subseteq Past \cup PassedOver
    BY <1>1, PastGrows DEF Past
  <1>7. PastIsPast'
    <2>1. PassedOver # {} => NextDate(a) <= DueThrough(clock)
      BY <1>1, <1>3, <1>5 DEF HasDue, Through
    <2> QED BY <1>1, <1>3, <1>5, <1>6, <2>1 DEF PastInv, PastIsPast
  <1>8. Marked'
    BY <1>1, <1>3 DEF PastInv, Marked, Exists
  <1>9. MarkerAhead'
    BY <1>2 DEF MarkerAhead, InRun
  <1>10. RunsAhead(a)'
    <2>1. NextDate(a)' = OccurrenceFrom(template.rule, NextDate(a), template.next)
      BY <1>1, <1>2, <1>3 DEF NextDate
    <2>2. template.next \in Int
      <3>1. template \in TemplateType
        BY <1>3 DEF IndInv, TypeOK, Exists
      <3> QED BY <1>3, <3>1 DEF TemplateType
    <2>3. NextDate(a)' \in Int /\ NextDate(a)' > NextDate(a)
      BY <1>3, <2>1, <2>2, NoneAssumption, WalkAhead
    <2>4. \A d \in Past' : d < NextDate(a)'
      <3>1. \A d \in Past : d \in Int
        BY DEF PastInv, PastIsPast
      <3> HIDE DEF Past
      <3> QED BY <1>3, <1>5, <1>6, <2>3, <3>1
    <2>5. (Running(a) => Going)' /\ (act[a].op = "setup" => ~gone)'
      BY <1>1, <1>2, <1>4 DEF RunsAhead, Running, Going, Exists
    <2> QED BY <1>1, <1>2, <1>3, <2>4, <2>5 DEF RunsAhead, At
  <1> QED BY <1>2, <1>7, <1>8, <1>9, <1>10, OnlyOne DEF PastInv

(* A run that counts again knows how many dates there are.                 *)
LEMMA RecountsAhead ==
  ASSUME IndInv, IndInv', AloneInv, PastInv, Undisturbed, TrackMissed, TrackSkipped,
         NEW a \in Actors, Recount(a)
  PROVE  PastInv'
  <1> DEFINE q == [act[a] EXCEPT !.phase = "mark", !.generated = Len(added)]
  <1>1. /\ act' = [act EXCEPT ![a] = q] /\ act[a].phase = "make" /\ InRun(a)
        /\ UNCHANGED <<clock, archived, gone, template, added>>
        /\ act[a].row.rule.count # None
    BY DEF Recount, At, InRun
  <1>2. act'[a] = q /\ \A b \in Actors : b # a => act'[b] = act[b]
    <2> HIDE DEF q
    <2> QED BY <1>1, Moved DEF IndInv
  <1>3. act[a].row = template /\ Exists /\ act[a] \in ActType
    BY <1>1, GoesAhead
  <1>4. /\ act'[a].phase = "mark" /\ act'[a].generated = Len(added) /\ act'[a].op = act[a].op
        /\ act'[a].row = act[a].row /\ act'[a].last = act[a].last
    BY <1>2, <1>3 DEF ActType
  <1> HIDE DEF q
  <1>5. Past' \subseteq Past
    <2>1. \A b \in Actors : ~Skip(b)
      <3> SUFFICES ASSUME NEW b \in Actors, Skip(b) PROVE FALSE
        OBVIOUS
      <3>1. b = a
        BY <1>1 DEF Skip, At, AloneInv, OneAtWork
      <3>2. act'[a].phase = "make"
        BY <1>1, <3>1, TakesOne DEF Skip, IndInv
      <3> QED BY <1>4, <3>2
    <2> QED BY <1>1, <2>1, PastGrows DEF Past, PassedOver
  <1>6. PastIsPast' /\ Marked'
    BY <1>1, <1>5 DEF PastInv, PastIsPast, Marked, Exists
  <1>7. MarkerAhead'
    BY <1>4 DEF MarkerAhead, InRun
  <1>8. RunsAhead(a)'
    <2>1. NextDate(a)' = NextDate(a)
      BY <1>4 DEF NextDate
    <2>2. RunsAhead(a) /\ Marked
      BY DEF PastInv
    <2>3. (Running(a) => Going)' /\ (act[a].op = "setup" => ~gone)'
      BY <1>1, <1>4, <2>2 DEF RunsAhead, Running, Going, Exists
    <2> QED BY <1>1, <1>3, <1>4, <1>5, <2>1, <2>2, <2>3
            DEF RunsAhead, At, InRun, Marked
  <1> QED BY <1>2, <1>6, <1>7, <1>8, OnlyOne DEF PastInv

(* The first date of a run that has read the series is past what is over:  *)
(* the marker is, or there is none and the series has had its count.       *)
LEMMA ReadsAhead ==
  ASSUME IndInv, IndInv', AloneInv, AloneInv', PastInv, Undisturbed, TrackMissed, TrackSkipped,
         NEW a \in Actors, ReadLast(a) \/ ReadCount(a)
  PROVE  PastInv'
  <1>1. /\ act[a].phase \in {"last", "count"} /\ act[a].row # None
        /\ UNCHANGED <<clock, archived, gone, template, added>>
    BY DEF ReadLast, ReadCount, At, IndInv, ActShape, Shape
  <1>2. /\ Exists /\ act[a].row = template /\ act[a] \in ActType /\ template \in TemplateType
    BY <1>1, RowAsItIs
  <1> DEFINE count == template.rule.count
  <1>3. /\ \A b \in Actors : b # a => act'[b] = act[b]
        /\ act'[a].op = act[a].op /\ act'[a].row = template
        /\ act'[a].phase \in {"count", Planned(a)}
        /\ act'[a].phase # "count" /\ count # None => act'[a].generated = Len(added)
    <2>1. CASE ReadLast(a)
      <3> DEFINE phase == IF act[a].row.rule.count = None THEN Planned(a) ELSE "count"
                 q == [act[a] EXCEPT !.last = LastDate, !.phase = phase]
      <3>1. act' = [act EXCEPT ![a] = q]
        BY <2>1 DEF ReadLast
      <3>2. phase \in {"count", Planned(a)} /\ (phase # "count" => count = None)
        BY <1>2
      <3> HIDE DEF phase
      <3>3. q.op = act[a].op /\ q.row = act[a].row /\ q.phase = phase
        BY <1>2 DEF ActType
      <3> HIDE DEF q
      <3>4. act'[a] = q /\ \A b \in Actors : b # a => act'[b] = act[b]
        BY <3>1, Moved DEF IndInv
      <3> QED BY <1>2, <3>2, <3>3, <3>4
    <2>2. CASE ReadCount(a)
      <3> DEFINE q == [act[a] EXCEPT !.generated = Len(added), !.phase = Planned(a)]
      <3>1. act' = [act EXCEPT ![a] = q]
        BY <2>2 DEF ReadCount
      <3>2. q.op = act[a].op /\ q.row = act[a].row /\ q.phase = Planned(a)
            /\ q.generated = Len(added)
        BY <1>2 DEF ActType
      <3> HIDE DEF q
      <3>3. act'[a] = q /\ \A b \in Actors : b # a => act'[b] = act[b]
        BY <3>1, Moved DEF IndInv
      <3> QED BY <1>2, <3>2, <3>3
    <2> QED BY <2>1, <2>2
  <1>4. \A b \in Actors : act[b].phase \notin {"make", "mark"}
    BY <1>1, <1>3 DEF Undisturbed, At
  <1>5. (PastIsPast /\ Marked /\ MarkerAhead)' /\ Past' \subseteq Past
    BY <1>1, <1>4, PastGrows, SamePast DEF Going, InRun, Exists
  <1>6. RunsAhead(a)'
    <2>1. (Running(a) => Going)' /\ (act[a].op = "setup" => ~gone)'
      BY <1>1, <1>3 DEF PastInv, RunsAhead, Running, Going, Exists
    <2>2. Planned(a) = IF Running(a) THEN "make" ELSE "write"
      BY DEF Planned
    <2>3. ASSUME act'[a].phase = "make", template.next = None
          PROVE  Exhausted(template.rule, act'[a].generated)
      <3>1. Exhausted(template.rule, Len(added))
        BY <1>2, <2>3 DEF PastInv, Marked
      <3>2. count # None
        BY <3>1 DEF Exhausted
      <3> QED BY <1>3, <2>3, <3>1, <3>2
    <2>4. ASSUME act'[a].phase = "make", template.next # None
          PROVE  \A d \in Past' : d < NextDate(a)'
      <3>1. Running(a)
        BY <1>3, <2>2, <2>4
      <3>2. \A d \in Past : d < template.next /\ d \in Int
        BY <1>4, <2>4, <3>1 DEF PastInv, PastIsPast, RunsAhead, MarkerAhead, InRun
      <3>3. /\ act'[a].last \in Int \cup {None} /\ template.next \in Int
            /\ template.rule \in RuleType /\ template.rule.end = None
        BY <1>2, <2>4 DEF IndInv, TypeOK, ActType, TemplateType, PastInv, Marked
      <3>4. NextDate(a)' = OccurrenceFrom(template.rule, act'[a].last, template.next)
        BY <1>3, <2>4 DEF NextDate
      <3>5. NextDate(a)' \in Int /\ NextDate(a)' >= template.next
        BY <3>3, <3>4, WalkAhead
      <3> HIDE DEF Past
      <3> QED BY <1>5, <3>2, <3>3, <3>5
    <2>5. (At(a, "write") => act[a].phase # "count")'
      BY DEF At
    <2> QED BY <1>1, <1>3, <2>1, <2>2, <2>3, <2>4 DEF RunsAhead, At, InRun
  <1> QED BY <1>3, <1>5, <1>6, OnlyOne DEF PastInv

(* Whoever ends leaves a marker past what is over, or a series that stands *)
(* still.                                                                  *)
LEMMA EndsAhead ==
  ASSUME IndInv, IndInv', AloneInv, PastInv, Undisturbed, TrackMissed, TrackSkipped,
         NEW a \in Actors, MoveMarker(a) \/ WriteResumed(a) \/ WriteUnarchived(a)
  PROVE  PastInv'
  <1>1. Finish(a) /\ UNCHANGED <<clock, gone, added>>
    BY DEF MoveMarker, WriteResumed, WriteUnarchived
  <1>2. \A b \in Actors : act'[b].phase = "idle" /\ RunsAhead(b)'
    BY <1>1, FinishesAlone, NobodyLeft DEF IndInv
  <1>3. Past' \subseteq Past
    <2>1. \A b \in Actors : ~Skip(b)
      <3> SUFFICES ASSUME NEW b \in Actors, Skip(b) PROVE FALSE
        OBVIOUS
      <3>1. act'[b].phase = "make"
        BY TakesOne DEF Skip, At, IndInv
      <3> QED BY <1>2, <3>1
    <2> QED BY <1>1, <2>1, PastGrows DEF Past, PassedOver
  <1>4. PastIsPast' /\ \A d \in Past : d \in Int /\ d <= DueThrough(clock)
    BY <1>1, <1>3 DEF PastInv, PastIsPast
  (* What is enough to say of the marker that is written. *)
  <1>5. ASSUME NEW d \in Int \cup {None}, Exists,
               \/ template' = [template EXCEPT !.paused = FALSE, !.next = d]
               \/ template' = [template EXCEPT !.next = d],
               d = None => Exhausted(template.rule, Len(added)),
               Going' /\ d # None => \A x \in Past : x < d
        PROVE  PastInv'
    <2>1. template \in TemplateType
      BY <1>5 DEF IndInv, TypeOK, Exists
    <2>2. /\ template'.rule = template.rule /\ template'.next = d /\ template' \in TemplateType
          /\ template'.deleted = template.deleted
      BY <1>5, <2>1 DEF TemplateType
    <2>3. Exists'
      BY <2>2, TemplateAssumption DEF Exists
    <2>4. Marked'
      BY <1>1, <1>5, <2>2, <2>3 DEF PastInv, Marked
    <2>5. MarkerAhead'
      BY <1>3, <1>5, <2>2 DEF MarkerAhead
    <2> QED BY <1>2, <1>4, <2>4, <2>5 DEF PastInv
  (* So it is where the series was read and its next date is not due. *)
  <1>6. ASSUME act[a].phase = "write", act[a].row # None, Rereads(a)
        PROVE  LET d == ResumedRunAt(a) IN
               /\ Exists /\ d \in Int \cup {None}
               /\ d = None => Exhausted(template.rule, Len(added))
               /\ d # None => \A x \in Past : x < d
    <2>1. /\ act[a].row = template /\ template.rule \in RuleType /\ Exists
          /\ act[a].last \in Int \cup {None} /\ act[a].now \in Nat /\ act[a].now = clock
      BY <1>6, RowAsItIs DEF ActType
    <2>2. template.rule.end = None
      BY <2>1 DEF PastInv, Marked
    <2> DEFINE k == DueThrough(clock) + 1
    <2>3. k \in Int /\ k > DueThrough(clock) /\ DueThrough(clock) \in Int
      BY <2>1 DEF DueThrough
    <2>4. CASE Exhausted(template.rule, act[a].generated)
      <3>1. act[a].generated = Len(added)
        BY <1>6, <2>1, <2>4 DEF PastInv, RunsAhead, At, Exhausted
      <3> QED BY <2>1, <2>4, <3>1 DEF ResumedRunAt
    <2>5. CASE ~Exhausted(template.rule, act[a].generated)
      <3>1. ResumedRunAt(a) = OccurrenceFrom(template.rule, act[a].last, k)
        BY <2>1, <2>5 DEF ResumedRunAt
      <3> HIDE DEF k
      <3>2. ResumedRunAt(a) \in Int /\ ResumedRunAt(a) >= k
        BY <2>1, <2>2, <2>3, <3>1, WalkAhead
      <3>3. \A x \in Past : x < ResumedRunAt(a)
        BY <1>4, <2>3, <3>2
      <3> QED BY <2>1, <3>2, <3>3, NoneAssumption
    <2> QED BY <2>4, <2>5
  <1>7. CASE MoveMarker(a)
    <2>1. InRun(a) /\ act[a].phase \in {"make", "mark"}
          /\ (act[a].phase = "make" => act[a].row.rule.count = None)
      BY <1>7 DEF MoveMarker, Counted, At, InRun
    <2>2. act[a].row = template /\ Exists /\ NextDate(a) \in Int
      BY <2>1, GoesAhead
    <2>3. Upcoming(a) = None => Exhausted(template.rule, Len(added))
      <3> SUFFICES ASSUME Upcoming(a) = None PROVE Exhausted(template.rule, Len(added))
        OBVIOUS
      <3>1. Exhausted(template.rule, act[a].generated)
        BY <2>2, NoneAssumption DEF Upcoming
      <3>2. act[a].generated = Len(added)
        BY <2>1, <2>2, <3>1 DEF Exhausted, PastInv, RunsAhead, At
      <3> QED BY <3>1, <3>2
    <2>4. Upcoming(a) # None => \A x \in Past : x < Upcoming(a)
      BY <2>1, <2>2 DEF Upcoming, PastInv, RunsAhead
    <2>5. Upcoming(a) \in Int \cup {None}
      BY <2>2 DEF Upcoming
    <2> QED BY <1>5, <1>7, <2>2, <2>3, <2>4, <2>5 DEF MoveMarker
  <1>8. CASE WriteResumed(a)
    <2>1. act[a].phase = "write" /\ act[a].row # None /\ act[a].op = "resume"
          /\ UNCHANGED archived
      BY <1>8 DEF WriteResumed, At, IndInv, ActShape, Shape
    <2>2. act[a].row = template /\ Exists /\ template \in TemplateType
      BY <2>1, RowAsItIs
    <2> DEFINE d == IF template.paused THEN ResumedRunAt(a) ELSE template.next
    <2>3. template' = [template EXCEPT !.paused = FALSE, !.next = d]
      BY <1>8, <2>2 DEF WriteResumed
    <2>4. CASE template.paused
      BY <1>5, <1>6, <2>1, <2>2, <2>3, <2>4 DEF Rereads
    <2>5. CASE ~template.paused
      <3>1. \A b \in Actors : ~InRun(b)
        BY <2>1 DEF InRun, AloneInv, OneAtWork, At
      <3>2. Going' => Going
        BY <2>1, <2>2, <2>5 DEF Going
      <3>3. Going' /\ template.next # None => \A x \in Past : x < template.next
        BY <3>1, <3>2 DEF PastInv, MarkerAhead
      <3>4. template.next = None => Exhausted(template.rule, Len(added))
        BY <2>2 DEF PastInv, Marked
      <3>5. template.next \in Int \cup {None}
        BY <2>2 DEF TemplateType
      <3> QED BY <1>5, <2>2, <2>3, <2>5, <3>3, <3>4, <3>5
    <2> QED BY <2>4, <2>5
  <1>9. CASE WriteUnarchived(a)
    <2>1. act[a].phase = "write" /\ act[a].op = "unarchive"
      BY <1>9 DEF WriteUnarchived, At
    <2>2. CASE Rescheduled(act[a].row)
      <3>1. act[a].row # None /\ template' = [template EXCEPT !.next = ResumedRunAt(a)]
        BY <1>9, <2>2 DEF WriteUnarchived, Rescheduled
      <3> QED BY <1>5, <1>6, <2>1, <2>2, <3>1 DEF Rereads
    <2>3. CASE ~Rescheduled(act[a].row)
      <3>1. template' = template /\ act[a].row = template
        BY <1>9, <2>1, <2>3 DEF WriteUnarchived, AloneInv, AllCarry, Carries
      <3>2. ~Going'
        BY <2>3, <3>1 DEF Going, Rescheduled, PastInv, Marked, Exists
      <3>3. Marked'
        BY <1>1, <1>3, <3>1 DEF PastInv, Marked, Exists
      <3> QED BY <1>2, <1>4, <3>2, <3>3 DEF PastInv, MarkerAhead
    <2> QED BY <2>2, <2>3
  <1> QED BY <1>7, <1>8, <1>9

(* What people do, when nothing is under way. *)
LEMMA OutsideAhead ==
  ASSUME IndInv, IndInv', PastInv, Undisturbed, TrackMissed, TrackSkipped,
         Pause \/ Archive \/ LeaveOrReturn
  PROVE  PastInv'
  <1>1. act' = act /\ UNCHANGED <<clock, added>>
    BY DEF Pause, Archive, LeaveOrReturn
  <1>2. \A a \in Actors : act[a].phase = "idle"
    BY <1>1, OutsideStep DEF At
  <1>3. \A a \in Actors : RunsAhead(a)'
    BY <1>1, <1>2, NobodyLeft
  <1>4. Past' \subseteq Past
    BY <1>1, <1>2, PastGrows
  <1>5. CASE Archive \/ LeaveOrReturn
    <2>1. template' = template /\ (Going' => Going)
      BY <1>5 DEF Archive, LeaveOrReturn, Going, Exists
    <2> QED BY <1>1, <1>2, <1>3, <1>4, <2>1, SamePast DEF PastInv, InRun
  <1>6. CASE Pause
    <2>1. template \in TemplateType /\ Exists
      BY <1>6 DEF Pause, Stands, Exists, IndInv, TypeOK
    <2>2. /\ template' \in TemplateType /\ template'.rule = template.rule /\ template'.paused
          /\ template'.next = template.next /\ template'.deleted = template.deleted
      BY <1>6, <2>1 DEF Pause, TemplateType
    <2>3. Exists'
      BY <2>2, TemplateAssumption DEF Exists
    <2>4. (PastIsPast /\ Marked /\ MarkerAhead)'
      BY <1>1, <1>4, <2>1, <2>2, <2>3 DEF PastInv, PastIsPast, Marked, MarkerAhead, Going
    <2> QED BY <1>3, <2>4 DEF PastInv
  <1> QED BY <1>5, <1>6

(* Time passes. *)
LEMMA ElapsesAhead ==
  ASSUME IndInv, IndInv', PastInv, Undisturbed, TrackMissed, TrackSkipped, Elapse
  PROVE  PastInv'
  <1>1. act' = act /\ UNCHANGED <<archived, template, added>> /\ clock' = clock + 1 /\ clock \in Nat
    BY DEF Elapse, IndInv, TypeOK
  <1>2. \A a \in Actors : act[a].phase = "idle"
    BY <1>1, OutsideStep DEF At
  <1>3. \A a \in Actors : RunsAhead(a)'
    BY <1>1, <1>2, NobodyLeft
  <1>4. skipped' \subseteq skipped
    BY <1>2 DEF TrackSkipped, Before, PassedOver, Skip, At
  <1>5. missed' \subseteq missed \cup CameDue /\ (~StoodStill => missed' \subseteq missed)
    BY DEF TrackMissed, Before
  <1>6. DueThrough(clock) \in Int /\ DueThrough(clock') \in Int
        /\ DueThrough(clock) <= DueThrough(clock')
    BY <1>1 DEF DueThrough
  <1>7. PastIsPast'
    <2>1. \A d \in CameDue : d = DueThrough(clock')
      BY DEF CameDue
    <2> QED BY <1>4, <1>5, <1>6, <2>1 DEF PastInv, PastIsPast, Past
  <1>8. Marked'
    BY <1>1, <1>4, <1>5 DEF PastInv, Marked, Past, Exists, StoodStill
  <1>9. MarkerAhead'
    BY <1>1, <1>2, <1>4, <1>5 DEF PastInv, MarkerAhead, Past, Going, Exists, StoodStill, InRun
  <1> QED BY <1>3, <1>7, <1>8, <1>9 DEF PastInv

(* An edit forgets what was over from the start of its rule on, and its    *)
(* marker is not before that.                                              *)
LEMMA EditsAhead ==
  ASSUME IndInv, IndInv', PastInv, Undisturbed, TrackMissed, TrackSkipped,
         \A r \in Rules : r.end = None, Edit
  PROVE  PastInv'
  <1>1. PICK r \in Rules :
          template' = [template EXCEPT
            !.rule = StartLater(r),
            !.next = IF Exhausted(StartLater(r), Len(added)) THEN None
                     ELSE FirstOccurrence(StartLater(r))]
    BY DEF Edit
  <1> DEFINE rule == StartLater(r)
  <1>2. /\ r \in RuleType /\ template \in TemplateType /\ Exists
        /\ UNCHANGED <<clock, archived, added, act>>
    BY RulesAssumption DEF Edit, Stands, Exists, IndInv, TypeOK
  <1>3. rule.end = None
    BY <1>2 DEF StartLater, RuleType
  <1>4. rule \in RuleType
    <2>1. LastDate \in Int \cup {None}
      BY LastIsDay DEF IndInv
    <2>2. Earliest \in Int
      BY <2>1 DEF Earliest, MaxOf, Today, IndInv, TypeOK
    <2> QED BY <1>2, <2>2 DEF StartLater, MaxOf, RuleType
  <1> HIDE DEF rule
  <1>5. FirstOccurrence(rule) \in Int /\ rule.start \in Int /\ FirstOccurrence(rule) >= rule.start
    BY <1>3, <1>4, RuleNumbers DEF FirstOccurrence, WithinRange, Ended
  <1>6. /\ template' \in TemplateType /\ template'.rule = rule
        /\ template'.next = IF Exhausted(rule, Len(added)) THEN None ELSE FirstOccurrence(rule)
        /\ template'.deleted = template.deleted
    BY <1>1, <1>2, <1>4, <1>5 DEF TemplateType, rule
  <1>7. Exists'
    BY <1>6, TemplateAssumption DEF Exists
  <1>8. \A d \in Past' : d \in Past /\ d < rule.start
    BY <1>2, <1>6 DEF TrackMissed, TrackSkipped, Before, Past
  <1>9. PastIsPast' /\ Marked'
    BY <1>2, <1>3, <1>5, <1>6, <1>7, <1>8, NoneAssumption DEF PastInv, PastIsPast, Marked
  <1>10. MarkerAhead'
    BY <1>5, <1>6, <1>8 DEF MarkerAhead, PastInv, PastIsPast
  <1>11. \A a \in Actors : RunsAhead(a)'
    BY <1>2, OutsideStep, NobodyLeft DEF At
  <1> QED BY <1>9, <1>10, <1>11 DEF PastInv

(* Nothing is over before there is a series. *)
LEMMA AheadStarts == HistoryInit => PastInv /\ MissedAhead
  BY DEF HistoryInit, Init, PastInv, MissedAhead, PastIsPast, Past, Marked, MarkerAhead, Going, Exists,
         RunsAhead, Running, InRun, At, Idle

(* A run that fails leaves the marker where it was. *)
LEMMA FailsAhead ==
  ASSUME IndInv, IndInv', PastInv, MissedAhead, Undisturbed, TrackMissed, TrackSkipped,
         NEW a \in Actors, Fail(a)
  PROVE  PastInv'
  <1>1. Finish(a) /\ UNCHANGED <<clock, archived, gone, template, added>> /\ "fail" \in Ops
    BY DEF Fail
  <1>2. \A b \in Actors : act'[b].phase = "idle" /\ RunsAhead(b)'
    BY <1>1, FinishesAlone, NobodyLeft DEF IndInv
  <1>3. Past' \subseteq Past /\ Past' \subseteq missed
    BY <1>1, PastGrows DEF Past
  <1>4. PastIsPast' /\ Marked'
    BY <1>1, <1>3 DEF PastInv, PastIsPast, Marked, Exists
  <1>5. MarkerAhead'
    BY <1>1, <1>3 DEF MissedAhead, MarkerAhead, Going, Exists
  <1> QED BY <1>2, <1>4, <1>5 DEF PastInv

(* A marker past what was missed stays past it: it moves only with nothing *)
(* more under way, and nothing is missed while the series is going.        *)
LEMMA MissedStep ==
  ASSUME IndInv, PastInv, PastInv', MissedAhead, HistoryNext, Undisturbed
  PROVE  MissedAhead'
  <1>1. ASSUME UNCHANGED template, Going' => Going, clock' = clock \/ (Elapse /\ archived' = archived)
        PROVE  MissedAhead'
    <2>1. Going' => missed' \subseteq missed
      BY <1>1 DEF HistoryNext, TrackMissed, Before, StoodStill, Going, Exists
    <2> QED BY <1>1, <2>1 DEF MissedAhead
  <1>2. ASSUME \A a \in Actors : act'[a].phase = "idle" PROVE MissedAhead'
    BY <1>2 DEF MissedAhead, MarkerAhead, PastInv, InRun, Past
  <1>3. ASSUME NEW a \in Actors,
               SetUp(a) \/ ReadLast(a) \/ ReadCount(a) \/ Generate(a) \/ Skip(a) \/ Recount(a)
               \/ Tick(a) \/ Resume(a) \/ Unarchive(a) \/ Fail(a)
        PROVE  MissedAhead'
    <2>1. UNCHANGED <<template, archived, clock>>
      BY <1>3 DEF SetUp, ReadLast, ReadCount, Generate, Skip, Recount, Tick, Resume, Unarchive, Fail
    <2> QED BY <1>1, <2>1 DEF Going, Exists
  <1>4. ASSUME NEW a \in Actors, MoveMarker(a) \/ WriteResumed(a) \/ WriteUnarchived(a)
        PROVE  MissedAhead'
    BY <1>2, <1>4, FinishesAlone DEF IndInv, MoveMarker, WriteResumed, WriteUnarchived
  <1>5. ASSUME NEW a \in Actors, Create(a) PROVE MissedAhead'
    <2>1. Past = {} /\ clock' = clock
      BY <1>5 DEF Create, PastInv, Marked
    <2>2. missed' = {}
      BY <2>1 DEF HistoryNext, TrackMissed, Before, Past
    <2> QED BY <2>2 DEF MissedAhead
  <1>6. CASE Archive \/ LeaveOrReturn \/ Elapse
    BY <1>1, <1>6 DEF Archive, LeaveOrReturn, Elapse, Going, Exists
  <1>7. CASE Edit \/ Pause \/ Delete \/ Restore
    BY <1>2, <1>7, OutsideStep DEF Edit, Pause, Delete, Restore, At
  <1>8. ASSUME NEW a \in Actors, Proceed(a) PROVE MissedAhead'
    BY <1>3, <1>4, <1>8 DEF Proceed
  <1>9. ASSUME NEW a \in Actors, Tick(a) \/ Create(a) \/ Resume(a) \/ Unarchive(a) \/ Fail(a)
        PROVE  MissedAhead'
    BY <1>3, <1>5, <1>9
  <1>10. Next
    BY DEF HistoryNext
  <1> QED BY <1>6, <1>7, <1>8, <1>9, <1>10 DEF Next

(* Every step keeps both.                                                  *)
LEMMA AheadStep ==
  ASSUME "delete" \notin Ops, \A r \in Rules : r.end = None,
         IndInv, IndInv', AloneInv, AloneInv', PastInv, MissedAhead,
         [HistoryNext /\ Undisturbed]_historyVars
  PROVE  PastInv' /\ MissedAhead'
  <1>1. CASE UNCHANGED historyVars
    BY <1>1 DEF historyVars, vars, PastInv, PastIsPast, Past, Marked, MarkerAhead, MissedAhead,
                Going, Exists, RunsAhead, Running, InRun, At, Rereads, NextDate
  <1>2. CASE HistoryNext /\ Undisturbed
    <2>1. ASSUME NEW a \in Actors, Proceed(a) PROVE PastInv'
      BY <1>2, <2>1, SetsUpAhead, ReadsAhead, TakesAhead, RecountsAhead, EndsAhead
         DEF Proceed, HistoryNext
    <2>2. ASSUME NEW a \in Actors, Tick(a) \/ Create(a) \/ Resume(a) \/ Unarchive(a) \/ Fail(a)
          PROVE  PastInv'
      BY <1>2, <2>2, BeginsAhead, CreatesAhead, FailsAhead DEF HistoryNext
    <2>3. ASSUME Edit \/ Pause \/ Delete \/ Restore \/ Archive \/ LeaveOrReturn \/ Elapse
          PROVE  PastInv'
      <3>1. ~Delete /\ ~Restore
        BY DEF Delete, Restore
      <3> QED BY <1>2, <2>3, <3>1, EditsAhead, OutsideAhead, ElapsesAhead DEF HistoryNext
    <2>4. PastInv'
      BY <1>2, <2>1, <2>2, <2>3 DEF HistoryNext, Next
    <2> QED BY <1>2, <2>4, MissedStep
  <1> QED BY <1>1, <1>2

(* A step makes the one date that a run goes on to, if any. *)
LEMMA MadeAhead ==
  ASSUME IndInv, AloneInv, PastInv, [HistoryNext /\ Undisturbed]_historyVars
  PROVE  NewDates \cap Past = {}
  <1>1. CASE UNCHANGED added
    BY <1>1 DEF NewDates, Dates
  <1>2. ASSUME NEW a \in Actors, Generate(a) PROVE NewDates \cap Past = {}
    <2>1. InRun(a) /\ HasDue(a)
          /\ added' = Append(added, [date |-> NextDate(a), rule |-> act[a].row.rule])
      BY <1>2 DEF Generate, At, InRun
    <2>2. NextDate(a) \in Int /\ \A d \in Past : d < NextDate(a)
      BY <2>1, GoesAhead
    <2>3. \A d \in Past : d \in Int
      BY DEF PastInv, PastIsPast
    <2>4. NewDates \subseteq {NextDate(a)}
      <3> DEFINE e == [date |-> NextDate(a), rule |-> act[a].row.rule]
      <3>1. added \in Seq([date : Int, rule : RuleType])
        BY DEF IndInv, TypeOK
      <3>2. Len(added) \in Nat /\ DOMAIN added = 1..Len(added)
        BY <3>1, ElementsOfSeq
      <3>3. e.date = NextDate(a)
        OBVIOUS
      <3> HIDE DEF e
      <3>4. DOMAIN added' = 1..(Len(added) + 1) /\ added'[Len(added) + 1] = e
            /\ \A j \in 1..Len(added) : added'[j] = added[j]
        BY <2>1, <3>1, <3>2 DEF e
      <3>5. \A d \in Dates(added') : d \in Dates(added) \/ d = NextDate(a)
        BY <3>2, <3>3, <3>4 DEF Dates
      <3> QED BY <3>5 DEF NewDates
    <2> HIDE DEF Past
    <2> QED BY <2>2, <2>3, <2>4
  <1>3. CASE Next /\ ~\E a \in Actors : Generate(a)
    <2>1. UNCHANGED added
      BY <1>3 DEF Next, Tick, Create, Resume, Unarchive, Proceed, Fail, SetUp, ReadLast, ReadCount,
                  Skip, Recount, MoveMarker, WriteResumed, WriteUnarchived, Edit, Pause, Delete,
                  Restore, Archive, LeaveOrReturn, Elapse
    <2> QED BY <1>1, <2>1
  <1> QED BY <1>1, <1>2, <1>3 DEF historyVars, vars, HistoryNext

(* No step makes a date that is over.                                      *)
LEMMA AheadHistory ==
  ASSUME "delete" \notin Ops, \A r \in Rules : r.end = None
  PROVE  AloneSpec => [][NewDates \cap Past = {}]_historyVars
  <1>1. /\ IndInv /\ AloneInv /\ PastInv /\ MissedAhead /\ (IndInv /\ AloneInv)'
        /\ [HistoryNext /\ Undisturbed]_historyVars
        => (PastInv /\ MissedAhead)'
    BY AheadStep
  <1>2. IndInv /\ AloneInv /\ PastInv /\ [HistoryNext /\ Undisturbed]_historyVars
        => [NewDates \cap Past = {}]_historyVars
    BY MadeAhead
  <1> QED BY <1>1, <1>2, AheadStarts, AloneHistory, PTL DEF AloneSpec

(* What fell due while a series stood still is not made later, whatever    *)
(* fails: resuming and un-archiving move the marker past it, and a run     *)
(* makes nothing before the marker (setRecurringPaused, generateTemplate). *)
(* Not so where a deletion has cleared the marker, or an end date.         *)
THEOREM NothingBackfilled ==
  ASSUME "delete" \notin Ops, \A r \in Rules : r.end = None
  PROVE  AloneSpec => NoBackfill
  <1>1. [NewDates \cap Past = {}]_historyVars => [NewDates \cap missed = {}]_historyVars
    BY DEF Past
  <1> QED BY <1>1, AheadHistory, PTL DEF NoBackfill

(* A date passed over because somebody had left is not made when they are  *)
(* back, where no run fails: each moves the marker past what it has passed *)
(* (generateTemplate).                                                     *)
THEOREM SkippedForGood ==
  ASSUME Ops \cap {"fail", "delete"} = {}, \A r \in Rules : r.end = None
  PROVE  AloneSpec => SkippedStaySkipped
  <1>1. AloneSpec => [][NewDates \cap Past = {}]_historyVars
    BY AheadHistory
  <1>2. [NewDates \cap Past = {}]_historyVars => [NewDates \cap skipped = {}]_historyVars
    BY DEF Past
  <1> QED BY <1>1, <1>2, PTL DEF SkippedStaySkipped
=============================================================================
