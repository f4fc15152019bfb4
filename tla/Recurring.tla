----------------------------- MODULE Recurring ------------------------------
(***************************************************************************)
(* One recurring expense: its template, the runs that generate what is due *)
(* and the requests that create, edit, pause, delete and restore it, in a  *)
(* group that may be archived.                                             *)
(*                                                                         *)
(* A run works on a copy of the template taken when it starts, commits     *)
(* each occurrence on its own and moves the marker last, by id.  An edit   *)
(* holds the row FOR UPDATE, which also stops the foreign-key check of an  *)
(* occurrence, so it is one step; resuming and un-archiving read first and *)
(* write later.                                                            *)
(***************************************************************************)
EXTENDS Schedule, FiniteSetsExt, Sequences

CONSTANTS
  Actors,    \* worker ticks and requests that can be under way at once
  Rules,     \* the rules that people submit
  Ops,       \* what happens in an instance, besides the worker's ticks
  Batch,     \* the cap on one run's catch-up, 120 in the code
  MaxClock   \* bound: the last half day

ASSUME BatchAssumption == Batch \in Nat \ {0}
ASSUME ClockAssumption == MaxClock \in Nat
RuleType == [start : Int, unit : Nat \ {0}, interval : Nat \ {0}, weekday : Nat,
             end : Nat \cup {None}, count : Nat \cup {None}]
ASSUME RulesAssumption == Rules \subseteq RuleType
TemplateType == [rule : RuleType, next : Int \cup {None},
                 paused : BOOLEAN, deleted : BOOLEAN]
ASSUME TemplateAssumption == None \notin TemplateType

VARIABLES
  clock,     \* half days
  archived,  \* the group's `archived_at` is set
  gone,      \* somebody the template names has been removed
  template,  \* its row, `next` the day of `next_run_at`
  added,     \* the expenses generated, with their `recurring_occurrences` row
  act        \* what each actor is doing, and what it has read

vars == <<clock, archived, gone, template, added, act>>

Template(rule, next) ==
  [rule |-> rule, next |-> next, paused |-> FALSE, deleted |-> FALSE]
Exists == template # None
Stands == Exists /\ ~template.deleted

Dates(log) == {log[i].date : i \in DOMAIN log}
LastDate == IF added = <<>> THEN None ELSE Max(Dates(added))

Act(op, phase, row) ==
  [op |-> op, phase |-> phase, row |-> row, now |-> clock,
   last |-> None, generated |-> 0, taken |-> 0]
Idle == [op |-> "none", phase |-> "idle", row |-> None, now |-> 0,
         last |-> None, generated |-> 0, taken |-> 0]
At(a, phase) == act[a].phase = phase
Running(a) == act[a].op \in {"tick", "setup"}
Begin(a, op, phase, row) == act' = [act EXCEPT ![a] = Act(op, phase, row)]
Finish(a) == act' = [act EXCEPT ![a] = Idle]

-----------------------------------------------------------------------------
(* A run, of the worker's tick or of the request that saves a series. *)

Due(row) == row.next # None => row.next <= DueThrough(clock)

Tick(a) ==
  /\ At(a, "idle")
  /\ Stands /\ ~template.paused /\ ~archived /\ Due(template)
  /\ Begin(a, "tick", "last", template)
  /\ UNCHANGED <<clock, archived, gone, template, added>>

Create(a) ==
  /\ "create" \in Ops /\ At(a, "idle") /\ ~Exists /\ ~archived /\ ~gone
  /\ \E r \in Rules :
       /\ FirstOccurrence(r) # None
       /\ template' = Template(r, FirstOccurrence(r))
  /\ Begin(a, "setup", "created", None)
  /\ UNCHANGED <<clock, archived, gone, added>>

(* The request reads the template back, and runs it if a date has come. *)
SetUp(a) ==
  /\ At(a, "created")
  /\ act' = [act EXCEPT ![a] =
               IF template.next # None /\ template.next <= Today(act[a].now)
               THEN [act[a] EXCEPT !.row = template, !.phase = "last"]
               ELSE Idle]
  /\ UNCHANGED <<clock, archived, gone, template, added>>

(* Mutant: a run goes through today, whatever the hour. *)
ThroughToday(a) == Today(act[a].now)
Through(a) ==
  IF act[a].op = "setup" THEN Today(act[a].now) ELSE DueThrough(act[a].now)

(* A run walks the rule from the series' last date, `last`, one occurrence *)
(* at a time, from the floor that the marker sets.                         *)
(* Mutant: the marker sets no floor. *)
Unfloored(a) == OccurrenceFrom(act[a].row.rule, act[a].last, 0)
NextDate(a) ==
  LET floor == act[a].row.next IN
  OccurrenceFrom(act[a].row.rule, act[a].last, IF floor = None THEN 0 ELSE floor)

HasDue(a) ==
  /\ NextDate(a) # None /\ NextDate(a) <= Through(a)
  /\ act[a].taken < Batch
  /\ ~Exhausted(act[a].row.rule, act[a].generated + act[a].taken)

(* seriesSoFar: the last date, then the count where the rule has one. *)
Planned(a) == IF Running(a) THEN "make" ELSE "write"

ReadLast(a) ==
  /\ At(a, "last")
  /\ act' = [act EXCEPT ![a].last = LastDate,
               ![a].phase =
                 IF act[a].row.rule.count = None THEN Planned(a) ELSE "count"]
  /\ UNCHANGED <<clock, archived, gone, template, added>>

ReadCount(a) ==
  /\ At(a, "count")
  /\ act' = [act EXCEPT ![a].generated = Len(added), ![a].phase = Planned(a)]
  /\ UNCHANGED <<clock, archived, gone, template, added>>

PassOver(a) == act' = [act EXCEPT ![a].last = NextDate(a), ![a].taken = @ + 1]

(* Mutant: no unique index on the template and the date. *)
AlwaysUnclaimed(d) == TRUE
Unclaimed(d) == d \notin Dates(added)

Generate(a) ==
  /\ At(a, "make") /\ HasDue(a) /\ Unclaimed(NextDate(a)) /\ ~gone
  /\ added' = Append(added, [date |-> NextDate(a), rule |-> act[a].row.rule])
  /\ PassOver(a)
  /\ UNCHANGED <<clock, archived, gone, template>>

(* The date has its occurrence already, or somebody named has left, which  *)
(* rolls the claim back with the rest.                                     *)
Skip(a) ==
  /\ At(a, "make") /\ HasDue(a)
  /\ Unclaimed(NextDate(a)) => gone
  /\ PassOver(a)
  /\ UNCHANGED <<clock, archived, gone, template, added>>

(* Counted again rather than added up. *)
Recount(a) ==
  /\ At(a, "make") /\ ~HasDue(a) /\ act[a].row.rule.count # None
  /\ act' = [act EXCEPT ![a].phase = "mark", ![a].generated = Len(added)]
  /\ UNCHANGED <<clock, archived, gone, template, added>>

Counted(a) ==
  \/ At(a, "mark")
  \/ At(a, "make") /\ act[a].row.rule.count = None /\ ~HasDue(a)

(* The occurrence after the last, and never back behind the floor. *)
Upcoming(a) ==
  IF Exhausted(act[a].row.rule, act[a].generated) THEN None ELSE NextDate(a)

MoveMarker(a) ==
  /\ Counted(a)
  /\ template' = [template EXCEPT !.next = Upcoming(a)]
  /\ Finish(a)
  /\ UNCHANGED <<clock, archived, gone, added>>

(* Mutant: a run that fails moves the marker past the date it failed on. *)
FailMovingOn(a) ==
  /\ "fail" \in Ops /\ ~At(a, "idle")
  /\ template' =
       IF At(a, "make") /\ HasDue(a)
       THEN [template EXCEPT !.next = OccurrenceFrom(act[a].row.rule, NextDate(a), 0)]
       ELSE template
  /\ Finish(a)
  /\ UNCHANGED <<clock, archived, gone, added>>

(* An occurrence throws, or the process is lost: what has committed stays, *)
(* and the marker is left where it was.                                    *)
Fail(a) ==
  /\ "fail" \in Ops /\ ~At(a, "idle")
  /\ Finish(a)
  /\ UNCHANGED <<clock, archived, gone, template, added>>

-----------------------------------------------------------------------------
(* What people do to the template and the group. *)

MaxOf(x, y) == IF x >= y THEN x ELSE y
Earliest ==
  IF LastDate = None THEN Today(clock) ELSE MaxOf(LastDate + 1, Today(clock))

StartLater(r) == [r EXCEPT !.start = MaxOf(@, Earliest)]

StartsInTime(rule) == ~Ended(rule, rule.start)

Edit ==
  /\ "edit" \in Ops /\ Stands /\ ~archived /\ ~gone
  /\ \E r \in Rules :
       LET rule == StartLater(r) IN
       /\ StartsInTime(rule)
       /\ template' = [template EXCEPT
            !.rule = rule,
            !.next = IF Exhausted(rule, Len(added)) THEN None
                     ELSE FirstOccurrence(rule)]
  /\ UNCHANGED <<clock, archived, gone, added, act>>

Pause ==
  /\ "pause" \in Ops /\ Stands /\ ~archived /\ ~template.paused
  /\ template' = [template EXCEPT !.paused = TRUE]
  /\ UNCHANGED <<clock, archived, gone, added, act>>

(* Only a template that was actually paused moves. *)
Resume(a) ==
  /\ "pause" \in Ops /\ At(a, "idle") /\ Stands /\ ~archived
  /\ Begin(a, "resume", IF template.paused THEN "last" ELSE "write", template)
  /\ UNCHANGED <<clock, archived, gone, template, added>>

(* Its first occurrence not yet due when the request came. *)
(* Mutant: the marker stays where the pause left it. *)
ResumedWhereItStood(a) == act[a].row.next
ResumedRunAt(a) ==
  LET q == act[a] IN
  IF Exhausted(q.row.rule, q.generated) THEN None
  ELSE OccurrenceFrom(q.row.rule, q.last, DueThrough(q.now) + 1)

WriteResumed(a) ==
  /\ At(a, "write") /\ act[a].op = "resume"
  /\ template' = [template EXCEPT
       !.paused = FALSE,
       !.next = IF act[a].row.paused THEN ResumedRunAt(a) ELSE @]
  /\ Finish(a)
  /\ UNCHANGED <<clock, archived, gone, added>>

Delete ==
  /\ "delete" \in Ops /\ Stands /\ ~archived
  /\ template' = [template EXCEPT !.deleted = TRUE, !.next = None]
  /\ UNCHANGED <<clock, archived, gone, added, act>>

(* The marker stays null: the worker works out when this is next due. *)
Restore ==
  /\ "delete" \in Ops /\ Exists /\ template.deleted /\ ~archived
  /\ template' = [template EXCEPT !.deleted = FALSE]
  /\ UNCHANGED <<clock, archived, gone, added, act>>

Archive ==
  /\ "archive" \in Ops /\ ~archived
  /\ archived' = TRUE
  /\ UNCHANGED <<clock, gone, template, added, act>>

(* Un-archiving holds the group's row from here to its commit. *)
Unarchive(a) ==
  /\ At(a, "idle") /\ archived
  /\ \A b \in Actors : act[b].op # "unarchive"
  /\ Begin(a, "unarchive",
           IF Stands /\ ~template.paused THEN "last" ELSE "write", template)
  /\ UNCHANGED <<clock, archived, gone, template, added>>

Rescheduled(row) == row # None /\ ~row.deleted /\ ~row.paused
WriteUnarchived(a) ==
  /\ At(a, "write") /\ act[a].op = "unarchive"
  /\ archived' = FALSE
  /\ template' = IF Rescheduled(act[a].row)
                 THEN [template EXCEPT !.next = ResumedRunAt(a)] ELSE template
  /\ Finish(a)
  /\ UNCHANGED <<clock, gone, added>>

(* Somebody the template names is removed from the group, or put back. *)
LeaveOrReturn ==
  /\ "leave" \in Ops /\ Exists
  /\ gone' = ~gone
  /\ UNCHANGED <<clock, archived, template, added, act>>

Elapse ==
  /\ clock < MaxClock
  /\ clock' = clock + 1
  /\ UNCHANGED <<archived, gone, template, added, act>>

-----------------------------------------------------------------------------
Init ==
  /\ clock = 2
  /\ archived = FALSE /\ gone = FALSE
  /\ template = None
  /\ added = <<>>
  /\ act = [a \in Actors |-> Idle]

Proceed(a) ==
  \/ SetUp(a) \/ ReadLast(a) \/ ReadCount(a)
  \/ Generate(a) \/ Skip(a) \/ Recount(a) \/ MoveMarker(a)
  \/ WriteResumed(a) \/ WriteUnarchived(a)

Next ==
  \/ \E a \in Actors :
       \/ Tick(a) \/ Create(a) \/ Resume(a) \/ Unarchive(a)
       \/ Proceed(a) \/ Fail(a)
  \/ Edit \/ Pause \/ Delete \/ Restore \/ Archive \/ LeaveOrReturn
  \/ Elapse

Spec == Init /\ [][Next]_vars

(* The worker ticks every hour, whatever requests come meanwhile, and a    *)
(* failure is often temporary: a step that fails now and then succeeds in  *)
(* the end.                                                                *)
Fairness ==
  /\ WF_vars(Elapse)
  /\ SF_vars(\E a \in Actors : Tick(a))
  /\ \A a \in Actors :
       /\ SF_vars(SetUp(a)) /\ SF_vars(ReadLast(a)) /\ SF_vars(ReadCount(a))
       /\ SF_vars(Generate(a)) /\ SF_vars(Skip(a))
       /\ SF_vars(Recount(a)) /\ SF_vars(MoveMarker(a))
       /\ SF_vars(WriteResumed(a) \/ WriteUnarchived(a))
FairSpec == Spec /\ Fairness

-----------------------------------------------------------------------------
(* Properties. *)

ActType == [op : {"none", "tick", "setup", "resume", "unarchive"},
            phase : {"idle", "created", "last", "count", "make", "mark", "write"},
            row : TemplateType \cup {None}, now : Nat,
            last : Int \cup {None}, generated : Nat, taken : Nat]

(* Every variable has its type, and a rule does not end before it starts.  *)
TypeOK ==
  /\ clock \in Nat
  /\ archived \in BOOLEAN /\ gone \in BOOLEAN
  /\ template \in TemplateType \cup {None}
  /\ Exists => ~Ended(template.rule, template.rule.start)
  /\ added \in Seq([date : Int, rule : RuleType])
  /\ act \in [Actors -> ActType]

(* What an actor carries, by the phase it has reached: a copy of the row   *)
(* once it has read one, and the time at which it started.                 *)
Shape(q) ==
  /\ q.op = "none" <=> q.phase = "idle"
  /\ q.phase \in {"created", "make", "mark"} => q.op \in {"tick", "setup"}
  /\ q.phase \in {"last", "count", "make", "mark"} => q.row # None
  /\ q.op = "resume" => q.row # None
  /\ q.row # None \/ q.phase = "created" => Exists
  /\ q.now <= clock
ActShape == \A a \in Actors : Shape(act[a])

(* The dates generated have a last one. *)
HasLatest ==
  added # <<>> => \E i \in DOMAIN added :
                    \A j \in DOMAIN added : added[j].date <= added[i].date

(* However many runs reach a date, and whatever is edited, paused, deleted *)
(* or restored between them, it is made into one expense.                  *)
OneExpensePerDate ==
  \A i, j \in DOMAIN added : added[i].date = added[j].date => i = j

IndInv == TypeOK /\ ActShape /\ HasLatest /\ OneExpensePerDate

(* Nobody is woken by an expense: a worker's run makes none before nine in *)
(* the morning of its date, and a request none before the date.            *)
NothingEarly ==
  [][\A a \in Actors : Generate(a) =>
       IF act[a].op = "tick" THEN OccurrenceInstant(NextDate(a)) <= clock
       ELSE NextDate(a) <= Today(clock)]_vars

(* A series that ends after a count never has more than that.              *)
CountKept ==
  \A i \in DOMAIN added :
    added[i].rule.count # None => i <= added[i].rule.count

(* The marker is a date of the rule the template has now.                  *)
OnRule(rule, d) ==
  d >= Aligned(rule) /\ (d - Aligned(rule)) % Step(rule) = 0 /\ ~Ended(rule, d)
MarkerOfRule ==
  Exists /\ template.next # None => OnRule(template.rule, template.next)

(* A date that neither the marker nor the last date has passed between     *)
(* runs is made in the end, whatever fails and however long the worker is  *)
(* down, unless the series is deleted, paused, archived or left first.     *)
Within(rule, d) ==
  rule.count # None => (d - Aligned(rule)) \div Step(rule) < rule.count
ToCome(d) ==
  /\ \A a \in Actors : At(a, "idle")
  /\ Exists /\ template.next # None /\ template.next <= d
  /\ LastDate = None \/ LastDate < d
  /\ OnRule(template.rule, d) /\ Within(template.rule, d)
Interrupted ==
  archived \/ gone \/ (Exists /\ (template.paused \/ template.deleted))
EveryDateMade ==
  \A d \in 1..DueThrough(MaxClock) :
    ToCome(d) ~> (d \in Dates(added) \/ Interrupted)
=============================================================================
