------------------------------- MODULE Outbox -------------------------------
(***************************************************************************)
(* The queue of entries that one browser keeps for a group while there is   *)
(* no network, the tabs that fill and drain it, and the route that takes   *)
(* them.  The queue, the session cookie and the tabs are the browser's;     *)
(* requests may be lost, answered late, or handled after their tab has      *)
(* given up on them.  A key is one press of the form's button.  The server  *)
(* takes a request in one step: Ledger shows that a key makes one entry.    *)
(***************************************************************************)
EXTENDS Naturals

CONSTANTS
  Tabs,         \* the browser's tabs, each with its own module state
  People,       \* who may sign in on this browser
  NoOne,        \* no session, or a page that knows nobody
  MaxEntries,   \* bound: presses of the button
  MaxChanges    \* bound: what befalls the tabs, the session and the group

ASSUME PeopleAssumption == NoOne \notin People
ASSUME BoundAssumption == MaxEntries \in Nat /\ MaxChanges \in Nat

VARIABLES
  author,    \* [key -> who pressed the button, NoOne before]
  outbox,    \* [key -> the record of the "outbox" store, Absent if none]
  stamp,     \* what queuedAt is taken from
  page,      \* [tab -> the DeviceActor its page was rendered for]
  form,      \* [tab -> the form's request that is waited for]
  flush,     \* [tab -> the drain that is under way]
  leaving,   \* tabs in which a sign-out has forgotten the device
  session,   \* whose session cookie the browser holds
  archived,  \* the group takes nothing new: archived, or no longer theirs
  rows,      \* the expenses written, with their keys
  late,      \* requests the server may still handle, nobody waiting for them
  changes

client == <<author, outbox, stamp, form, flush, late>>
device == <<page, leaving, session>>
server == <<rows, archived>>
vars == <<client, device, server, changes>>

Keys == 1 .. MaxEntries
Actors == People \cup {NoOne}

\* The record of one queued entry.  What it says stands for the payload and
\* is the press that made it; waiting is isDue's negation.
Entry == [key : Keys, what : Nat, owner : People, at : Nat,
          status : {"queued", "blocked"}, waiting : BOOLEAN]
Absent == [key |-> 0]

Request == [key : Keys, what : Nat, as : Actors]
Row == [key : Keys, what : Nat, by : People]

NoForm == [key |-> 0]
IdleFlush == [phase |-> "idle"]

Pressed == {k \in Keys : author[k] # NoOne}
Queued == {k \in Keys : outbox[k] # Absent}

Befall == changes < MaxChanges /\ changes' = changes + 1

-----------------------------------------------------------------------------
(***************************************************************************)
(* The server: POST /api/groups/:groupId/expenses, and the form's action.   *)
(***************************************************************************)
Spent(k) == \E r \in rows : r.key = k

\* A cookie is good for as long as the browser keeps it: what takes it away
\* ends the session too.
SignedIn(q) == q.as # NoOne /\ q.as = session

\* Who is calling and whether the group takes their entries (409 stands for 404
\* as well) is looked at before the key, and the key before what the entry says.
Answer(q, status) ==
  \/ status = 401 /\ ~SignedIn(q)
  \/ status = 409 /\ SignedIn(q) /\ archived
  \/ status = 201 /\ SignedIn(q) /\ ~archived
  \/ status = 422 /\ SignedIn(q) /\ ~archived /\ ~Spent(q.key)

Handle(q, status) ==
  /\ Answer(q, status)
  /\ rows' = IF status = 201 /\ ~Spent(q.key)
             THEN rows \cup {[key |-> q.key, what |-> q.what, by |-> q.as]}
             ELSE rows

\* Nobody waits for the answer any more; the request may have been lost on its
\* way, or be handled yet.
GiveUp(q) == late' \in {late, late \cup {q}}

HandleLate(q) ==
  /\ q \in late
  /\ \E status \in {201, 401, 409, 422} : Handle(q, status)
  /\ late' = late \ {q}
  /\ UNCHANGED <<author, outbox, stamp, form, flush, device, archived, changes>>

ArchiveOrRestore ==
  /\ Befall
  /\ archived' = ~archived
  /\ UNCHANGED <<client, device, rows>>

-----------------------------------------------------------------------------
(***************************************************************************)
(* The form: one key per press, tried on the network first where the        *)
(* browser believes there is one.                                           *)
(***************************************************************************)
\* A mutant: the queue mints a key of its own.
FreshKey(k) == MaxEntries

\* clientKey: input.clientKey ?? randomKey(), and the form supplies the key
\* that its request has carried.
QueueKey(k) == k

Enqueue(k, owner) ==
  /\ stamp' = stamp + 1
  /\ outbox' = [outbox EXCEPT ![QueueKey(k)] =
       [key |-> QueueKey(k), what |-> k, owner |-> owner, at |-> stamp + 1,
        status |-> "queued", waiting |-> FALSE]]

Press(t, k) ==
  /\ author[k] = NoOne /\ \A j \in 1 .. k - 1 : author[j] # NoOne
  /\ page[t] # NoOne /\ form[t] = NoForm /\ t \notin leaving
  /\ author' = [author EXCEPT ![k] = page[t]]

PressOffline(t, k) ==
  /\ Press(t, k)
  /\ Enqueue(k, page[t])
  /\ UNCHANGED <<form, flush, late, device, server, changes>>

PressOnline(t, k) ==
  /\ Press(t, k)
  /\ form' = [form EXCEPT ![t] = [key |-> k, what |-> k, as |-> session]]
  /\ UNCHANGED <<outbox, stamp, flush, late, device, server, changes>>

\* Saved, or refused in front of the person who typed it: nothing is queued.
FormAnswered(t) ==
  /\ form[t] # NoForm
  /\ \E status \in {201, 401, 409, 422} : Handle(form[t], status)
  /\ form' = [form EXCEPT ![t] = NoForm]
  /\ UNCHANGED <<author, outbox, stamp, flush, late, device, archived, changes>>

\* No answer: queued under the key that the attempt used.
FormLost(t) ==
  /\ form[t] # NoForm
  /\ Enqueue(form[t].what, author[form[t].what])
  /\ form' = [form EXCEPT ![t] = NoForm]
  /\ GiveUp(form[t])
  /\ UNCHANGED <<author, flush, device, server, changes>>

-----------------------------------------------------------------------------
(***************************************************************************)
(* The drain.                                                               *)
(***************************************************************************)
\* A mutant: the cookie says whose it is.
ToSendAnyones(actor) ==
  {e \in {outbox[k] : k \in Queued} : e.status = "queued" /\ ~e.waiting}

\* A mutant: the drain stops at an entry that was held back.
ToSendUpToBlocked(actor) ==
  {e \in {outbox[k] : k \in Queued} :
     /\ e.owner = actor /\ e.status = "queued" /\ ~e.waiting
     /\ \A k \in Queued : outbox[k].at < e.at => outbox[k].status = "queued"}

\* What a drain for this actor will send, of what it has read.
ToSend(actor) ==
  {e \in {outbox[k] : k \in Queued} :
     e.owner = actor /\ e.status = "queued" /\ ~e.waiting}

\* On to the oldest entry of those read, with the cookie of this moment.
SendNext(t, actor, read) ==
  \/ /\ read = {}
     /\ flush' = [flush EXCEPT ![t] = IdleFlush]
  \/ \E e \in read :
       /\ \A f \in read : e.at <= f.at
       /\ flush' = [flush EXCEPT ![t] =
            [phase |-> "sent", actor |-> actor, entry |-> e,
             left |-> read \ {e}, as |-> session]]

Sent(t) ==
  [key |-> flush[t].entry.key, what |-> flush[t].entry.what, as |-> flush[t].as]

Start(t) ==
  /\ flush[t] = IdleFlush /\ page[t] # NoOne
  /\ ToSend(page[t]) # {}
  /\ SendNext(t, page[t], ToSend(page[t]))
  /\ UNCHANGED <<author, outbox, stamp, form, late, device, server, changes>>

\* A mutant: a conflict is taken for an entry that is there already.
VerdictOfConflict(status) ==
  CASE status \in {201, 409} -> "written"
    [] status = 401          -> "retry"
    [] OTHER                 -> "blocked"

Verdict(status) ==
  CASE status = 201 -> "written"
    [] status = 401 -> "retry"
    [] OTHER        -> "blocked"

Answered(t, verdict) == flush' = [flush EXCEPT ![t].phase = verdict]

Store(t, e) == outbox' = [outbox EXCEPT ![flush[t].entry.key] = e]

Serve(t, k) ==
  /\ flush[t].phase = "sent" /\ Sent(t).key = k
  /\ \E status \in {201, 401, 409, 422} :
       Handle(Sent(t), status) /\ Answered(t, Verdict(status))
  /\ UNCHANGED <<author, outbox, stamp, form, late, device, archived, changes>>

\* fetch throws, or the answer is one of no use: 429, or a 5xx.
Lose(t) ==
  /\ flush[t].phase = "sent"
  /\ Answered(t, "retry")
  /\ GiveUp(Sent(t))
  /\ UNCHANGED <<author, outbox, stamp, form, device, server, changes>>

\* removeQueued.
Remove(t) ==
  /\ flush[t].phase = "written"
  /\ Store(t, Absent)
  /\ SendNext(t, flush[t].actor, flush[t].left)
  /\ UNCHANGED <<author, stamp, form, late, device, server, changes>>

\* recordAttempt puts back the copy that the drain has read, for a person to
\* look at: its backoff counts no more.
HoldBack(t) ==
  /\ flush[t].phase = "blocked"
  /\ Store(t, [flush[t].entry EXCEPT !.status = "blocked"])
  /\ SendNext(t, flush[t].actor, flush[t].left)
  /\ UNCHANGED <<author, stamp, form, late, device, server, changes>>

\* recordAttempt, and the drain stops: the entries behind it wait.
BackOff(t) ==
  /\ flush[t].phase = "retry"
  /\ Store(t, [flush[t].entry EXCEPT !.waiting = TRUE])
  /\ flush' = [flush EXCEPT ![t] = IdleFlush]
  /\ UNCHANGED <<author, stamp, form, late, device, server, changes>>

\* backoffMs has passed.
BecomeDue(k) ==
  /\ outbox[k] # Absent /\ outbox[k].waiting
  /\ outbox' = [outbox EXCEPT ![k].waiting = FALSE]
  /\ UNCHANGED <<author, stamp, form, flush, late, device, server, changes>>

\* The pending strip offers it on an entry that was held back, to its author.
Discard(t, k) ==
  /\ outbox[k] # Absent
  /\ outbox[k].status = "blocked" /\ outbox[k].owner = page[t]
  /\ outbox' = [outbox EXCEPT ![k] = Absent]
  /\ UNCHANGED <<author, stamp, form, flush, late, device, server, changes>>

-----------------------------------------------------------------------------
(***************************************************************************)
(* Who uses the device.                                                     *)
(***************************************************************************)
\* A page is rendered for whoever is signed in then, and stays as it is until
\* it is rendered again.
Render(t) ==
  /\ page[t] # session /\ t \notin leaving
  /\ page' = [page EXCEPT ![t] = session]
  /\ UNCHANGED <<client, leaving, session, server, changes>>

SignIn(t, p) ==
  /\ session = NoOne /\ t \notin leaving
  /\ session' = p
  /\ page' = [page EXCEPT ![t] = p]
  /\ UNCHANGED <<client, leaving, server, changes>>

\* It expires, or is revoked from another device.
LoseSession ==
  /\ Befall
  /\ session # NoOne
  /\ session' = NoOne
  /\ UNCHANGED <<client, page, leaving, server>>

\* The two steps of a sign-out that matter here: the device forgets, and the
\* session ends.
Forget(t) ==
  /\ Befall
  /\ page[t] # NoOne /\ page[t] = session /\ t \notin leaving
  /\ outbox' = [k \in Keys |-> Absent]
  /\ leaving' = leaving \cup {t}
  /\ UNCHANGED <<author, stamp, form, flush, late, page, session, server>>

EndSession(t) ==
  /\ t \in leaving
  /\ session' = NoOne
  /\ page' = [page EXCEPT ![t] = NoOne]
  /\ leaving' = leaving \ {t}
  /\ UNCHANGED <<client, server, changes>>

\* The tab goes away with whatever it was waiting for, and is opened again by
\* Render.
InFlight(t) ==
  {q \in {form[t]} : q # NoForm} \cup
  {Sent(u) : u \in {u \in {t} : flush[u].phase = "sent"}}

Close(t) ==
  /\ Befall
  /\ page' = [page EXCEPT ![t] = NoOne]
  /\ form' = [form EXCEPT ![t] = NoForm]
  /\ flush' = [flush EXCEPT ![t] = IdleFlush]
  /\ leaving' = leaving \ {t}
  /\ \E kept \in SUBSET InFlight(t) : late' = late \cup kept
  /\ UNCHANGED <<author, outbox, stamp, session, server>>

-----------------------------------------------------------------------------
Init ==
  /\ author = [k \in Keys |-> NoOne]
  /\ outbox = [k \in Keys |-> Absent]
  /\ stamp = 0
  /\ page = [t \in Tabs |-> NoOne]
  /\ form = [t \in Tabs |-> NoForm]
  /\ flush = [t \in Tabs |-> IdleFlush]
  /\ leaving = {}
  /\ session = NoOne
  /\ archived = FALSE
  /\ rows = {}
  /\ late = {}
  /\ changes = 0

Next ==
  \/ \E t \in Tabs, k \in Keys :
       PressOffline(t, k) \/ PressOnline(t, k) \/ Serve(t, k) \/ Discard(t, k)
  \/ \E t \in Tabs :
       \/ FormAnswered(t) \/ FormLost(t)
       \/ Start(t) \/ Lose(t) \/ Remove(t) \/ HoldBack(t) \/ BackOff(t)
       \/ Render(t) \/ Forget(t) \/ EndSession(t) \/ Close(t)
  \/ \E t \in Tabs, p \in People : SignIn(t, p)
  \/ \E k \in Keys : BecomeDue(k)
  \/ \E q \in late : HandleLate(q)
  \/ LoseSession \/ ArchiveOrRestore

\* A tab that is open is looked at again and again, so that a drain that has
\* something to send is started; what its promise waits for comes in the end;
\* and an entry sent again and again is answered one day.
Fairness ==
  /\ \A t \in Tabs :
       /\ WF_vars(Start(t))
       /\ WF_vars(Remove(t) \/ HoldBack(t) \/ BackOff(t))
       /\ WF_vars(Lose(t))
       /\ \A k \in Keys : SF_vars(Serve(t, k))
  /\ \A k \in Keys : WF_vars(BecomeDue(k))

Spec == Init /\ [][Next]_vars
FairSpec == Spec /\ Fairness

-----------------------------------------------------------------------------
\* The records, the copies and the requests that a drain may hold.
FlushType ==
  [phase : {"sent", "written", "blocked", "retry"}, actor : People,
   entry : Entry, left : SUBSET Entry, as : Actors]

\* Types; and a record is filed under the key it is sent under, which is its
\* press's.
TypeOK ==
  /\ author \in [Keys -> Actors]
  /\ DOMAIN outbox = Keys
  /\ \A k \in Queued :
       outbox[k] \in Entry /\ outbox[k].key = k /\ outbox[k].what = k
  /\ stamp \in Nat
  /\ page \in [Tabs -> Actors]
  /\ form \in [Tabs -> Request \cup {NoForm}]
  /\ flush \in [Tabs -> FlushType \cup {IdleFlush}]
  /\ leaving \subseteq Tabs
  /\ session \in Actors
  /\ archived \in BOOLEAN
  /\ rows \subseteq Row
  /\ late \subseteq Request
  /\ changes \in 0 .. MaxChanges

(***************************************************************************)
(* docs/offline.md, "Writing an expense exactly once": what was typed once  *)
(* is in the ledger once at most, whichever of the form, the drains of       *)
(* several tabs and requests that were given up on have carried it.         *)
(***************************************************************************)
WrittenOnce == \A r, s \in rows : r.what = s.what => r = s

Written(k) == \E r \in rows : r.what = k

(***************************************************************************)
(* replay.ts: "a queued entry is never dropped except on a written answer   *)
(* or on an explicit discard by the person who typed it", or by a sign-out. *)
(* A discard is offered on what was held back.                              *)
(***************************************************************************)
NothingLost ==
  [][\A k \in Queued :
       outbox'[k] = Absent =>
         \/ Written(k)
         \/ outbox[k].status = "blocked" /\ \E t \in Tabs : page[t] = outbox[k].owner
         \/ leaving # leaving']_vars

(***************************************************************************)
(* docs/offline.md: somebody else's entries "wait, untouched, for their     *)
(* author, or for a sign-out to clear them": no drain and no strip that was *)
(* started for another changes them, whoever signs in in the meantime.      *)
(***************************************************************************)
DrainsFor(t, p) == flush[t] # IdleFlush /\ flush[t].actor = p

OthersUntouched ==
  [][\A k \in Queued :
       \/ outbox'[k] = outbox[k]
       \/ outbox'[k] = [outbox[k] EXCEPT !.waiting = FALSE]
       \/ \E t \in Tabs : page[t] = outbox[k].owner \/ DrainsFor(t, outbox[k].owner)
       \/ leaving # leaving']_vars

(***************************************************************************)
(* Every entry goes out in the end, or is held back for its author to see,  *)
(* as long as they are signed in and look at the group: neither an entry    *)
(* that was refused nor one that is backing off stands in its way.          *)
(***************************************************************************)
Settled(k) == outbox[k] = Absent \/ outbox[k].status = "blocked"

AtWork(k) == session = author[k] /\ \E t \in Tabs : page[t] = author[k]

EntryGoesOut ==
  \A k \in Keys : [](~Settled(k) => <>(Settled(k) \/ ~AtWork(k)))

(***************************************************************************)
(* flush.ts: "Only entries typed by actor are sent.  The request carries    *)
(* whatever session cookie this browser holds, so an entry sent on anybody  *)
(* else's behalf would be written as theirs".  The code does not keep it:   *)
(* the actor is the page's, the cookie is the browser's.                    *)
(***************************************************************************)
DrainedAsTyped ==
  \A t \in Tabs : flush[t].phase = "written" =>
    \A r \in rows : r.key = flush[t].entry.key => r.by = flush[t].entry.owner

=============================================================================
