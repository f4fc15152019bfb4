----------------------------- MODULE EntryProofs -----------------------------
(***************************************************************************)
(* Proofs about an entry on its way to the group and what it comes to      *)
(* there, for any number of tabs, people, entries, amounts and rates.      *)
(* Outbox: what was typed once is written once, no queued entry is lost,   *)
(* and nobody changes somebody else's.  Money: every entry's rows are fair *)
(* to the unit, both sides come to one total, and the repayments suggested *)
(* for what people then owe square everybody.                              *)
(***************************************************************************)
EXTENDS Outbox, Money, Sums, TLAPS

\* What is queued is its author's.
QueueSigned == \A k \in Queued : outbox[k].owner = author[k]

\* Requests and rows say what was pressed under their key.
Named == \A q \in late \cup rows : q.what = q.key

FormNamed ==
  \A t \in Tabs : form[t] # NoForm =>
    form[t].what = form[t].key /\ author[form[t].key] \in People

\* A copy that a drain holds is one of its actor's entries.
CopyOf(e, p) == e.what = e.key /\ e.owner = p /\ author[e.key] = p

DrainSigned ==
  \A t \in Tabs : flush[t] # IdleFlush =>
    /\ CopyOf(flush[t].entry, flush[t].actor)
    /\ \A e \in flush[t].left : CopyOf(e, flush[t].actor)

\* A key is spent once.
KeysOnce == \A r, s \in rows : r.key = s.key => r = s

\* A drain that was told so is right: the entry has been written.
ToldRight ==
  \A t \in Tabs : flush[t].phase = "written" => Written(flush[t].entry.what)

IndInv ==
  /\ TypeOK /\ QueueSigned /\ Named /\ FormNamed
  /\ DrainSigned /\ KeysOnce /\ ToldRight

-----------------------------------------------------------------------------
LEMMA Initially == Init => IndInv
  <1> SUFFICES ASSUME Init PROVE IndInv
    OBVIOUS
  <1> USE PeopleAssumption, BoundAssumption DEF Init
  <1>1. Queued = {}
    BY DEF Queued
  <1>2. TypeOK
    <2>1. author \in [Keys -> Actors] /\ page \in [Tabs -> Actors] /\ session \in Actors
      BY DEF Actors
    <2>2. DOMAIN outbox = Keys
      OBVIOUS
    <2>3. form \in [Tabs -> Request \cup {NoForm}]
      <3>1. NoForm \in Request \cup {NoForm}
        OBVIOUS
      <3> QED BY <3>1
    <2>5. flush \in [Tabs -> FlushType \cup {IdleFlush}]
      <3>1. IdleFlush \in FlushType \cup {IdleFlush}
        OBVIOUS
      <3> QED BY <3>1
    <2>4. stamp \in Nat /\ changes \in 0 .. MaxChanges
      OBVIOUS
    <2>6. archived \in BOOLEAN
      OBVIOUS
    <2> QED BY <1>1, <2>1, <2>2, <2>3, <2>4, <2>5, <2>6 DEF TypeOK
  <1>3. \A t \in Tabs : flush[t].phase # "written"
    BY DEF IdleFlush
  <1>4. QueueSigned /\ Named /\ KeysOnce
    BY <1>1 DEF QueueSigned, Named, KeysOnce
  <1>5. FormNamed /\ DrainSigned
    BY DEF FormNamed, DrainSigned
  <1>6. ToldRight
    BY <1>3 DEF ToldRight
  <1> QED BY <1>2, <1>4, <1>5, <1>6 DEF IndInv

(* The server writes at most one row under a key, and says "written" only  *)
(* of what is there.                                                       *)
LEMMA Handling ==
  ASSUME IndInv, NEW q \in Request, q.what = q.key, NEW status, Handle(q, status)
  PROVE  /\ rows' \subseteq Row /\ rows \subseteq rows'
         /\ \A r \in rows' : r.what = r.key
         /\ KeysOnce'
         /\ status = 201 => \E r \in rows' : r.what = q.what
         /\ status \in {201, 401, 409, 422}
  <1>1. status = 201 => q.as \in People
    BY DEF Handle, Answer, SignedIn, Request, Actors
  <1> DEFINE new == [key |-> q.key, what |-> q.what, by |-> q.as]
  <1>2. status = 201 => new \in Row
    BY <1>1 DEF Request, Row
  <1>3. rows \subseteq Row /\ \A r \in rows : r.what = r.key
    BY DEF IndInv, TypeOK, Named
  <1>4. CASE status = 201 /\ ~Spent(q.key)
    <2>1. rows' = rows \cup {new}
      BY <1>4 DEF Handle
    <2>2. \A r \in rows : r.key # q.key
      BY <1>4 DEF Spent
    <2>3. new.key = q.key /\ new.what = q.what
      OBVIOUS
    <2> HIDE DEF new
    <2>4. KeysOnce'
      BY <2>1, <2>2, <2>3 DEF KeysOnce, IndInv
    <2> QED BY <1>2, <1>3, <1>4, <2>1, <2>3, <2>4
  <1>5. CASE ~(status = 201 /\ ~Spent(q.key))
    <2>1. rows' = rows
      BY <1>5 DEF Handle
    <2>2. status = 201 => \E r \in rows' : r.what = q.what
      BY <1>3, <1>5, <2>1 DEF Spent
    <2> QED BY <1>3, <2>1, <2>2 DEF KeysOnce, IndInv, Handle, Answer
  <1> QED BY <1>4, <1>5

(* What is put under an entry's key, by the form or by a drain.            *)
LEMMA Storing ==
  ASSUME IndInv, NEW k \in Keys, NEW e \in Entry \cup {Absent},
         outbox' = [outbox EXCEPT ![k] = e],
         e # Absent => e.key = k /\ e.what = k /\ e.owner = author'[k],
         \A j \in Queued : author'[j] = author[j]
  PROVE  /\ DOMAIN outbox' = Keys
         /\ \A j \in Queued' :
              /\ outbox'[j] \in Entry /\ outbox'[j].key = j /\ outbox'[j].what = j
              /\ outbox'[j].owner = author'[j]
  <1>1. DOMAIN outbox = Keys
    BY DEF IndInv, TypeOK
  <1>2. DOMAIN outbox' = Keys /\ outbox'[k] = e
    BY <1>1
  <1>3. \A j \in Keys : j # k => outbox'[j] = outbox[j]
    BY <1>1
  <1> SUFFICES ASSUME NEW j \in Queued'
               PROVE  /\ outbox'[j] \in Entry /\ outbox'[j].key = j /\ outbox'[j].what = j
                      /\ outbox'[j].owner = author'[j]
    BY <1>2
  <1>4. j \in Keys /\ outbox'[j] # Absent
    BY DEF Queued
  <1>5. CASE j = k
    BY <1>2, <1>4, <1>5
  <1>6. CASE j # k
    <2>1. j \in Queued /\ outbox'[j] = outbox[j]
      BY <1>3, <1>4, <1>6 DEF Queued
    <2> QED BY <2>1 DEF IndInv, TypeOK, QueueSigned
  <1> QED BY <1>5, <1>6

(* A drain that goes on, or starts, holds copies of its actor's entries.   *)
LEMMA Sending ==
  ASSUME IndInv, NEW t \in Tabs, NEW p \in People, NEW read \in SUBSET Entry,
         \A e \in read : CopyOf(e, p), SendNext(t, p, read),
         author' = author, rows' = rows
  PROVE  flush' \in [Tabs -> FlushType \cup {IdleFlush}] /\ DrainSigned' /\ ToldRight'
  <1>1. flush \in [Tabs -> FlushType \cup {IdleFlush}] /\ session \in Actors
    BY DEF IndInv, TypeOK
  <1>2. CASE read = {} /\ flush' = [flush EXCEPT ![t] = IdleFlush]
    <2>1. flush' \in [Tabs -> FlushType \cup {IdleFlush}]
      BY <1>1, <1>2
    <2>2. DrainSigned'
      BY <1>1, <1>2 DEF IndInv, DrainSigned, CopyOf
    <2>3. \A u \in Tabs : flush'[u].phase = "written" => flush'[u] = flush[u]
      BY <1>1, <1>2 DEF IdleFlush
    <2>4. ToldRight'
      BY <2>3 DEF IndInv, ToldRight, Written
    <2> QED BY <2>1, <2>2, <2>4
  <1>3. CASE \E e \in read : flush' = [flush EXCEPT ![t] =
               [phase |-> "sent", actor |-> p, entry |-> e, left |-> read \ {e}, as |-> session]]
    <2>1. PICK e \in read : flush' = [flush EXCEPT ![t] =
               [phase |-> "sent", actor |-> p, entry |-> e, left |-> read \ {e}, as |-> session]]
      BY <1>3
    <2> DEFINE new == [phase |-> "sent", actor |-> p, entry |-> e, left |-> read \ {e}, as |-> session]
    <2>2. new \in FlushType
      BY <1>1 DEF FlushType
    <2>3. new.phase = "sent" /\ new.entry = e /\ new.actor = p /\ new.left \subseteq read
      OBVIOUS
    <2>4. flush' = [flush EXCEPT ![t] = new]
      BY <2>1
    <2> HIDE DEF new
    <2>5. flush' \in [Tabs -> FlushType \cup {IdleFlush}]
      BY <1>1, <2>2, <2>4
    <2>6. DrainSigned'
      BY <1>1, <2>3, <2>4 DEF IndInv, DrainSigned, CopyOf
    <2>7. \A u \in Tabs : flush'[u].phase = "written" => flush'[u] = flush[u]
      BY <1>1, <2>3, <2>4
    <2>8. ToldRight'
      BY <2>7 DEF IndInv, ToldRight, Written
    <2> QED BY <2>5, <2>6, <2>8
  <1> QED BY <1>2, <1>3 DEF SendNext

-----------------------------------------------------------------------------
(* Steps of the device and the group, which touch no entry.                 *)
LEMMA DeviceKeeps ==
  ASSUME IndInv, UNCHANGED <<client, rows>>,
         page' \in [Tabs -> Actors], leaving' \subseteq Tabs, session' \in Actors,
         archived' \in BOOLEAN, changes' \in 0 .. MaxChanges
  PROVE  IndInv'
  <1> USE DEF client
  <1>1. Queued' = Queued
    BY DEF Queued
  <1>2. TypeOK'
    BY <1>1 DEF IndInv, TypeOK
  <1>3. QueueSigned' /\ Named' /\ FormNamed'
    BY <1>1 DEF IndInv, QueueSigned, Named, FormNamed
  <1>4. DrainSigned' /\ KeysOnce'
    BY DEF IndInv, DrainSigned, CopyOf, KeysOnce
  <1>5. ToldRight'
    BY DEF IndInv, ToldRight, Written
  <1> QED BY <1>2, <1>3, <1>4, <1>5 DEF IndInv

LEMMA Befalls ==
  ASSUME IndInv, Befall
  PROVE  changes' \in 0 .. MaxChanges
  BY BoundAssumption DEF Befall, IndInv, TypeOK

LEMMA RenderKeeps ==
  ASSUME IndInv, NEW t \in Tabs, Render(t)
  PROVE  IndInv'
  BY DeviceKeeps DEF Render, IndInv, TypeOK, server

LEMMA SignInKeeps ==
  ASSUME IndInv, NEW t \in Tabs, NEW p \in People, SignIn(t, p)
  PROVE  IndInv'
  BY DeviceKeeps DEF SignIn, IndInv, TypeOK, server, Actors

LEMMA LoseSessionKeeps ==
  ASSUME IndInv, LoseSession
  PROVE  IndInv'
  BY DeviceKeeps, Befalls DEF LoseSession, IndInv, TypeOK, server, Actors

LEMMA EndSessionKeeps ==
  ASSUME IndInv, NEW t \in Tabs, EndSession(t)
  PROVE  IndInv'
  BY DeviceKeeps DEF EndSession, IndInv, TypeOK, server, Actors

LEMMA ArchiveKeeps ==
  ASSUME IndInv, ArchiveOrRestore
  PROVE  IndInv'
  BY DeviceKeeps, Befalls DEF ArchiveOrRestore, IndInv, TypeOK, device

-----------------------------------------------------------------------------
(* Steps of the form.                                                       *)

(* What a press adds is a key of its own.                                   *)
LEMMA Pressing ==
  ASSUME IndInv, NEW t \in Tabs, NEW k \in Keys, Press(t, k)
  PROVE  /\ author' \in [Keys -> Actors] /\ author'[k] = page[t] /\ page[t] \in People
         /\ \A j \in Keys : author[j] \in People => author'[j] = author[j] /\ j # k
         /\ \A j \in Queued : author'[j] = author[j]
  <1>1. author \in [Keys -> Actors] /\ page[t] \in People
    BY DEF IndInv, TypeOK, Actors, Press
  <1>2. author'[k] = page[t] /\ \A j \in Keys : j # k => author'[j] = author[j]
    BY <1>1 DEF Press
  <1>3. author[k] \notin People
    BY PeopleAssumption DEF Press
  <1>4. \A j \in Queued : author[j] \in People
    BY DEF IndInv, QueueSigned, TypeOK, Entry
  <1>5. author' \in [Keys -> Actors]
    BY <1>1 DEF Press, Actors
  <1> QED BY <1>1, <1>2, <1>3, <1>4, <1>5 DEF Queued

(* Drains that a new author does not touch stay as they were.              *)
LEMMA DrainsStay ==
  ASSUME IndInv, flush' = flush,
         \A j \in Keys : author[j] \in People => author'[j] = author[j]
  PROVE  DrainSigned'
  <1> SUFFICES ASSUME NEW t \in Tabs, flush[t] # IdleFlush
               PROVE  /\ CopyOf(flush[t].entry, flush[t].actor)'
                      /\ \A e \in flush[t].left : CopyOf(e, flush[t].actor)'
    BY DEF DrainSigned
  <1>1. flush[t] \in FlushType
    BY DEF IndInv, TypeOK
  <1>2. flush[t].actor \in People /\ flush[t].entry.key \in Keys
        /\ \A e \in flush[t].left : e.key \in Keys
    BY <1>1 DEF FlushType, Entry
  <1>3. /\ CopyOf(flush[t].entry, flush[t].actor)
        /\ \A e \in flush[t].left : CopyOf(e, flush[t].actor)
    BY DEF IndInv, DrainSigned
  <1> QED BY <1>2, <1>3 DEF CopyOf

(* A record put in the queue is not the absence of one.                     *)
LEMMA EntryIsThere ==
  ASSUME NEW e \in Entry
  PROVE  e # Absent
  BY DEF Entry, Absent, Keys

LEMMA RequestIsThere ==
  ASSUME NEW q \in Request
  PROVE  q # NoForm
  BY DEF Request, NoForm, Keys

LEMMA QueuingKeeps ==
  ASSUME IndInv, NEW k \in Keys, NEW owner \in People, Enqueue(k, owner),
         author' \in [Keys -> Actors], author'[k] = owner,
         \A j \in Keys : author[j] \in People => author'[j] = author[j],
         \A j \in Queued : author'[j] = author[j],
         \A t \in Tabs : form'[t] = form[t] \/ form'[t] = NoForm,
         form' \in [Tabs -> Request \cup {NoForm}],
         late' \subseteq Request, \A q \in late' : q.what = q.key,
         UNCHANGED <<flush, device, server, changes>>
  PROVE  IndInv'
  <1> DEFINE e == [key |-> k, what |-> k, owner |-> owner, at |-> stamp + 1,
                   status |-> "queued", waiting |-> FALSE]
  <1>1. e \in Entry
    <2>1. stamp + 1 \in Nat /\ k \in Nat
      BY BoundAssumption DEF IndInv, TypeOK, Keys
    <2> QED BY <2>1 DEF Entry
  <1>10. stamp' \in Nat
    BY DEF IndInv, TypeOK, Enqueue
  <1>2. outbox' = [outbox EXCEPT ![k] = e]
    BY DEF Enqueue, QueueKey
  <1>3. e.key = k /\ e.what = k /\ e.owner = author'[k]
    OBVIOUS
  <1> HIDE DEF e
  <1>4. /\ DOMAIN outbox' = Keys
        /\ \A j \in Queued' :
             /\ outbox'[j] \in Entry /\ outbox'[j].key = j /\ outbox'[j].what = j
             /\ outbox'[j].owner = author'[j]
    BY <1>1, <1>2, <1>3, Storing
  <1> USE DEF device, server
  <1>5. TypeOK'
    BY <1>4, <1>10 DEF IndInv, TypeOK
  <1>6. QueueSigned' /\ Named'
    BY <1>4 DEF IndInv, QueueSigned, Named
  <1>7. FormNamed'
    <2> SUFFICES ASSUME NEW t \in Tabs, form'[t] # NoForm
                 PROVE  form'[t].what = form'[t].key /\ author'[form'[t].key] \in People
      BY DEF FormNamed
    <2>1. form'[t] = form[t] /\ form[t] \in Request
      BY DEF IndInv, TypeOK
    <2> QED BY <2>1 DEF IndInv, FormNamed, Request
  <1>8. DrainSigned'
    BY DrainsStay
  <1>9. KeysOnce' /\ ToldRight'
    BY DEF IndInv, KeysOnce, ToldRight, Written
  <1> QED BY <1>5, <1>6, <1>7, <1>8, <1>9 DEF IndInv

LEMMA PressOfflineKeeps ==
  ASSUME IndInv, NEW t \in Tabs, NEW k \in Keys, PressOffline(t, k)
  PROVE  IndInv'
  <1>1. Press(t, k) /\ Enqueue(k, page[t]) /\ UNCHANGED <<form, flush, late, device, server, changes>>
    BY DEF PressOffline
  <1>2. form \in [Tabs -> Request \cup {NoForm}] /\ late \subseteq Request
    BY DEF IndInv, TypeOK
  <1>3. \A q \in late : q.what = q.key
    BY DEF IndInv, Named
  <1> QED BY <1>1, <1>2, <1>3, Pressing, QueuingKeeps

LEMMA PressOnlineKeeps ==
  ASSUME IndInv, NEW t \in Tabs, NEW k \in Keys, PressOnline(t, k)
  PROVE  IndInv'
  <1> DEFINE q == [key |-> k, what |-> k, as |-> session]
  <1>1. Press(t, k) /\ form' = [form EXCEPT ![t] = q]
        /\ UNCHANGED <<outbox, stamp, flush, late, device, server, changes>>
    BY DEF PressOnline
  <1>2. q \in Request /\ q.key = k /\ q.what = k
    <2>1. session \in Actors
      BY DEF IndInv, TypeOK
    <2>2. k \in Nat
      BY BoundAssumption DEF Keys
    <2>3. q \in Request
      BY <2>1, <2>2 DEF Request
    <2> QED BY <2>3
  <1> HIDE DEF q
  <1>3. Queued' = Queued
    BY <1>1 DEF Queued
  <1> USE DEF device, server
  <1>4. form \in [Tabs -> Request \cup {NoForm}]
    BY DEF IndInv, TypeOK
  <1>5. form' \in [Tabs -> Request \cup {NoForm}]
    BY <1>1, <1>2, <1>4
  <1>6. TypeOK'
    BY <1>1, <1>3, <1>5, Pressing DEF IndInv, TypeOK
  <1>7. QueueSigned' /\ Named'
    BY <1>1, <1>3, Pressing DEF IndInv, QueueSigned, Named
  <1>8. FormNamed'
    <2> SUFFICES ASSUME NEW u \in Tabs, form'[u] # NoForm
                 PROVE  form'[u].what = form'[u].key /\ author'[form'[u].key] \in People
      BY DEF FormNamed
    <2>1. CASE u = t
      BY <1>1, <1>2, <1>4, <2>1, Pressing
    <2>2. CASE u # t
      <3>1. form'[u] = form[u] /\ form[u] \in Request
        BY <1>1, <1>4, <2>2
      <3> QED BY <1>1, <3>1, Pressing DEF IndInv, FormNamed, Request
    <2> QED BY <2>1, <2>2
  <1>9. DrainSigned'
    BY <1>1, Pressing, DrainsStay
  <1>10. KeysOnce' /\ ToldRight'
    BY <1>1 DEF IndInv, KeysOnce, ToldRight, Written
  <1> QED BY <1>6, <1>7, <1>8, <1>9, <1>10 DEF IndInv

(* A form whose request is over.                                            *)
LEMMA FormOver ==
  ASSUME IndInv, NEW t \in Tabs, form' = [form EXCEPT ![t] = NoForm], author' = author
  PROVE  /\ form' \in [Tabs -> Request \cup {NoForm}]
         /\ \A u \in Tabs : form'[u] = form[u] \/ form'[u] = NoForm
         /\ FormNamed'
  <1>1. form \in [Tabs -> Request \cup {NoForm}]
    BY DEF IndInv, TypeOK
  <1> QED BY <1>1 DEF IndInv, FormNamed

LEMMA FormLostKeeps ==
  ASSUME IndInv, NEW t \in Tabs, FormLost(t)
  PROVE  IndInv'
  <1>1. form[t] \in Request /\ form[t].what = form[t].key /\ author[form[t].key] \in People
    BY DEF IndInv, TypeOK, FormNamed, FormLost
  <1>2. form[t].what \in Keys /\ author[form[t].what] \in People
    BY <1>1 DEF Request
  <1>3. late' \subseteq Request /\ \A q \in late' : q.what = q.key
    BY <1>1 DEF FormLost, GiveUp, IndInv, TypeOK, Named
  <1>4. author \in [Keys -> Actors]
    BY DEF IndInv, TypeOK
  <1>5. /\ Enqueue(form[t].what, author[form[t].what])
        /\ form' = [form EXCEPT ![t] = NoForm]
        /\ UNCHANGED <<author, flush, device, server, changes>>
    BY DEF FormLost
  <1>6. /\ form' \in [Tabs -> Request \cup {NoForm}]
        /\ \A u \in Tabs : form'[u] = form[u] \/ form'[u] = NoForm
    BY <1>5, FormOver
  <1> QED BY <1>2, <1>3, <1>4, <1>5, <1>6, QueuingKeeps

(* A drain that has been told so stays right while the ledger grows.        *)
LEMMA ToldRightStays ==
  ASSUME IndInv, rows \subseteq rows',
         \A u \in Tabs : flush'[u].phase = "written" =>
           \/ flush'[u] = flush[u]
           \/ \E r \in rows' : r.what = flush'[u].entry.what
  PROVE  ToldRight'
  <1> SUFFICES ASSUME NEW u \in Tabs, flush'[u].phase = "written"
               PROVE  \E r \in rows' : r.what = flush'[u].entry.what
    BY DEF ToldRight, Written
  <1>1. CASE flush'[u] = flush[u]
    <2>1. \E r \in rows : r.what = flush[u].entry.what
      BY <1>1 DEF IndInv, ToldRight, Written
    <2> QED BY <1>1, <2>1
  <1> QED BY <1>1

LEMMA HandleLateKeeps ==
  ASSUME IndInv, NEW q \in late, HandleLate(q)
  PROVE  IndInv'
  <1>1. q \in Request /\ q.what = q.key
    BY DEF IndInv, TypeOK, Named
  <1>2. PICK status \in {201, 401, 409, 422} : Handle(q, status)
    BY DEF HandleLate
  <1>3. late' = late \ {q} /\ UNCHANGED <<author, outbox, stamp, form, flush, device, archived, changes>>
    BY DEF HandleLate
  <1>4. /\ rows' \subseteq Row /\ rows \subseteq rows' /\ KeysOnce'
        /\ \A r \in rows' : r.what = r.key
    BY <1>1, <1>2, Handling
  <1>5. Queued' = Queued
    BY <1>3 DEF Queued
  <1>6. TypeOK'
    BY <1>3, <1>4, <1>5 DEF IndInv, TypeOK, device
  <1>7. QueueSigned' /\ Named' /\ FormNamed'
    BY <1>3, <1>4, <1>5 DEF IndInv, QueueSigned, Named, FormNamed
  <1>8. DrainSigned'
    BY <1>3 DEF IndInv, DrainSigned, CopyOf
  <1>9. ToldRight'
    BY <1>3, <1>4, ToldRightStays
  <1> QED BY <1>4, <1>6, <1>7, <1>8, <1>9 DEF IndInv

LEMMA FormAnsweredKeeps ==
  ASSUME IndInv, NEW t \in Tabs, FormAnswered(t)
  PROVE  IndInv'
  <1>1. form[t] \in Request /\ form[t].what = form[t].key
    BY DEF IndInv, TypeOK, FormNamed, FormAnswered
  <1>2. PICK status \in {201, 401, 409, 422} : Handle(form[t], status)
    BY DEF FormAnswered
  <1>3. /\ form' = [form EXCEPT ![t] = NoForm]
        /\ UNCHANGED <<author, outbox, stamp, flush, late, device, archived, changes>>
    BY DEF FormAnswered
  <1>4. /\ rows' \subseteq Row /\ rows \subseteq rows' /\ KeysOnce'
        /\ \A r \in rows' : r.what = r.key
    BY <1>1, <1>2, Handling
  <1>5. Queued' = Queued
    BY <1>3 DEF Queued
  <1>6. TypeOK' /\ FormNamed'
    BY <1>3, <1>4, <1>5, FormOver DEF IndInv, TypeOK, device
  <1>7. QueueSigned' /\ Named'
    BY <1>3, <1>4, <1>5 DEF IndInv, QueueSigned, Named
  <1>8. DrainSigned'
    BY <1>3 DEF IndInv, DrainSigned, CopyOf
  <1>9. ToldRight'
    BY <1>3, <1>4, ToldRightStays
  <1> QED BY <1>4, <1>6, <1>7, <1>8, <1>9 DEF IndInv

-----------------------------------------------------------------------------
(* Steps of a drain.                                                        *)

(* What a drain that is under way holds.                                    *)
LEMMA Draining ==
  ASSUME IndInv, NEW t \in Tabs, flush[t] # IdleFlush
  PROVE  /\ flush[t] \in FlushType
         /\ flush[t].actor \in People /\ flush[t].as \in Actors
         /\ flush[t].entry \in Entry /\ flush[t].entry.key \in Keys
         /\ CopyOf(flush[t].entry, flush[t].actor)
         /\ flush[t].left \in SUBSET Entry
         /\ \A e \in flush[t].left : CopyOf(e, flush[t].actor)
  <1>1. flush[t] \in FlushType
    BY DEF IndInv, TypeOK
  <1>2. /\ flush[t].actor \in People /\ flush[t].as \in Actors
        /\ flush[t].entry \in Entry /\ flush[t].left \in SUBSET Entry
    BY <1>1 DEF FlushType
  <1>3. flush[t].entry.key \in Keys
    BY <1>2 DEF Entry
  <1> QED BY <1>1, <1>2, <1>3 DEF IndInv, DrainSigned

LEMMA StartKeeps ==
  ASSUME IndInv, NEW t \in Tabs, Start(t)
  PROVE  IndInv'
  <1> DEFINE p == page[t]
             read == ToSend(p)
  <1>1. /\ p # NoOne /\ SendNext(t, p, read)
        /\ UNCHANGED <<author, outbox, stamp, form, late, device, server, changes>>
    BY DEF Start
  <1>2. p \in People
    BY <1>1 DEF IndInv, TypeOK, Actors
  <1>3. read \in SUBSET Entry /\ \A e \in read : CopyOf(e, p)
    BY DEF ToSend, CopyOf, IndInv, TypeOK, QueueSigned
  <1> HIDE DEF p, read
  <1> USE DEF device, server
  <1>4. flush' \in [Tabs -> FlushType \cup {IdleFlush}] /\ DrainSigned' /\ ToldRight'
    BY <1>1, <1>2, <1>3, Sending
  <1>5. Queued' = Queued
    BY <1>1 DEF Queued
  <1>6. TypeOK'
    BY <1>1, <1>4, <1>5 DEF IndInv, TypeOK
  <1>7. QueueSigned' /\ Named' /\ FormNamed' /\ KeysOnce'
    BY <1>1, <1>5 DEF IndInv, QueueSigned, Named, FormNamed, KeysOnce
  <1> QED BY <1>4, <1>6, <1>7 DEF IndInv

(* A drain that has its answer holds what it held.                          *)
LEMMA Answering ==
  ASSUME IndInv, NEW t \in Tabs, flush[t] # IdleFlush, author' = author,
         NEW verdict \in {"written", "blocked", "retry"}, Answered(t, verdict)
  PROVE  /\ flush' \in [Tabs -> FlushType \cup {IdleFlush}] /\ DrainSigned'
         /\ flush'[t].phase = verdict /\ flush'[t].entry = flush[t].entry
         /\ \A u \in Tabs : u # t => flush'[u] = flush[u]
  <1> DEFINE new == [flush[t] EXCEPT !.phase = verdict]
  <1>1. flush \in [Tabs -> FlushType \cup {IdleFlush}]
    BY DEF IndInv, TypeOK
  <1>2. flush[t] \in FlushType
    BY <1>1
  <1>3. /\ new \in FlushType /\ new.phase = verdict /\ new.actor = flush[t].actor
        /\ new.entry = flush[t].entry /\ new.left = flush[t].left
    BY <1>2 DEF FlushType
  <1>4. flush' = [flush EXCEPT ![t] = new]
    BY DEF Answered
  <1> HIDE DEF new
  <1>5. flush' \in [Tabs -> FlushType \cup {IdleFlush}]
    BY <1>1, <1>3, <1>4
  <1>6. DrainSigned'
    BY <1>1, <1>3, <1>4 DEF IndInv, DrainSigned, CopyOf
  <1> QED BY <1>1, <1>3, <1>4, <1>5, <1>6

LEMMA SentIs ==
  ASSUME IndInv, NEW t \in Tabs, flush[t] # IdleFlush
  PROVE  /\ Sent(t) \in Request /\ Sent(t).what = Sent(t).key
         /\ Sent(t).what = flush[t].entry.what
  <1>1. /\ flush[t].entry \in Entry /\ flush[t].as \in Actors
        /\ flush[t].entry.what = flush[t].entry.key
    BY Draining DEF CopyOf
  <1>2. flush[t].entry.key \in Keys /\ flush[t].entry.what \in Nat
    BY <1>1 DEF Entry
  <1> QED BY <1>1, <1>2 DEF Sent, Request

LEMMA ServeKeeps ==
  ASSUME IndInv, NEW t \in Tabs, NEW k \in Keys, Serve(t, k)
  PROVE  IndInv'
  <1>1. flush[t] # IdleFlush
    BY DEF Serve, IdleFlush
  <1>2. PICK status \in {201, 401, 409, 422} :
               Handle(Sent(t), status) /\ Answered(t, Verdict(status))
    BY DEF Serve
  <1>3. UNCHANGED <<author, outbox, stamp, form, late, device, archived, changes>>
    BY DEF Serve
  <1>4. /\ rows' \subseteq Row /\ rows \subseteq rows' /\ KeysOnce'
        /\ \A r \in rows' : r.what = r.key
        /\ status = 201 => \E r \in rows' : r.what = flush[t].entry.what
    <2>1. Sent(t) \in Request /\ Sent(t).what = Sent(t).key
          /\ Sent(t).what = flush[t].entry.what
      BY <1>1, SentIs
    <2>2. ASSUME NEW q \in Request, q.what = q.key, Handle(q, status)
          PROVE  /\ rows' \subseteq Row /\ rows \subseteq rows' /\ KeysOnce'
                 /\ \A r \in rows' : r.what = r.key
                 /\ status = 201 => \E r \in rows' : r.what = q.what
      BY <2>2, Handling
    <2>3. /\ rows' \subseteq Row /\ rows \subseteq rows' /\ KeysOnce'
          /\ \A r \in rows' : r.what = r.key
          /\ status = 201 => \E r \in rows' : r.what = Sent(t).what
      BY <1>2, <2>1, <2>2
    <2> QED BY <2>1, <2>3
  <1>5. /\ Verdict(status) \in {"written", "blocked", "retry"}
        /\ Verdict(status) = "written" => status = 201
    BY <1>2 DEF Verdict
  <1>6. /\ flush' \in [Tabs -> FlushType \cup {IdleFlush}] /\ DrainSigned'
        /\ flush'[t].phase = Verdict(status) /\ flush'[t].entry = flush[t].entry
        /\ \A u \in Tabs : u # t => flush'[u] = flush[u]
    BY <1>1, <1>2, <1>3, <1>5, Answering
  <1>7. Queued' = Queued
    BY <1>3 DEF Queued
  <1>8. TypeOK'
    BY <1>3, <1>4, <1>6, <1>7 DEF IndInv, TypeOK, device
  <1>9. QueueSigned' /\ Named' /\ FormNamed'
    BY <1>3, <1>4, <1>7 DEF IndInv, QueueSigned, Named, FormNamed
  <1>10. ToldRight'
    BY <1>4, <1>5, <1>6, ToldRightStays
  <1> QED BY <1>4, <1>6, <1>8, <1>9, <1>10 DEF IndInv

LEMMA LoseKeeps ==
  ASSUME IndInv, NEW t \in Tabs, Lose(t)
  PROVE  IndInv'
  <1>1. flush[t] # IdleFlush
    BY DEF Lose, IdleFlush
  <1>2. /\ Answered(t, "retry")
        /\ UNCHANGED <<author, outbox, stamp, form, device, server, changes>>
    BY DEF Lose
  <1> USE DEF device, server
  <1>3. late' \subseteq Request /\ \A q \in late' : q.what = q.key
    BY <1>1, SentIs DEF Lose, GiveUp, IndInv, TypeOK, Named
  <1>4. /\ flush' \in [Tabs -> FlushType \cup {IdleFlush}] /\ DrainSigned'
        /\ flush'[t].phase = "retry"
        /\ \A u \in Tabs : u # t => flush'[u] = flush[u]
    BY <1>1, <1>2, Answering
  <1>5. Queued' = Queued
    BY <1>2 DEF Queued
  <1>6. TypeOK'
    BY <1>2, <1>3, <1>4, <1>5 DEF IndInv, TypeOK
  <1>7. QueueSigned' /\ Named' /\ FormNamed' /\ KeysOnce'
    BY <1>2, <1>3, <1>5 DEF IndInv, QueueSigned, Named, FormNamed, KeysOnce
  <1>8. ToldRight'
    BY <1>2, <1>4, ToldRightStays
  <1> QED BY <1>4, <1>6, <1>7, <1>8 DEF IndInv

(* What a drain puts back is its author's entry, under the entry's key.     *)
LEMMA PuttingBack ==
  ASSUME IndInv, NEW t \in Tabs, flush[t] # IdleFlush, NEW e \in Entry \cup {Absent},
         Store(t, e), author' = author,
         e # Absent => /\ e.key = flush[t].entry.key /\ e.what = flush[t].entry.what
                       /\ e.owner = flush[t].entry.owner
  PROVE  /\ DOMAIN outbox' = Keys
         /\ \A j \in Queued' :
              /\ outbox'[j] \in Entry /\ outbox'[j].key = j /\ outbox'[j].what = j
         /\ QueueSigned'
  <1> DEFINE k == flush[t].entry.key
  <1>1. k \in Keys /\ CopyOf(flush[t].entry, flush[t].actor)
    BY Draining
  <1>2. outbox' = [outbox EXCEPT ![k] = e]
    BY DEF Store
  <1>3. e # Absent => e.key = k /\ e.what = k /\ e.owner = author'[k]
    BY <1>1 DEF CopyOf
  <1> HIDE DEF k
  <1>4. \A j \in Queued : author'[j] = author[j]
    OBVIOUS
  <1> QED BY <1>1, <1>2, <1>3, <1>4, Storing DEF QueueSigned

(* A step that leaves the ledger alone keeps the rest, once the queue and    *)
(* the drains are shown to be in order.                                     *)
LEMMA DrainKeeps ==
  ASSUME IndInv, UNCHANGED <<author, stamp, form, late, device, server, changes>>,
         DOMAIN outbox' = Keys, QueueSigned',
         \A j \in Queued' :
           outbox'[j] \in Entry /\ outbox'[j].key = j /\ outbox'[j].what = j,
         flush' \in [Tabs -> FlushType \cup {IdleFlush}], DrainSigned', ToldRight'
  PROVE  IndInv'
  <1> USE DEF device, server
  <1>1. TypeOK'
    BY DEF IndInv, TypeOK
  <1>2. Named' /\ FormNamed' /\ KeysOnce'
    BY DEF IndInv, Named, FormNamed, KeysOnce
  <1> QED BY <1>1, <1>2 DEF IndInv

LEMMA RemoveKeeps ==
  ASSUME IndInv, NEW t \in Tabs, Remove(t)
  PROVE  IndInv'
  <1>1. /\ flush[t] # IdleFlush /\ Store(t, Absent)
        /\ SendNext(t, flush[t].actor, flush[t].left)
        /\ UNCHANGED <<author, stamp, form, late, device, server, changes>>
    BY DEF Remove, IdleFlush
  <1>2. flush' \in [Tabs -> FlushType \cup {IdleFlush}] /\ DrainSigned' /\ ToldRight'
    BY <1>1, Draining, Sending DEF server
  <1>3. /\ DOMAIN outbox' = Keys /\ QueueSigned'
        /\ \A j \in Queued' :
             outbox'[j] \in Entry /\ outbox'[j].key = j /\ outbox'[j].what = j
    BY <1>1, PuttingBack
  <1> QED BY <1>1, <1>2, <1>3, DrainKeeps

LEMMA HoldBackKeeps ==
  ASSUME IndInv, NEW t \in Tabs, HoldBack(t)
  PROVE  IndInv'
  <1> DEFINE e == [flush[t].entry EXCEPT !.status = "blocked"]
  <1>1. /\ flush[t] # IdleFlush /\ Store(t, e)
        /\ SendNext(t, flush[t].actor, flush[t].left)
        /\ UNCHANGED <<author, stamp, form, late, device, server, changes>>
    BY DEF HoldBack, IdleFlush
  <1>2. /\ e \in Entry /\ e.key = flush[t].entry.key
        /\ e.what = flush[t].entry.what /\ e.owner = flush[t].entry.owner
    <2>1. flush[t].entry \in Entry
      BY <1>1, Draining
    <2> QED BY <2>1 DEF Entry
  <1> HIDE DEF e
  <1>3. flush' \in [Tabs -> FlushType \cup {IdleFlush}] /\ DrainSigned' /\ ToldRight'
    BY <1>1, Draining, Sending DEF server
  <1>4. /\ DOMAIN outbox' = Keys /\ QueueSigned'
        /\ \A j \in Queued' :
             outbox'[j] \in Entry /\ outbox'[j].key = j /\ outbox'[j].what = j
    BY <1>1, <1>2, PuttingBack
  <1> QED BY <1>1, <1>3, <1>4, DrainKeeps

LEMMA BackOffKeeps ==
  ASSUME IndInv, NEW t \in Tabs, BackOff(t)
  PROVE  IndInv'
  <1> DEFINE e == [flush[t].entry EXCEPT !.waiting = TRUE]
  <1>1. /\ flush[t] # IdleFlush /\ Store(t, e)
        /\ flush' = [flush EXCEPT ![t] = IdleFlush]
        /\ UNCHANGED <<author, stamp, form, late, device, server, changes>>
    BY DEF BackOff, IdleFlush
  <1>2. /\ e \in Entry /\ e.key = flush[t].entry.key
        /\ e.what = flush[t].entry.what /\ e.owner = flush[t].entry.owner
    <2>1. flush[t].entry \in Entry
      BY <1>1, Draining
    <2> QED BY <2>1 DEF Entry
  <1> HIDE DEF e
  <1>3. SendNext(t, flush[t].actor, {})
    BY <1>1 DEF SendNext
  <1>4. flush' \in [Tabs -> FlushType \cup {IdleFlush}] /\ DrainSigned' /\ ToldRight'
    BY <1>1, <1>3, Draining, Sending DEF server
  <1>5. /\ DOMAIN outbox' = Keys /\ QueueSigned'
        /\ \A j \in Queued' :
             outbox'[j] \in Entry /\ outbox'[j].key = j /\ outbox'[j].what = j
    BY <1>1, <1>2, PuttingBack
  <1> QED BY <1>1, <1>4, <1>5, DrainKeeps

(* Nothing but the queue changes.                                           *)
LEMMA QueueKeeps ==
  ASSUME IndInv, UNCHANGED <<author, stamp, form, flush, late, device, server, changes>>,
         NEW k \in Keys, NEW e \in Entry \cup {Absent}, outbox' = [outbox EXCEPT ![k] = e],
         e # Absent => e.key = k /\ e.what = k /\ e.owner = author[k]
  PROVE  IndInv'
  <1>1. /\ DOMAIN outbox' = Keys /\ QueueSigned'
        /\ \A j \in Queued' :
             outbox'[j] \in Entry /\ outbox'[j].key = j /\ outbox'[j].what = j
    BY Storing DEF QueueSigned
  <1>2. flush' \in [Tabs -> FlushType \cup {IdleFlush}]
    BY DEF IndInv, TypeOK
  <1>3. DrainSigned' /\ ToldRight'
    BY DEF IndInv, DrainSigned, CopyOf, ToldRight, Written, server
  <1> QED BY <1>1, <1>2, <1>3, DrainKeeps

LEMMA BecomeDueKeeps ==
  ASSUME IndInv, NEW k \in Keys, BecomeDue(k)
  PROVE  IndInv'
  <1> DEFINE e == [outbox[k] EXCEPT !.waiting = FALSE]
  <1>1. outbox' = [outbox EXCEPT ![k] = e]
        /\ UNCHANGED <<author, stamp, form, flush, late, device, server, changes>>
    BY DEF BecomeDue
  <1>2. /\ outbox[k] \in Entry /\ outbox[k].key = k /\ outbox[k].what = k
        /\ outbox[k].owner = author[k]
    BY DEF BecomeDue, Queued, IndInv, TypeOK, QueueSigned
  <1>3. e \in Entry /\ e.key = k /\ e.what = k /\ e.owner = author[k]
    BY <1>2 DEF Entry
  <1> HIDE DEF e
  <1> QED BY <1>1, <1>3, QueueKeeps

LEMMA DiscardKeeps ==
  ASSUME IndInv, NEW t \in Tabs, NEW k \in Keys, Discard(t, k)
  PROVE  IndInv'
  BY QueueKeeps DEF Discard

LEMMA ForgetKeeps ==
  ASSUME IndInv, NEW t \in Tabs, Forget(t)
  PROVE  IndInv'
  <1>1. /\ outbox' = [k \in Keys |-> Absent] /\ leaving' = leaving \cup {t}
        /\ UNCHANGED <<author, stamp, form, flush, late, page, session, server>>
    BY DEF Forget
  <1>2. Queued' = {}
    BY <1>1 DEF Queued
  <1>3. changes' \in 0 .. MaxChanges
    BY Befalls DEF Forget
  <1> USE DEF server
  <1>4. TypeOK'
    BY <1>1, <1>2, <1>3 DEF IndInv, TypeOK
  <1>5. QueueSigned' /\ Named' /\ FormNamed' /\ KeysOnce'
    BY <1>1, <1>2 DEF IndInv, QueueSigned, Named, FormNamed, KeysOnce
  <1>6. DrainSigned' /\ ToldRight'
    BY <1>1 DEF IndInv, DrainSigned, CopyOf, ToldRight, Written
  <1> QED BY <1>4, <1>5, <1>6 DEF IndInv

(* What is in flight from a tab that is closed.                             *)
LEMMA InFlightNamed ==
  ASSUME IndInv, NEW t \in Tabs
  PROVE  \A q \in InFlight(t) : q \in Request /\ q.what = q.key
  <1> SUFFICES ASSUME NEW q \in InFlight(t)
               PROVE  q \in Request /\ q.what = q.key
    OBVIOUS
  <1>1. CASE q = form[t] /\ form[t] # NoForm
    BY <1>1 DEF IndInv, TypeOK, FormNamed
  <1>2. CASE q = Sent(t) /\ flush[t].phase = "sent"
    <2>1. flush[t] # IdleFlush
      BY <1>2 DEF IdleFlush
    <2> QED BY <1>2, <2>1, SentIs
  <1> QED BY <1>1, <1>2 DEF InFlight

LEMMA CloseKeeps ==
  ASSUME IndInv, NEW t \in Tabs, Close(t)
  PROVE  IndInv'
  <1>1. /\ page' = [page EXCEPT ![t] = NoOne] /\ leaving' = leaving \ {t}
        /\ form' = [form EXCEPT ![t] = NoForm] /\ flush' = [flush EXCEPT ![t] = IdleFlush]
        /\ UNCHANGED <<author, outbox, stamp, session, server>>
    BY DEF Close
  <1>2. late' \subseteq Request /\ \A q \in late' : q.what = q.key
    BY InFlightNamed DEF Close, IndInv, TypeOK, Named
  <1>3. changes' \in 0 .. MaxChanges
    BY Befalls DEF Close
  <1> USE DEF server
  <1>4. Queued' = Queued
    BY <1>1 DEF Queued
  <1>5. page' \in [Tabs -> Actors]
    BY <1>1 DEF IndInv, TypeOK, Actors
  <1>6. flush' \in [Tabs -> FlushType \cup {IdleFlush}]
    BY <1>1 DEF IndInv, TypeOK
  <1>7. form' \in [Tabs -> Request \cup {NoForm}] /\ FormNamed'
    BY <1>1, FormOver
  <1>8. TypeOK'
    BY <1>1, <1>2, <1>3, <1>4, <1>5, <1>6, <1>7 DEF IndInv, TypeOK
  <1>9. QueueSigned' /\ Named' /\ KeysOnce'
    BY <1>1, <1>2, <1>4 DEF IndInv, QueueSigned, Named, KeysOnce
  <1>10. \A u \in Tabs : flush'[u] = flush[u] \/ flush'[u] = IdleFlush
    BY <1>1 DEF IndInv, TypeOK
  <1>11. DrainSigned'
    BY <1>1, <1>10 DEF IndInv, DrainSigned, CopyOf
  <1>12. ToldRight'
    <2>1. \A u \in Tabs : flush'[u].phase = "written" => flush'[u] = flush[u]
      BY <1>10 DEF IdleFlush
    <2> QED BY <1>1, <2>1, ToldRightStays
  <1> QED BY <1>7, <1>8, <1>9, <1>11, <1>12 DEF IndInv

-----------------------------------------------------------------------------
LEMMA Keeps == IndInv /\ [Next]_vars => IndInv'
  <1> SUFFICES ASSUME IndInv, [Next]_vars PROVE IndInv'
    OBVIOUS
  <1>1. ASSUME NEW t \in Tabs, NEW k \in Keys,
               PressOffline(t, k) \/ PressOnline(t, k) \/ Serve(t, k) \/ Discard(t, k)
        PROVE  IndInv'
    BY <1>1, PressOfflineKeeps, PressOnlineKeeps, ServeKeeps, DiscardKeeps
  <1>2. ASSUME NEW t \in Tabs,
               \/ FormAnswered(t) \/ FormLost(t)
               \/ Start(t) \/ Lose(t) \/ Remove(t) \/ HoldBack(t) \/ BackOff(t)
        PROVE  IndInv'
    BY <1>2, FormAnsweredKeeps, FormLostKeeps, StartKeeps, LoseKeeps, RemoveKeeps,
       HoldBackKeeps, BackOffKeeps
  <1>3. ASSUME NEW t \in Tabs, Render(t) \/ Forget(t) \/ EndSession(t) \/ Close(t)
        PROVE  IndInv'
    BY <1>3, RenderKeeps, ForgetKeeps, EndSessionKeeps, CloseKeeps
  <1>4. ASSUME NEW t \in Tabs, NEW p \in People, SignIn(t, p)
        PROVE  IndInv'
    BY <1>4, SignInKeeps
  <1>5. ASSUME NEW k \in Keys, BecomeDue(k)
        PROVE  IndInv'
    BY <1>5, BecomeDueKeeps
  <1>6. ASSUME NEW q \in late, HandleLate(q)
        PROVE  IndInv'
    BY <1>6, HandleLateKeeps
  <1>7. CASE LoseSession \/ ArchiveOrRestore
    BY <1>7, LoseSessionKeeps, ArchiveKeeps
  <1>8. CASE UNCHANGED vars
    BY <1>8, DeviceKeeps DEF vars, device, server, IndInv, TypeOK
  <1> QED BY <1>1, <1>2, <1>3, <1>4, <1>5, <1>6, <1>7, <1>8 DEF Next

(* The invariant that everything below rests on.                            *)
THEOREM Inductive == Spec => []IndInv
  <1>1. Init => IndInv
    BY Initially
  <1>2. IndInv /\ [Next]_vars => IndInv'
    BY Keeps
  <1> QED BY <1>1, <1>2, PTL DEF Spec

(* Every variable keeps its type, and a record is filed under its press's   *)
(* key.                                                                     *)
THEOREM TypeCorrect == Spec => []TypeOK
  <1>1. IndInv => TypeOK
    BY DEF IndInv
  <1> QED BY <1>1, Inductive, PTL

(* One press of the button makes one expense at most, whichever of the      *)
(* form, the drains and the requests that were given up on has carried it.  *)
THEOREM OnceWritten == Spec => []WrittenOnce
  <1>1. IndInv => WrittenOnce
    BY DEF IndInv, WrittenOnce, KeysOnce, Named
  <1> QED BY <1>1, Inductive, PTL

-----------------------------------------------------------------------------
(* What each step does to the queue.                                        *)

Dropping(k) == outbox[k] # Absent /\ outbox'[k] = Absent

LEMMA EnqueueDrops ==
  ASSUME IndInv, NEW j \in Keys, NEW owner \in People, Enqueue(j, owner),
         NEW k \in Keys
  PROVE  ~Dropping(k)
  <1>1. DOMAIN outbox = Keys
    BY DEF IndInv, TypeOK
  <1> DEFINE e == [key |-> j, what |-> j, owner |-> owner, at |-> stamp + 1,
                   status |-> "queued", waiting |-> FALSE]
  <1>2. outbox' = [outbox EXCEPT ![j] = e]
    BY DEF Enqueue, QueueKey
  <1>3. e # Absent
    <2>1. e.key = j
      OBVIOUS
    <2>2. j # 0 /\ Absent.key = 0
      BY BoundAssumption DEF Keys, Absent
    <2> HIDE DEF e
    <2> QED BY <2>1, <2>2
  <1> HIDE DEF e
  <1> QED BY <1>1, <1>2, <1>3 DEF Dropping

(* The steps of a drain that put a copy back drop nothing.                  *)
LEMMA CopyDrops ==
  ASSUME IndInv, NEW t \in Tabs, HoldBack(t) \/ BackOff(t), NEW k \in Keys
  PROVE  ~Dropping(k)
  <1>1. flush[t] # IdleFlush /\ DOMAIN outbox = Keys
    BY DEF HoldBack, BackOff, IdleFlush, IndInv, TypeOK
  <1>2. flush[t].entry \in Entry
    BY <1>1, Draining
  <1>3. PICK e \in Entry : Store(t, e)
    <2>1. [flush[t].entry EXCEPT !.status = "blocked"] \in Entry
      BY <1>2 DEF Entry
    <2>2. [flush[t].entry EXCEPT !.waiting = TRUE] \in Entry
      BY <1>2 DEF Entry
    <2> QED BY <2>1, <2>2 DEF HoldBack, BackOff
  <1> QED BY <1>1, <1>3, EntryIsThere DEF Store, Dropping

LEMMA DueDrops ==
  ASSUME IndInv, NEW j \in Keys, BecomeDue(j), NEW k \in Keys
  PROVE  ~Dropping(k)
  <1>1. outbox[j] \in Entry /\ DOMAIN outbox = Keys
    BY DEF BecomeDue, Queued, IndInv, TypeOK
  <1>2. PICK e \in Entry : outbox' = [outbox EXCEPT ![j] = e]
    <2>1. [outbox[j] EXCEPT !.waiting = FALSE] \in Entry
      BY <1>1 DEF Entry
    <2> QED BY <2>1 DEF BecomeDue
  <1> QED BY <1>1, <1>2, EntryIsThere DEF Dropping

(* A drain removes what it was told is written.                             *)
LEMMA RemoveDrops ==
  ASSUME IndInv, NEW t \in Tabs, Remove(t), NEW k \in Keys, Dropping(k)
  PROVE  Written(k)
  <1>1. flush[t].phase = "written" /\ flush[t] # IdleFlush /\ Store(t, Absent)
    BY DEF Remove, IdleFlush
  <1>2. k = flush[t].entry.key
    BY <1>1 DEF Store, Dropping, IndInv, TypeOK
  <1>3. flush[t].entry.what = flush[t].entry.key
    BY <1>1, Draining DEF CopyOf
  <1> QED BY <1>1, <1>2, <1>3 DEF IndInv, ToldRight

(* Every step, the queue's records and what becomes of them.                *)
LEMMA Drops ==
  ASSUME IndInv, Next, NEW k \in Queued, outbox'[k] = Absent
  PROVE  \/ Written(k)
         \/ outbox[k].status = "blocked" /\ \E t \in Tabs : page[t] = outbox[k].owner
         \/ leaving # leaving'
  <1>1. k \in Keys /\ Dropping(k) /\ outbox' # outbox
    BY DEF Queued, Dropping
  <1>2. ASSUME NEW t \in Tabs, NEW j \in Keys, PressOffline(t, j)
        PROVE  FALSE
    <2>1. Enqueue(j, page[t]) /\ page[t] \in People
      BY <1>2, Pressing DEF PressOffline
    <2> QED BY <1>1, <2>1, EnqueueDrops
  <1>3. ASSUME NEW t \in Tabs, FormLost(t)
        PROVE  FALSE
    <2>1. /\ Enqueue(form[t].what, author[form[t].what])
          /\ form[t] \in Request /\ form[t].what = form[t].key /\ author[form[t].key] \in People
      BY <1>3 DEF FormLost, IndInv, TypeOK, FormNamed
    <2>2. form[t].what \in Keys /\ author[form[t].what] \in People
      BY <2>1 DEF Request
    <2> QED BY <1>1, <2>1, <2>2, EnqueueDrops
  <1>4. ASSUME NEW t \in Tabs, HoldBack(t) \/ BackOff(t)
        PROVE  FALSE
    BY <1>1, <1>4, CopyDrops
  <1>5. ASSUME NEW j \in Keys, BecomeDue(j)
        PROVE  FALSE
    BY <1>1, <1>5, DueDrops
  <1>6. ASSUME NEW t \in Tabs, Remove(t)
        PROVE  Written(k)
    BY <1>1, <1>6, RemoveDrops
  <1>7. ASSUME NEW t \in Tabs, NEW j \in Keys, Discard(t, j)
        PROVE  outbox[k].status = "blocked" /\ \E u \in Tabs : page[u] = outbox[k].owner
    BY <1>1, <1>7 DEF Discard, Dropping, IndInv, TypeOK
  <1>8. ASSUME NEW t \in Tabs, Forget(t)
        PROVE  leaving # leaving'
    BY <1>8 DEF Forget
  <1>9. ASSUME NEW t \in Tabs, NEW j \in Keys, PressOnline(t, j) \/ Serve(t, j)
        PROVE  FALSE
    BY <1>1, <1>9 DEF PressOnline, Serve
  <1>10. ASSUME NEW t \in Tabs,
                FormAnswered(t) \/ Start(t) \/ Lose(t) \/ Render(t) \/ EndSession(t) \/ Close(t)
         PROVE  FALSE
    BY <1>1, <1>10 DEF FormAnswered, Start, Lose, Render, EndSession, Close, client
  <1>11. ASSUME NEW t \in Tabs, NEW p \in People, SignIn(t, p)
         PROVE  FALSE
    BY <1>1, <1>11 DEF SignIn, client
  <1>12. ASSUME NEW q \in late, HandleLate(q)
         PROVE  FALSE
    BY <1>1, <1>12 DEF HandleLate
  <1>13. ~LoseSession /\ ~ArchiveOrRestore
    BY <1>1 DEF LoseSession, ArchiveOrRestore, client
  <1> QED BY <1>2, <1>3, <1>4, <1>5, <1>6, <1>7, <1>8, <1>9, <1>10, <1>11, <1>12, <1>13 DEF Next

(* A queued entry leaves the queue only once it has been written, or with a *)
(* discard of what was held back, or with a sign-out.                       *)
THEOREM NoneLost == Spec => NothingLost
  <1>1. IndInv /\ [Next]_vars =>
          [\A k \in Queued :
             outbox'[k] = Absent =>
               \/ Written(k)
               \/ outbox[k].status = "blocked" /\ \E t \in Tabs : page[t] = outbox[k].owner
               \/ leaving # leaving']_vars
    BY Drops
  <1> QED BY <1>1, Inductive, PTL DEF Spec, NothingLost

-----------------------------------------------------------------------------
(***************************************************************************)
(* A press whose form still waits is carried by nothing else of the         *)
(* browser: not by the queue, a drain, or another tab's form.               *)
(***************************************************************************)
Drained(k) ==
  \E t \in Tabs : flush[t] # IdleFlush /\
    (flush[t].entry.key = k \/ \E e \in flush[t].left : e.key = k)

Carried(k) == k \in Queued \/ Drained(k)

FormAlone ==
  \A t \in Tabs : form[t] # NoForm =>
    /\ ~Carried(form[t].key)
    /\ \A u \in Tabs \ {t} : form[u] # NoForm => form[u].key # form[t].key

LEMMA AloneStays ==
  ASSUME IndInv, FormAlone, \A t \in Tabs : form'[t] = form[t] \/ form'[t] = NoForm,
         \A k \in Keys : Carried(k)' => Carried(k)
  PROVE  FormAlone'
  <1> SUFFICES ASSUME NEW t \in Tabs, form'[t] # NoForm
               PROVE  /\ ~Carried(form[t].key)'
                      /\ \A u \in Tabs \ {t} : form'[u] # NoForm => form'[u].key # form'[t].key
    BY DEF FormAlone
  <1>1. form'[t] = form[t] /\ form[t] # NoForm
    OBVIOUS
  <1> DEFINE k == form[t].key
  <1>2. k \in Keys
    BY <1>1 DEF IndInv, TypeOK, Request
  <1>3. ~Carried(k) /\ \A u \in Tabs \ {t} : form[u] # NoForm => form[u].key # k
    BY <1>1 DEF FormAlone
  <1>4. PICK j \in Keys : j = k
    BY <1>2
  <1>5. ~Carried(j)'
    BY <1>3, <1>4
  <1>6. form'[t].key = j
    BY <1>1, <1>4
  <1>7. ~Carried(form[t].key)'
    BY <1>5, <1>6 DEF Carried, Drained
  <1> QED BY <1>1, <1>3, <1>7

(* A drain that goes on, or starts, carries what it held or what it reads.  *)
LEMMA SendCarries ==
  ASSUME IndInv, NEW t \in Tabs, NEW p, NEW read, SendNext(t, p, read),
         NEW k \in Keys, Drained(k)'
  PROVE  Drained(k) \/ \E e \in read : e.key = k
  <1>1. PICK u \in Tabs : /\ flush'[u] # IdleFlush
                          /\ flush'[u].entry.key = k \/ \E e \in flush'[u].left : e.key = k
    BY DEF Drained
  <1>2. flush \in [Tabs -> FlushType \cup {IdleFlush}]
    BY DEF IndInv, TypeOK
  <1>3. CASE u # t
    <2>1. flush'[u] = flush[u]
      BY <1>2, <1>3 DEF SendNext
    <2> QED BY <1>1, <2>1 DEF Drained
  <1>4. CASE u = t
    <2>1. flush'[t] # IdleFlush
      BY <1>1, <1>4
    <2>2. PICK e \in read : flush'[t] =
            [phase |-> "sent", actor |-> p, entry |-> e, left |-> read \ {e}, as |-> session]
      BY <1>2, <2>1 DEF SendNext
    <2>3. flush'[t].entry = e /\ flush'[t].left = read \ {e}
      BY <2>2
    <2> QED BY <1>1, <1>4, <2>3
  <1> QED BY <1>3, <1>4

(* The steps of the device, the group and the server carry nothing anew.    *)
LEMMA StillAlone ==
  ASSUME IndInv, FormAlone, UNCHANGED <<outbox, flush>>,
         \A t \in Tabs : form'[t] = form[t] \/ form'[t] = NoForm
  PROVE  FormAlone'
  <1>1. \A k \in Keys : Carried(k)' => Carried(k)
    BY DEF Carried, Queued, Drained
  <1> QED BY <1>1, AloneStays

LEMMA AnswerAlone ==
  ASSUME IndInv, FormAlone, NEW t \in Tabs, NEW verdict \in {"written", "blocked", "retry"},
         Answered(t, verdict), flush[t] # IdleFlush, UNCHANGED <<outbox, form>>
  PROVE  FormAlone'
  <1>1. flush \in [Tabs -> FlushType \cup {IdleFlush}] /\ flush[t] \in FlushType
    BY DEF IndInv, TypeOK
  <1>2. \A u \in Tabs : flush'[u] # IdleFlush =>
          /\ flush[u] # IdleFlush /\ flush'[u].entry = flush[u].entry
          /\ flush'[u].left = flush[u].left
    <2> TAKE u \in Tabs
    <2>1. CASE u = t
      BY <1>1, <2>1 DEF Answered, FlushType
    <2>2. CASE u # t
      BY <1>1, <2>2 DEF Answered
    <2> QED BY <2>1, <2>2
  <1>3. \A k \in Keys : Carried(k)' => Carried(k)
    BY <1>2 DEF Carried, Queued, Drained
  <1> QED BY <1>3, AloneStays

(* A step that stores something under a key that a drain carries, or that   *)
(* is queued, and whose drain goes on with what it held.                    *)
LEMMA StoreAlone ==
  ASSUME IndInv, FormAlone, NEW t \in Tabs, flush[t] # IdleFlush, form' = form,
         NEW e, Store(t, e),
         NEW read \in SUBSET flush[t].left, SendNext(t, flush[t].actor, read)
  PROVE  FormAlone'
  <1>1. DOMAIN outbox = Keys
    BY DEF IndInv, TypeOK
  <1> SUFFICES ASSUME NEW k \in Keys, Carried(k)'
               PROVE  Carried(k)
    BY AloneStays
  <1>2. CASE k \in Queued'
    <2>1. k = flush[t].entry.key \/ k \in Queued
      BY <1>1, <1>2 DEF Store, Queued
    <2> QED BY <2>1 DEF Carried, Drained
  <1>3. CASE Drained(k)'
    <2>1. Drained(k) \/ \E f \in read : f.key = k
      BY <1>3, SendCarries
    <2> QED BY <2>1 DEF Carried, Drained
  <1> QED BY <1>2, <1>3 DEF Carried

(* What waits for its first request is carried by nothing yet.              *)
LEMMA FreshIsFree ==
  ASSUME IndInv, NEW t \in Tabs, NEW k \in Keys, Press(t, k)
  PROVE  ~Carried(k) /\ \A u \in Tabs : form[u] # NoForm => form[u].key # k
  <1>1. author[k] \notin People
    BY PeopleAssumption DEF Press
  <1>2. k \notin Queued
    BY <1>1 DEF IndInv, QueueSigned, TypeOK, Entry
  <1>3. ~Drained(k)
    <2> SUFFICES ASSUME NEW u \in Tabs, flush[u] # IdleFlush
                 PROVE  flush[u].entry.key # k /\ \A e \in flush[u].left : e.key # k
      BY DEF Drained
    <2> QED BY <1>1, Draining DEF CopyOf
  <1>4. \A u \in Tabs : form[u] # NoForm => form[u].key # k
    BY <1>1 DEF IndInv, FormNamed
  <1> QED BY <1>2, <1>3, <1>4 DEF Carried

LEMMA PressAlone ==
  ASSUME IndInv, FormAlone, NEW t \in Tabs, NEW k \in Keys,
         PressOffline(t, k) \/ PressOnline(t, k)
  PROVE  FormAlone'
  <1>1. ~Carried(k) /\ \A u \in Tabs : form[u] # NoForm => form[u].key # k
    BY FreshIsFree DEF PressOffline, PressOnline
  <1>2. flush' = flush /\ DOMAIN outbox = Keys /\ form \in [Tabs -> Request \cup {NoForm}]
    BY DEF PressOffline, PressOnline, IndInv, TypeOK
  <1>3. CASE PressOffline(t, k)
    <2> SUFFICES ASSUME NEW u \in Tabs, form[u] # NoForm
                 PROVE  ~Carried(form[u].key)'
      BY <1>3 DEF PressOffline, FormAlone
    <2>1. form[u].key # k /\ ~Carried(form[u].key)
      BY <1>1 DEF FormAlone
    <2>2. form' = form /\ outbox' = [outbox EXCEPT ![k] = outbox'[k]]
      BY <1>2, <1>3 DEF PressOffline, Enqueue, QueueKey
    <2> QED BY <1>2, <2>1, <2>2 DEF Carried, Queued, Drained
  <1>4. CASE PressOnline(t, k)
    <2>1. outbox' = outbox /\ form'[t].key = k /\ \A u \in Tabs \ {t} : form'[u] = form[u]
      BY <1>2, <1>4 DEF PressOnline
    <2>2. \A u \in Tabs : form'[u] # NoForm => ~Carried(form'[u].key)
      BY <1>1, <2>1 DEF FormAlone
    <2>3. \A u \in Tabs : \A v \in Tabs \ {u} :
            form'[u] # NoForm /\ form'[v] # NoForm => form'[v].key # form'[u].key
      BY <1>1, <2>1 DEF FormAlone
    <2>4. \A u \in Tabs : form'[u] # NoForm => ~Carried(form[u].key)'
      BY <1>2, <2>1, <2>2 DEF Carried, Queued, Drained
    <2> QED BY <2>3, <2>4 DEF FormAlone
  <1> QED BY <1>3, <1>4

LEMMA LostAlone ==
  ASSUME IndInv, FormAlone, NEW t \in Tabs, FormLost(t)
  PROVE  FormAlone'
  <1> DEFINE k == form[t].key
  <1>1. k \in Keys /\ form[t].what = k /\ DOMAIN outbox = Keys
    BY DEF FormLost, IndInv, TypeOK, Request, FormNamed
  <1>2. flush' = flush /\ form' = [form EXCEPT ![t] = NoForm]
        /\ form \in [Tabs -> Request \cup {NoForm}]
    BY DEF FormLost, IndInv, TypeOK
  <1>3. \A j \in Keys : j # k => outbox'[j] = outbox[j]
    BY <1>1 DEF FormLost, Enqueue, QueueKey
  <1> SUFFICES ASSUME NEW u \in Tabs, form'[u] # NoForm
               PROVE  /\ ~Carried(form[u].key)'
                      /\ \A v \in Tabs \ {u} : form'[v] # NoForm => form'[v].key # form'[u].key
    BY DEF FormAlone
  <1>4. u # t /\ form'[u] = form[u]
    BY <1>2
  <1>5. form[u].key # k /\ ~Carried(form[u].key)
    BY <1>4 DEF FormAlone, FormLost
  <1>6. ~Carried(form[u].key)'
    BY <1>2, <1>3, <1>4, <1>5 DEF Carried, Queued, Drained
  <1>7. \A v \in Tabs \ {u} : form'[v] # NoForm => form'[v].key # form'[u].key
    BY <1>2, <1>4 DEF FormAlone
  <1> QED BY <1>6, <1>7

LEMMA StartAlone ==
  ASSUME IndInv, FormAlone, NEW t \in Tabs, Start(t)
  PROVE  FormAlone'
  <1>1. /\ SendNext(t, page[t], ToSend(page[t])) /\ form' = form /\ outbox' = outbox
    BY DEF Start
  <1>2. \A e \in ToSend(page[t]) : e.key \in Queued
    BY DEF ToSend, IndInv, TypeOK
  <1> SUFFICES ASSUME NEW k \in Keys, Carried(k)'
               PROVE  Carried(k)
    BY <1>1, AloneStays
  <1>3. CASE k \in Queued'
    BY <1>1, <1>3 DEF Queued, Carried
  <1>4. CASE Drained(k)'
    <2>1. Drained(k) \/ \E e \in ToSend(page[t]) : e.key = k
      BY <1>1, <1>4, SendCarries
    <2> QED BY <1>2, <2>1 DEF Carried
  <1> QED BY <1>3, <1>4 DEF Carried

(* The steps that take records away, or drains, or only make one due.       *)
LEMMA LessAlone ==
  ASSUME IndInv, FormAlone, \A t \in Tabs : form'[t] = form[t] \/ form'[t] = NoForm,
         \A t \in Tabs : flush'[t] = flush[t] \/ flush'[t] = IdleFlush,
         Queued' \subseteq Queued
  PROVE  FormAlone'
  <1>1. \A k \in Keys : Carried(k)' => Carried(k)
    BY DEF Carried, Drained
  <1> QED BY <1>1, AloneStays

LEMMA AloneKeeps == IndInv /\ FormAlone /\ [Next]_vars => FormAlone'
  <1> SUFFICES ASSUME IndInv, FormAlone, [Next]_vars PROVE FormAlone'
    OBVIOUS
  <1>0. /\ DOMAIN outbox = Keys
        /\ form \in [Tabs -> Request \cup {NoForm}]
        /\ flush \in [Tabs -> FlushType \cup {IdleFlush}]
    BY DEF IndInv, TypeOK
  <1>1. ASSUME NEW t \in Tabs, NEW k \in Keys, PressOffline(t, k) \/ PressOnline(t, k)
        PROVE  FormAlone'
    BY <1>1, PressAlone
  <1>2. ASSUME NEW t \in Tabs, NEW k \in Keys, Serve(t, k)
        PROVE  FormAlone'
    <2>1. PICK status \in {201, 401, 409, 422} : Answered(t, Verdict(status))
      BY <1>2 DEF Serve
    <2>2. Verdict(status) \in {"written", "blocked", "retry"}
      BY DEF Verdict
    <2> QED BY <1>2, <2>1, <2>2, AnswerAlone DEF Serve, IdleFlush
  <1>3. ASSUME NEW t \in Tabs, Lose(t)
        PROVE  FormAlone'
    BY <1>3, AnswerAlone DEF Lose, IdleFlush, device, server
  <1>4. ASSUME NEW t \in Tabs, Remove(t) \/ HoldBack(t)
        PROVE  FormAlone'
    BY <1>4, StoreAlone DEF Remove, HoldBack, IdleFlush
  <1>5. ASSUME NEW t \in Tabs, BackOff(t)
        PROVE  FormAlone'
    <2>1. SendNext(t, flush[t].actor, {})
      BY <1>5 DEF BackOff, SendNext
    <2> QED BY <1>5, <2>1, StoreAlone DEF BackOff, IdleFlush
  <1>6. ASSUME NEW t \in Tabs, FormAnswered(t)
        PROVE  FormAlone'
    BY <1>0, <1>6, StillAlone DEF FormAnswered
  <1>7. ASSUME NEW t \in Tabs, FormLost(t)
        PROVE  FormAlone'
    BY <1>7, LostAlone
  <1>8. ASSUME NEW t \in Tabs, Start(t)
        PROVE  FormAlone'
    BY <1>8, StartAlone
  <1>9. ASSUME NEW t \in Tabs, NEW k \in Keys, Discard(t, k)
        PROVE  FormAlone'
    <2>1. Queued' \subseteq Queued
      BY <1>0, <1>9 DEF Discard, Queued
    <2> QED BY <1>9, <2>1, LessAlone DEF Discard
  <1>10. ASSUME NEW k \in Keys, BecomeDue(k)
         PROVE  FormAlone'
    <2>1. Queued' \subseteq Queued
      BY <1>0, <1>10 DEF BecomeDue, Queued
    <2> QED BY <1>10, <2>1, LessAlone DEF BecomeDue
  <1>11. ASSUME NEW t \in Tabs, Forget(t)
         PROVE  FormAlone'
    <2>1. Queued' \subseteq Queued
      BY <1>11 DEF Forget, Queued
    <2> QED BY <1>11, <2>1, LessAlone DEF Forget
  <1>12. ASSUME NEW t \in Tabs, Close(t)
         PROVE  FormAlone'
    <2>1. Queued' \subseteq Queued
      BY <1>12 DEF Close, Queued
    <2> QED BY <1>0, <1>12, <2>1, LessAlone DEF Close
  <1>13. ASSUME NEW t \in Tabs, Render(t) \/ EndSession(t)
         PROVE  FormAlone'
    BY <1>13, StillAlone DEF Render, EndSession, client
  <1>14. ASSUME NEW t \in Tabs, NEW p \in People, SignIn(t, p)
         PROVE  FormAlone'
    BY <1>14, StillAlone DEF SignIn, client
  <1>15. ASSUME NEW q \in late, HandleLate(q)
         PROVE  FormAlone'
    BY <1>15, StillAlone DEF HandleLate
  <1>16. CASE LoseSession \/ ArchiveOrRestore \/ UNCHANGED vars
    BY <1>16, StillAlone DEF LoseSession, ArchiveOrRestore, vars, client
  <1> QED BY <1>1, <1>2, <1>3, <1>4, <1>5, <1>6, <1>7, <1>8, <1>9, <1>10, <1>11, <1>12,
             <1>13, <1>14, <1>15, <1>16 DEF Next

(* A press that a form waits for is carried by nothing else.                *)
THEOREM CarriedOnce == Spec => []FormAlone
  <1>1. Init => FormAlone
    BY DEF Init, FormAlone
  <1>2. IndInv /\ FormAlone /\ [Next]_vars => FormAlone'
    BY AloneKeeps
  <1> QED BY <1>1, <1>2, Inductive, PTL DEF Spec

-----------------------------------------------------------------------------
(* Who changes a record.                                                    *)
Touched(k) == outbox'[k] # outbox[k]

LEMMA DrainTouches ==
  ASSUME IndInv, NEW t \in Tabs, Remove(t) \/ HoldBack(t) \/ BackOff(t),
         NEW k \in Queued, Touched(k)
  PROVE  DrainsFor(t, outbox[k].owner)
  <1>1. flush[t] # IdleFlush /\ DOMAIN outbox = Keys
    BY DEF Remove, HoldBack, BackOff, IdleFlush, IndInv, TypeOK
  <1>2. k = flush[t].entry.key
    BY <1>1 DEF Remove, HoldBack, BackOff, Store, Touched, Queued
  <1>3. flush[t].actor = author[k]
    BY <1>1, <1>2, Draining DEF CopyOf
  <1> QED BY <1>1, <1>3 DEF DrainsFor, IndInv, QueueSigned

LEMMA Touches ==
  ASSUME IndInv, FormAlone, Next, NEW k \in Queued
  PROVE  \/ outbox'[k] = outbox[k]
         \/ outbox'[k] = [outbox[k] EXCEPT !.waiting = FALSE]
         \/ \E t \in Tabs : page[t] = outbox[k].owner \/ DrainsFor(t, outbox[k].owner)
         \/ leaving # leaving'
  <1> SUFFICES ASSUME Touched(k)
               PROVE  \/ outbox'[k] = [outbox[k] EXCEPT !.waiting = FALSE]
                      \/ \E t \in Tabs : page[t] = outbox[k].owner \/ DrainsFor(t, outbox[k].owner)
                      \/ leaving # leaving'
    BY DEF Touched
  <1>1. k \in Keys /\ outbox' # outbox /\ DOMAIN outbox = Keys
    BY DEF Queued, Touched, IndInv, TypeOK
  <1>2. ASSUME NEW t \in Tabs, NEW j \in Keys, PressOffline(t, j)
        PROVE  FALSE
    <2>1. j # k
      BY <1>2, FreshIsFree DEF PressOffline, Carried
    <2> QED BY <1>1, <1>2, <2>1 DEF PressOffline, Enqueue, QueueKey, Touched
  <1>3. ASSUME NEW t \in Tabs, FormLost(t)
        PROVE  FALSE
    <2>1. form[t].what # k
      BY <1>3 DEF FormLost, FormAlone, Carried, IndInv, FormNamed
    <2> QED BY <1>1, <1>3, <2>1 DEF FormLost, Enqueue, QueueKey, Touched
  <1>4. ASSUME NEW t \in Tabs, Remove(t) \/ HoldBack(t) \/ BackOff(t)
        PROVE  DrainsFor(t, outbox[k].owner)
    BY <1>4, DrainTouches
  <1>5. ASSUME NEW j \in Keys, BecomeDue(j)
        PROVE  outbox'[k] = [outbox[k] EXCEPT !.waiting = FALSE]
    BY <1>1, <1>5 DEF BecomeDue, Touched
  <1>6. ASSUME NEW t \in Tabs, NEW j \in Keys, Discard(t, j)
        PROVE  page[t] = outbox[k].owner
    BY <1>1, <1>6 DEF Discard, Touched
  <1>7. ASSUME NEW t \in Tabs, Forget(t)
        PROVE  leaving # leaving'
    BY <1>7 DEF Forget
  <1>8. ASSUME NEW t \in Tabs, NEW j \in Keys, PressOnline(t, j) \/ Serve(t, j)
        PROVE  FALSE
    BY <1>1, <1>8 DEF PressOnline, Serve
  <1>9. ASSUME NEW t \in Tabs,
               FormAnswered(t) \/ Start(t) \/ Lose(t) \/ Render(t) \/ EndSession(t) \/ Close(t)
        PROVE  FALSE
    BY <1>1, <1>9 DEF FormAnswered, Start, Lose, Render, EndSession, Close, client
  <1>10. ASSUME NEW t \in Tabs, NEW p \in People, SignIn(t, p)
         PROVE  FALSE
    BY <1>1, <1>10 DEF SignIn, client
  <1>11. ASSUME NEW q \in late, HandleLate(q)
         PROVE  FALSE
    BY <1>1, <1>11 DEF HandleLate
  <1>12. ~LoseSession /\ ~ArchiveOrRestore
    BY <1>1 DEF LoseSession, ArchiveOrRestore, client
  <1> QED BY <1>2, <1>3, <1>4, <1>5, <1>6, <1>7, <1>8, <1>9, <1>10, <1>11, <1>12 DEF Next

(* Somebody else's entries wait untouched: a record is changed by its       *)
(* author's page or drain, by the passing of its backoff, or by a sign-out. *)
THEOREM OthersLeftAlone == Spec => OthersUntouched
  <1>1. IndInv /\ FormAlone /\ [Next]_vars =>
          [\A k \in Queued :
             \/ outbox'[k] = outbox[k]
             \/ outbox'[k] = [outbox[k] EXCEPT !.waiting = FALSE]
             \/ \E t \in Tabs : page[t] = outbox[k].owner \/ DrainsFor(t, outbox[k].owner)
             \/ leaving # leaving']_vars
    BY Touches
  <1> QED BY <1>1, Inductive, CarriedOnce, PTL DEF Spec, OthersUntouched

-----------------------------------------------------------------------------
(* Money: the rows of what is typed. *)

(* The sum over the people. *)
LEMMA SumOfIs ==
  ASSUME NEW f \in Parts(Int)
  PROVE  /\ SumOf(f) = SumFunctionOnSet(f, Heads) /\ SumOf(f) \in Int
         /\ Whole(f, Heads) /\ IsFiniteSet(Heads)
  <1>1. SumOf(f) = SumFunctionOnSet(f, Heads)
    BY DEF SumOf, FoldFunction, SumFunctionOnSet, Parts
  <1>2. IsFiniteSet(Heads) /\ Whole(f, Heads)
    BY FS_Interval, MoneyAssumption DEF Heads, Whole, Parts
  <1> QED BY <1>1, <1>2, SumAny

(* How many people there are. *)
LEMMA HeadsFinite == IsFiniteSet(Heads) /\ Cardinality(Heads) = Headcount /\ Headcount \in Nat \ {0}
  BY MoneyAssumption, FS_Interval DEF Heads

(* Division with a remainder. *)
LEMMA Divided ==
  ASSUME NEW a \in Int, NEW b \in Nat, b > 0
  PROVE  /\ a \div b \in Int /\ a % b \in Nat /\ a % b < b /\ b * (a \div b) \in Int
         /\ a = b * (a \div b) + (a % b)
         /\ (a >= 0 => a \div b >= 0)
  <1> DEFINE q == a \div b  r == a % b
  <1>1. q \in Int /\ r \in Nat /\ r < b
    OBVIOUS
  <1>2. a = b * q + r
    OBVIOUS
  <1> HIDE DEF q, r
  <1>3. b * q \in Int
    BY <1>1
  <1>4. ASSUME a >= 0 PROVE q >= 0
    <2>1. \A k \in Int : k <= -1 => b * k <= -b
      OBVIOUS
    <2> QED BY <1>1, <1>2, <1>4, <2>1
  <1> QED BY <1>1, <1>2, <1>3, <1>4 DEF q, r

-----------------------------------------------------------------------------
(* Who comes before whom where units are handed out. *)

Rank(rem, p) == Cardinality(Ahead(rem, p))

LEMMA RankIn ==
  ASSUME NEW rem \in Parts(Int), NEW p \in Heads
  PROVE  Rank(rem, p) \in 0..(Headcount - 1) /\ IsFiniteSet(Ahead(rem, p))
  <1>1. Ahead(rem, p) \subseteq Heads /\ p \in Heads \ Ahead(rem, p)
    BY DEF Ahead, Parts, Heads
  <1>2. IsFiniteSet(Ahead(rem, p)) /\ Cardinality(Ahead(rem, p)) <= Cardinality(Heads)
        /\ Cardinality(Ahead(rem, p)) # Cardinality(Heads)
    BY <1>1, HeadsFinite, FS_Subset
  <1>3. Cardinality(Ahead(rem, p)) \in Nat
    BY <1>2, FS_CardinalityType
  <1> QED BY <1>2, <1>3, HeadsFinite DEF Rank

(* Of two people one is ahead, and has the lower rank. *)
LEMMA RanksApart ==
  ASSUME NEW rem \in Parts(Int), NEW p \in Heads, NEW q \in Heads, p # q
  PROVE  /\ p \in Ahead(rem, q) \/ q \in Ahead(rem, p)
         /\ q \in Ahead(rem, p) => Rank(rem, q) < Rank(rem, p)
  <1>1. p \in Int /\ q \in Int /\ rem[p] \in Int /\ rem[q] \in Int
    BY DEF Heads, Parts
  <1>2. p \in Ahead(rem, q) \/ q \in Ahead(rem, p)
    BY <1>1 DEF Ahead
  <1>3. ASSUME q \in Ahead(rem, p) PROVE Rank(rem, q) < Rank(rem, p)
    <2>1. Ahead(rem, q) \subseteq Ahead(rem, p)
      <3> SUFFICES ASSUME NEW x \in Ahead(rem, q) PROVE x \in Ahead(rem, p)
        OBVIOUS
      <3>1. x \in Heads /\ x \in Int /\ rem[x] \in Int
        BY DEF Ahead, Heads, Parts
      <3> QED BY <1>1, <1>3, <3>1 DEF Ahead
    <2>2. q \notin Ahead(rem, q)
      BY <1>1 DEF Ahead
    <2>3. IsFiniteSet(Ahead(rem, p)) /\ Cardinality(Ahead(rem, q)) <= Cardinality(Ahead(rem, p))
          /\ Cardinality(Ahead(rem, q)) # Cardinality(Ahead(rem, p))
      BY <1>3, <2>1, <2>2, RankIn, FS_Subset
    <2> QED BY <2>3, RankIn DEF Rank
  <1> QED BY <1>2, <1>3

(* So as many people have a rank below n as n says. *)
LEMMA FirstFew ==
  ASSUME NEW rem \in Parts(Int), NEW n \in 0..Headcount
  PROVE  Cardinality({p \in Heads : Rank(rem, p) < n}) = n
  <1> DEFINE rank == [p \in Heads |-> Rank(rem, p)]
             H == 0..(Headcount - 1)
             T == {p \in Heads : Rank(rem, p) < n}
             U == 0..(n - 1)
             f == [p \in T |-> Rank(rem, p)]
  <1>1. \A p, q \in Heads : Rank(rem, p) = Rank(rem, q) => p = q
    <2> SUFFICES ASSUME NEW p \in Heads, NEW q \in Heads, Rank(rem, p) = Rank(rem, q), p # q
                 PROVE  FALSE
      OBVIOUS
    <2>1. Rank(rem, p) \in Int /\ Rank(rem, q) \in Int
      BY RankIn
    <2>2. Rank(rem, p) < Rank(rem, q) \/ Rank(rem, q) < Rank(rem, p)
      BY RanksApart
    <2> QED BY <2>1, <2>2
  <1>2. rank \in Injection(Heads, H)
    <2>1. \A p \in Heads : rank[p] \in H
      BY RankIn
    <2>2. \A p, q \in Heads : rank[p] = rank[q] => p = q
      BY <1>1
    <2> HIDE DEF H
    <2>3. rank \in [Heads -> H]
      BY <2>1
    <2> HIDE DEF rank
    <2> QED BY <2>2, <2>3 DEF Injection, IsInjective
  <1>3. IsFiniteSet(H) /\ Cardinality(H) = Cardinality(Heads)
    BY HeadsFinite, FS_Interval
  <1>4. rank \in Surjection(Heads, H)
    BY <1>2, <1>3, FS_Injection
  <1>5. f \in Bijection(T, U)
    <2>1. ASSUME NEW p \in T PROVE f[p] \in U
      <3>1. Rank(rem, p) \in 0..(Headcount - 1) /\ Rank(rem, p) < n /\ n \in Int
        BY RankIn
      <3> QED BY <3>1
    <2>2. \A p, q \in T : f[p] = f[q] => p = q
      BY <1>1
    <2>3. ASSUME NEW k \in U PROVE \E p \in T : f[p] = k
      <3>1. k \in H
        BY HeadsFinite
      <3>2. PICK p \in Heads : rank[p] = k
        BY <1>4, <3>1 DEF Surjection
      <3>3. Rank(rem, p) = k /\ k < n
        BY <3>2
      <3>4. p \in T
        BY <3>3
      <3> QED BY <3>3, <3>4
    <2>4. f \in [T -> U]
      <3> HIDE DEF T, U
      <3> QED BY <2>1
    <2> HIDE DEF T, U, f
    <2> QED BY <2>2, <2>3, <2>4 DEF Bijection, Injection, Surjection, IsInjective
  <1>6. IsFiniteSet(T) /\ IsFiniteSet(U) /\ Cardinality(U) = n
    BY HeadsFinite, FS_Subset, FS_Interval
  <1>7. Cardinality(U) = Cardinality(T)
    <2> HIDE DEF T, U, f
    <2> QED BY <1>5, <1>6, FS_Bijection DEF ExistsBijection
  <1> QED
    <2> SUFFICES Cardinality(T) = n
      OBVIOUS
    <2> HIDE DEF T, U
    <2> QED BY <1>6, <1>7

-----------------------------------------------------------------------------
(* Largest remainders. *)

(* A weighing of a sum: who is weighed, and that they weigh something. *)
Weighing(n, w) == n \in Nat /\ w \in Parts(Nat) /\ SumOf(w) > 0

Leftover(n, w) == n - SumOf(Floors(n, w))
WithRest(n, w) == {p \in Heads : Remainders(n, w)[p] > 0}

(* Everybody's part, cut to a whole unit, and what is cut off it. *)
LEMMA Cut ==
  ASSUME NEW n, NEW w, Weighing(n, w)
  PROVE  /\ SumOf(w) \in Nat \ {0}
         /\ Floors(n, w) \in Parts(Nat) /\ Remainders(n, w) \in Parts(Nat)
         /\ \A p \in Heads : /\ Remainders(n, w)[p] < SumOf(w)
                             /\ n * w[p] = SumOf(w) * Floors(n, w)[p] + Remainders(n, w)[p]
  <1> DEFINE W == SumOf(w)
  <1>1. n \in Nat /\ w \in [Heads -> Nat] /\ w \in Parts(Int) /\ W > 0
    BY DEF Weighing, Parts
  <1>2. W \in Int
    BY <1>1, SumOfIs
  <1> HIDE DEF W
  <1>3. ASSUME NEW p \in Heads
        PROVE  /\ (n * w[p]) \div W \in Nat /\ (n * w[p]) % W \in Nat /\ (n * w[p]) % W < W
               /\ n * w[p] = W * ((n * w[p]) \div W) + ((n * w[p]) % W)
    <2> DEFINE x == n * w[p]
    <2>1. x \in Int /\ x >= 0
      <3>1. w[p] \in Nat
        BY <1>1
      <3> DEFINE v == w[p]
      <3> HIDE DEF v
      <3>2. v \in Nat => n * v \in Int /\ n * v >= 0
        BY <1>1
      <3> QED BY <3>1, <3>2 DEF v
    <2> HIDE DEF x
    <2>2. /\ x \div W \in Int /\ x % W \in Nat /\ x % W < W /\ x \div W >= 0
          /\ x = W * (x \div W) + (x % W)
      BY <1>1, <1>2, <2>1, Divided
    <2> QED BY <2>2 DEF x
  <1>4. /\ Floors(n, w) = [p \in Heads |-> (n * w[p]) \div W]
        /\ Remainders(n, w) = [p \in Heads |-> (n * w[p]) % W]
    BY DEF Floors, Remainders, W
  <1>5. W \in Nat \ {0}
    BY <1>1, <1>2
  <1>6. Floors(n, w) \in Parts(Nat) /\ Remainders(n, w) \in Parts(Nat)
    BY <1>3, <1>4 DEF Parts
  <1>7. \A p \in Heads : /\ Remainders(n, w)[p] < W
                         /\ n * w[p] = W * Floors(n, w)[p] + Remainders(n, w)[p]
    BY <1>3, <1>4
  <1> QED BY <1>5, <1>6, <1>7 DEF W

(* What is left over is what was cut off, and so no more units than people *)
(* something was cut off.                                                  *)
LEMMA LeftoverIn ==
  ASSUME NEW n, NEW w, Weighing(n, w)
  PROVE  /\ Leftover(n, w) \in 0..Headcount
         /\ IsFiniteSet(WithRest(n, w)) /\ Leftover(n, w) <= Cardinality(WithRest(n, w))
         /\ SumOf(Floors(n, w)) \in Int
  <1> DEFINE W == SumOf(w)  f == Floors(n, w)  r == Remainders(n, w)  P == WithRest(n, w)
             F == SumOf(f)  R == SumOf(r)  L == Leftover(n, w)  k == Cardinality(P)
  <1>1. /\ n \in Nat /\ W \in Nat /\ W > 0 /\ w \in Parts(Int)
        /\ f \in Parts(Int) /\ r \in Parts(Int)
        /\ \A p \in Heads : /\ r[p] \in Nat /\ r[p] < W
                            /\ n * w[p] = W * f[p] + r[p]
    <2>1. /\ n \in Nat /\ W \in Nat \ {0} /\ w \in Parts(Nat)
          /\ f \in Parts(Nat) /\ r \in Parts(Nat)
          /\ \A p \in Heads : r[p] < W /\ n * w[p] = W * f[p] + r[p]
      BY Cut DEF Weighing
    <2> HIDE DEF f, r, W
    <2>2. Parts(Nat) \subseteq Parts(Int) /\ \A p \in Heads : r[p] \in Nat
      BY <2>1 DEF Parts
    <2> QED BY <2>1, <2>2
  <1>2. P \in SUBSET Heads /\ \A p \in Heads \ P : r[p] = 0
    BY <1>1 DEF WithRest
  <1> HIDE DEF f, r, W, P
  <1>3. n * W = W * F + R /\ F \in Int /\ R \in Int
    <2>1. /\ W = SumFunctionOnSet(w, Heads) /\ Whole(w, Heads) /\ IsFiniteSet(Heads)
          /\ F = SumFunctionOnSet(f, Heads) /\ Whole(f, Heads) /\ F \in Int
          /\ R = SumFunctionOnSet(r, Heads) /\ Whole(r, Heads) /\ R \in Int
      BY <1>1, SumOfIs DEF W
    <2> HIDE DEF F, R
    <2>2. n \in Int /\ W \in Int /\ \A p \in Heads : n * w[p] = W * f[p] + r[p]
      BY <1>1
    <2>3. n * SumFunctionOnSet(w, Heads)
            = W * SumFunctionOnSet(f, Heads) + SumFunctionOnSet(r, Heads)
      BY <2>1, <2>2, SumBalanced
    <2> QED BY <2>1, <2>3
  <1>4. IsFiniteSet(P) /\ k \in Nat /\ k <= Headcount
    BY <1>2, HeadsFinite, FS_Subset, FS_CardinalityType
  <1>5. R = SumFunctionOnSet(r, P) /\ Whole(r, P)
    BY <1>1, <1>2, SumOfIs, SumOfWhatCounts DEF Whole
  <1>6. R >= 0 * k
    <2>1. \A p \in P : r[p] >= 0
      BY <1>1, <1>2
    <2> QED BY <1>4, <1>5, <2>1, SumAtLeast
  <1>7. R <= (W - 1) * k
    <2>1. \A p \in P : r[p] <= W - 1 /\ W - 1 \in Int
      BY <1>1, <1>2
    <2>2. W - 1 \in Int
      BY <1>1
    <2> QED BY <1>4, <1>5, <2>1, <2>2, SumAtMost
  <1>8. L = n - F /\ L \in Int
    BY <1>1, <1>3 DEF Leftover, f
  <1> HIDE DEF F, R, L, k
  <1>9. W * L = R
    <2>1. W * L = W * n - W * F /\ W * n = n * W /\ W * n \in Int /\ W * F \in Int
      BY <1>1, <1>3, <1>8
    <2> QED BY <1>3, <2>1
  <1>10. L >= 0
    <2>1. \A j \in Int : j <= -1 => W * j < 0
      BY <1>1
    <2>2. R >= 0
      BY <1>4, <1>6
    <2>3. ~(W * L < 0)
      BY <1>3, <1>9, <2>2
    <2> QED BY <1>8, <2>1, <2>3
  <1>11. L <= k
    <2>1. (W - 1) * k = W * k - k /\ W * k \in Int
      BY <1>1, <1>4
    <2>2. \A i, j \in Int : i > j => W * i > W * j
      <3> SUFFICES ASSUME NEW i \in Int, NEW j \in Int, i > j PROVE W * i > W * j
        OBVIOUS
      <3>1. W * (i - j) > 0 /\ W * (i - j) = W * i - W * j /\ W * i \in Int /\ W * j \in Int
        BY <1>1
      <3> QED BY <3>1
    <2>3. W * L \in Int
      BY <1>1, <1>8
    <2> QED BY <1>4, <1>7, <1>8, <1>9, <2>1, <2>2, <2>3
  <1>12. L \in 0..Headcount
    BY <1>4, <1>8, <1>10, <1>11, HeadsFinite
  <1> QED BY <1>3, <1>4, <1>11, <1>12 DEF L, k, F, f, P

(* The units left over go one each to those of the lowest ranks. *)
Bump(n, w, p) == IF Rank(Remainders(n, w), p) < Leftover(n, w) THEN 1 ELSE 0

(* Which is what the rounded division says. *)
LEMMA Bumped ==
  ASSUME NEW n, NEW w, Weighing(n, w)
  PROVE  AllocateMagnitude(n, w) = [p \in Heads |-> Floors(n, w)[p] + Bump(n, w, p)]
  <1> DEFINE L == Leftover(n, w)  rem == Remainders(n, w)
  <1>1. L \in 0..Headcount /\ Headcount \in Nat \ {0}
    BY LeftoverIn, HeadsFinite
  <1>2. rem \in Parts(Int)
    BY Cut DEF Parts
  <1>3. ASSUME NEW p \in Heads
        PROVE  (L + Headcount - 1 - Cardinality(Ahead(rem, p))) \div Headcount = Bump(n, w, p)
    <2> DEFINE c == Cardinality(Ahead(rem, p))  H == Headcount
    <2>1. c \in 0..(H - 1) /\ Bump(n, w, p) = IF c < L THEN 1 ELSE 0
      BY <1>2, RankIn DEF Bump, Rank
    <2> HIDE DEF c, L, H
    <2>2. (L + H - 1 - c) \div H = IF c < L THEN 1 ELSE 0
      <3>1. H \in Nat /\ H > 0 /\ L \in 0..H
        BY <1>1 DEF H, L
      <3> DEFINE x == L + H - 1 - c
      <3>2. x \in Int /\ x >= 0 /\ x < H + H /\ (c < L <=> x >= H)
        BY <2>1, <3>1
      <3> HIDE DEF x
      <3>3. x \div H \in Int /\ x % H \in Nat /\ x % H < H /\ x = H * (x \div H) + (x % H)
        BY <3>1, <3>2, Divided
      <3> DEFINE q == x \div H
      <3>4. q = IF x >= H THEN 1 ELSE 0
        <4> HIDE DEF q
        <4>1. q \in Int /\ \E m \in 0..(H - 1) : x = H * q + m
          BY <3>1, <3>3 DEF q
        <4>2. PICK m \in 0..(H - 1) : x = H * q + m
          BY <4>1
        <4>3. \A j \in Int : (j >= 2 => H * j >= H + H) /\ (j <= -1 => H * j <= -H)
          BY <3>1
        <4>4. q = 0 \/ q = 1
          BY <3>1, <3>2, <4>1, <4>2, <4>3
        <4>5. H * 0 = 0 /\ H * 1 = H
          BY <3>1
        <4> QED BY <3>1, <3>2, <4>2, <4>4, <4>5
      <3> QED BY <3>2, <3>4 DEF x
    <2> QED BY <2>1, <2>2 DEF c, H
  <1> QED BY <1>3 DEF AllocateMagnitude, Leftover

(* The parts come to what is divided. *)
LEMMA PartsAddUp ==
  ASSUME NEW n, NEW w, Weighing(n, w)
  PROVE  AllocateMagnitude(n, w) \in Parts(Nat) /\ SumOf(AllocateMagnitude(n, w)) = n
  <1> DEFINE parts == AllocateMagnitude(n, w)  f == Floors(n, w)  L == Leftover(n, w)
             r == Remainders(n, w)
             b == [p \in Heads |-> Bump(n, w, p)]
             T == {p \in Heads : Rank(r, p) < L}
  <1>1. /\ f \in Parts(Nat) /\ f \in Parts(Int) /\ r \in Parts(Int) /\ n \in Nat
        /\ L \in 0..Headcount /\ SumOf(f) \in Int
    BY Cut, LeftoverIn DEF Parts, Weighing
  <1>2. b \in Parts(Nat) /\ b \in Parts(Int)
    BY DEF Bump, Parts
  <1>3. \A p \in Heads : parts[p] = f[p] + b[p]
    BY Bumped
  <1>4. parts \in Parts(Nat) /\ parts \in Parts(Int)
    <2>1. \A p \in Heads : f[p] + b[p] \in Nat
      BY <1>1, <1>2 DEF Parts
    <2>2. parts = [p \in Heads |-> f[p] + b[p]]
      BY Bumped
    <2> HIDE DEF parts, f, b
    <2> QED BY <2>1, <2>2 DEF Parts
  <1>5. SumOf(b) = L
    <2>1. SumOf(b) = SumFunctionOnSet(b, Heads)
      BY <1>2, SumOfIs
    <2>2. T \in SUBSET Heads /\ (\A p \in T : b[p] = 1) /\ \A p \in Heads \ T : b[p] = 0
      BY DEF Bump
    <2>3. Cardinality(T) = L
      <3> HIDE DEF L, r
      <3> QED BY <1>1, FirstFew
    <2> HIDE DEF T, b, L
    <2> QED BY <2>1, <2>2, <2>3, HeadsFinite, SumOfOnes
  <1>6. SumOf(parts) = SumOf(f) + SumOf(b)
    <2> HIDE DEF parts, f, b
    <2>1. /\ Whole(parts, Heads) /\ Whole(f, Heads) /\ Whole(b, Heads) /\ IsFiniteSet(Heads)
          /\ SumOf(parts) = SumFunctionOnSet(parts, Heads) /\ SumOf(parts) \in Int
          /\ SumOf(f) = SumFunctionOnSet(f, Heads) /\ SumOf(f) \in Int
          /\ SumOf(b) = SumFunctionOnSet(b, Heads) /\ SumOf(b) \in Int
      BY <1>1, <1>2, <1>4, SumOfIs
    <2>2. \A p \in Heads : 1 * parts[p] = 1 * f[p] + b[p]
      BY <1>1, <1>2, <1>3, <1>4 DEF Parts
    <2>3. 1 * SumFunctionOnSet(parts, Heads)
            = 1 * SumFunctionOnSet(f, Heads) + SumFunctionOnSet(b, Heads)
      BY <2>1, <2>2, SumBalanced
    <2> QED BY <2>1, <2>3
  <1> QED BY <1>1, <1>4, <1>5, <1>6 DEF Leftover

(* Whoever gets a unit more has had something cut off. *)
LEMMA BumpedHadRest ==
  ASSUME NEW n, NEW w, Weighing(n, w), NEW p \in Heads,
         Rank(Remainders(n, w), p) < Leftover(n, w)
  PROVE  Remainders(n, w)[p] > 0
  <1> DEFINE r == Remainders(n, w)  P == WithRest(n, w)
  <1>1. r \in Parts(Nat) /\ r \in Parts(Int)
    BY Cut DEF Parts
  <1> SUFFICES ASSUME ~(r[p] > 0) PROVE FALSE
    OBVIOUS
  <1>2. P \subseteq Ahead(r, p)
    <2>1. \A q \in Heads : r[q] \in Nat
      BY <1>1 DEF Parts
    <2> QED BY <2>1 DEF WithRest, Ahead
  <1>3. IsFiniteSet(Ahead(r, p)) /\ Rank(r, p) \in Int
    BY <1>1, RankIn
  <1>4. Cardinality(P) <= Rank(r, p)
    BY <1>2, <1>3, FS_Subset DEF Rank
  <1>5. Leftover(n, w) \in Int /\ IsFiniteSet(P) /\ Leftover(n, w) <= Cardinality(P)
    BY LeftoverIn
  <1>6. Cardinality(P) \in Nat
    BY <1>5, FS_CardinalityType
  <1> QED BY <1>3, <1>4, <1>5, <1>6

(* Parts by largest remainders are fair, whatever the weights. *)
LEMMA AllocationFair ==
  ASSUME NEW n, NEW w, Weighing(n, w)
  PROVE  LET parts == AllocateByWeights(n, w)
         IN  parts \in Parts(Nat) /\ SumOf(parts) = n /\ Fair(n, w, parts)
  <1> DEFINE parts == AllocateMagnitude(n, w)  f == Floors(n, w)  L == Leftover(n, w)
             r == Remainders(n, w)  W == SumOf(w)
             over == [p \in Heads |-> parts[p] * W - n * w[p]]
  <1>1. AllocateByWeights(n, w) = parts
    BY DEF AllocateByWeights, Weighing
  <1>2. parts \in Parts(Nat) /\ SumOf(parts) = n
    BY PartsAddUp
  <1>3. W \in Nat \ {0} /\ L \in Int /\ r \in Parts(Int)
    BY Cut, LeftoverIn DEF Parts
  <1>4. ASSUME NEW p \in Heads
        PROVE  /\ r[p] \in Nat /\ r[p] < W /\ over[p] \in Int
               /\ over[p] = IF Rank(r, p) < L THEN W - r[p] ELSE -r[p]
               /\ Rank(r, p) < L => r[p] > 0
    <2> DEFINE x == f[p]  y == r[p]  v == n * w[p]  b == Bump(n, w, p)
    <2>1. x \in Nat /\ y \in Nat /\ y < W /\ v = W * x + y
      BY Cut DEF Parts
    <2>2. over[p] = (x + b) * W - v /\ b \in {0, 1}
      BY Bumped DEF Bump
    <2>3. b = IF Rank(r, p) < L THEN 1 ELSE 0
      BY DEF Bump
    <2>4. Rank(r, p) < L => y > 0
      BY BumpedHadRest
    <2> HIDE DEF x, y, v, b, over, W
    <2>5. over[p] = b * W - y /\ over[p] \in Int
      <3>1. W * x \in Int /\ b * W \in Int /\ (x + b) * W = W * x + b * W
        BY <1>3, <2>1, <2>2
      <3> QED BY <1>3, <2>1, <2>2, <3>1
    <2> QED BY <1>3, <2>1, <2>2, <2>3, <2>4, <2>5 DEF y
  <1> HIDE DEF over
  <1>5. \A p \in Heads : Abs(over[p]) < W
    BY <1>3, <1>4 DEF Abs
  <1>6. ASSUME NEW p \in Heads, NEW q \in Heads, over[p] > 0, over[q] <= 0
        PROVE  \/ W - over[p] > -over[q]
               \/ W - over[p] = -over[q] /\ p < q
    <2>1. Rank(r, p) < L /\ ~(Rank(r, q) < L) /\ p # q
      BY <1>3, <1>4, <1>6
    <2>2. W - over[p] = r[p] /\ -over[q] = r[q]
      BY <1>3, <1>4, <2>1
    <2>3. Rank(r, p) \in Int /\ Rank(r, q) \in Int
      BY <1>3, RankIn
    <2>4. p \in Ahead(r, q)
      BY <1>3, <2>1, <2>3, RanksApart
    <2>5. r[p] > r[q] \/ (r[p] = r[q] /\ p < q)
      BY <2>4 DEF Ahead
    <2>6. r[p] \in Int /\ r[q] \in Int
      BY <1>4
    <2> HIDE DEF r, W
    <2> QED BY <2>2, <2>5, <2>6
  <1>7. Fair(n, w, parts)
    <2> HIDE DEF parts, r, L
    <2> QED BY <1>2, <1>5, <1>6 DEF Fair, over, W
  <1> HIDE DEF parts
  <1> QED BY <1>1, <1>2, <1>7

-----------------------------------------------------------------------------
(* Conversion. *)

(* A half-even quotient is within half a unit. *)
LEMMA HalfEvenNear ==
  ASSUME NEW n \in Int, NEW d \in Nat, d > 0
  PROVE  LET h == HalfEven(n, d)
         IN  /\ h \in Int /\ d * h \in Int
             /\ 2 * (n - d * h) <= d /\ -d <= 2 * (n - d * h)
             /\ n >= 0 => h >= 0
  <1> DEFINE q == n \div d  r == n % d
  <1>1. q \in Int /\ r \in Nat /\ r < d /\ d * q \in Int /\ n = d * q + r /\ (n >= 0 => q >= 0)
    BY Divided
  <1>2. HalfEven(n, d) \in {q, q + 1} /\ (2 * r < d => HalfEven(n, d) = q)
        /\ (2 * r > d => HalfEven(n, d) = q + 1)
    BY <1>1 DEF HalfEven
  <1> HIDE DEF q, r
  <1>3. d * (q + 1) = d * q + d
    BY <1>1
  <1>4. CASE HalfEven(n, d) = q /\ 2 * r <= d
    BY <1>1, <1>4
  <1>5. CASE HalfEven(n, d) = q + 1 /\ 2 * r >= d
    <2>1. 2 * (n - d * (q + 1)) = 2 * r - 2 * d
      BY <1>1, <1>3
    <2> QED BY <1>1, <1>3, <1>5, <2>1
  <1> QED BY <1>1, <1>2, <1>4, <1>5

(* Somebody is the first of those of the largest magnitude. *)
LEMMA LargestIn ==
  ASSUME NEW parts \in Parts(Int)
  PROVE  /\ Largest(parts) \in Heads
         /\ \A q \in Heads :
              \/ Abs(parts[Largest(parts)]) > Abs(parts[q])
              \/ Abs(parts[Largest(parts)]) = Abs(parts[q]) /\ Largest(parts) <= q
  <1> DEFINE rem == [p \in Heads |-> Abs(parts[p])]
  <1>1. rem \in Parts(Int) /\ \A p \in Heads : parts[p] \in Int /\ Abs(parts[p]) \in Int
    BY DEF Parts, Abs
  <1>2. 1 \in 0..Headcount
    BY HeadsFinite
  <1> HIDE DEF rem
  <1>3. Cardinality({p \in Heads : Rank(rem, p) < 1}) = 1
    BY <1>1, <1>2, FirstFew
  <1>4. PICK p \in Heads : Rank(rem, p) < 1
    BY <1>3, FS_EmptySet
  <1>5. Ahead(rem, p) = {}
    <2>1. IsFiniteSet(Ahead(rem, p)) /\ Rank(rem, p) \in 0..(Headcount - 1)
      BY <1>1, RankIn
    <2>2. Cardinality(Ahead(rem, p)) = 0
      BY <1>4, <2>1, HeadsFinite DEF Rank
    <2> QED BY <2>1, <2>2, FS_EmptySet
  <1>6. \A q \in Heads : Abs(parts[p]) > Abs(parts[q])
                         \/ (Abs(parts[p]) = Abs(parts[q]) /\ p <= q)
    <2> SUFFICES ASSUME NEW q \in Heads
                 PROVE  \/ Abs(parts[p]) > Abs(parts[q])
                        \/ (Abs(parts[p]) = Abs(parts[q]) /\ p <= q)
      OBVIOUS
    <2>1. ~(rem[q] > rem[p] \/ (rem[q] = rem[p] /\ q < p))
      BY <1>5 DEF Ahead
    <2>2. rem[q] = Abs(parts[q]) /\ rem[p] = Abs(parts[p]) /\ p \in Int /\ q \in Int
      BY DEF rem, Heads
    <2> QED BY <1>1, <2>1, <2>2
  <1> QED BY <1>6 DEF Largest

(* One person takes what is left, so that the sum is right. *)
LEMMA TakesTheRest ==
  ASSUME NEW g \in Parts(Int), NEW m \in Heads, NEW c \in Int
  PROVE  LET h == [g EXCEPT ![m] = @ + c - SumOf(g)]
         IN  /\ h \in Parts(Int) /\ SumOf(h) = c /\ h[m] = g[m] + c - SumOf(g)
             /\ \A p \in Heads : p # m => h[p] = g[p]
  <1> DEFINE h == [g EXCEPT ![m] = @ + c - SumOf(g)]  Rest == Heads \ {m}
             G == SumFunctionOnSet(g, Rest)
  <1>1. SumOf(g) = SumFunctionOnSet(g, Heads) /\ SumOf(g) \in Int /\ Whole(g, Heads)
        /\ IsFiniteSet(Heads)
    BY SumOfIs
  <1>2. /\ h \in Parts(Int) /\ h[m] = g[m] + c - SumOf(g) /\ g[m] \in Int
        /\ \A p \in Heads : p # m => h[p] = g[p]
    BY <1>1 DEF Parts
  <1> HIDE DEF h
  <1>3. Rest \in SUBSET Heads /\ IsFiniteSet(Rest) /\ G \in Int
    BY <1>1, SumWithin
  <1>4. SumFunctionOnSet(h, Rest) = G
    BY <1>2, <1>3, SumSame
  <1>5. SumOf(g) = g[m] + G
    BY <1>1, SumAny
  <1>6. SumOf(h) = h[m] + G
    <2>1. SumOf(h) = SumFunctionOnSet(h, Heads) /\ Whole(h, Heads)
      BY <1>2, SumOfIs
    <2> QED BY <1>1, <1>4, <2>1, SumAny
  <1>7. SumOf(h) = c
    <2> HIDE DEF G
    <2>1. h[m] = g[m] + c - (g[m] + G)
      BY <1>2, <1>5
    <2> QED BY <1>2, <1>3, <1>6, <2>1
  <1> QED BY <1>2, <1>7 DEF h

(* With parts of both signs, each is near what it should be: it is within  *)
(* half a unit but for whoever takes the rest, which is what the others    *)
(* are off together.                                                       *)
LEMMA ResidueNear ==
  ASSUME NEW parts \in Parts(Int), NEW c \in Nat, NEW total \in Nat, total > 0,
         SumOf(parts) = total
  PROVE  LET all == DistributeResidue(parts, c, total)
         IN  all \in Parts(Int) /\ SumOf(all) = c /\ Near(c, parts, total, all)
  <1> DEFINE scaled == [p \in Heads |-> HalfEven(parts[p] * c, total)]
             off == [p \in Heads |-> 2 * (parts[p] * c - total * scaled[p])]
             m == Largest(scaled)  S == SumOf(scaled)
             all == [scaled EXCEPT ![m] = @ + c - S]
             H == Headcount  G == SumFunctionOnSet(off, Heads)
  <1>1. ASSUME NEW p \in Heads
        PROVE  /\ parts[p] \in Int /\ scaled[p] \in Int /\ off[p] \in Int
               /\ off[p] <= total /\ -total <= off[p]
               /\ (2 * c) * parts[p] = (2 * total) * scaled[p] + off[p]
    <2> DEFINE x == parts[p]  y == HalfEven(x * c, total)
    <2>1. x \in Int
      BY DEF Parts
    <2>2. scaled[p] = y /\ off[p] = 2 * (x * c - total * y)
      OBVIOUS
    <2> HIDE DEF x, scaled, off
    <2>3. x * c \in Int
      BY <2>1
    <2>4. y \in Int /\ total * y \in Int /\ 2 * (x * c - total * y) <= total
          /\ -total <= 2 * (x * c - total * y)
      BY <2>3, HalfEvenNear
    <2> HIDE DEF y
    <2>5. (2 * c) * x = (2 * total) * y + 2 * (x * c - total * y)
      BY <2>1, <2>3, <2>4
    <2> QED BY <2>1, <2>2, <2>3, <2>4, <2>5 DEF x
  <1>2. scaled \in Parts(Int) /\ off \in Parts(Int)
    <2> DEFINE a == [p \in Heads |-> scaled[p]]  b == [p \in Heads |-> off[p]]
    <2>1. a = scaled /\ b = off
      OBVIOUS
    <2> HIDE DEF scaled, off
    <2>2. a \in Parts(Int) /\ b \in Parts(Int)
      BY <1>1 DEF Parts
    <2> QED BY <2>1, <2>2
  <1>3. DistributeResidue(parts, c, total) = all
    BY DEF DistributeResidue
  <1> HIDE DEF scaled, off
  <1>4. /\ S = SumFunctionOnSet(scaled, Heads) /\ S \in Int /\ Whole(scaled, Heads)
        /\ total = SumFunctionOnSet(parts, Heads) /\ Whole(parts, Heads)
        /\ G \in Int /\ Whole(off, Heads) /\ IsFiniteSet(Heads)
    BY <1>2, SumOfIs
  <1>5. m \in Heads
    BY <1>2, LargestIn
  <1> HIDE DEF m
  <1>6. /\ all \in Parts(Int) /\ SumOf(all) = c /\ all[m] = scaled[m] + c - S
        /\ \A p \in Heads : p # m => all[p] = scaled[p]
    BY <1>2, <1>5, TakesTheRest
  <1> HIDE DEF all
  <1>7. (2 * c) * total = (2 * total) * S + G
    <2>1. 2 * c \in Int /\ 2 * total \in Int
      OBVIOUS
    <2>2. \A p \in Heads : (2 * c) * parts[p] = (2 * total) * scaled[p] + off[p]
      BY <1>1
    <2> HIDE DEF S, G
    <2>3. (2 * c) * SumFunctionOnSet(parts, Heads)
            = (2 * total) * SumFunctionOnSet(scaled, Heads) + SumFunctionOnSet(off, Heads)
      <3> DEFINE a == 2 * c  b == 2 * total
      <3>1. a \in Int /\ b \in Int /\ \A p \in Heads : a * parts[p] = b * scaled[p] + off[p]
        BY <2>1, <2>2
      <3> HIDE DEF a, b
      <3>2. a * SumFunctionOnSet(parts, Heads)
              = b * SumFunctionOnSet(scaled, Heads) + SumFunctionOnSet(off, Heads)
        BY <1>4, <3>1, SumBalanced
      <3> QED BY <3>2 DEF a, b
    <2> QED BY <1>4, <2>3 DEF G
  <1>8. G <= total * H /\ -(total * H) <= G /\ total * H \in Int
    <2>1. H = Cardinality(Heads) /\ H \in Nat
      BY HeadsFinite
    <2>2. G <= total * H
      BY <1>1, <1>4, <2>1, SumAtMost
    <2>3. G >= (-total) * H
      <3>1. -total \in Int
        OBVIOUS
      <3> QED BY <1>1, <1>4, <2>1, <3>1, SumAtLeast
    <2>4. (-total) * H = -(total * H) /\ total * H \in Int
      BY <2>1
    <2> QED BY <1>4, <2>2, <2>3, <2>4
  <1> HIDE DEF S, G
  <1>9. ASSUME NEW p \in Heads
        PROVE  2 * Abs(all[p] * total - c * parts[p]) <= (H + 1) * total
    <2> DEFINE x == parts[p]  y == scaled[p]  z == all[p]  o == off[p]  u == z * total - c * x
    <2>1. /\ x \in Int /\ y \in Int /\ o \in Int /\ o <= total /\ -total <= o
          /\ (2 * c) * x = (2 * total) * y + o
      BY <1>1
    <2>2. z = y \/ z = y + c - S
      BY <1>6
    <2> HIDE DEF x, y, z, o
    <2>3. c * x \in Int /\ total * y \in Int /\ c * total \in Int /\ total * S \in Int
          /\ 2 * (c * x) = 2 * (total * y) + o /\ 2 * (c * total) = 2 * (total * S) + G
      BY <1>4, <1>7, <2>1
    <2>4. (H + 1) * total = total * H + total /\ total * H \in Int /\ total * H >= 0
      BY <1>8, HeadsFinite
    <2>5. u \in Int /\ (2 * u = -o \/ 2 * u = G - o)
      <3>1. CASE z = y
        <4>1. z * total = total * y
          BY <2>1, <3>1
        <4> QED BY <2>1, <2>3, <4>1
      <3>2. CASE z = y + c - S
        <4>1. z * total = total * y + c * total - total * S
          BY <1>4, <2>1, <3>2
        <4>2. z * total \in Int /\ u = (total * y + c * total - total * S) - c * x
          BY <2>3, <4>1
        <4> DEFINE cx == c * x  ty == total * y  ct == c * total  tS == total * S
        <4>3. /\ cx \in Int /\ ty \in Int /\ ct \in Int /\ tS \in Int
              /\ 2 * cx = 2 * ty + o /\ 2 * ct = 2 * tS + G /\ u = (ty + ct - tS) - cx
          BY <2>3, <4>2
        <4> HIDE DEF cx, ty, ct, tS, u
        <4> QED BY <1>4, <2>1, <4>3
      <3> QED BY <2>2, <3>1, <3>2
    <2> HIDE DEF u
    <2>6. 2 * u <= total * H + total /\ -(total * H + total) <= 2 * u
      BY <1>4, <1>8, <2>1, <2>4, <2>5
    <2>7. 2 * Abs(u) <= total * H + total
      BY <2>4, <2>5, <2>6 DEF Abs
    <2> QED BY <2>4, <2>7 DEF u, x, z
  <1>10. Near(c, parts, total, all)
    BY <1>6, <1>9 DEF Near
  <1> QED BY <1>3, <1>6, <1>10

(* What is not divided is fair as it is. *)
LEMMA FairAsItIs ==
  ASSUME NEW n \in Nat \ {0}, NEW parts \in Parts(Int), SumOf(parts) = n
  PROVE  Fair(n, parts, parts) /\ Near(n, parts, n, parts)
  <1> DEFINE over == [p \in Heads |-> parts[p] * n - n * parts[p]]
  <1>1. \A p \in Heads : over[p] = 0
    <2> SUFFICES ASSUME NEW p \in Heads PROVE over[p] = 0
      OBVIOUS
    <2> DEFINE x == parts[p]
    <2>1. x \in Int
      BY DEF Parts
    <2>2. over[p] = x * n - n * x
      OBVIOUS
    <2> HIDE DEF x
    <2> QED BY <2>1, <2>2
  <1>2. Fair(n, parts, parts)
    <2> HIDE DEF over
    <2> QED BY <1>1 DEF Fair, Abs, over
  <1>3. Near(n, parts, n, parts)
    <2>1. \A p \in Heads : Abs(parts[p] * n - n * parts[p]) = 0
      BY <1>1 DEF Abs
    <2>2. (Headcount + 1) * n >= 0
      <3>1. Headcount + 1 \in Nat
        BY HeadsFinite
      <3> DEFINE h == Headcount + 1
      <3> HIDE DEF h
      <3>2. h \in Nat => h * n >= 0
        OBVIOUS
      <3> QED BY <3>1, <3>2 DEF h
    <2> QED BY <2>1, <2>2 DEF Near
  <1> QED BY <1>2, <1>3

(* The rows of one side, in the currency of the group: parts without a     *)
(* credit are fair, and those with one near.                               *)
LEMMA RowsOfSide ==
  ASSUME NEW total \in Nat \ {0}, NEW parts \in Parts(Int), SumOf(parts) = total,
         NEW rate \in Rates
  PROVE  LET all == RowsOf(parts, total, rate)
             n == IF rate.num = rate.den THEN total ELSE ConvertMoney(total, rate)
         IN  /\ all \in Parts(Int) /\ SumOf(all) = n
             /\ IF \E p \in Heads : parts[p] < 0 THEN Near(n, parts, total, all)
                ELSE Fair(n, parts, all)
  <1>1. CASE rate.num = rate.den
    BY <1>1, FairAsItIs DEF RowsOf
  <1>2. CASE rate.num # rate.den
    <2> DEFINE c == ConvertMoney(total, rate)
    <2>1. c \in Nat
      <3>1. rate.num \in Nat \ {0} /\ rate.den \in Nat \ {0}
        BY RatesAssumption
      <3> DEFINE d == rate.den  m == rate.num  x == total * m
      <3>2. x \in Int /\ x >= 0
        <4> HIDE DEF m
        <4>1. m \in Nat
          BY <3>1 DEF m
        <4> QED BY <4>1
      <3>3. c = HalfEven(x, d)
        BY DEF ConvertMoney
      <3>4. d \in Nat /\ d > 0
        BY <3>1
      <3> HIDE DEF x, d, c
      <3>5. HalfEven(x, d) \in Int /\ (x >= 0 => HalfEven(x, d) >= 0)
        BY <3>2, <3>4, HalfEvenNear
      <3> QED BY <3>2, <3>3, <3>5
    <2> HIDE DEF c
    <2>2. RowsOf(parts, total, rate) = ConvertAllocations(parts, c, total)
      BY <1>2 DEF RowsOf, c
    <2>3. CASE \E p \in Heads : parts[p] < 0
      BY <1>2, <2>1, <2>2, <2>3, ResidueNear DEF ConvertAllocations, c
    <2>4. CASE ~\E p \in Heads : parts[p] < 0
      <3>1. parts \in Parts(Nat)
        <4>1. \A p \in Heads : parts[p] \in Nat
          BY <2>4 DEF Parts
        <4> QED BY <4>1 DEF Parts
      <3>2. Weighing(c, parts)
        BY <2>1, <3>1 DEF Weighing
      <3>3. /\ AllocateByWeights(c, parts) \in Parts(Int)
            /\ SumOf(AllocateByWeights(c, parts)) = c
            /\ Fair(c, parts, AllocateByWeights(c, parts))
        BY <3>2, AllocationFair DEF Parts
      <3> QED BY <1>2, <2>2, <2>4, <3>3 DEF ConvertAllocations, c
    <2> QED BY <2>3, <2>4
  <1> QED BY <1>1, <1>2

(* What is entered has fair rows. *)
LEMMA EntersFair ==
  ASSUME NEW total \in Amounts, NEW dir, NEW rate \in Rates,
         NEW payers \in Contributions[total], NEW weights, NEW parts \in Parts(Int),
         SumOf(parts) = total,
         weights # NoWeights => Fair(total, weights, parts),
         Enter(total, dir, rate, payers, weights, parts)
  PROVE  RowsFair'
  <1> DEFINE paid == RowsOf(payers, total, rate)  shares == RowsOf(parts, total, rate)
             e == [total |-> total, payers |-> payers, weights |-> weights, parts |-> parts,
                   paid |-> paid, shares |-> shares]
             n == SumOf(paid)
  <1>1. total \in Nat \ {0}
    BY MoneyAssumption
  <1>2. payers \in Parts(Int) /\ SumOf(payers) = total /\ ~\E p \in Heads : payers[p] < 0
    BY <1>1 DEF Contributions, Parts
  <1>3. Fair(n, payers, paid)
    BY <1>1, <1>2, RowsOfSide
  <1>4. IF \E p \in Heads : parts[p] < 0 THEN Near(n, parts, total, shares)
        ELSE Fair(n, parts, shares)
    BY <1>1, <1>2, RowsOfSide
  <1>5. entry' = e
    BY DEF Enter
  <1> HIDE DEF paid, shares
  <1>6. /\ e.total = total /\ e.payers = payers /\ e.weights = weights /\ e.parts = parts
        /\ e.paid = paid /\ e.shares = shares
    OBVIOUS
  <1> HIDE DEF e
  <1> QED BY <1>3, <1>4, <1>5, <1>6 DEF RowsFair

(* Whatever is typed, for any number of people, amounts, weights and rates, *)
(* the rows of an entry are fair: parts come to what they are parts of, by  *)
(* weight and each to less than a unit, and payers and shares, each         *)
(* converted by itself, come to one total (allocation.ts, split.ts:258-265).*)
THEOREM RowsAlwaysFair == MoneySpec => []RowsFair
  <1>1. MoneyInit => RowsFair
    BY DEF MoneyInit, RowsFair
  <1>2. RowsFair /\ [MoneyNext]_moneyVars => RowsFair'
    <2> SUFFICES ASSUME RowsFair, [MoneyNext]_moneyVars PROVE RowsFair'
      OBVIOUS
    <2>1. CASE UNCHANGED moneyVars
      BY <2>1 DEF moneyVars, RowsFair
    <2>2. ASSUME entry' = NoEntry PROVE RowsFair'
      BY <2>2 DEF RowsFair
    <2>3. ASSUME NEW total \in Amounts, NEW dir \in {-1, 1}, NEW rate \in Rates,
                 NEW payers \in Contributions[total], EnterWeighted(total, dir, rate, payers)
          PROVE  RowsFair'
      <3>1. PICK weights \in Weights :
              Enter(total, dir, rate, payers, weights, AllocateByWeights(total, weights))
        BY <2>3 DEF EnterWeighted
      <3>2. Weighing(total, weights)
        BY MoneyAssumption DEF Weights, Weighing, Parts
      <3> DEFINE parts == AllocateByWeights(total, weights)
      <3>3. parts \in Parts(Int) /\ SumOf(parts) = total /\ Fair(total, weights, parts)
        BY <3>2, AllocationFair DEF Parts
      <3> HIDE DEF parts
      <3> QED BY <2>3, <3>1, <3>3, EntersFair DEF parts
    <2>4. ASSUME NEW total \in Amounts, NEW dir \in {-1, 1}, NEW rate \in Rates,
                 NEW payers \in Contributions[total], EnterExact(total, dir, rate, payers)
          PROVE  RowsFair'
      <3>1. PICK parts \in Exact[total] : Enter(total, dir, rate, payers, NoWeights, parts)
        BY <2>4 DEF EnterExact
      <3>2. parts \in Parts(Int) /\ SumOf(parts) = total
        BY DEF Exact, Parts
      <3> QED BY <2>4, <3>1, <3>2, EntersFair
    <2> QED BY <2>1, <2>2, <2>3, <2>4 DEF MoneyNext, Suggest, Repay
  <1> QED BY <1>1, <1>2, PTL DEF MoneySpec

-----------------------------------------------------------------------------
(* Following a list of transfers. *)

Transfers == {t \in [from : Heads, to : Heads, amount : Int] : t.from # t.to}

\* what a transfer does to what p is owed
Effect(t, p) == (IF p = t.from THEN t.amount ELSE 0) - (IF p = t.to THEN t.amount ELSE 0)
Effects(list, p) == [i \in DOMAIN list |-> Effect(list[i], p)]

(* One transfer, which leaves the sum. *)
LEMMA MovedIs ==
  ASSUME NEW b \in Parts(Int), NEW t \in Transfers
  PROVE  /\ Moved(b, t) \in Parts(Int) /\ SumOf(Moved(b, t)) = SumOf(b)
         /\ \A p \in Heads : Effect(t, p) \in Int /\ Moved(b, t)[p] = b[p] + Effect(t, p)
  <1> DEFINE f == t.from  u == t.to  a == t.amount
             g == [b EXCEPT ![f] = @ + (SumOf(b) + a) - SumOf(b)]
             h == [g EXCEPT ![u] = @ + (SumOf(g) - a) - SumOf(g)]
  <1>1. f \in Heads /\ u \in Heads /\ a \in Int /\ f # u
    BY DEF Transfers
  <1>2. SumOf(b) \in Int /\ SumOf(b) + a \in Int
    BY <1>1, SumOfIs
  <1>3. g \in Parts(Int) /\ SumOf(g) = SumOf(b) + a
    BY <1>1, <1>2, TakesTheRest
  <1>4. SumOf(g) - a \in Int /\ SumOf(g) - a = SumOf(b)
    BY <1>1, <1>2, <1>3
  <1>5. h \in Parts(Int) /\ SumOf(h) = SumOf(b)
    <2> HIDE DEF g
    <2>1. h \in Parts(Int) /\ SumOf(h) = SumOf(g) - a
      BY <1>1, <1>3, <1>4, TakesTheRest
    <2> QED BY <1>4, <2>1
  <1>6. g = [b EXCEPT ![f] = @ + a]
    <2> DEFINE S == SumOf(b)
    <2>1. S \in Int /\ b[f] \in Int
      BY <1>1, <1>2 DEF Parts
    <2> HIDE DEF S
    <2>2. b[f] + (S + a) - S = b[f] + a
      BY <1>1, <2>1
    <2> QED BY <2>2 DEF S
  <1>7. h = [g EXCEPT ![u] = @ - a]
    <2> DEFINE S == SumOf(g)
    <2>1. S \in Int /\ g[u] \in Int
      BY <1>1, <1>2, <1>3 DEF Parts
    <2> HIDE DEF S, g
    <2>2. g[u] + (S - a) - S = g[u] - a
      BY <1>1, <2>1
    <2> QED BY <2>2 DEF S
  <1>8. Moved(b, t) = h
    <2>1. b \in [Heads -> Int]
      BY DEF Parts
    <2>2. g[u] = b[u]
      BY <1>1, <1>6, <2>1
    <2> HIDE DEF g, h
    <2> QED BY <1>1, <1>6, <1>7, <2>1, <2>2 DEF Moved
  <1>9. \A p \in Heads : Effect(t, p) \in Int /\ h[p] = b[p] + Effect(t, p)
    <2> SUFFICES ASSUME NEW p \in Heads PROVE Effect(t, p) \in Int /\ h[p] = b[p] + Effect(t, p)
      OBVIOUS
    <2>1. b \in [Heads -> Int] /\ g \in [Heads -> Int] /\ b[p] \in Int
      BY <1>3 DEF Parts
    <2>2. g[p] = IF p = f THEN b[p] + a ELSE b[p]
      BY <1>1, <1>6, <2>1
    <2>3. h[p] = IF p = u THEN g[p] - a ELSE g[p]
      BY <1>1, <1>7, <2>1
    <2> HIDE DEF g, h
    <2> QED BY <1>1, <2>1, <2>2, <2>3 DEF Effect
  <1> HIDE DEF h
  <1> QED BY <1>5, <1>8, <1>9

\* f is what the fold of Moved iterates over some of the list
Follows(f, b, list) ==
  f = [s \in SUBSET DOMAIN list |->
         IF s = {} THEN b ELSE Moved(f[s \ {First(s)}], list[First(s)])]

(* If anything is, it is what following the list leaves. *)
LEMMA AfterFollows ==
  ASSUME NEW b, NEW list, \E f : Follows(f, b, list)
  PROVE  \E f : Follows(f, b, list) /\ After(b, list) = f[DOMAIN list]
  BY DEF Follows, First, After, FoldFunction, FoldFunctionOnSet, MapThenFoldSet

(* Each transfer of a list has an effect on everybody. *)
LEMMA EffectsOf ==
  ASSUME NEW list \in Seq(Transfers), NEW p \in Heads
  PROVE  /\ Whole(Effects(list, p), DOMAIN list) /\ IsFiniteSet(DOMAIN list)
         /\ \A i \in DOMAIN list : /\ list[i] \in Transfers
                                   /\ Effects(list, p)[i] = Effect(list[i], p)
  <1>1. DOMAIN list = 1..Len(list) /\ Len(list) \in Nat
    OBVIOUS
  <1>2. IsFiniteSet(DOMAIN list)
    BY <1>1, FS_Interval
  <1>3. ASSUME NEW i \in DOMAIN list
        PROVE  list[i] \in Transfers /\ Effects(list, p)[i] = Effect(list[i], p)
               /\ Effect(list[i], p) \in Int
    <2>1. list[i] \in Transfers
      OBVIOUS
    <2> QED BY <2>1 DEF Effects, Effect, Transfers
  <1> QED BY <1>2, <1>3 DEF Whole

\* what following the part s of a list leaves
Left(b, list, s) == [p \in Heads |-> b[p] + SumFunctionOnSet(Effects(list, p), s)]

(* Any transfer of a part may be the last to be followed. *)
LEMMA LeftMoves ==
  ASSUME NEW b \in Parts(Int), NEW list \in Seq(Transfers), NEW s \in SUBSET DOMAIN list
  PROVE  /\ Left(b, list, s) \in Parts(Int)
         /\ s = {} => Left(b, list, s) = b
         /\ \A x \in s : Left(b, list, s) = Moved(Left(b, list, s \ {x}), list[x])
  <1>1. \A t \in SUBSET DOMAIN list : Left(b, list, t) \in Parts(Int)
    <2> SUFFICES ASSUME NEW t \in SUBSET DOMAIN list, NEW p \in Heads
                 PROVE  b[p] + SumFunctionOnSet(Effects(list, p), t) \in Int
      BY DEF Left, Parts
    <2>1. SumFunctionOnSet(Effects(list, p), t) \in Int
      BY EffectsOf, SumWithin
    <2> QED BY <2>1 DEF Parts
  <1>2. ASSUME s = {} PROVE Left(b, list, s) = b
    <2>1. \A p \in Heads : b[p] \in Int /\ SumFunctionOnSet(Effects(list, p), {}) = 0
      BY SumNothing DEF Parts
    <2>2. \A p \in Heads : Left(b, list, s)[p] = b[p]
      BY <1>2, <2>1 DEF Left
    <2> QED BY <1>1, <2>2 DEF Parts
  <1>3. ASSUME NEW x \in s PROVE Left(b, list, s) = Moved(Left(b, list, s \ {x}), list[x])
    <2> DEFINE l == Left(b, list, s)  k == Left(b, list, s \ {x})  t == list[x]
    <2>1. l \in Parts(Int) /\ k \in Parts(Int) /\ t \in Transfers
      BY <1>1, HeadsFinite, EffectsOf
    <2>2. Moved(k, t) \in Parts(Int) /\ \A p \in Heads : Effect(t, p) \in Int /\ Moved(k, t)[p] = k[p] + Effect(t, p)
      BY <2>1, MovedIs
    <2>3. ASSUME NEW p \in Heads PROVE l[p] = k[p] + Effect(t, p)
      <3> DEFINE h == Effects(list, p)  H == SumFunctionOnSet(h, s \ {x})
      <3>1. IsFiniteSet(s) /\ Whole(h, s) /\ h[x] = Effect(t, p) /\ H \in Int
        BY EffectsOf, SumWithin
      <3>2. SumFunctionOnSet(h, s) = h[x] + H
        BY <3>1, SumAny
      <3>3. b[p] \in Int /\ Effect(t, p) \in Int
        BY <2>2 DEF Parts
      <3>4. l[p] = b[p] + SumFunctionOnSet(h, s) /\ k[p] = b[p] + H
        BY DEF Left
      <3> HIDE DEF l, k, t, h, H
      <3> QED BY <3>1, <3>2, <3>3, <3>4
    <2> HIDE DEF l, k, t
    <2>4. \A p \in Heads : l[p] = Moved(k, t)[p]
      BY <2>2, <2>3
    <2>5. l = Moved(k, t)
      BY <2>1, <2>2, <2>4 DEF Parts
    <2> QED BY <2>5 DEF l, k, t
  <1> QED BY <1>1, <1>2, <1>3

(* Following a list does all that its transfers do, whichever goes first. *)
LEMMA AfterIs ==
  ASSUME NEW b \in Parts(Int), NEW list \in Seq(Transfers)
  PROVE  /\ After(b, list) \in Parts(Int)
         /\ \A p \in Heads :
              After(b, list)[p] = b[p] + SumFunctionOnSet(Effects(list, p), DOMAIN list)
  <1> DEFINE D == DOMAIN list  f0 == [s \in SUBSET D |-> Left(b, list, s)]
  <1>1. \A s \in SUBSET D : s # {} =>
          First(s) \in s /\ s \ {First(s)} \in SUBSET D /\ s \ {First(s)} # s
    BY FirstOf
  <1>2. \A s \in SUBSET D :
          Left(b, list, s) = IF s = {} THEN b ELSE Moved(Left(b, list, s \ {First(s)}), list[First(s)])
    BY <1>1, LeftMoves
  <1>3. Follows(f0, b, list)
    <2> HIDE DEF D
    <2>1. \A s \in SUBSET D : s # {} => f0[s \ {First(s)}] = Left(b, list, s \ {First(s)})
      BY <1>1
    <2>2. \A s \in SUBSET D : f0[s] = IF s = {} THEN b ELSE Moved(f0[s \ {First(s)}], list[First(s)])
      BY <1>2, <2>1
    <2>3. f0 = [s \in SUBSET D |-> f0[s]]
      OBVIOUS
    <2> HIDE DEF f0
    <2>4. f0 = [s \in SUBSET D |-> IF s = {} THEN b ELSE Moved(f0[s \ {First(s)}], list[First(s)])]
      BY <2>2, <2>3
    <2> QED BY <2>4 DEF Follows, D
  <1>4. PICK f : Follows(f, b, list) /\ After(b, list) = f[D]
    BY <1>3, AfterFollows
  <1> DEFINE bad == {s \in SUBSET D : f[s] # Left(b, list, s)}
  <1>5. bad = {}
    <2> SUFFICES ASSUME bad # {} PROVE FALSE
      OBVIOUS
    <2>1. PICK s \in bad : \A t \in bad : t \subseteq s => t = s
      <3>1. bad \in SUBSET SUBSET D
        OBVIOUS
      <3>2. D = 1..Len(list) /\ Len(list) \in Nat
        OBVIOUS
      <3>3. IsFiniteSet(D)
        BY <3>2, FS_Interval
      <3> HIDE DEF bad, D
      <3> QED BY <3>1, <3>3, SmallestOf
    <2>2. f[s] = IF s = {} THEN b ELSE Moved(f[s \ {First(s)}], list[First(s)])
      BY <1>4, <2>1 DEF Follows
    <2>3. s # {} => f[s \ {First(s)}] = Left(b, list, s \ {First(s)})
      <3>1. s # {} => s \ {First(s)} \in SUBSET D /\ s \ {First(s)} \subseteq s
                      /\ s \ {First(s)} # s
        BY <1>1, <2>1
      <3> QED BY <2>1, <3>1
    <2> QED BY <1>2, <2>1, <2>2, <2>3
  <1>6. After(b, list) = Left(b, list, D)
    BY <1>4, <1>5
  <1>7. Left(b, list, D) \in Parts(Int)
    BY LeftMoves
  <1>8. \A p \in Heads : Left(b, list, D)[p] = b[p] + SumFunctionOnSet(Effects(list, p), DOMAIN list)
    BY DEF Left
  <1> QED BY <1>6, <1>7, <1>8

(* An empty list leaves everything as it is. *)
LEMMA AfterNothing ==
  ASSUME NEW b \in Parts(Int)
  PROVE  After(b, << >>) = b
  <1>1. << >> \in Seq(Transfers) /\ DOMAIN << >> = {}
    OBVIOUS
  <1>2. \A p \in Heads : After(b, << >>)[p] = b[p] + 0 /\ b[p] \in Int
    <2> SUFFICES ASSUME NEW p \in Heads PROVE After(b, << >>)[p] = b[p] + 0 /\ b[p] \in Int
      OBVIOUS
    <2>1. After(b, << >>)[p] = b[p] + SumFunctionOnSet(Effects(<< >>, p), DOMAIN << >>)
      BY <1>1, AfterIs
    <2>2. SumFunctionOnSet(Effects(<< >>, p), {}) = 0
      BY SumNothing
    <2> QED BY <1>1, <2>1, <2>2 DEF Parts
  <1>3. After(b, << >>) \in Parts(Int)
    BY <1>1, AfterIs
  <1> QED BY <1>2, <1>3 DEF Parts

(* A transfer found is followed after those found before it. *)
LEMMA AfterAppend ==
  ASSUME NEW b \in Parts(Int), NEW list \in Seq(Transfers), NEW t \in Transfers
  PROVE  After(b, Append(list, t)) = Moved(After(b, list), t)
  <1> DEFINE more == Append(list, t)  n == Len(list)
  <1>1. more \in Seq(Transfers) /\ DOMAIN more = 1..(n + 1) /\ DOMAIN list = 1..n /\ n \in Nat
        /\ more[n + 1] = t /\ \A i \in 1..n : more[i] = list[i]
    OBVIOUS
  <1> HIDE DEF more, n
  <1>2. ASSUME NEW p \in Heads PROVE After(b, more)[p] = Moved(After(b, list), t)[p]
    <2> DEFINE h == Effects(more, p)  g == Effects(list, p)  G == SumFunctionOnSet(g, 1..n)
    <2>1. Whole(h, 1..(n + 1)) /\ Whole(g, 1..n) /\ IsFiniteSet(1..n)
      BY <1>1, EffectsOf
    <2>2. h[n + 1] = Effect(t, p) /\ \A i \in 1..n : h[i] = g[i]
      BY <1>1 DEF Effects
    <2> HIDE DEF h, g
    <2>3. SumFunctionOnSet(h, 1..(n + 1)) = h[n + 1] + SumFunctionOnSet(h, 1..n)
      <3>1. n + 1 \in Nat /\ n + 1 > 0 /\ (n + 1) - 1 = n
        BY <1>1
      <3> QED BY <2>1, <3>1, SumUpTo
    <2>4. SumFunctionOnSet(h, 1..n) = G /\ G \in Int
      BY <1>1, <2>1, <2>2, SumSame, SumUpTo
    <2>5. /\ After(b, more)[p] = b[p] + SumFunctionOnSet(h, 1..(n + 1))
          /\ After(b, list)[p] = b[p] + G
      BY <1>1, AfterIs DEF h, g
    <2>6. Moved(After(b, list), t)[p] = After(b, list)[p] + Effect(t, p) /\ Effect(t, p) \in Int
      BY AfterIs, MovedIs
    <2>7. b[p] \in Int
      BY DEF Parts
    <2> HIDE DEF G
    <2> QED BY <2>2, <2>3, <2>4, <2>5, <2>6, <2>7
  <1>3. After(b, more) \in Parts(Int) /\ Moved(After(b, list), t) \in Parts(Int)
    BY <1>1, AfterIs, MovedIs
  <1>4. After(b, more) = Moved(After(b, list), t)
    BY <1>2, <1>3 DEF Parts
  <1> QED BY <1>4 DEF more

(* One list after another. *)
LEMMA Joined ==
  ASSUME NEW S, NEW u \in Seq(S), NEW v \in Seq(S)
  PROVE  /\ u \o v \in Seq(S) /\ Len(u \o v) = Len(u) + Len(v)
         /\ \A j \in 1..(Len(u) + Len(v)) :
              (u \o v)[j] = IF j <= Len(u) THEN u[j] ELSE v[j - Len(u)]
  OBVIOUS

(* Who follows one of a list, leaves what following the others then squares. *)
LEMMA AfterOneOf ==
  ASSUME NEW b \in Parts(Int), NEW list \in Seq(Transfers), NEW i \in DOMAIN list
  PROVE  /\ Seqs!RemoveAt(list, i) \in Seq(Transfers)
         /\ After(Moved(b, list[i]), Seqs!RemoveAt(list, i)) = After(b, list)
  <1> DEFINE less == Seqs!RemoveAt(list, i)  n == Len(list)  t == list[i]  m == Moved(b, t)
  <1>1. n \in Nat /\ i \in 1..n /\ DOMAIN list = 1..n /\ t \in Transfers
    OBVIOUS
  <1>2. /\ less \in Seq(Transfers) /\ DOMAIN less = 1..(n - 1)
        /\ \A j \in 1..(n - 1) : less[j] = IF j < i THEN list[j] ELSE list[j + 1]
    <2> DEFINE u == SubSeq(list, 1, i - 1)  v == SubSeq(list, i + 1, n)
    <2>1. u \in Seq(Transfers) /\ Len(u) = i - 1 /\ \A j \in 1..(i - 1) : u[j] = list[j]
      BY <1>1
    <2>2. v \in Seq(Transfers) /\ Len(v) = n - i /\ \A j \in 1..(n - i) : v[j] = list[j + i]
      BY <1>1
    <2>3. less = u \o v
      BY DEF Seqs!RemoveAt
    <2> HIDE DEF u, v, less
    <2>4. /\ less \in Seq(Transfers) /\ DOMAIN less = 1..(n - 1)
          /\ \A j \in 1..(n - 1) : less[j] = IF j <= i - 1 THEN u[j] ELSE v[j - (i - 1)]
      <3>1. less \in Seq(Transfers)
        BY <2>1, <2>2, <2>3
      <3>2. Len(less) = n - 1
        <4>1. Len(u \o v) = Len(u) + Len(v)
          BY <2>1, <2>2, Joined
        <4>2. i \in Int /\ n \in Int
          BY <1>1
        <4> QED BY <2>1, <2>2, <2>3, <4>1, <4>2
      <3>3. DOMAIN less = 1..(n - 1)
        BY <3>1, <3>2
      <3>4. \A j \in 1..(Len(u) + Len(v)) : (u \o v)[j] = IF j <= Len(u) THEN u[j] ELSE v[j - Len(u)]
        BY <2>1, <2>2
      <3>5. Len(u) + Len(v) = n - 1
        BY <1>1, <2>1, <2>2
      <3> QED BY <2>1, <2>3, <3>1, <3>3, <3>4, <3>5
    <2>5. ASSUME NEW j \in 1..(n - 1) PROVE less[j] = IF j < i THEN list[j] ELSE list[j + 1]
      <3>1. CASE j < i
        BY <1>1, <2>1, <2>4, <3>1
      <3>2. CASE ~(j < i)
        <4>1. j - (i - 1) \in 1..(n - i) /\ (j - (i - 1)) + i = j + 1
          BY <1>1, <3>2
        <4>2. less[j] = v[j - (i - 1)]
          BY <1>1, <2>4, <3>2
        <4>3. v[j - (i - 1)] = list[(j - (i - 1)) + i]
          BY <2>2, <4>1
        <4> QED BY <3>2, <4>1, <4>2, <4>3
      <3> QED BY <3>1, <3>2
    <2> QED BY <2>4, <2>5
  <1> HIDE DEF less, n
  <1>3. m \in Parts(Int) /\ \A p \in Heads : Effect(t, p) \in Int /\ m[p] = b[p] + Effect(t, p)
    BY <1>1, MovedIs
  <1>4. ASSUME NEW p \in Heads PROVE After(m, less)[p] = After(b, list)[p]
    <2> DEFINE h == Effects(list, p)  g == Effects(less, p)  G == SumFunctionOnSet(g, 1..(n - 1))
    <2>1. Whole(h, 1..n) /\ Whole(g, 1..(n - 1)) /\ IsFiniteSet(1..(n - 1))
      BY <1>1, <1>2, EffectsOf
    <2>2. h[i] = Effect(t, p)
          /\ \A j \in 1..(n - 1) : g[j] = IF j < i THEN h[j] ELSE h[j + 1]
      BY <1>1, <1>2 DEF Effects
    <2>3. /\ After(m, less)[p] = m[p] + G
          /\ After(b, list)[p] = b[p] + SumFunctionOnSet(h, 1..n)
      BY <1>1, <1>2, <1>3, AfterIs
    <2> HIDE DEF h, g, m, t
    <2>4. SumFunctionOnSet(h, 1..n) = h[i] + G
      BY <1>1, <2>1, <2>2, SumWithoutOne
    <2>5. G \in Int
      BY <2>1, SumAny
    <2>6. b[p] \in Int
      BY DEF Parts
    <2> HIDE DEF G
    <2> QED BY <1>3, <2>2, <2>3, <2>4, <2>5, <2>6
  <1>5. After(m, less) \in Parts(Int) /\ After(b, list) \in Parts(Int)
    BY <1>2, <1>3, AfterIs
  <1>6. After(m, less) = After(b, list)
    BY <1>4, <1>5 DEF Parts
  <1> QED BY <1>2, <1>6 DEF less

-----------------------------------------------------------------------------
(* The loop of simplifyDebts. *)

Owing(s) == {p \in Heads : s.left[p] < 0}
Owed(s) == {p \in Heads : s.left[p] > 0}
Unsettled(s) == {p \in Heads : s.left[p] # 0}
Stops(s) == Owing(s) = {} \/ Owed(s) = {}
NextOf(b, s) ==
  LET from == FirstByAmount(Owing(s), b)
      to == FirstByAmount(Owed(s), b)
  IN  Transfer(from, to, Smaller(-s.left[from], s.left[to]))
Onwards(b, s) ==
  [left |-> Moved(s.left, NextOf(b, s)), found |-> Append(s.found, NextOf(b, s))]

\* f is what the loop finds, wherever it is started
Loops(f, b) == f = [s \in Search |-> IF Stops(s) THEN s.found ELSE f[Onwards(b, s)]]

(* If there is such a function, the suggestions are what it finds at the start. *)
LEMMA LoopIs ==
  ASSUME NEW b, \E f : Loops(f, b)
  PROVE  \E f : Loops(f, b) /\ SimplifyDebts(b) = f[[left |-> b, found |-> << >>]]
  BY DEF Loops, Stops, Onwards, NextOf, Owing, Owed, SimplifyDebts

(* Somebody of those concerned is the first. *)
LEMMA FirstByAmountIn ==
  ASSUME NEW b \in Parts(Int), NEW S \in SUBSET Heads, S # {}
  PROVE  FirstByAmount(S, b) \in S
  <1> DEFINE rem == [p \in Heads |-> IF p \in S THEN Abs(b[p]) + 1 ELSE 0]  m == Largest(rem)
  <1>1. \A p \in Heads : Abs(b[p]) \in Int /\ Abs(b[p]) >= 0
    BY DEF Parts, Abs
  <1>2. rem \in Parts(Int) /\ \A p \in Heads : rem[p] \in Int /\ Abs(rem[p]) = rem[p]
    BY <1>1 DEF Parts, Abs
  <1>3. m \in Heads /\ \A q \in Heads : rem[m] > rem[q] \/ (rem[m] = rem[q] /\ m <= q)
    <2> HIDE DEF rem
    <2> QED BY <1>2, LargestIn
  <1> HIDE DEF m
  <1>4. m \in S
    <2>1. PICK p \in S : TRUE
      OBVIOUS
    <2>2. rem[p] > 0
      BY <1>1
    <2>3. rem[m] > 0
      <3> HIDE DEF rem
      <3> QED BY <1>2, <1>3, <2>2
    <2> QED BY <1>3, <2>3
  <1>5. \A q \in S : \/ Abs(b[m]) > Abs(b[q])
                     \/ Abs(b[m]) = Abs(b[q]) /\ m <= q
    <2> SUFFICES ASSUME NEW q \in S
                 PROVE  Abs(b[m]) > Abs(b[q]) \/ (Abs(b[m]) = Abs(b[q]) /\ m <= q)
      OBVIOUS
    <2>1. rem[m] = Abs(b[m]) + 1 /\ rem[q] = Abs(b[q]) + 1
      BY <1>3, <1>4
    <2> HIDE DEF rem
    <2> QED BY <1>1, <1>3, <2>1
  <1> QED BY <1>4, <1>5 DEF FirstByAmount

(* A step moves no more than one owes and another is owed, and squares one *)
(* of them at least.                                                       *)
LEMMA StepIs ==
  ASSUME NEW b \in Parts(Int), NEW s \in Search, ~Stops(s)
  PROVE  LET t == NextOf(b, s)
             o == Onwards(b, s)
         IN  /\ t \in Transfers /\ t.from \in Owing(s) /\ t.to \in Owed(s)
             /\ t.amount >= 1 /\ t.amount <= -s.left[t.from] /\ t.amount <= s.left[t.to]
             /\ o \in Search
             /\ o.left[t.from] = s.left[t.from] + t.amount
             /\ o.left[t.to] = s.left[t.to] - t.amount
             /\ \A p \in Heads \ {t.from, t.to} : o.left[p] = s.left[p]
             /\ o.left[t.from] = 0 \/ o.left[t.to] = 0
  <1> DEFINE t == NextOf(b, s)  o == Onwards(b, s)  f == t.from  u == t.to  a == t.amount
             F == FirstByAmount(Owing(s), b)  U == FirstByAmount(Owed(s), b)
  <1>1. s.left \in Parts(Int) /\ s.left \in [Heads -> Int]
        /\ s.found \in Seq([from : Heads, to : Heads, amount : Int])
    BY DEF Search, Parts
  <1>2. F \in Owing(s) /\ U \in Owed(s)
    <2>1. Owing(s) \in SUBSET Heads /\ Owed(s) \in SUBSET Heads
      BY DEF Owing, Owed
    <2> QED BY <2>1, FirstByAmountIn DEF Stops
  <1>3. f = F /\ u = U /\ a = Smaller(-s.left[f], s.left[u])
        /\ t = [from |-> f, to |-> u, amount |-> a]
    BY DEF NextOf, Transfer
  <1> HIDE DEF F, U, t
  <1>4. f \in Owing(s) /\ u \in Owed(s)
    BY <1>2, <1>3
  <1>5. /\ f \in Heads /\ u \in Heads /\ s.left[f] \in Int /\ s.left[u] \in Int
        /\ s.left[f] < 0 /\ s.left[u] > 0 /\ f # u
    BY <1>1, <1>4 DEF Owing, Owed
  <1>6. /\ a \in Int /\ a >= 1 /\ a <= -s.left[f] /\ a <= s.left[u]
        /\ a = -s.left[f] \/ a = s.left[u]
    <2> DEFINE x == s.left[f]  y == s.left[u]
    <2>1. x \in Int /\ y \in Int /\ x < 0 /\ y > 0 /\ a = Smaller(-x, y)
      BY <1>3, <1>5
    <2> HIDE DEF x, y
    <2>2. /\ a \in Int /\ a >= 1 /\ a <= -x /\ a <= y
          /\ a = -x \/ a = y
      BY <2>1 DEF Smaller
    <2> QED BY <2>2 DEF x, y
  <1>7. t \in Transfers
    BY <1>3, <1>5, <1>6 DEF Transfers
  <1>8. Moved(s.left, t) \in Parts(Int)
        /\ \A p \in Heads : Moved(s.left, t)[p] = s.left[p] + Effect(t, p)
    BY <1>1, <1>7, MovedIs
  <1>9. o.left = Moved(s.left, t) /\ o.found = Append(s.found, t) /\ o \in Search
    <2>1. t \in [from : Heads, to : Heads, amount : Int]
      BY <1>7 DEF Transfers
    <2>2. Append(s.found, t) \in Seq([from : Heads, to : Heads, amount : Int])
      BY <1>1, <2>1
    <2>3. o = [left |-> Moved(s.left, t), found |-> Append(s.found, t)]
      BY DEF Onwards, t
    <2> HIDE DEF o
    <2> QED BY <1>8, <2>2, <2>3 DEF Search
  <1> HIDE DEF o
  <1>10. Effect(t, f) = a /\ Effect(t, u) = -a /\ \A p \in Heads \ {f, u} : Effect(t, p) = 0
    BY <1>5, <1>6 DEF Effect
  <1>11. /\ o.left[f] = s.left[f] + a /\ o.left[u] = s.left[u] - a
         /\ \A p \in Heads \ {f, u} : o.left[p] = s.left[p]
    <2>1. \A p \in Heads : s.left[p] \in Int
      BY <1>1
    <2> HIDE DEF a, f, u
    <2>2. o.left[f] = s.left[f] + a /\ o.left[u] = s.left[u] + (-a)
      BY <1>5, <1>8, <1>9, <1>10
    <2>3. \A p \in Heads \ {f, u} : o.left[p] = s.left[p] + 0
      BY <1>8, <1>9, <1>10
    <2> QED BY <1>5, <1>6, <2>1, <2>2, <2>3
  <1>12. o.left[f] = 0 \/ o.left[u] = 0
    <2> HIDE DEF a, f, u
    <2> QED BY <1>5, <1>6, <1>11
  <1> QED BY <1>4, <1>6, <1>7, <1>9, <1>11, <1>12 DEF t, o

Remaining(s) == Cardinality(Unsettled(s))

(* Where nobody remains, the loop has stopped. *)
LEMMA RemainingIn ==
  ASSUME NEW s \in Search
  PROVE  /\ IsFiniteSet(Unsettled(s)) /\ Remaining(s) \in Nat /\ Remaining(s) <= Headcount
         /\ Remaining(s) = 0 => Stops(s)
  <1>1. Unsettled(s) \in SUBSET Heads
    BY DEF Unsettled
  <1>2. IsFiniteSet(Unsettled(s)) /\ Remaining(s) \in Nat /\ Remaining(s) <= Headcount
    BY <1>1, HeadsFinite, FS_Subset, FS_CardinalityType DEF Remaining
  <1>3. ASSUME Remaining(s) = 0 PROVE Stops(s)
    <2>1. Unsettled(s) = {}
      BY <1>2, <1>3, FS_EmptySet DEF Remaining
    <2>2. \A p \in Heads : s.left[p] = 0
      BY <2>1 DEF Unsettled
    <2> QED BY <2>2 DEF Stops, Owing
  <1> QED BY <1>2, <1>3

(* Every step leaves fewer people to settle with; the last leaves two fewer. *)
LEMMA FewerRemain ==
  ASSUME NEW b \in Parts(Int), NEW s \in Search, ~Stops(s)
  PROVE  /\ Remaining(Onwards(b, s)) < Remaining(s)
         /\ Remaining(s) >= 2
  <1> DEFINE t == NextOf(b, s)  o == Onwards(b, s)  f == t.from  u == t.to
  <1>1. /\ f \in Owing(s) /\ u \in Owed(s) /\ o \in Search /\ f # u
        /\ \A p \in Heads \ {f, u} : o.left[p] = s.left[p]
        /\ o.left[f] = 0 \/ o.left[u] = 0
    BY StepIs DEF Transfers
  <1> HIDE DEF f, u, o
  <1>2. f \in Unsettled(s) /\ u \in Unsettled(s)
    <2>1. \A p \in Heads : s.left[p] \in Int
      BY DEF Search, Parts
    <2> QED BY <1>1, <2>1 DEF Owing, Owed, Unsettled
  <1>3. Unsettled(o) \subseteq Unsettled(s) /\ Unsettled(o) # Unsettled(s)
    BY <1>1, <1>2 DEF Unsettled
  <1>4. Remaining(o) < Remaining(s)
    <2>1. IsFiniteSet(Unsettled(s)) /\ Remaining(s) \in Nat /\ Remaining(o) \in Nat
      BY <1>1, RemainingIn
    <2>2. Remaining(o) <= Remaining(s) /\ Remaining(o) # Remaining(s)
      BY <1>3, <2>1, FS_Subset DEF Remaining
    <2> QED BY <2>1, <2>2
  <1>5. Remaining(s) >= 2
    <2>1. IsFiniteSet(Unsettled(s)) /\ Remaining(s) \in Nat
      BY RemainingIn
    <2>2. IsFiniteSet({f, u}) /\ Cardinality({f, u}) = 2
      <3>1. IsFiniteSet({f}) /\ Cardinality({f}) = 1
        BY FS_Singleton
      <3>2. {f, u} = {f} \cup {u} /\ u \notin {f}
        BY <1>1
      <3>3. IsFiniteSet({f} \cup {u}) /\ Cardinality({f} \cup {u}) = 1 + 1
        BY <3>1, <3>2, FS_AddElement
      <3> QED BY <3>2, <3>3
    <2>3. Cardinality({f, u}) <= Cardinality(Unsettled(s))
      BY <1>2, <2>1, FS_Subset
    <2> QED BY <2>1, <2>2, <2>3 DEF Remaining
  <1> QED BY <1>4, <1>5 DEF o

(* So the loop ends wherever it is started: there is a function of what it  *)
(* finds.                                                                  *)
LEMMA LoopExists ==
  ASSUME NEW b \in Parts(Int)
  PROVE  \E f : Loops(f, b)
  <1> DEFINE Once(f) == [s \in Search |-> IF Stops(s) THEN s.found ELSE f[Onwards(b, s)]]
             Fits(f, n) == /\ f = [s \in Search |-> f[s]]
                           /\ \A s \in Search : Remaining(s) <= n => f[s] = Once(f)[s]
             bad == {n \in Nat : ~\E f : Fits(f, n)}
  <1>1. 0 \notin bad
    <2> DEFINE f == [s \in Search |-> s.found]
    <2>1. \A s \in Search : Remaining(s) <= 0 => Stops(s)
      BY RemainingIn
    <2>2. Fits(f, 0)
      BY <2>1
    <2> QED BY <2>2
  <1>2. ASSUME NEW n \in Nat, n \notin bad PROVE n + 1 \notin bad
    <2>1. PICK f : Fits(f, n)
      BY <1>2
    <2>2. Fits(Once(f), n + 1)
      <3> DEFINE g == Once(f)
      <3>1. \A s \in Search : g[s] = IF Stops(s) THEN s.found ELSE f[Onwards(b, s)]
        OBVIOUS
      <3>2. ASSUME NEW s \in Search, Remaining(s) <= n + 1
            PROVE  g[s] = IF Stops(s) THEN s.found ELSE g[Onwards(b, s)]
        <4>1. CASE Stops(s)
          BY <3>1, <4>1
        <4>2. CASE ~Stops(s)
          <5> DEFINE o == Onwards(b, s)
          <5>1. o \in Search
            BY <4>2, StepIs
          <5>2. Remaining(o) <= n
            <6>1. Remaining(o) \in Nat /\ Remaining(s) \in Nat
              BY <5>1, RemainingIn
            <6>2. Remaining(o) < Remaining(s)
              BY <4>2, FewerRemain
            <6> HIDE DEF o
            <6> QED BY <3>2, <6>1, <6>2
          <5>3. f[o] = g[o]
            BY <2>1, <5>1, <5>2
          <5> HIDE DEF o
          <5>4. g[s] = f[o]
            BY <3>1, <4>2 DEF o
          <5> QED BY <4>2, <5>3, <5>4 DEF o
        <4> QED BY <4>1, <4>2
      <3>3. g = [s \in Search |-> g[s]]
        OBVIOUS
      <3>4. \A s \in Search : Remaining(s) <= n + 1 => g[s] = Once(g)[s]
        <4> HIDE DEF g
        <4> QED BY <3>2
      <3> HIDE DEF g, Once
      <3> QED BY <3>3, <3>4 DEF g
    <2> HIDE DEF Fits, Once
    <2> QED BY <2>2
  <1> HIDE DEF Fits
  <1>3. bad = {}
    <2> SUFFICES ASSUME bad # {} PROVE FALSE
      OBVIOUS
    <2>1. PICK n \in bad : \A m \in bad : n <= m
      BY LeastOf
    <2>2. n \in Nat /\ n # 0
      BY <1>1, <2>1
    <2>3. n - 1 \in Nat /\ n - 1 \notin bad
      BY <2>1, <2>2
    <2> QED BY <1>2, <2>2, <2>3
  <1>4. PICK f : Fits(f, Headcount)
    BY <1>3, HeadsFinite
  <1>5. \A s \in Search : f[s] = Once(f)[s]
    BY <1>4, RemainingIn DEF Fits
  <1>6. f = [s \in Search |-> f[s]]
    BY <1>4 DEF Fits
  <1>7. Loops(f, b)
    <2>1. f = [s \in Search |-> Once(f)[s]]
      <3> HIDE DEF Once
      <3> QED BY <1>5, <1>6
    <2> QED BY <2>1 DEF Loops
  <1> QED BY <1>7

(* Where the loop ends, what it keeps is so. *)
LEMMA LoopEnds ==
  ASSUME NEW b \in Parts(Int), NEW f, Loops(f, b), NEW kept \in SUBSET Search,
         \A s \in kept : ~Stops(s) => Onwards(b, s) \in kept, NEW s0 \in kept
  PROVE  \E e \in kept : Stops(e) /\ f[s0] = e.found
  <1> DEFINE Ends(s) == \E e \in kept : Stops(e) /\ f[s] = e.found
             bad == {s \in kept : ~Ends(s)}
             sizes == {Remaining(s) : s \in bad}
  <1>1. \A s \in kept : f[s] = IF Stops(s) THEN s.found ELSE f[Onwards(b, s)]
    BY DEF Loops
  <1>2. bad = {}
    <2> SUFFICES ASSUME bad # {} PROVE FALSE
      OBVIOUS
    <2>1. PICK n \in sizes : \A m \in sizes : n <= m
      <3>1. sizes \subseteq Nat /\ sizes # {}
        BY RemainingIn
      <3> HIDE DEF sizes
      <3> QED BY <3>1, LeastOf
    <2>2. PICK s \in bad : n = Remaining(s)
      BY <2>1
    <2>3. s \in kept /\ s \in Search /\ ~Ends(s)
      BY <2>2
    <2>4. ~Stops(s)
      BY <1>1, <2>3
    <2> DEFINE o == Onwards(b, s)
    <2>5. o \in kept /\ o \in Search /\ f[s] = f[o]
      BY <1>1, <2>3, <2>4
    <2>6. ~Ends(o)
      BY <2>3, <2>5
    <2>7. o \in bad
      BY <2>5, <2>6
    <2>8. n <= Remaining(o)
      BY <2>1, <2>7
    <2>9. Remaining(o) < Remaining(s) /\ Remaining(o) \in Nat /\ Remaining(s) \in Nat
      BY <2>3, <2>4, <2>5, FewerRemain, RemainingIn
    <2> HIDE DEF o
    <2> QED BY <2>2, <2>8, <2>9
  <1> QED BY <1>2

-----------------------------------------------------------------------------
(* What is suggested. *)

Concerned(b) == {p \in Heads : b[p] # 0}

\* a transfer that asks no more than is owed
Modest(t, b) == t.amount \in 1..Smaller(-b[t.from], b[t.to])

\* what the loop keeps: what it has found leads to what is left, between what it
\* started from and nothing, and each transfer has left one person fewer
Keeping(b, s) ==
  /\ s.found \in Seq(Transfers) /\ After(b, s.found) = s.left /\ SumOf(s.left) = 0
  /\ \A p \in Heads : /\ b[p] <= 0 => b[p] <= s.left[p] /\ s.left[p] <= 0
                      /\ b[p] >= 0 => s.left[p] <= b[p] /\ 0 <= s.left[p]
  /\ Len(s.found) + Remaining(s) <= Cardinality(Concerned(b))
  /\ s.found # << >> /\ Remaining(s) = 0 => Len(s.found) < Cardinality(Concerned(b))
  /\ \A i \in DOMAIN s.found : Modest(s.found[i], b)
Kept(b) == {s \in Search : Keeping(b, s)}

(* A step of the loop keeps all of that. *)
LEMMA KeptOnwards ==
  ASSUME NEW b \in Parts(Int), NEW s \in Kept(b), ~Stops(s)
  PROVE  Onwards(b, s) \in Kept(b)
  <1> DEFINE t == NextOf(b, s)  o == Onwards(b, s)  f == t.from  u == t.to  a == t.amount
             list == s.found
  <1>1. /\ s \in Search /\ list \in Seq(Transfers) /\ After(b, list) = s.left
        /\ SumOf(s.left) = 0
        /\ Len(list) + Remaining(s) <= Cardinality(Concerned(b))
        /\ \A i \in DOMAIN list : Modest(list[i], b)
    BY DEF Kept, Keeping
  <1>2. \A p \in Heads : /\ b[p] <= 0 => b[p] <= s.left[p] /\ s.left[p] <= 0
                         /\ b[p] >= 0 => s.left[p] <= b[p] /\ 0 <= s.left[p]
    BY DEF Kept, Keeping
  <1>3. /\ t \in Transfers /\ f \in Owing(s) /\ u \in Owed(s)
        /\ a >= 1 /\ a <= -s.left[f] /\ a <= s.left[u]
        /\ o \in Search
        /\ o.left[f] = s.left[f] + a
        /\ o.left[u] = s.left[u] - a
        /\ \A p \in Heads \ {f, u} : o.left[p] = s.left[p]
    BY <1>1, StepIs
  <1>4. o.left = Moved(s.left, t) /\ o.found = Append(list, t)
    BY DEF Onwards
  <1>5. s.left \in Parts(Int) /\ \A p \in Heads : s.left[p] \in Int /\ b[p] \in Int
    BY <1>1 DEF Search, Parts
  <1> HIDE DEF t, o, list
  <1>6. /\ f \in Heads /\ u \in Heads /\ a \in Int /\ s.left[f] < 0 /\ s.left[u] > 0
        /\ s.left[f] \in Int /\ s.left[u] \in Int /\ b[f] \in Int /\ b[u] \in Int
    BY <1>3, <1>5 DEF Transfers, Owing, Owed
  <1>7. b[f] <= s.left[f] /\ s.left[u] <= b[u]
    BY <1>2, <1>6
  <1>8. o.found \in Seq(Transfers) /\ After(b, o.found) = o.left /\ SumOf(o.left) = 0
    <2>1. o.found \in Seq(Transfers)
      BY <1>1, <1>3, <1>4
    <2>2. After(b, o.found) = o.left
      BY <1>1, <1>3, <1>4, AfterAppend
    <2>3. SumOf(o.left) = 0
      BY <1>1, <1>3, <1>4, <1>5, MovedIs
    <2> QED BY <2>1, <2>2, <2>3
  <1>9. ASSUME NEW p \in Heads
        PROVE  /\ b[p] <= 0 => b[p] <= o.left[p] /\ o.left[p] <= 0
               /\ b[p] >= 0 => o.left[p] <= b[p] /\ 0 <= o.left[p]
    <2>1. /\ b[p] <= 0 => b[p] <= s.left[p] /\ s.left[p] <= 0
          /\ b[p] >= 0 => s.left[p] <= b[p] /\ 0 <= s.left[p]
      BY <1>2
    <2> HIDE DEF f, u, a
    <2>2. CASE p = f
      BY <1>3, <1>6, <1>7, <2>1, <2>2
    <2>3. CASE p = u
      BY <1>3, <1>6, <1>7, <2>1, <2>3
    <2>4. CASE p # f /\ p # u
      BY <1>3, <2>1, <2>4
    <2> QED BY <2>2, <2>3, <2>4
  <1>10. /\ Len(o.found) + Remaining(o) <= Cardinality(Concerned(b))
         /\ Remaining(o) = 0 => Len(o.found) < Cardinality(Concerned(b))
    <2>1. Len(o.found) = Len(list) + 1 /\ Len(list) \in Nat
      BY <1>1, <1>3, <1>4
    <2>2. Remaining(o) \in Nat /\ Remaining(s) \in Nat
      BY <1>1, <1>3, RemainingIn
    <2>3. Remaining(o) < Remaining(s) /\ Remaining(s) >= 2
      BY <1>1, FewerRemain DEF o
    <2>4. Cardinality(Concerned(b)) \in Nat
      BY HeadsFinite, FS_Subset, FS_CardinalityType DEF Concerned
    <2> QED BY <1>1, <2>1, <2>2, <2>3, <2>4
  <1>11. \A i \in DOMAIN o.found : Modest(o.found[i], b)
    <2>1. Modest(t, b)
      <3> HIDE DEF f, u, a
      <3>1. -b[f] \in Int /\ a <= -b[f] /\ a <= b[u]
        BY <1>3, <1>6, <1>7
      <3>2. a \in 1..Smaller(-b[f], b[u])
        BY <1>3, <1>6, <3>1 DEF Smaller
      <3> QED BY <3>2 DEF Modest, a, f, u
    <2>2. ASSUME NEW i \in DOMAIN o.found PROVE Modest(o.found[i], b)
      <3>1. CASE i = Len(list) + 1
        <4>1. o.found[i] = t
          BY <1>1, <1>3, <1>4, <3>1
        <4> QED BY <2>1, <4>1
      <3>2. CASE i # Len(list) + 1
        <4>1. i \in DOMAIN list /\ o.found[i] = list[i]
          BY <1>1, <1>3, <1>4, <2>2, <3>2
        <4> QED BY <1>1, <4>1
      <3> QED BY <3>1, <3>2
    <2> QED BY <2>2
  <1>12. o \in Kept(b)
    BY <1>3, <1>8, <1>9, <1>10, <1>11 DEF Kept, Keeping
  <1> QED BY <1>12 DEF o

(* Who adds up to nothing, and of whom nobody owes, is square. *)
LEMMA AllSquare ==
  ASSUME NEW b \in Parts(Int), SumOf(b) = 0,
         (\A p \in Heads : b[p] >= 0) \/ (\A p \in Heads : b[p] <= 0)
  PROVE  \A p \in Heads : b[p] = 0
  <1> SUFFICES ASSUME NEW p \in Heads PROVE b[p] = 0
    OBVIOUS
  <1> DEFINE R == Heads \ {p}  B == SumFunctionOnSet(b, R)
  <1>1. /\ SumOf(b) = SumFunctionOnSet(b, Heads) /\ Whole(b, Heads) /\ IsFiniteSet(Heads)
        /\ b[p] \in Int
    BY SumOfIs DEF Parts
  <1>2. SumOf(b) = b[p] + B
    BY <1>1, SumAny
  <1>3. R \in SUBSET Heads /\ IsFiniteSet(R) /\ Whole(b, R) /\ B \in Int
    BY <1>1, SumWithin
  <1>4. 0 * Cardinality(R) = 0
    BY <1>3, FS_CardinalityType
  <1>5. (\A q \in R : b[q] >= 0) => B >= 0
    BY <1>3, <1>4, SumAtLeast
  <1>6. (\A q \in R : b[q] <= 0) => B <= 0
    BY <1>3, <1>4, SumAtMost
  <1>7. (\A q \in Heads : b[q] >= 0) => B >= 0 /\ b[p] >= 0
    BY <1>5
  <1>8. (\A q \in Heads : b[q] <= 0) => B <= 0 /\ b[p] <= 0
    BY <1>6
  <1> HIDE DEF B, R
  <1> QED BY <1>1, <1>2, <1>3, <1>7, <1>8

(* Suggestions square everybody, with fewer transfers than people. *)
LEMMA SuggestionsSquare ==
  ASSUME NEW b \in Parts(Int), SumOf(b) = 0
  PROVE  LET list == SimplifyDebts(b)
         IN  /\ list \in Seq(Transfers)
             /\ \A p \in Heads : After(b, list)[p] = 0
             /\ list # << >> => Len(list) < Cardinality(Concerned(b))
             /\ \A i \in DOMAIN list : Modest(list[i], b)
  <1> DEFINE s0 == [left |-> b, found |-> << >>]
  <1>1. PICK f : Loops(f, b) /\ SimplifyDebts(b) = f[s0]
    BY LoopExists, LoopIs
  <1>2. s0 \in Kept(b)
    <2>1. s0 \in Search
      BY DEF Search
    <2>2. Remaining(s0) = Cardinality(Concerned(b)) /\ Remaining(s0) \in Nat
      BY <2>1, RemainingIn DEF Remaining, Unsettled, Concerned
    <2>3. \A p \in Heads : b[p] \in Int
      BY DEF Parts
    <2>4. << >> \in Seq(Transfers) /\ Len(<< >>) = 0 /\ DOMAIN << >> = {}
      OBVIOUS
    <2>5. After(b, << >>) = b
      BY AfterNothing
    <2>6. s0.left = b /\ s0.found = << >>
      OBVIOUS
    <2> HIDE DEF s0
    <2>7. \A p \in Heads : /\ b[p] <= 0 => b[p] <= s0.left[p] /\ s0.left[p] <= 0
                           /\ b[p] >= 0 => s0.left[p] <= b[p] /\ 0 <= s0.left[p]
      BY <2>3, <2>6
    <2>8. Len(s0.found) + Remaining(s0) <= Cardinality(Concerned(b))
      BY <2>2, <2>4, <2>6
    <2>9. s0.found \in Seq(Transfers) /\ After(b, s0.found) = s0.left /\ SumOf(s0.left) = 0
      BY <2>4, <2>5, <2>6
    <2>10. \A i \in DOMAIN s0.found : Modest(s0.found[i], b)
      BY <2>4, <2>6
    <2>11. s0.found # << >> /\ Remaining(s0) = 0 => Len(s0.found) < Cardinality(Concerned(b))
      BY <2>6
    <2>12. Keeping(b, s0)
      BY <2>7, <2>8, <2>9, <2>10, <2>11 DEF Keeping
    <2> QED BY <2>1, <2>12 DEF Kept
  <1>3. PICK e \in Kept(b) : Stops(e) /\ f[s0] = e.found
    <2>1. Kept(b) \in SUBSET Search
      BY DEF Kept, Keeping
    <2> HIDE DEF s0
    <2> QED BY <1>1, <1>2, <2>1, KeptOnwards, LoopEnds
  <1>4. /\ e \in Search /\ e.found \in Seq(Transfers) /\ After(b, e.found) = e.left
        /\ SumOf(e.left) = 0
        /\ e.found # << >> /\ Remaining(e) = 0 => Len(e.found) < Cardinality(Concerned(b))
        /\ \A i \in DOMAIN e.found : Modest(e.found[i], b)
    BY DEF Kept, Keeping
  <1>5. \A p \in Heads : e.left[p] = 0
    <2>1. e.left \in Parts(Int) /\ \A p \in Heads : e.left[p] \in Int
      BY <1>4 DEF Search, Parts
    <2>2. (\A p \in Heads : e.left[p] >= 0) \/ (\A p \in Heads : e.left[p] <= 0)
      BY <1>3, <2>1 DEF Stops, Owing, Owed
    <2> QED BY <1>4, <2>1, <2>2, AllSquare
  <1>6. Remaining(e) = 0
    <2>1. Unsettled(e) = {}
      BY <1>5 DEF Unsettled
    <2> QED BY <2>1, FS_EmptySet DEF Remaining
  <1> QED BY <1>1, <1>3, <1>4, <1>5, <1>6

(* The balances of a group come to nothing, and the list on somebody's      *)
(* screen, as far as it has been followed, still squares them.              *)
BalanceInv ==
  /\ balance \in Parts(Int) /\ SumOf(balance) = 0
  /\ shown \in Seq(Transfers) /\ (shown # << >> => SquaredBy(shown))

(* Both sides of an entry come to one total, so balances come to what they did. *)
LEMMA BookedBalances ==
  ASSUME NEW b \in Parts(Int), NEW x \in Parts(Int), NEW y \in Parts(Int),
         NEW d \in {-1, 1}, SumOf(b) = 0, SumOf(x) = SumOf(y),
         NEW h, h \in Parts(Int), \A p \in Heads : h[p] = b[p] + d * (x[p] - y[p])
  PROVE  SumOf(h) = 0
  <1> DEFINE g == [p \in Heads |-> x[p] - y[p]]
  <1>1. \A p \in Heads : b[p] \in Int /\ x[p] \in Int /\ y[p] \in Int /\ d \in Int
    BY DEF Parts
  <1>2. g \in Parts(Int) /\ h \in Parts(Int)
    BY <1>1 DEF Parts
  <1>3. \A p \in Heads : 1 * x[p] = 1 * y[p] + g[p]
    BY <1>1
  <1>4. \A p \in Heads : 1 * h[p] = d * g[p] + b[p]
    <2> SUFFICES ASSUME NEW p \in Heads PROVE 1 * h[p] = d * g[p] + b[p]
      OBVIOUS
    <2>1. h[p] = b[p] + d * g[p] /\ d * g[p] \in Int /\ b[p] \in Int
      BY <1>1
    <2> HIDE DEF g
    <2> QED BY <2>1
  <1> DEFINE X == SumFunctionOnSet(x, Heads)  Y == SumFunctionOnSet(y, Heads)
             G == SumFunctionOnSet(g, Heads)  H == SumFunctionOnSet(h, Heads)
             B == SumFunctionOnSet(b, Heads)
  <1> HIDE DEF g
  <1>5. /\ Whole(b, Heads) /\ Whole(x, Heads) /\ Whole(y, Heads) /\ Whole(g, Heads)
        /\ Whole(h, Heads) /\ IsFiniteSet(Heads)
        /\ B = 0 /\ X = Y /\ SumOf(h) = H
    BY <1>2, SumOfIs
  <1>6. X \in Int /\ Y \in Int /\ G \in Int /\ H \in Int /\ B \in Int
    BY <1>5, SumAny
  <1>7. 1 * X = 1 * Y + G
    BY <1>3, <1>5, SumBalanced
  <1>8. 1 * H = d * G + B
    BY <1>4, <1>5, SumBalanced
  <1> HIDE DEF X, Y, G, H, B
  <1>9. G = 0
    BY <1>5, <1>6, <1>7
  <1>10. H = 0
    BY <1>5, <1>6, <1>8, <1>9
  <1> QED BY <1>2, <1>5, <1>10

(* What is entered leaves balances that come to nothing, and no list. *)
LEMMA EnterBalances ==
  ASSUME BalanceInv, NEW total \in Amounts, NEW dir \in {-1, 1}, NEW rate \in Rates,
         NEW payers \in Contributions[total], NEW weights, NEW parts \in Parts(Int),
         SumOf(parts) = total, Enter(total, dir, rate, payers, weights, parts)
  PROVE  BalanceInv'
  <1> DEFINE paid == RowsOf(payers, total, rate)  shares == RowsOf(parts, total, rate)
  <1>1. total \in Nat \ {0}
    BY MoneyAssumption
  <1>2. payers \in Parts(Int) /\ SumOf(payers) = total
    BY <1>1 DEF Contributions, Parts
  <1>3. paid \in Parts(Int) /\ shares \in Parts(Int) /\ SumOf(paid) = SumOf(shares)
    BY <1>1, <1>2, RowsOfSide
  <1>4. entry'.paid = paid /\ entry'.shares = shares
    BY DEF Enter
  <1>5. balance' = [p \in Heads |-> balance[p] + dir * (paid[p] - shares[p])]
    <2> HIDE DEF paid, shares
    <2> QED BY <1>4 DEF Enter, Booked
  <1>6. balance' \in Parts(Int) /\ SumOf(balance') = 0
    <2> HIDE DEF paid, shares
    <2>1. balance \in Parts(Int) /\ SumOf(balance) = 0
      BY DEF BalanceInv
    <2>2. \A p \in Heads : balance'[p] = balance[p] + dir * (paid[p] - shares[p])
      BY <1>5
    <2>3. balance' \in Parts(Int)
      <3>1. \A p \in Heads : balance[p] \in Int /\ paid[p] \in Int /\ shares[p] \in Int /\ dir \in Int
        BY <1>3, <2>1 DEF Parts
      <3> QED BY <1>5, <3>1 DEF Parts
    <2> QED BY <1>3, <2>1, <2>2, <2>3, BookedBalances
  <1>7. shown' = << >> /\ shown' \in Seq(Transfers)
    BY DEF Enter
  <1> QED BY <1>6, <1>7 DEF BalanceInv

(* A repayment takes its transfer off the list, and its effect off the debts. *)
LEMMA BalanceKeeps == BalanceInv /\ [MoneyNext]_moneyVars => BalanceInv'
  <1> SUFFICES ASSUME BalanceInv, [MoneyNext]_moneyVars PROVE BalanceInv'
    OBVIOUS
  <1>1. CASE UNCHANGED moneyVars
    BY <1>1 DEF moneyVars, BalanceInv, SquaredBy
  <1>2. ASSUME NEW total \in Amounts, NEW dir \in {-1, 1}, NEW rate \in Rates,
               NEW payers \in Contributions[total], EnterWeighted(total, dir, rate, payers)
        PROVE  BalanceInv'
    <2>1. PICK weights \in Weights :
            Enter(total, dir, rate, payers, weights, AllocateByWeights(total, weights))
      BY <1>2 DEF EnterWeighted
    <2>2. Weighing(total, weights)
      BY MoneyAssumption DEF Weights, Weighing, Parts
    <2> DEFINE parts == AllocateByWeights(total, weights)
    <2>3. parts \in Parts(Int) /\ SumOf(parts) = total
      BY <2>2, AllocationFair DEF Parts
    <2> HIDE DEF parts
    <2> QED BY <1>2, <2>1, <2>3, EnterBalances DEF parts
  <1>3. ASSUME NEW total \in Amounts, NEW dir \in {-1, 1}, NEW rate \in Rates,
               NEW payers \in Contributions[total], EnterExact(total, dir, rate, payers)
        PROVE  BalanceInv'
    <2>1. PICK parts \in Exact[total] : Enter(total, dir, rate, payers, NoWeights, parts)
      BY <1>3 DEF EnterExact
    <2>2. parts \in Parts(Int) /\ SumOf(parts) = total
      BY DEF Exact, Parts
    <2> QED BY <1>3, <2>1, <2>2, EnterBalances
  <1>4. CASE Suggest
    <2>1. shown' = SimplifyDebts(balance) /\ balance' = balance
      BY <1>4 DEF Suggest
    <2>2. /\ SimplifyDebts(balance) \in Seq(Transfers)
          /\ \A p \in Heads : After(balance, SimplifyDebts(balance))[p] = 0
      BY SuggestionsSquare DEF BalanceInv
    <2> QED BY <2>1, <2>2 DEF BalanceInv, SquaredBy
  <1>5. ASSUME NEW i \in 1..Headcount, Repay(i) PROVE BalanceInv'
    <2> DEFINE t == shown[i]  less == Seqs!RemoveAt(shown, i)
    <2>1. i \in DOMAIN shown /\ balance' = Moved(balance, t) /\ shown' = less
      BY <1>5 DEF Repay
    <2>2. t \in Transfers /\ shown # << >>
      BY <2>1 DEF BalanceInv
    <2>3. balance' \in Parts(Int) /\ SumOf(balance') = 0
      BY <2>1, <2>2, MovedIs DEF BalanceInv
    <2>4. less \in Seq(Transfers) /\ After(balance', less) = After(balance, shown)
      BY <2>1, AfterOneOf DEF BalanceInv
    <2>5. \A p \in Heads : After(balance, shown)[p] = 0
      BY <2>2 DEF BalanceInv, SquaredBy
    <2> HIDE DEF less
    <2> QED BY <2>1, <2>3, <2>4, <2>5 DEF BalanceInv, SquaredBy
  <1> QED BY <1>1, <1>2, <1>3, <1>4, <1>5 DEF MoneyNext

(* For any number of people and any debts: the suggestions, followed in any *)
(* order and however far they have been, leave everybody square; there are  *)
(* fewer of them than people they concern, and each asks of somebody no     *)
(* more than they owe and gives nobody more than they are owed              *)
(* (balances/engine.ts:204-210, 271).                                       *)
THEOREM SuggestionsAlwaysClear == MoneySpec => []SuggestionsClear
  <1>1. MoneyInit => BalanceInv
    BY DEF MoneyInit, BalanceInv, Parts
  <1>2. BalanceInv => SuggestionsClear
    <2> SUFFICES ASSUME BalanceInv PROVE SuggestionsClear
      OBVIOUS
    <2> DEFINE list == SimplifyDebts(balance)
    <2>1. /\ list \in Seq(Transfers)
          /\ \A p \in Heads : After(balance, list)[p] = 0
          /\ list # << >> => Len(list) < Cardinality(Concerned(balance))
          /\ \A i \in DOMAIN list : Modest(list[i], balance)
      BY SuggestionsSquare DEF BalanceInv
    <2> HIDE DEF list
    <2> QED BY <2>1 DEF BalanceInv, SuggestionsClear, SquaredBy, Concerned, Modest, list
  <1> QED BY <1>1, <1>2, BalanceKeeps, PTL DEF MoneySpec
=============================================================================
