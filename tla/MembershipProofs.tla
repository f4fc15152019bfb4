-------------------------- MODULE MembershipProofs --------------------------
(***************************************************************************)
(* Theorems about Membership, for any number of people, accounts, links    *)
(* and requests: the tables agree on who sits where, a seat has one link,  *)
(* and nobody is handed the group who had no claim to it.                  *)
(***************************************************************************)
EXTENDS Membership, FiniteSetTheorems, TLAPS

-----------------------------------------------------------------------------
(* The inductive invariant, in three parts: people, links and requests.    *)

PeopleTyped ==
  /\ groupThere \in BOOLEAN /\ creator \in Seats \cup {Nobody}
  /\ seats \in [Seats -> Seat]
  /\ members \in [Users -> Member \cup {Nobody}]
  /\ accounts \subseteq Users

(* Foreign keys; and a seat that is not there has nobody, and nobody left. *)
PeopleKeys ==
  /\ \A u \in Users : members[u] # Nobody => u \in accounts /\ seats[members[u].seat].there
  /\ \A p \in Seats : seats[p].account # Nobody => seats[p].account \in accounts
  /\ \A p \in Seats : seats[p].account # Nobody \/ seats[p].removed => seats[p].there

People == PeopleTyped /\ PeopleKeys /\ SeatsAgree

LinksTyped ==
  /\ invites \in [Invites -> Invite \cup {Nobody}]
  /\ guestSessions \in [Sessions -> GuestSession \cup {Nobody}]
  /\ \A s \in Sessions : guestSessions[s] # Nobody => invites[guestSessions[s].invite] # Nobody

(* A live link leads to a seat that is there, and alone. *)
LinksLead ==
  /\ \A i \in Invites : LiveInvite(i) => seats[invites[i].seat].there
  /\ \A i, j \in Invites :
       LiveInvite(i) /\ LiveInvite(j) /\ invites[i].seat = invites[j].seat => i = j

Links == LinksTyped /\ LinksLead

(* What each phase has read is still there, if the group is. *)
Fits(call) ==
  /\ call \in Request
  /\ call.phase \in {"invite", "guestJoin", "remove"} =>
       call.seat \in Seats /\ (groupThere => seats[call.seat].there)
  /\ call.phase = "remove" => groupThere
  /\ call.phase = "redeem" => call.invite \in Invites
  /\ call.phase = "claim" =>
       call.user \in Users /\ call.invite \in Invites /\ (groupThere => invites[call.invite] # Nobody)
  /\ call.phase \in {"survivors", "guests", "close"} => call.user \in Users

CallsFit == calls \in [Calls -> Request] /\ \A c \in Calls : Fits(calls[c])

(* Without its group no row is left of it. *)
NothingLeft ==
  ~groupThere => /\ \A p \in Seats : seats[p] = NoSeat
                 /\ \A u \in Users : members[u] = Nobody
                 /\ \A i \in Invites : invites[i] = Nobody

IndInv == People /\ Links /\ CallsFit /\ NothingLeft

USE NobodyAssumption, FirstAssumption, RowsAssumption

-----------------------------------------------------------------------------
(* Requests. *)

(* What the rows may do without a request losing what it has read. *)
RowsKept ==
  /\ groupThere' => /\ groupThere
                    /\ \A p \in Seats : seats[p].there => seats'[p].there
                    /\ \A i \in Invites : invites[i] # Nobody => invites'[i] # Nobody
  /\ ~groupThere' /\ groupThere => \A c \in Calls : calls[c].phase # "remove"

LEMMA FitsKept ==
  ASSUME RowsKept, groupThere \in BOOLEAN, NEW call, Fits(call),
         call.phase = "remove" /\ groupThere => groupThere'
  PROVE  Fits(call)'
  BY DEF Fits, RowsKept

LEMMA NoCallFits == Fits(NoCall)
  <1>1. NoCall \in Request
    BY DEF NoCall, Request, Phases
  <1> QED BY <1>1 DEF Fits, NoCall

LEMMA CallsKept ==
  ASSUME CallsFit, RowsKept, groupThere \in BOOLEAN, calls' = calls
  PROVE  CallsFit'
  BY FitsKept DEF CallsFit, RowsKept

LEMMA LeaveFits ==
  ASSUME CallsFit, RowsKept, groupThere \in BOOLEAN, NEW c \in Calls, Leave(c),
         groupThere' \in BOOLEAN
  PROVE  CallsFit'
  <1>1. calls' = [calls EXCEPT ![c] = NoCall]
    BY DEF Leave
  <1>2. Fits(NoCall)'
    <2>1. NoCall \in Request
      BY DEF NoCall, Request, Phases
    <2> QED BY <2>1 DEF Fits, NoCall
  <1>3. \A d \in Calls : Fits(calls[d])'
    <2> SUFFICES ASSUME NEW d \in Calls PROVE Fits(calls[d])'
      OBVIOUS
    <2>1. CASE d = c
      BY <1>1, <1>2, <2>1 DEF CallsFit, Fits
    <2>2. CASE d # c
      <3>1. calls'[d] = calls[d]
        BY <1>1, <2>2 DEF CallsFit
      <3> QED BY <3>1 DEF CallsFit, Fits, RowsKept
    <2> QED BY <2>1, <2>2
  <1>4. calls' \in [Calls -> Request]
    BY <1>1, <1>2 DEF CallsFit, Fits
  <1> QED BY <1>3, <1>4 DEF CallsFit

(* A request that has read, and written nothing. *)
LEMMA Enters ==
  ASSUME IndInv, NEW c \in Calls, NEW call, Fits(call), Enter(c, call),
         UNCHANGED <<rowsOfGroup, accounts>>
  PROVE  IndInv'
  <1>1. UNCHANGED <<groupThere, creator, seats, members, joined, invites, guestSessions, accounts>>
    BY DEF rowsOfGroup
  <1>2. CallsFit'
    BY <1>1 DEF IndInv, CallsFit, Enter, Fits
  <1>3. People' /\ Links' /\ NothingLeft'
    BY <1>1 DEF IndInv, People, PeopleTyped, PeopleKeys, SeatsAgree, Links, LinksTyped, LinksLead,
                LiveInvite, NothingLeft
  <1> QED BY <1>2, <1>3 DEF IndInv

-----------------------------------------------------------------------------
(* Links. *)

LEMMA LinksUntouched ==
  ASSUME Links, UNCHANGED <<invites, guestSessions>>,
         \A p \in Seats : seats[p].there => seats'[p].there
  PROVE  Links'
  <1>1. \A i \in Invites : LiveInvite(i) => invites[i].seat \in Seats
    BY DEF Links, LinksTyped, LiveInvite, Invite
  <1> QED BY <1>1 DEF Links, LinksTyped, LinksLead, LiveInvite

(* Retiring links only takes: none is live that was not, none changes seat. *)
LEMMA RetiredRows ==
  ASSUME LinksTyped, NEW links \in SUBSET Invites, \A i \in links : invites[i] # Nobody
  PROVE  /\ Retired(links) \in [Invites -> Invite \cup {Nobody}]
         /\ \A i \in Invites : Retired(links)[i] = Nobody <=> invites[i] = Nobody
         /\ \A i \in Invites : Retired(links)[i] # Nobody =>
              /\ Retired(links)[i].seat = invites[i].seat
              /\ Retired(links)[i].revoked = (i \in links \/ invites[i].revoked)
  <1>1. ASSUME NEW i \in Invites, invites[i] # Nobody, NEW row, row = [invites[i] EXCEPT !.revoked = TRUE]
        PROVE  row \in Invite /\ row.seat = invites[i].seat /\ row.revoked = TRUE /\ row # Nobody
    <2> DEFINE old == invites[i]
    <2>1. PICK p \in Seats, b \in BOOLEAN : old = [seat |-> p, revoked |-> b]
      BY <1>1 DEF LinksTyped, Invite
    <2>2. row = [old EXCEPT !.revoked = TRUE]
      BY <1>1
    <2> HIDE DEF old
    <2>3. row = [seat |-> p, revoked |-> TRUE]
      BY <2>1, <2>2
    <2>4. old.seat = p
      BY <2>1
    <2> USE DEF old
    <2>5. row \in Invite /\ row.seat = p /\ row.revoked = TRUE
      BY <2>3 DEF Invite
    <2> QED BY <2>4, <2>5
  <1> QED BY <1>1 DEF Retired, LinksTyped, Invite

LEMMA ExpelledRows ==
  ASSUME guestSessions \in [Sessions -> GuestSession \cup {Nobody}], NEW links
  PROVE  /\ Expelled(links) \in [Sessions -> GuestSession \cup {Nobody}]
         /\ \A s \in Sessions : Expelled(links)[s] = Nobody <=> guestSessions[s] = Nobody
         /\ \A s \in Sessions : guestSessions[s] # Nobody =>
              Expelled(links)[s].invite = guestSessions[s].invite
  <1>1. ASSUME NEW s \in Sessions, guestSessions[s] # Nobody, NEW row,
               row = [guestSessions[s] EXCEPT !.revoked = TRUE]
        PROVE  row \in GuestSession /\ row.invite = guestSessions[s].invite /\ row # Nobody
    <2> DEFINE old == guestSessions[s]
    <2>1. PICK i \in Invites, b \in BOOLEAN : old = [invite |-> i, revoked |-> b]
      BY <1>1 DEF GuestSession
    <2>2. row = [old EXCEPT !.revoked = TRUE]
      BY <1>1
    <2> HIDE DEF old
    <2>3. row = [invite |-> i, revoked |-> TRUE]
      BY <2>1, <2>2
    <2>4. old.invite = i
      BY <2>1
    <2> USE DEF old
    <2>5. row \in GuestSession /\ row.invite = i
      BY <2>3 DEF GuestSession
    <2> QED BY <2>4, <2>5
  <1> QED BY <1>1 DEF Expelled

LEMMA RetireKeeps ==
  ASSUME Links, NEW links \in SUBSET Invites, \A i \in links : invites[i] # Nobody,
         Retire(links), \A p \in Seats : seats[p].there => seats'[p].there
  PROVE  /\ Links'
         /\ \A i \in Invites : invites[i] # Nobody => invites'[i] # Nobody
  <1>1. /\ invites' \in [Invites -> Invite \cup {Nobody}]
        /\ \A i \in Invites : invites'[i] = Nobody <=> invites[i] = Nobody
        /\ \A i \in Invites : invites'[i] # Nobody =>
              /\ invites'[i].seat = invites[i].seat
              /\ invites'[i].revoked = (i \in links \/ invites[i].revoked)
    BY RetiredRows DEF Retire, Links
  <1>2. /\ guestSessions' \in [Sessions -> GuestSession \cup {Nobody}]
        /\ \A s \in Sessions : guestSessions'[s] = Nobody <=> guestSessions[s] = Nobody
        /\ \A s \in Sessions : guestSessions[s] # Nobody =>
              guestSessions'[s].invite = guestSessions[s].invite
    BY ExpelledRows DEF Retire, Links, LinksTyped
  <1>3. LinksTyped'
    <2>1. \A s \in Sessions : guestSessions[s] # Nobody => guestSessions[s].invite \in Invites
      BY DEF Links, LinksTyped, GuestSession
    <2> QED BY <1>1, <1>2, <2>1 DEF Links, LinksTyped
  <1>4. LinksLead'
    <2>1. \A i \in Invites : LiveInvite(i) => invites[i].seat \in Seats
      BY DEF Links, LinksTyped, LiveInvite, Invite
    <2>2. \A i \in Invites : LiveInvite(i)' => LiveInvite(i) /\ invites'[i].seat = invites[i].seat
      BY <1>1 DEF LiveInvite
    <2> QED BY <2>1, <2>2 DEF Links, LinksLead
  <1> QED BY <1>1, <1>3, <1>4 DEF Links

(* A new link for a seat that is there, once the others are retired.       *)
LEMMA MintKeeps ==
  ASSUME Links, NEW links \in SUBSET Invites, \A i \in links : invites[i] # Nobody,
         NEW p \in Seats, NEW i \in Invites, LinksOf(p) \subseteq links,
         invites[i] = Nobody,
         invites' = [Retired(links) EXCEPT ![i] = [seat |-> p, revoked |-> FALSE]],
         guestSessions' = Expelled(links),
         seats'[p].there, \A q \in Seats : seats[q].there => seats'[q].there
  PROVE  /\ Links'
         /\ \A j \in Invites : invites[j] # Nobody => invites'[j] # Nobody
  <1> DEFINE row == [seat |-> p, revoked |-> FALSE]
  <1>1. row \in Invite /\ row # Nobody /\ row.seat = p
    <2>1. row \in Invite /\ row.seat = p
      BY DEF Invite
    <2> HIDE DEF row
    <2> QED BY <2>1
  <1>2. invites' = [Retired(links) EXCEPT ![i] = row]
    OBVIOUS
  <1> HIDE DEF row
  <1>3. /\ Retired(links) \in [Invites -> Invite \cup {Nobody}]
        /\ \A j \in Invites : Retired(links)[j] = Nobody <=> invites[j] = Nobody
        /\ \A j \in Invites : Retired(links)[j] # Nobody =>
              /\ Retired(links)[j].seat = invites[j].seat
              /\ Retired(links)[j].revoked = (j \in links \/ invites[j].revoked)
    BY RetiredRows DEF Links
  <1>4. /\ invites' \in [Invites -> Invite \cup {Nobody}]
        /\ invites'[i] = row
        /\ \A j \in Invites : j # i => invites'[j] = Retired(links)[j]
    <2> DEFINE old == Retired(links)
    <2>1. old \in [Invites -> Invite \cup {Nobody}] /\ invites' = [old EXCEPT ![i] = row]
      BY <1>2, <1>3
    <2> HIDE DEF old
    <2>2. /\ invites' \in [Invites -> Invite \cup {Nobody}]
          /\ invites'[i] = row
          /\ \A j \in Invites : j # i => invites'[j] = old[j]
      <3>1. row \in Invite \cup {Nobody}
        BY <1>1
      <3>2. invites' \in [Invites -> Invite \cup {Nobody}]
        BY <2>1, <3>1
      <3>3. invites'[i] = row
        BY <2>1
      <3>4. ASSUME NEW j \in Invites, j # i PROVE invites'[j] = old[j]
        BY <2>1, <3>4
      <3> QED BY <3>2, <3>3, <3>4
    <2> QED BY <2>2 DEF old
  <1>5. /\ guestSessions' \in [Sessions -> GuestSession \cup {Nobody}]
        /\ \A s \in Sessions : guestSessions'[s] = Nobody <=> guestSessions[s] = Nobody
        /\ \A s \in Sessions : guestSessions[s] # Nobody =>
              guestSessions'[s].invite = guestSessions[s].invite
    BY ExpelledRows DEF Links, LinksTyped
  <1>6. \A j \in Invites : invites[j] # Nobody => invites'[j] # Nobody
    BY <1>3, <1>4
  <1>7. LinksTyped'
    <2>1. \A s \in Sessions : guestSessions[s] # Nobody =>
            guestSessions[s].invite \in Invites /\ invites[guestSessions[s].invite] # Nobody
      BY DEF Links, LinksTyped, GuestSession
    <2> QED BY <1>4, <1>5, <1>6, <2>1 DEF LinksTyped
  <1>8. \A j \in Invites : j # i /\ LiveInvite(j)' =>
          /\ LiveInvite(j) /\ j \notin links
          /\ invites'[j].seat = invites[j].seat /\ invites[j].seat \in Seats
    BY <1>3, <1>4 DEF LiveInvite, Links, LinksTyped, Invite
  <1>9. \A j \in Invites : j # i /\ LiveInvite(j)' => invites'[j].seat # p
    BY <1>8 DEF LinksOf
  <1>10. \A j \in Invites : LiveInvite(j)' => seats'[invites'[j].seat].there
    <2>1. seats'[invites'[i].seat].there
      BY <1>1, <1>4
    <2> QED BY <1>8, <2>1 DEF Links, LinksLead
  <1>11. \A j, k \in Invites :
           LiveInvite(j)' /\ LiveInvite(k)' /\ invites'[j].seat = invites'[k].seat => j = k
    <2>1. \A j, k \in Invites : j # i /\ k # i /\ LiveInvite(j)' /\ LiveInvite(k)'
                              /\ invites'[j].seat = invites'[k].seat => j = k
      BY <1>8 DEF Links, LinksLead
    <2>2. invites'[i].seat = p
      BY <1>1, <1>4
    <2> QED BY <1>9, <2>1, <2>2
  <1>12. LinksLead'
    BY <1>10, <1>11 DEF LinksLead
  <1> QED BY <1>6, <1>7, <1>12 DEF Links

(* The same with no link to retire. *)
LEMMA MintAlone ==
  ASSUME Links, NEW p \in Seats, NEW i \in Invites, LinksOf(p) = {}, Mint(i, p, invites),
         UNCHANGED guestSessions,
         seats'[p].there, \A q \in Seats : seats[q].there => seats'[q].there
  PROVE  /\ Links'
         /\ \A j \in Invites : invites[j] # Nobody => invites'[j] # Nobody
  <1>1. Retired({}) = invites
    BY DEF Retired, Links, LinksTyped
  <1>2. Expelled({}) = guestSessions
    BY DEF Expelled, Links, LinksTyped
  <1>3. /\ invites[i] = Nobody
        /\ invites' = [Retired({}) EXCEPT ![i] = [seat |-> p, revoked |-> FALSE]]
        /\ guestSessions' = Expelled({})
    BY <1>1, <1>2 DEF Mint
  <1> QED BY <1>3, MintKeeps

-----------------------------------------------------------------------------
(* People. *)

LEMMA SeatRows ==
  ASSUME NEW old \in Seat, NEW row
  PROVE  /\ \A u \in Users \cup {Nobody} : row = [old EXCEPT !.account = u] =>
              row \in Seat /\ row = [there |-> old.there, account |-> u, removed |-> old.removed]
         /\ \A b \in BOOLEAN : row = [old EXCEPT !.removed = b] =>
              row \in Seat /\ row = [there |-> old.there, account |-> old.account, removed |-> b]
         /\ row = [old EXCEPT !.there = TRUE] =>
              row \in Seat /\ row = [there |-> TRUE, account |-> old.account, removed |-> old.removed]
  <1>1. PICK t \in BOOLEAN, a \in Users \cup {Nobody}, r \in BOOLEAN :
          old = [there |-> t, account |-> a, removed |-> r]
    BY DEF Seat
  <1>2. /\ \A u \in Users \cup {Nobody} : [there |-> t, account |-> u, removed |-> r] \in Seat
        /\ \A b \in BOOLEAN : [there |-> t, account |-> a, removed |-> b] \in Seat
        /\ [there |-> TRUE, account |-> a, removed |-> r] \in Seat
    BY DEF Seat
  <1>3. old.there = t /\ old.account = a /\ old.removed = r
    BY <1>1
  <1>4. ASSUME NEW u \in Users \cup {Nobody}, row = [old EXCEPT !.account = u]
        PROVE  row = [there |-> t, account |-> u, removed |-> r]
    BY <1>1, <1>4
  <1>5. ASSUME NEW b \in BOOLEAN, row = [old EXCEPT !.removed = b]
        PROVE  row = [there |-> t, account |-> a, removed |-> b]
    BY <1>1, <1>5
  <1>6. ASSUME row = [old EXCEPT !.there = TRUE]
        PROVE  row = [there |-> TRUE, account |-> a, removed |-> r]
    BY <1>1, <1>6
  <1>7. ASSUME NEW u \in Users \cup {Nobody}, row = [old EXCEPT !.account = u]
        PROVE  row \in Seat /\ row = [there |-> old.there, account |-> u, removed |-> old.removed]
    BY <1>2, <1>3, <1>4, <1>7, Zenon
  <1>8. ASSUME NEW b \in BOOLEAN, row = [old EXCEPT !.removed = b]
        PROVE  row \in Seat /\ row = [there |-> old.there, account |-> old.account, removed |-> b]
    BY <1>2, <1>3, <1>5, <1>8, Zenon
  <1>9. ASSUME row = [old EXCEPT !.there = TRUE]
        PROVE  row \in Seat /\ row = [there |-> TRUE, account |-> old.account, removed |-> old.removed]
    BY <1>2, <1>3, <1>6, <1>9, Zenon
  <1> QED BY <1>7, <1>8, <1>9, Zenon

(* Who joins sits on a seat that was nobody's. *)
LEMMA SitsDown ==
  ASSUME People, NEW u \in Users, NEW p \in Seats, u \in accounts, ~HasSeat(u),
         seats[p].account = Nobody, NEW row \in Seat, row.there, row.account = u,
         seats' = [seats EXCEPT ![p] = row],
         NEW m \in Member, m.seat = p, members' = [members EXCEPT ![u] = m],
         UNCHANGED <<groupThere, creator, accounts>>
  PROVE  /\ People'
         /\ \A q \in Seats : seats[q].there => seats'[q].there
  <1>1. /\ seats' \in [Seats -> Seat] /\ seats'[p] = row
        /\ \A q \in Seats : q # p => seats'[q] = seats[q]
    BY DEF People, PeopleTyped
  <1>2. /\ members' \in [Users -> Member \cup {Nobody}] /\ members'[u] = m
        /\ \A v \in Users : v # u => members'[v] = members[v]
    BY DEF People, PeopleTyped
  <1>3. \A q \in Seats : seats[q].account # u
    BY DEF HasSeat
  <1>4. \A v \in Users : v # u /\ members[v] # Nobody =>
          members[v].seat \in Seats /\ members[v].seat # p
    <2>1. \A v \in Users : members[v] # Nobody => members[v].seat \in Seats
      BY DEF People, PeopleTyped, Member
    <2> QED BY <2>1 DEF People, SeatsAgree
  <1>5. PeopleTyped'
    BY <1>1, <1>2 DEF People, PeopleTyped
  <1>6. PeopleKeys'
    BY <1>1, <1>2, <1>4 DEF People, PeopleKeys
  <1>7. SeatsAgree'
    BY <1>1, <1>2, <1>3, <1>4 DEF People, SeatsAgree
  <1> QED BY <1>1, <1>5, <1>6, <1>7 DEF People

(* Members go, and nothing else of the people. *)
LEMMA MembersGo ==
  ASSUME People, members' \in [Users -> Member \cup {Nobody}],
         \A u \in Users : members'[u] # Nobody =>
           members[u] # Nobody /\ members'[u].seat = members[u].seat,
         seats' \in [Seats -> Seat],
         \A p \in Seats : /\ seats'[p].there = seats[p].there
                          /\ seats'[p].account = seats[p].account
                          /\ seats'[p].removed => seats[p].there,
         UNCHANGED <<groupThere, creator, accounts>>
  PROVE  People'
  <1>1. \A u \in Users : members[u] # Nobody => members[u].seat \in Seats
    BY DEF People, PeopleTyped, Member
  <1>2. PeopleTyped'
    BY DEF People, PeopleTyped
  <1>3. PeopleKeys'
    BY <1>1 DEF People, PeopleKeys
  <1>4. SeatsAgree'
    BY <1>1 DEF People, SeatsAgree
  <1> QED BY <1>2, <1>3, <1>4 DEF People

-----------------------------------------------------------------------------
(* Steps that make and retire links. *)

(* Rows of links changed, and none of the people's. *)
LEMMA LinkStep ==
  ASSUME IndInv, Links', groupThere, UNCHANGED <<groupThere, creator, seats, members, accounts>>,
         \A i \in Invites : invites[i] # Nobody => invites'[i] # Nobody
  PROVE  /\ People' /\ NothingLeft' /\ RowsKept
         /\ groupThere \in BOOLEAN /\ groupThere' \in BOOLEAN
  BY DEF IndInv, People, PeopleTyped, PeopleKeys, SeatsAgree, NothingLeft, RowsKept

LEMMA LinksOfLive ==
  ASSUME NEW p
  PROVE  LinksOf(p) \in SUBSET Invites /\ \A i \in LinksOf(p) : invites[i] # Nobody
  BY DEF LinksOf, LiveInvite

LEMMA WriteLinkKeeps ==
  ASSUME IndInv, NEW c \in Calls, NEW i \in Invites, WriteLink(c, i)
  PROVE  IndInv'
  <1> DEFINE p == calls[c].seat
             links == LinksOf(p)
  <1>1. p \in Seats /\ groupThere /\ seats[p].there /\ seats' = seats
    BY DEF WriteLink, IndInv, CallsFit, Fits
  <1>2. /\ invites[i] = Nobody
        /\ invites' = [Retired(links) EXCEPT ![i] = [seat |-> p, revoked |-> FALSE]]
        /\ guestSessions' = Expelled(links)
        /\ Leave(c)
        /\ UNCHANGED <<groupThere, creator, seats, members, joined, accounts>>
    BY DEF WriteLink, Mint
  <1>3. links \in SUBSET Invites /\ (\A j \in links : invites[j] # Nobody)
    BY LinksOfLive
  <1>4. links = LinksOf(p)
    OBVIOUS
  <1> HIDE DEF links, p
  <1>5. Links' /\ \A j \in Invites : invites[j] # Nobody => invites'[j] # Nobody
    BY <1>1, <1>2, <1>3, <1>4, MintKeeps DEF IndInv
  <1>6. /\ People' /\ NothingLeft' /\ RowsKept
        /\ groupThere \in BOOLEAN /\ groupThere' \in BOOLEAN
    BY <1>1, <1>2, <1>5, LinkStep
  <1>7. CallsFit'
    BY <1>2, <1>6, LeaveFits DEF IndInv
  <1> QED BY <1>5, <1>6, <1>7 DEF IndInv

LEMMA TakeNameKeeps ==
  ASSUME IndInv, NEW c \in Calls, NEW i \in Invites, TakeName(c, i)
  PROVE  IndInv'
  <1> DEFINE p == calls[c].seat
  <1>1. p \in Seats /\ groupThere /\ seats[p].there
    BY DEF TakeName, IndInv, CallsFit, Fits
  <1>2. /\ LinksOf(p) = {} /\ Mint(i, p, invites) /\ Leave(c)
        /\ UNCHANGED <<groupThere, creator, seats, members, joined, guestSessions, accounts>>
    BY DEF TakeName, LinkFree
  <1> HIDE DEF p
  <1>3. Links' /\ \A j \in Invites : invites[j] # Nobody => invites'[j] # Nobody
    BY <1>1, <1>2, MintAlone DEF IndInv
  <1>4. /\ People' /\ NothingLeft' /\ RowsKept
        /\ groupThere \in BOOLEAN /\ groupThere' \in BOOLEAN
    BY <1>1, <1>2, <1>3, LinkStep
  <1>5. CallsFit'
    BY <1>2, <1>4, LeaveFits DEF IndInv
  <1> QED BY <1>3, <1>4, <1>5 DEF IndInv

LEMMA RevokeLinkKeeps ==
  ASSUME IndInv, NEW p \in Seats, RevokeLink(p)
  PROVE  IndInv'
  <1> DEFINE links == LinksOf(p)
  <1>1. /\ groupThere /\ Retire(links)
        /\ UNCHANGED <<groupThere, creator, seats, members, joined, accounts, calls>>
    BY DEF RevokeLink
  <1>2. links \in SUBSET Invites /\ (\A j \in links : invites[j] # Nobody)
    BY LinksOfLive
  <1> HIDE DEF links
  <1>3. Links' /\ \A j \in Invites : invites[j] # Nobody => invites'[j] # Nobody
    BY <1>1, <1>2, RetireKeeps DEF IndInv
  <1>4. /\ People' /\ NothingLeft' /\ RowsKept
        /\ groupThere \in BOOLEAN /\ groupThere' \in BOOLEAN
    BY <1>1, <1>3, LinkStep
  <1>5. CallsFit'
    BY <1>1, <1>4, CallsKept DEF IndInv
  <1> QED BY <1>3, <1>4, <1>5 DEF IndInv

LEMMA StartSessionKeeps ==
  ASSUME IndInv, NEW c \in Calls, NEW s \in Sessions, StartSession(c, s)
  PROVE  IndInv'
  <1> DEFINE i == calls[c].invite
             row == [invite |-> i, revoked |-> FALSE]
  <1>1. /\ i \in Invites /\ invites[i] # Nobody
        /\ guestSessions' = [guestSessions EXCEPT ![s] = row] /\ Leave(c)
        /\ UNCHANGED <<groupThere, creator, seats, members, joined, invites, accounts>>
    BY DEF StartSession, IndInv, CallsFit, Fits
  <1>2. row \in GuestSession /\ row.invite = i
    BY <1>1 DEF GuestSession
  <1>3. groupThere
    BY <1>1 DEF IndInv, NothingLeft
  <1> HIDE DEF row, i
  <1>4. LinksTyped'
    BY <1>1, <1>2 DEF IndInv, Links, LinksTyped
  <1>5. LinksLead'
    BY <1>1 DEF IndInv, Links, LinksLead, LiveInvite
  <1>6. Links'
    BY <1>4, <1>5 DEF Links
  <1>7. /\ People' /\ NothingLeft' /\ RowsKept
        /\ groupThere \in BOOLEAN /\ groupThere' \in BOOLEAN
    BY <1>1, <1>3, <1>6, LinkStep
  <1>8. CallsFit'
    BY <1>1, <1>7, LeaveFits DEF IndInv
  <1> QED BY <1>6, <1>7, <1>8 DEF IndInv

-----------------------------------------------------------------------------
(* Steps that bring people, and take them. *)

(* While the group is there, rows that only gain keep what was read. *)
LEMMA Gained ==
  ASSUME groupThere, UNCHANGED groupThere, \A q \in Seats : seats[q].there => seats'[q].there,
         \A i \in Invites : invites[i] # Nobody => invites'[i] # Nobody
  PROVE  RowsKept /\ NothingLeft' /\ groupThere \in BOOLEAN /\ groupThere' \in BOOLEAN
  BY DEF RowsKept, NothingLeft

(* A name appears on the list. *)
LEMMA Named ==
  ASSUME People, NEW p \in Seats, ~seats[p].there, seats' = [seats EXCEPT ![p].there = TRUE],
         UNCHANGED <<groupThere, creator, members, accounts>>
  PROVE  People' /\ seats'[p].there /\ \A q \in Seats : seats[q].there => seats'[q].there
  <1> DEFINE old == seats[p]
             row == [old EXCEPT !.there = TRUE]
  <1>1. old \in Seat /\ seats' = [seats EXCEPT ![p] = row]
    BY DEF People, PeopleTyped
  <1>2. row \in Seat /\ row = [there |-> TRUE, account |-> old.account, removed |-> old.removed]
    BY <1>1, SeatRows
  <1> HIDE DEF row
  <1>3. /\ seats' \in [Seats -> Seat] /\ seats'[p] = row
        /\ \A q \in Seats : q # p => seats'[q] = seats[q]
    BY <1>1, <1>2 DEF People, PeopleTyped
  <1>4. row.there /\ row.account = seats[p].account /\ row.removed = seats[p].removed
    BY <1>2
  <1>5. \A u \in Users : members[u] # Nobody => members[u].seat \in Seats
    BY DEF People, PeopleTyped, Member
  <1>6. PeopleTyped' /\ PeopleKeys' /\ SeatsAgree'
    BY <1>3, <1>4, <1>5 DEF People, PeopleTyped, PeopleKeys, SeatsAgree
  <1> QED BY <1>3, <1>4, <1>6 DEF People

LEMMA AddNameKeeps ==
  ASSUME IndInv, NEW p \in Seats, AddName(p)
  PROVE  IndInv'
  <1>1. /\ groupThere /\ ~seats[p].there /\ seats' = [seats EXCEPT ![p].there = TRUE]
        /\ UNCHANGED <<groupThere, creator, members, joined, invites, guestSessions, accounts, calls>>
    BY DEF AddName
  <1>2. People' /\ \A q \in Seats : seats[q].there => seats'[q].there
    BY <1>1, Named DEF IndInv
  <1>3. Links'
    BY <1>1, <1>2, LinksUntouched DEF IndInv
  <1>4. RowsKept /\ NothingLeft' /\ groupThere \in BOOLEAN
    BY <1>1, <1>2, Gained
  <1>5. CallsFit'
    BY <1>1, <1>4, CallsKept DEF IndInv
  <1> QED BY <1>2, <1>3, <1>4, <1>5 DEF IndInv

LEMMA JoinAsNewGuestKeeps ==
  ASSUME IndInv, NEW p \in Seats, NEW i \in Invites, JoinAsNewGuest(p, i)
  PROVE  IndInv'
  <1>1. /\ groupThere /\ ~seats[p].there /\ seats' = [seats EXCEPT ![p].there = TRUE]
        /\ Mint(i, p, invites)
        /\ UNCHANGED <<groupThere, creator, members, joined, guestSessions, accounts, calls>>
    BY DEF JoinAsNewGuest
  <1>2. People' /\ seats'[p].there /\ \A q \in Seats : seats[q].there => seats'[q].there
    BY <1>1, Named DEF IndInv
  <1>3. LinksOf(p) = {}
    BY <1>1 DEF LinksOf, IndInv, Links, LinksLead
  <1>4. Links' /\ \A j \in Invites : invites[j] # Nobody => invites'[j] # Nobody
    BY <1>1, <1>2, <1>3, MintAlone DEF IndInv
  <1>5. RowsKept /\ NothingLeft' /\ groupThere \in BOOLEAN
    BY <1>1, <1>2, <1>4, Gained
  <1>6. CallsFit'
    BY <1>1, <1>5, CallsKept DEF IndInv
  <1> QED BY <1>2, <1>4, <1>5, <1>6 DEF IndInv

(* A vacant seat with an account on it. *)
LEMMA Occupied ==
  ASSUME People, NEW u \in Users, NEW p \in Seats, seats[p].there, NEW role \in {"owner", "member"},
         seats' = [seats EXCEPT ![p].account = u], Joined(u, p, role),
         u \in accounts, ~HasSeat(u), seats[p].account = Nobody,
         UNCHANGED <<groupThere, creator, accounts>>
  PROVE  /\ People'
         /\ \A q \in Seats : seats[q].there => seats'[q].there
  <1> DEFINE old == seats[p]
             row == [old EXCEPT !.account = u]
             m == [role |-> role, seat |-> p]
  <1>1. old \in Seat /\ seats' = [seats EXCEPT ![p] = row] /\ members' = [members EXCEPT ![u] = m]
    BY DEF People, PeopleTyped, Joined
  <1>2. row \in Seat /\ row = [there |-> old.there, account |-> u, removed |-> old.removed]
    <2>1. \A o \in Seat, v \in Users \cup {Nobody} : \A r : r = [o EXCEPT !.account = v] =>
            r \in Seat /\ r = [there |-> o.there, account |-> v, removed |-> o.removed]
      BY SeatRows
    <2>2. u \in Users \cup {Nobody} /\ old \in Seat
      BY <1>1
    <2> QED BY <2>1, <2>2, Zenon
  <1>3. m \in Member /\ m.seat = p
    BY DEF Member
  <1> HIDE DEF row, m
  <1>4. row.there /\ row.account = u
    BY <1>2
  <1> QED BY <1>1, <1>2, <1>3, <1>4, SitsDown

LEMMA ClaimMemberKeeps ==
  ASSUME IndInv, NEW u \in Users, NEW p \in Seats, ClaimMember(u, p)
  PROVE  IndInv'
  <1> DEFINE links == LinksOf(p)
  <1>1. /\ groupThere /\ u \in accounts /\ ~HasSeat(u)
        /\ seats[p].there /\ seats[p].account = Nobody
        /\ seats' = [seats EXCEPT ![p].account = u] /\ Joined(u, p, "member") /\ Retire(links)
        /\ UNCHANGED <<groupThere, creator, accounts, calls>>
    BY DEF ClaimMember, MayClaim, Vacant
  <1>2. People' /\ \A q \in Seats : seats[q].there => seats'[q].there
    BY <1>1, Occupied DEF IndInv
  <1>3. links \in SUBSET Invites /\ (\A j \in links : invites[j] # Nobody)
    BY LinksOfLive
  <1> HIDE DEF links
  <1>4. Links' /\ \A j \in Invites : invites[j] # Nobody => invites'[j] # Nobody
    BY <1>1, <1>2, <1>3, RetireKeeps DEF IndInv
  <1>5. RowsKept /\ NothingLeft' /\ groupThere \in BOOLEAN
    BY <1>1, <1>2, <1>4, Gained
  <1>6. CallsFit'
    BY <1>1, <1>5, CallsKept DEF IndInv
  <1> QED BY <1>2, <1>4, <1>5, <1>6 DEF IndInv

LEMMA ClaimSeatKeeps ==
  ASSUME IndInv, NEW c \in Calls, ClaimSeat(c)
  PROVE  IndInv'
  <1> DEFINE u == calls[c].user
             i == calls[c].invite
             p == invites[i].seat
             role == RoleOf(p)
  <1>1. /\ groupThere /\ u \in accounts /\ ~HasSeat(u)
        /\ seats[p].there /\ seats[p].account = Nobody
        /\ seats' = [seats EXCEPT ![p].account = u] /\ Joined(u, p, role) /\ Retire({i})
        /\ Leave(c)
        /\ UNCHANGED <<groupThere, creator, accounts>>
    BY DEF ClaimSeat, Unclaimed
  <1>2. u \in Users /\ i \in Invites /\ invites[i] # Nobody
    BY <1>1 DEF ClaimSeat, IndInv, CallsFit, Fits
  <1>3. p \in Seats /\ role \in {"owner", "member"}
    BY <1>2 DEF IndInv, Links, LinksTyped, Invite, RoleOf
  <1> HIDE DEF u, i, p, role
  <1>4. People' /\ \A q \in Seats : seats[q].there => seats'[q].there
    BY <1>1, <1>2, <1>3, Occupied DEF IndInv
  <1>5. Links' /\ \A j \in Invites : invites[j] # Nobody => invites'[j] # Nobody
    BY <1>1, <1>2, <1>4, RetireKeeps DEF IndInv
  <1>6. RowsKept /\ NothingLeft' /\ groupThere \in BOOLEAN /\ groupThere' \in BOOLEAN
    BY <1>1, <1>4, <1>5, Gained
  <1>7. CallsFit'
    BY <1>1, <1>6, LeaveFits DEF IndInv
  <1> QED BY <1>4, <1>5, <1>6, <1>7 DEF IndInv

LEMMA JoinAsNewKeeps ==
  ASSUME IndInv, NEW u \in Users, NEW p \in Seats, JoinAsNew(u, p)
  PROVE  IndInv'
  <1> DEFINE row == [there |-> TRUE, account |-> u, removed |-> FALSE]
             m == [role |-> "member", seat |-> p]
  <1>1. /\ groupThere /\ u \in accounts /\ ~HasSeat(u) /\ ~seats[p].there
        /\ seats' = [seats EXCEPT ![p] = row] /\ members' = [members EXCEPT ![u] = m]
        /\ UNCHANGED <<groupThere, creator, invites, guestSessions, accounts, calls>>
    BY DEF JoinAsNew, Joined
  <1>2. row \in Seat /\ row.there /\ row.account = u /\ m \in Member /\ m.seat = p
    BY DEF Seat, Member
  <1>3. seats[p].account = Nobody
    BY <1>1 DEF IndInv, People, PeopleKeys
  <1> HIDE DEF row, m
  <1>4. People' /\ \A q \in Seats : seats[q].there => seats'[q].there
    BY <1>1, <1>2, <1>3, SitsDown DEF IndInv
  <1>5. Links'
    BY <1>1, <1>4, LinksUntouched DEF IndInv
  <1>6. RowsKept /\ NothingLeft' /\ groupThere \in BOOLEAN
    BY <1>1, <1>4, Gained
  <1>7. CallsFit'
    BY <1>1, <1>6, CallsKept DEF IndInv
  <1> QED BY <1>4, <1>5, <1>6, <1>7 DEF IndInv

(* An heir whose row is gone is remembered as nobody of use. *)
LEMMA HeirsFit ==
  ASSUME CallsFit, RowsKept, UNCHANGED groupThere, groupThere \in BOOLEAN,
         NEW m, NEW c \in Calls, calls' = [HeirsOf(m) EXCEPT ![c] = NoCall]
  PROVE  CallsFit'
  <1>1. ASSUME NEW d \in Calls, NEW call, call = [calls[d] EXCEPT !.heir = calls[d].user]
        PROVE  Fits(call)'
    <2> DEFINE old == calls[d]
    <2>1. PICK f \in Phases, u \in Users \cup {Nobody}, p \in Seats \cup {Nobody},
               i \in Invites \cup {Nobody}, o \in BOOLEAN, h \in Users \cup {Nobody}, g \in BOOLEAN :
            old = [phase |-> f, user |-> u, seat |-> p, invite |-> i, owner |-> o,
                   heir |-> h, guests |-> g]
      BY DEF CallsFit, Request
    <2>2. call = [old EXCEPT !.heir = u]
      BY <1>1, <2>1
    <2>3. Fits(old)
      BY DEF CallsFit
    <2> HIDE DEF old
    <2>4. call = [phase |-> f, user |-> u, seat |-> p, invite |-> i, owner |-> o,
                  heir |-> u, guests |-> g]
      BY <2>1, <2>2
    <2>5. call \in Request
      BY <2>4, Zenon DEF Request
    <2>6. /\ call.phase = old.phase /\ call.user = old.user /\ call.seat = old.seat
          /\ call.invite = old.invite
      BY <2>1, <2>4
    <2> QED BY <2>3, <2>5, <2>6 DEF Fits, RowsKept
  <1>2. \A d \in Calls : Fits(calls[d])'  /\ calls[d] \in Request
    <2> SUFFICES ASSUME NEW d \in Calls PROVE Fits(calls[d])' /\ calls[d] \in Request
      OBVIOUS
    <2>1. NoCall \in Request /\ NoCall.phase = "idle"
      BY DEF NoCall, Request, Phases
    <2>2. calls[d] \in Request
      BY DEF CallsFit
    <2>3. d = c => calls'[d] = NoCall
      BY DEF HeirsOf
    <2>4. d # c => calls'[d] = calls[d] \/ calls'[d] = [calls[d] EXCEPT !.heir = calls[d].user]
      BY DEF HeirsOf
    <2>5. CASE d = c
      BY <2>1, <2>2, <2>3, <2>5 DEF Fits
    <2>6. CASE d # c /\ calls'[d] = calls[d]
      BY <2>2, <2>6 DEF Fits, CallsFit, RowsKept
    <2>7. CASE calls'[d] = [calls[d] EXCEPT !.heir = calls[d].user]
      <3> DEFINE call == calls'[d]
      <3>1. \A call2 : call2 = [calls[d] EXCEPT !.heir = calls[d].user] => Fits(call2)'
        BY <1>1
      <3> QED BY <2>2, <2>7, <3>1
    <2> QED BY <2>4, <2>5, <2>6, <2>7
  <1>3. calls' \in [Calls -> Request]
    <2>1. \A d \in Calls : calls'[d] \in Request
      BY <1>2 DEF Fits
    <2> QED BY <2>1 DEF HeirsOf
  <1> QED BY <1>2, <1>3 DEF CallsFit

(* The person leaves: their seat stays, with whoever was on it. *)
LEMMA FinishRemovalKeeps ==
  ASSUME IndInv, NEW c \in Calls, FinishRemoval(c)
  PROVE  IndInv'
  <1> DEFINE p == calls[c].seat
             links == LinksOf(p)
             old == seats[p]
             row == [old EXCEPT !.removed = TRUE]
  <1>1. p \in Seats /\ groupThere /\ seats[p].there
    BY DEF FinishRemoval, IndInv, CallsFit, Fits
  <1>2. /\ seats' = [seats EXCEPT ![p] = row] /\ old \in Seat
    BY <1>1 DEF FinishRemoval, IndInv, People, PeopleTyped
  <1>3. /\ Retire(links)
        /\ members' = [u \in Users |->
             IF members[u] # Nobody /\ members[u].seat = p THEN Nobody ELSE members[u]]
        /\ calls' = [HeirsOf(members') EXCEPT ![c] = NoCall]
        /\ UNCHANGED <<groupThere, creator, accounts>>
    BY DEF FinishRemoval
  <1>4. row \in Seat /\ row = [there |-> old.there, account |-> old.account, removed |-> TRUE]
    <2>1. \A r : r = [old EXCEPT !.removed = TRUE] =>
            r \in Seat /\ r = [there |-> old.there, account |-> old.account, removed |-> TRUE]
      BY <1>2, SeatRows
    <2> QED BY <2>1, Zenon
  <1>5. links \in SUBSET Invites /\ (\A j \in links : invites[j] # Nobody)
    BY LinksOfLive
  <1> HIDE DEF row, links, p
  <1>6. /\ seats' \in [Seats -> Seat]
        /\ \A q \in Seats : /\ seats'[q].there = seats[q].there
                            /\ seats'[q].account = seats[q].account
                            /\ seats'[q].removed => seats[q].there
    <2>1. seats' \in [Seats -> Seat] /\ seats'[p] = row /\ \A q \in Seats : q # p => seats'[q] = seats[q]
      BY <1>1, <1>2, <1>4 DEF IndInv, People, PeopleTyped
    <2>2. row.there = seats[p].there /\ row.account = seats[p].account
      BY <1>4
    <2> QED BY <1>1, <2>1, <2>2 DEF IndInv, People, PeopleKeys
  <1>7. /\ members' \in [Users -> Member \cup {Nobody}]
        /\ \A u \in Users : members'[u] # Nobody =>
             members[u] # Nobody /\ members'[u].seat = members[u].seat
    BY <1>3 DEF IndInv, People, PeopleTyped
  <1>8. People'
    BY <1>3, <1>6, <1>7, MembersGo DEF IndInv
  <1>9. Links' /\ \A j \in Invites : invites[j] # Nobody => invites'[j] # Nobody
    BY <1>3, <1>5, <1>6, RetireKeeps DEF IndInv
  <1>10. RowsKept /\ NothingLeft' /\ groupThere \in BOOLEAN
    BY <1>1, <1>3, <1>6, <1>9, Gained
  <1>11. CallsFit'
    <2> DEFINE m == members'
    <2>1. calls' = [HeirsOf(m) EXCEPT ![c] = NoCall] /\ UNCHANGED groupThere /\ CallsFit
      BY <1>3 DEF IndInv
    <2> QED BY <1>10, <2>1, HeirsFit
  <1> QED BY <1>8, <1>9, <1>10, <1>11 DEF IndInv

LEMMA RestoreSeatKeeps ==
  ASSUME IndInv, NEW p \in Seats, RestoreSeat(p)
  PROVE  IndInv'
  <1> DEFINE u == seats[p].account
             old == seats[p]
             row == [old EXCEPT !.removed = FALSE]
             m == [role |-> "member", seat |-> p]
  <1>1. /\ groupThere /\ seats[p].removed /\ old \in Seat
        /\ seats' = [seats EXCEPT ![p] = row]
        /\ UNCHANGED <<groupThere, creator, invites, guestSessions, accounts, calls>>
    BY DEF RestoreSeat, IndInv, People, PeopleTyped
  <1>2. seats[p].there
    BY <1>1 DEF IndInv, People, PeopleKeys
  <1>3. \/ members' = members
        \/ u # Nobody /\ members' = [members EXCEPT ![u] = m]
    BY DEF RestoreSeat, Joined
  <1>4. row \in Seat /\ row = [there |-> old.there, account |-> old.account, removed |-> FALSE]
    <2>1. \A r : r = [old EXCEPT !.removed = FALSE] =>
            r \in Seat /\ r = [there |-> old.there, account |-> old.account, removed |-> FALSE]
      BY <1>1, SeatRows
    <2> QED BY <2>1, Zenon
  <1>5. m \in Member /\ m.seat = p /\ m # Nobody
    <2>1. m \in Member /\ m.seat = p
      BY DEF Member
    <2> HIDE DEF m
    <2> QED BY <2>1
  <1>6. u # Nobody => u \in Users /\ u \in accounts
    BY DEF IndInv, People, PeopleTyped, PeopleKeys, Seat
  <1> HIDE DEF row, m
  <1>7. row.there /\ row.account = u /\ row.removed = FALSE
    BY <1>2, <1>4
  <1>8. /\ seats' \in [Seats -> Seat]
        /\ \A q \in Seats : /\ seats'[q].there = seats[q].there
                            /\ seats'[q].account = seats[q].account
                            /\ seats'[q].removed => seats[q].there
    <2>1. seats' \in [Seats -> Seat] /\ seats'[p] = row /\ \A q \in Seats : q # p => seats'[q] = seats[q]
      BY <1>1, <1>4 DEF IndInv, People, PeopleTyped
    <2>2. \A q \in Seats : seats[q].removed => seats[q].there
      BY DEF IndInv, People, PeopleKeys
    <2>3. row.there = seats[p].there /\ row.account = seats[p].account
      BY <1>2, <1>4
    <2> QED BY <1>2, <2>1, <2>2, <2>3
  <1> HIDE DEF u
  <1>9. \A v \in Users : members[v] # Nobody => members[v].seat \in Seats
    BY DEF IndInv, People, PeopleTyped, Member
  <1>10. /\ members' \in [Users -> Member \cup {Nobody}]
         /\ \A v \in Users : \/ members'[v] = members[v]
                             \/ v = u /\ members'[v] = m /\ u # Nobody
    BY <1>3, <1>5, <1>6 DEF IndInv, People, PeopleTyped
  <1>11. PeopleTyped'
    BY <1>1, <1>8, <1>10 DEF IndInv, People, PeopleTyped
  <1>12. PeopleKeys'
    BY <1>1, <1>2, <1>5, <1>6, <1>8, <1>9, <1>10 DEF IndInv, People, PeopleKeys
  <1>13. SeatsAgree'
    <2>1. seats[p].account = u
      BY DEF u
    <2> QED BY <1>5, <1>8, <1>9, <1>10, <2>1 DEF IndInv, People, SeatsAgree
  <1>14. Links'
    BY <1>1, <1>8, LinksUntouched DEF IndInv
  <1>15. RowsKept /\ NothingLeft' /\ groupThere \in BOOLEAN
    BY <1>1, <1>8, Gained
  <1>16. CallsFit'
    BY <1>1, <1>15, CallsKept DEF IndInv
  <1> QED BY <1>11, <1>12, <1>13, <1>14, <1>15, <1>16 DEF IndInv, People

(* The account goes, and so does it from its seat and its membership. *)
LEMMA CloseAccountKeeps ==
  ASSUME IndInv, NEW c \in Calls, CloseAccount(c)
  PROVE  IndInv'
  <1> DEFINE u == calls[c].user
  <1>1. /\ accounts' = accounts \ {u} /\ seats' = Vacated(u) /\ members' = Succession(c)
        /\ calls' = [HeirsOf(members') EXCEPT ![c] = NoCall]
        /\ UNCHANGED <<groupThere, creator, invites, guestSessions>>
    BY DEF CloseAccount
  <1>2. u \in Users
    BY DEF CloseAccount, IndInv, CallsFit, Fits
  <1>3. ASSUME NEW p \in Seats
        PROVE  /\ seats'[p] \in Seat /\ seats'[p].there = seats[p].there
               /\ seats'[p].removed = seats[p].removed
               /\ seats'[p].account = IF seats[p].account = u THEN Nobody ELSE seats[p].account
    <2> DEFINE old == seats[p]
    <2>1. old \in Seat
      BY DEF IndInv, People, PeopleTyped
    <2>2. \A r : r = [old EXCEPT !.account = Nobody] =>
            r \in Seat /\ r = [there |-> old.there, account |-> Nobody, removed |-> old.removed]
      BY <2>1, SeatRows
    <2>3. CASE seats[p].account = u
      <3>1. seats'[p] = [old EXCEPT !.account = Nobody]
        BY <1>1, <2>3 DEF Vacated
      <3>2. PICK r : r = seats'[p]
        OBVIOUS
      <3>3. r \in Seat /\ r = [there |-> old.there, account |-> Nobody, removed |-> old.removed]
        BY <2>2, <3>1, <3>2
      <3> QED BY <2>3, <3>2, <3>3
    <2>4. CASE seats[p].account # u
      BY <1>1, <2>1, <2>4 DEF Vacated
    <2> QED BY <2>3, <2>4
  <1>4. seats' \in [Seats -> Seat]
    <2>1. \A p \in Seats : seats'[p] \in Seat
      BY <1>3
    <2> QED BY <1>1, <2>1 DEF Vacated
  <1>5. ASSUME NEW v \in Users, members'[v] # Nobody
        PROVE  /\ v # u /\ members[v] # Nobody /\ members'[v] \in Member
               /\ members'[v].seat = members[v].seat
    <2> DEFINE old == members[v]
    <2>1. v # u /\ (members'[v] = old \/ (members'[v] = [old EXCEPT !.role = "owner"] /\ old # Nobody))
      BY <1>1, <1>5 DEF Succession
    <2>2. CASE members'[v] = old
      BY <1>5, <2>1, <2>2 DEF IndInv, People, PeopleTyped
    <2>3. CASE members'[v] = [old EXCEPT !.role = "owner"] /\ old # Nobody
      <3>1. PICK role \in {"owner", "member"}, p \in Seats : old = [role |-> role, seat |-> p]
        BY <2>3 DEF IndInv, People, PeopleTyped, Member
      <3>2. PICK r : r = members'[v]
        OBVIOUS
      <3>3. r = [old EXCEPT !.role = "owner"]
        BY <2>3, <3>2
      <3>4. old.seat = p /\ old # Nobody
        BY <2>3, <3>1
      <3> HIDE DEF old
      <3>5. r = [role |-> "owner", seat |-> p]
        BY <3>1, <3>3
      <3>6. r \in Member /\ r.seat = p
        BY <3>5 DEF Member
      <3> QED BY <2>1, <3>2, <3>4, <3>6 DEF old
    <2> QED BY <2>1, <2>2, <2>3
  <1>6. members' \in [Users -> Member \cup {Nobody}]
    <2>1. \A v \in Users : members'[v] \in Member \cup {Nobody}
      BY <1>5
    <2> QED BY <1>1, <2>1 DEF Succession
  <1> HIDE DEF u
  <1>7. \A v \in Users : members[v] # Nobody => members[v].seat \in Seats
    BY DEF IndInv, People, PeopleTyped, Member
  <1>8. PeopleTyped'
    BY <1>1, <1>4, <1>6 DEF IndInv, People, PeopleTyped
  <1>9. PeopleKeys'
    BY <1>1, <1>3, <1>5, <1>7 DEF IndInv, People, PeopleKeys
  <1>10. SeatsAgree'
    BY <1>2, <1>3, <1>5, <1>7 DEF IndInv, People, SeatsAgree
  <1>11. Links'
    BY <1>1, <1>3, LinksUntouched DEF IndInv
  <1>12. NothingLeft'
    <2> SUFFICES ASSUME ~groupThere
                 PROVE  /\ \A p \in Seats : seats'[p] = NoSeat
                        /\ \A v \in Users : members'[v] = Nobody
                        /\ \A i \in Invites : invites'[i] = Nobody
      BY <1>1 DEF NothingLeft
    <2>1. \A p \in Seats : seats[p] = NoSeat /\ seats[p].account # u
      <3>1. NoSeat.account # u
        BY <1>2 DEF NoSeat
      <3>2. \A p \in Seats : seats[p] = NoSeat
        BY DEF IndInv, NothingLeft
      <3> QED BY <3>1, <3>2
    <2>2. \A p \in Seats : seats'[p] = NoSeat
      BY <1>1, <2>1 DEF Vacated
    <2> QED BY <1>1, <1>5, <2>2 DEF IndInv, NothingLeft
  <1>13. RowsKept /\ groupThere \in BOOLEAN
    BY <1>1, <1>3 DEF RowsKept, IndInv, People, PeopleTyped
  <1>14. CallsFit'
    <2> DEFINE m == members'
    <2>1. calls' = [HeirsOf(m) EXCEPT ![c] = NoCall] /\ UNCHANGED groupThere /\ CallsFit
      BY <1>1 DEF IndInv
    <2> QED BY <1>13, <2>1, HeirsFit
  <1> QED BY <1>8, <1>9, <1>10, <1>11, <1>12, <1>14 DEF IndInv, People

(* The group goes, with everything that hangs off it; no removal is under  *)
(* way, for it would hold a row.                                           *)
LEMMA GroupGoes ==
  ASSUME IndInv, GroupGone, accounts' \subseteq Users, \A p \in Seats : SeatFree(p),
         \/ calls' = calls
         \/ \E c \in Calls : Leave(c)
  PROVE  IndInv'
  <1>1. /\ groupThere' = FALSE /\ creator' = Nobody
        /\ seats' = [p \in Seats |-> NoSeat] /\ members' = [u \in Users |-> Nobody]
        /\ invites' = [i \in Invites |-> Nobody]
        /\ guestSessions' = [s \in Sessions |-> Nobody]
    BY DEF GroupGone
  <1>2. NoSeat \in Seat /\ ~NoSeat.there /\ NoSeat.account = Nobody /\ ~NoSeat.removed
    BY DEF NoSeat, Seat
  <1>3. PeopleTyped'
    BY <1>1, <1>2 DEF PeopleTyped
  <1>4. PeopleKeys'
    BY <1>1, <1>2 DEF PeopleKeys
  <1>5. SeatsAgree'
    BY <1>1, <1>2 DEF SeatsAgree
  <1>6. Links'
    BY <1>1 DEF Links, LinksTyped, LinksLead, LiveInvite
  <1>7. NothingLeft'
    BY <1>1 DEF NothingLeft
  <1>8. RowsKept /\ groupThere \in BOOLEAN /\ groupThere' \in BOOLEAN
    <2>1. \A c \in Calls : calls[c].phase # "remove"
      BY DEF IndInv, CallsFit, Fits, SeatFree
    <2> QED BY <1>1, <2>1 DEF RowsKept, IndInv, People, PeopleTyped
  <1>9. CallsFit'
    BY <1>8, CallsKept, LeaveFits DEF IndInv
  <1> QED BY <1>3, <1>4, <1>5, <1>6, <1>7, <1>9 DEF IndInv, People

LEMMA CloseGroupKeeps ==
  ASSUME IndInv, NEW c \in Calls, CloseGroup(c)
  PROVE  IndInv'
  <1>1. accounts' \subseteq Users
    BY DEF CloseGroup, IndInv, People, PeopleTyped
  <1> QED BY <1>1, GroupGoes DEF CloseGroup

LEMMA DeleteGroupKeeps ==
  ASSUME IndInv, DeleteGroup
  PROVE  IndInv'
  <1>1. accounts' \subseteq Users /\ calls' = calls
    BY DEF DeleteGroup, IndInv, People, PeopleTyped
  <1> QED BY <1>1, GroupGoes DEF DeleteGroup

-----------------------------------------------------------------------------
(* Steps that read. *)

(* A request that names a seat, a link or an account, having read nothing  *)
(* before.                                                                 *)
LEMMA SeatRead ==
  ASSUME NEW p \in Seats, NEW f \in {"invite", "guestJoin", "remove"}, NEW call,
         groupThere, seats[p].there, call = [NoCall EXCEPT !.phase = f, !.seat = p]
  PROVE  Fits(call)
  <1>1. call = [phase |-> f, user |-> Nobody, seat |-> p, invite |-> Nobody,
                owner |-> FALSE, heir |-> Nobody, guests |-> FALSE]
    BY DEF NoCall
  <1>2. {"invite", "guestJoin", "remove", "redeem", "claim"} \subseteq Phases
    BY DEF Phases
  <1>3. call \in Request
    <2>1. /\ f \in Phases /\ p \in Seats \cup {Nobody}
          /\ Nobody \in Users \cup {Nobody} /\ Nobody \in Seats \cup {Nobody}
          /\ Nobody \in Invites \cup {Nobody} /\ TRUE \in BOOLEAN /\ FALSE \in BOOLEAN
      BY <1>2
    <2>2. [phase |-> f, user |-> Nobody, seat |-> p,
            invite |-> Nobody, owner |-> FALSE, heir |-> Nobody, guests |-> FALSE] \in Request
      BY <2>1, Zenon DEF Request
    <2> QED BY <1>1, <2>2
  <1>4. call.phase = f /\ call.seat = p
    BY <1>1
  <1> QED BY <1>3, <1>4 DEF Fits

LEMMA LinkRead ==
  ASSUME NEW i \in Invites, NEW call, call = [NoCall EXCEPT !.phase = "redeem", !.invite = i]
  PROVE  Fits(call)
  <1>1. call = [phase |-> "redeem", user |-> Nobody, seat |-> Nobody, invite |-> i,
                owner |-> FALSE, heir |-> Nobody, guests |-> FALSE]
    BY DEF NoCall
  <1>2. {"invite", "guestJoin", "remove", "redeem", "claim"} \subseteq Phases
    BY DEF Phases
  <1>3. call \in Request
    <2>1. /\ "redeem" \in Phases /\ i \in Invites \cup {Nobody}
          /\ Nobody \in Users \cup {Nobody} /\ Nobody \in Seats \cup {Nobody}
          /\ Nobody \in Invites \cup {Nobody} /\ TRUE \in BOOLEAN /\ FALSE \in BOOLEAN
      BY <1>2
    <2>2. [phase |-> "redeem", user |-> Nobody, seat |-> Nobody,
            invite |-> i, owner |-> FALSE, heir |-> Nobody, guests |-> FALSE] \in Request
      BY <2>1, Zenon DEF Request
    <2> QED BY <1>1, <2>2
  <1>4. call.phase = "redeem" /\ call.invite = i
    BY <1>1
  <1> QED BY <1>3, <1>4 DEF Fits

LEMMA CookieRead ==
  ASSUME NEW u \in Users, NEW i \in Invites, NEW call, invites[i] # Nobody,
         call = [NoCall EXCEPT !.phase = "claim", !.user = u, !.invite = i]
  PROVE  Fits(call)
  <1>1. call = [phase |-> "claim", user |-> u, seat |-> Nobody, invite |-> i,
                owner |-> FALSE, heir |-> Nobody, guests |-> FALSE]
    BY DEF NoCall
  <1>2. {"invite", "guestJoin", "remove", "redeem", "claim"} \subseteq Phases
    BY DEF Phases
  <1>3. call \in Request
    <2>1. /\ "claim" \in Phases /\ i \in Invites \cup {Nobody} /\ u \in Users \cup {Nobody}
          /\ Nobody \in Users \cup {Nobody} /\ Nobody \in Seats \cup {Nobody}
          /\ Nobody \in Invites \cup {Nobody} /\ TRUE \in BOOLEAN /\ FALSE \in BOOLEAN
      BY <1>2
    <2>2. [phase |-> "claim", user |-> u, seat |-> Nobody,
            invite |-> i, owner |-> FALSE, heir |-> Nobody, guests |-> FALSE] \in Request
      BY <2>1, Zenon DEF Request
    <2> QED BY <1>1, <2>2
  <1>4. call.phase = "claim" /\ call.user = u /\ call.invite = i
    BY <1>1
  <1> QED BY <1>3, <1>4 DEF Fits

LEMMA ClosingRead ==
  ASSUME NEW u \in Users, NEW b \in BOOLEAN, NEW call,
         \/ call = [NoCall EXCEPT !.phase = "close", !.user = u, !.guests = TRUE]
         \/ call = [NoCall EXCEPT !.phase = "survivors", !.user = u, !.owner = b]
  PROVE  Fits(call)
  <1>1. \/ call = [phase |-> "close", user |-> u, seat |-> Nobody, invite |-> Nobody,
                   owner |-> FALSE, heir |-> Nobody, guests |-> TRUE]
        \/ call = [phase |-> "survivors", user |-> u, seat |-> Nobody, invite |-> Nobody,
                   owner |-> b, heir |-> Nobody, guests |-> FALSE]
    BY DEF NoCall
  <1>2. {"survivors", "close"} \subseteq Phases
    BY DEF Phases
  <1>3. call \in Request
    <2>1. /\ "close" \in Phases /\ "survivors" \in Phases /\ u \in Users \cup {Nobody}
          /\ Nobody \in Users \cup {Nobody} /\ Nobody \in Seats \cup {Nobody}
          /\ Nobody \in Invites \cup {Nobody} /\ TRUE \in BOOLEAN /\ FALSE \in BOOLEAN
      BY <1>2
    <2>2. [phase |-> "close", user |-> u, seat |-> Nobody,
            invite |-> Nobody, owner |-> FALSE, heir |-> Nobody, guests |-> TRUE] \in Request
      BY <2>1, Zenon DEF Request
    <2>3. [phase |-> "survivors", user |-> u, seat |-> Nobody,
            invite |-> Nobody, owner |-> b, heir |-> Nobody, guests |-> FALSE] \in Request
      BY <2>1, Zenon DEF Request
    <2> QED BY <1>1, <2>2, <2>3
  <1>4. call.phase \in {"survivors", "close"} /\ call.user = u
    BY <1>1
  <1> QED BY <1>3, <1>4 DEF Fits

(* A closing that reads on. *)
LEMMA ReadsOn ==
  ASSUME NEW old, Fits(old), old.phase \in {"survivors", "guests"}, NEW call,
         NEW heir \in Users, NEW b \in BOOLEAN,
         \/ call = [old EXCEPT !.phase = "guests"]
         \/ call = [old EXCEPT !.phase = "close", !.heir = heir]
         \/ call = [old EXCEPT !.phase = "close", !.guests = b]
  PROVE  Fits(call)
  <1>1. PICK f \in Phases, u \in Users \cup {Nobody}, p \in Seats \cup {Nobody},
             i \in Invites \cup {Nobody}, o \in BOOLEAN, h \in Users \cup {Nobody}, g \in BOOLEAN :
          old = [phase |-> f, user |-> u, seat |-> p, invite |-> i, owner |-> o,
                 heir |-> h, guests |-> g]
    BY DEF Fits, Request
  <1>2. u \in Users
    BY <1>1 DEF Fits
  <1>3. \/ call = [phase |-> "guests", user |-> u, seat |-> p, invite |-> i, owner |-> o,
                   heir |-> h, guests |-> g]
        \/ call = [phase |-> "close", user |-> u, seat |-> p, invite |-> i, owner |-> o,
                   heir |-> heir, guests |-> g]
        \/ call = [phase |-> "close", user |-> u, seat |-> p, invite |-> i, owner |-> o,
                   heir |-> h, guests |-> b]
    BY <1>1
  <1>4. call \in Request /\ call.phase \in {"guests", "close"} /\ call.user = u
    BY <1>2, <1>3 DEF Request, Phases
  <1> QED BY <1>2, <1>4 DEF Fits

LEMMA ReadingKeeps ==
  ASSUME IndInv, NEW c \in Calls,
         \/ \E p \in Seats : OfferLink(c, p) \/ PickName(c, p) \/ BeginRemoval(c, p)
         \/ \E i \in Invites : OpenLink(c, i)
         \/ \E u \in Users, s \in Sessions : BringCookie(c, u, s)
         \/ \E u \in Users : BeginClosing(c, u)
         \/ ReadSurvivors(c) \/ ReadGuests(c) \/ Abandon(c)
  PROVE  IndInv'
  <1>1. ASSUME NEW p \in Seats, OfferLink(c, p) \/ PickName(c, p) \/ BeginRemoval(c, p)
        PROVE  IndInv'
    <2>1. PICK f \in {"invite", "guestJoin", "remove"} :
            /\ Enter(c, [NoCall EXCEPT !.phase = f, !.seat = p])
            /\ groupThere /\ seats[p].there /\ UNCHANGED <<rowsOfGroup, accounts>>
      BY <1>1 DEF OfferLink, PickName, BeginRemoval, Vacant
    <2> DEFINE call == [NoCall EXCEPT !.phase = f, !.seat = p]
    <2>2. Fits(call) /\ Enter(c, call)
      BY <2>1, SeatRead
    <2> HIDE DEF call
    <2> QED BY <2>1, <2>2, Enters
  <1>2. ASSUME NEW i \in Invites, OpenLink(c, i)
        PROVE  IndInv'
    <2> DEFINE call == [NoCall EXCEPT !.phase = "redeem", !.invite = i]
    <2>1. Fits(call) /\ Enter(c, call) /\ UNCHANGED <<rowsOfGroup, accounts>>
      BY <1>2, LinkRead DEF OpenLink
    <2> HIDE DEF call
    <2> QED BY <2>1, Enters
  <1>3. ASSUME NEW u \in Users, NEW s \in Sessions, BringCookie(c, u, s)
        PROVE  IndInv'
    <2> DEFINE i == guestSessions[s].invite
               call == [NoCall EXCEPT !.phase = "claim", !.user = u, !.invite = i]
    <2>1. i \in Invites /\ invites[i] # Nobody
      BY <1>3 DEF BringCookie, Resolves, OpensSeat, LiveInvite, IndInv, Links, LinksTyped, GuestSession
    <2>2. Enter(c, call) /\ UNCHANGED <<rowsOfGroup, accounts>>
      BY <1>3 DEF BringCookie
    <2> HIDE DEF i
    <2>3. Fits(call)
      BY <2>1, CookieRead
    <2> HIDE DEF call
    <2> QED BY <2>2, <2>3, Enters
  <1>4. ASSUME NEW u \in Users, BeginClosing(c, u)
        PROVE  IndInv'
    <2> DEFINE b == members[u].role = "owner"
    <2>1. PICK call :
            /\ Enter(c, call) /\ UNCHANGED <<rowsOfGroup, accounts>>
            /\ \/ call = [NoCall EXCEPT !.phase = "close", !.user = u, !.guests = TRUE]
               \/ call = [NoCall EXCEPT !.phase = "survivors", !.user = u, !.owner = b]
      BY <1>4 DEF BeginClosing
    <2>2. b \in BOOLEAN
      OBVIOUS
    <2> HIDE DEF b
    <2>3. Fits(call)
      BY <2>1, <2>2, ClosingRead
    <2> QED BY <2>1, <2>3, Enters
  <1>5. ASSUME ReadSurvivors(c) \/ ReadGuests(c)
        PROVE  IndInv'
    <2> DEFINE old == calls[c]
    <2>1. Fits(old) /\ old.phase \in {"survivors", "guests"} /\ old.user \in Users
      BY <1>5 DEF ReadSurvivors, ReadGuests, IndInv, CallsFit, Fits
    <2>2. CASE ReadSurvivors(c)
      <3>1. UNCHANGED <<rowsOfGroup, accounts>>
        BY <2>2 DEF ReadSurvivors
      <3>2. CASE Enter(c, [old EXCEPT !.phase = "guests"])
        <4> DEFINE call == [old EXCEPT !.phase = "guests"]
        <4>1. Fits(call)
          BY <2>1, ReadsOn
        <4>2. Enter(c, call)
          BY <3>2
        <4> HIDE DEF call
        <4> QED BY <3>1, <4>1, <4>2, Enters
      <3>3. ASSUME NEW heir \in Users, Enter(c, [old EXCEPT !.phase = "close", !.heir = heir])
            PROVE  IndInv'
        <4> DEFINE call == [old EXCEPT !.phase = "close", !.heir = heir]
        <4>1. Fits(call)
          BY <2>1, ReadsOn
        <4>2. Enter(c, call)
          BY <3>3
        <4> HIDE DEF call
        <4> QED BY <3>1, <4>1, <4>2, Enters
      <3> QED BY <2>2, <3>2, <3>3 DEF ReadSurvivors, InGroup
    <2>3. CASE ReadGuests(c)
      <3> DEFINE b == \E i \in Invites : OpensSeat(i)
                 call == [old EXCEPT !.phase = "close", !.guests = b]
      <3>1. Enter(c, call) /\ UNCHANGED <<rowsOfGroup, accounts>>
        BY <2>3 DEF ReadGuests
      <3>2. b \in BOOLEAN
        OBVIOUS
      <3> HIDE DEF old, b
      <3>3. Fits(call)
        BY <2>1, <3>2, ReadsOn
      <3> HIDE DEF call
      <3> QED BY <3>1, <3>3, Enters
    <2> QED BY <1>5, <2>2, <2>3
  <1>6. CASE Abandon(c)
    BY <1>6, NoCallFits, Enters DEF Abandon, Leave, Enter
  <1> QED BY <1>1, <1>2, <1>3, <1>4, <1>5, <1>6

-----------------------------------------------------------------------------
LEMMA StepKeeps == IndInv /\ [MembershipNext]_membershipVars => IndInv'
  <1> SUFFICES ASSUME IndInv, [MembershipNext]_membershipVars PROVE IndInv'
    OBVIOUS
  <1>1. ASSUME NEW c \in Calls, NEW p \in Seats, OfferLink(c, p) \/ PickName(c, p) \/ BeginRemoval(c, p)
        PROVE  IndInv'
    BY <1>1, ReadingKeeps
  <1>2. ASSUME NEW c \in Calls, NEW i \in Invites, WriteLink(c, i) \/ TakeName(c, i) \/ OpenLink(c, i)
        PROVE  IndInv'
    BY <1>2, WriteLinkKeeps, TakeNameKeeps, ReadingKeeps
  <1>3. ASSUME NEW p \in Seats, RevokeLink(p) \/ RestoreSeat(p) \/ AddName(p)
        PROVE  IndInv'
    BY <1>3, RevokeLinkKeeps, RestoreSeatKeeps, AddNameKeeps
  <1>4. ASSUME NEW p \in Seats, NEW i \in Invites, JoinAsNewGuest(p, i)
        PROVE  IndInv'
    BY <1>4, JoinAsNewGuestKeeps
  <1>5. ASSUME NEW c \in Calls, NEW s \in Sessions, StartSession(c, s)
        PROVE  IndInv'
    BY <1>5, StartSessionKeeps
  <1>6. ASSUME NEW u \in Users, NEW p \in Seats, ClaimMember(u, p) \/ JoinAsNew(u, p)
        PROVE  IndInv'
    BY <1>6, ClaimMemberKeeps, JoinAsNewKeeps
  <1>7. ASSUME NEW c \in Calls, NEW u \in Users, NEW s \in Sessions, BringCookie(c, u, s)
        PROVE  IndInv'
    BY <1>7, ReadingKeeps
  <1>8. ASSUME NEW c \in Calls, NEW u \in Users, BeginClosing(c, u)
        PROVE  IndInv'
    BY <1>8, ReadingKeeps
  <1>9. ASSUME NEW c \in Calls,
               ClaimSeat(c) \/ FinishRemoval(c) \/ CloseAccount(c) \/ CloseGroup(c)
        PROVE  IndInv'
    BY <1>9, ClaimSeatKeeps, FinishRemovalKeeps, CloseAccountKeeps, CloseGroupKeeps
  <1>10. ASSUME NEW c \in Calls, ReadSurvivors(c) \/ ReadGuests(c) \/ Abandon(c)
         PROVE  IndInv'
    BY <1>10, ReadingKeeps
  <1>11. CASE DeleteGroup
    BY <1>11, DeleteGroupKeeps
  <1>12. CASE UNCHANGED membershipVars
    BY <1>12 DEF membershipVars, rowsOfGroup, IndInv, People, PeopleTyped, PeopleKeys, SeatsAgree,
                 Links, LinksTyped, LinksLead, LiveInvite, CallsFit, Fits, NothingLeft
  <1> QED BY <1>1, <1>2, <1>3, <1>4, <1>5, <1>6, <1>7, <1>8, <1>9, <1>10, <1>11, <1>12
          DEF MembershipNext

(* The two groups that createGroup and createGroupAsGuest write.           *)
LEMMA InitHolds == MembershipInit => IndInv
  <1> SUFFICES ASSUME MembershipInit PROVE IndInv
    OBVIOUS
  <1>1. /\ NoSeat \in Seat /\ NoSeat.account = Nobody /\ ~NoSeat.removed
        /\ \A b \in BOOLEAN : \A r : r = [NoSeat EXCEPT !.there = b] =>
             r \in Seat /\ r.there = b /\ r.account = Nobody /\ ~r.removed
    <2>1. NoSeat \in Seat /\ NoSeat.account = Nobody /\ ~NoSeat.removed
      BY DEF NoSeat, Seat
    <2>2. ASSUME NEW b \in BOOLEAN, NEW r, r = [NoSeat EXCEPT !.there = b]
          PROVE  r \in Seat /\ r.there = b /\ r.account = Nobody /\ ~r.removed
      <3>1. r = [there |-> b, account |-> Nobody, removed |-> FALSE]
        BY <2>2 DEF NoSeat
      <3> QED BY <3>1 DEF Seat
    <2> QED BY <2>1, <2>2
  <1>2. CallsFit /\ NothingLeft /\ groupThere
    BY NoCallFits DEF MembershipInit, CallsFit, Fits, NothingLeft
  <1>3. CASE creator = FirstSeat
    <2>1. /\ seats = [p \in Seats |-> [NoSeat EXCEPT !.there = (p = FirstSeat)]]
          /\ members = [u \in Users |-> Nobody] /\ accounts = Users
          /\ invites = [i \in Invites |->
               IF i = FirstInvite THEN [seat |-> FirstSeat, revoked |-> FALSE] ELSE Nobody]
          /\ guestSessions = [s \in Sessions |-> Nobody]
      BY <1>3 DEF MembershipInit
    <2>2. \A p \in Seats : /\ seats[p] \in Seat /\ seats[p].there = (p = FirstSeat)
                            /\ seats[p].account = Nobody /\ ~seats[p].removed
      <3> SUFFICES ASSUME NEW p \in Seats
                   PROVE  /\ seats[p] \in Seat /\ seats[p].there = (p = FirstSeat)
                          /\ seats[p].account = Nobody /\ ~seats[p].removed
        OBVIOUS
      <3> DEFINE b == p = FirstSeat
                 r == [NoSeat EXCEPT !.there = b]
      <3>1. b \in BOOLEAN /\ seats[p] = r
        BY <2>1
      <3>2. r \in Seat /\ r.there = b /\ r.account = Nobody /\ ~r.removed
        BY <1>1, <3>1
      <3> HIDE DEF r
      <3> QED BY <3>1, <3>2
    <2>3. People
      BY <1>2, <1>3, <2>1, <2>2 DEF People, PeopleTyped, PeopleKeys, SeatsAgree
    <2> DEFINE row == [seat |-> FirstSeat, revoked |-> FALSE]
    <2>4. row \in Invite /\ row.seat = FirstSeat
      BY DEF Invite
    <2> HIDE DEF row
    <2>5. /\ invites \in [Invites -> Invite \cup {Nobody}]
          /\ \A i \in Invites : i # FirstInvite => invites[i] = Nobody
          /\ invites[FirstInvite] = row
      BY <2>1, <2>4 DEF row
    <2>6. Links
      BY <2>1, <2>2, <2>4, <2>5 DEF Links, LinksTyped, LinksLead, LiveInvite
    <2> QED BY <1>2, <2>3, <2>6 DEF IndInv
  <1>4. CASE creator # FirstSeat
    <2>1. PICK o \in Users :
            /\ creator = Nobody /\ accounts = Users
            /\ seats = [p \in Seats |->
                 IF p = FirstSeat THEN [there |-> TRUE, account |-> o, removed |-> FALSE] ELSE NoSeat]
            /\ members = [u \in Users |->
                 IF u = o THEN [role |-> "owner", seat |-> FirstSeat] ELSE Nobody]
            /\ invites = [i \in Invites |-> Nobody]
            /\ guestSessions = [s \in Sessions |-> Nobody]
      BY <1>4 DEF MembershipInit
    <2> DEFINE row == [there |-> TRUE, account |-> o, removed |-> FALSE]
               m == [role |-> "owner", seat |-> FirstSeat]
    <2>2. row \in Seat /\ row.there /\ row.account = o /\ ~row.removed /\ m \in Member /\ m.seat = FirstSeat
      BY DEF Seat, Member
    <2> HIDE DEF row, m
    <2>3. /\ seats \in [Seats -> Seat] /\ seats[FirstSeat] = row
          /\ \A p \in Seats : p # FirstSeat => seats[p] = NoSeat
      BY <1>1, <2>1, <2>2 DEF row
    <2>4. /\ members \in [Users -> Member \cup {Nobody}] /\ members[o] = m
          /\ \A u \in Users : u # o => members[u] = Nobody
      BY <2>1, <2>2 DEF m
    <2>5. People
      BY <1>1, <1>2, <2>1, <2>2, <2>3, <2>4 DEF People, PeopleTyped, PeopleKeys, SeatsAgree
    <2>6. Links
      BY <2>1 DEF Links, LinksTyped, LinksLead, LiveInvite
    <2> QED BY <1>2, <2>5, <2>6 DEF IndInv
  <1> QED BY <1>3, <1>4

THEOREM Inductive == MembershipSpec => []IndInv
  BY InitHolds, StepKeeps, PTL DEF MembershipSpec

(* The rows keep their types and their foreign keys. *)
THEOREM TypeCorrect == MembershipSpec => []MembershipTypeOK
  <1>1. IndInv => MembershipTypeOK
    BY DEF IndInv, People, PeopleTyped, PeopleKeys, Links, LinksTyped, CallsFit, MembershipTypeOK
  <1> QED BY <1>1, Inductive, PTL

(* However the owner's link and the shared link race, a seat has one live  *)
(* link (guest_invitations_active_participant_unique).                     *)
THEOREM LinkAlone == MembershipSpec => []OneLiveLink
  <1>1. IndInv => OneLiveLink
    <2> SUFFICES ASSUME IndInv, NEW p \in Seats PROVE Cardinality(LinksOf(p)) <= 1
      BY DEF OneLiveLink
    <2>1. \A i, j \in LinksOf(p) : i = j
      BY DEF IndInv, Links, LinksLead, LinksOf
    <2>2. CASE LinksOf(p) = {}
      BY <2>2, FS_EmptySet
    <2>3. CASE LinksOf(p) # {}
      <3>1. PICK i : LinksOf(p) = {i}
        BY <2>1, <2>3
      <3> QED BY <3>1, FS_Singleton
    <2> QED BY <2>2, <2>3
  <1> QED BY <1>1, Inductive, PTL

-----------------------------------------------------------------------------
(* Succession.  A closing that has read its heir relies on nobody having   *)
(* been there before them: who leaves meanwhile takes nothing from that,   *)
(* who joins comes last, and an heir who leaves is an heir no more.        *)

HeirEldest(call) ==
  /\ call.phase # "close" => call.heir = Nobody
  /\ call.heir \notin {Nobody, call.user} =>
       /\ call.heir \in InGroup
       /\ \A v \in InGroup : JoinedBefore(v, call.heir) => v \in {call.heir, call.user}

HeirsEldest == groupThere => \A c \in Calls : HeirEldest(calls[c])

RankInv == Ranked /\ EldestOwns /\ HeirsEldest

(* Nobody comes or goes: only what a request has read may differ. *)
LEMMA RankRead ==
  ASSUME RankInv, UNCHANGED <<groupThere, creator, members, joined>>,
         groupThere => \A c \in Calls : calls'[c] = calls[c] \/ HeirEldest(calls'[c])
  PROVE  RankInv'
  <1>1. Ranked' /\ EldestOwns'
    BY DEF RankInv, Ranked, EldestOwns, InGroup, Owners, OwnersOf, JoinedBefore
  <1>2. ASSUME groupThere', NEW c \in Calls PROVE HeirEldest(calls[c])'
    <2>1. HeirEldest(calls'[c])
      BY <1>2 DEF RankInv, HeirsEldest
    <2> QED BY <2>1 DEF HeirEldest, InGroup, JoinedBefore
  <1> QED BY <1>1, <1>2 DEF RankInv, HeirsEldest

(* Who joins comes last, and owns no group that an account has begun. *)
LEMMA RankGrows ==
  ASSUME IndInv, RankInv, NEW u \in Users, members[u] = Nobody, NEW p \in Seats,
         NEW role \in {"owner", "member"}, role = "owner" => creator = p, Joined(u, p, role),
         UNCHANGED <<groupThere, creator>>,
         \A c \in Calls : calls'[c] = calls[c] \/ calls'[c] = NoCall
  PROVE  RankInv'
  <1> DEFINE m == [role |-> role, seat |-> p]
  <1>1. members' = [members EXCEPT ![u] = m] /\ m \in Member /\ m # Nobody /\ m.role = role
    BY DEF Joined, Member
  <1> HIDE DEF m
  <1>2. InGroup' = InGroup \cup {u} /\ u \notin InGroup
    BY <1>1 DEF InGroup, IndInv, People, PeopleTyped
  <1>3. joined' = joined \cup InGroup \X {u} /\ joined \subseteq InGroup \X InGroup
    BY DEF Joined, RankInv, Ranked
  <1>4. \A v, w : <<v, w>> \in joined' <=> <<v, w>> \in joined \/ (v \in InGroup /\ w = u)
    BY <1>3
  <1>5. \A v, w : <<v, w>> \in joined => v \in InGroup /\ w \in InGroup
    BY <1>3
  <1>6. Ranked'
    <2>1. (joined \subseteq InGroup \X InGroup)'
      BY <1>2, <1>3
    <2>2. (\A v, w \in InGroup : <<v, w>> \in joined => <<w, v>> \notin joined)'
      BY <1>2, <1>4, <1>5 DEF RankInv, Ranked
    <2>3. (\A v, w \in InGroup : JoinedBefore(v, w) \/ JoinedBefore(w, v))'
      BY <1>2, <1>4 DEF RankInv, Ranked, JoinedBefore
    <2>4. (\A v, w, x \in InGroup : <<v, w>> \in joined /\ <<w, x>> \in joined => <<v, x>> \in joined)'
      BY <1>2, <1>4, <1>5 DEF RankInv, Ranked
    <2> QED BY <2>1, <2>2, <2>3, <2>4 DEF Ranked
  <1>7. EldestOwns'
    <2> SUFFICES ASSUME creator = Nobody, NEW o \in Owners', NEW v \in InGroup' PROVE JoinedBefore(o, v)'
      BY DEF EldestOwns
    <2>1. role = "member"
      OBVIOUS
    <2>2. o \in Owners
      BY <1>1, <2>1 DEF Owners, OwnersOf, IndInv, People, PeopleTyped
    <2>3. o \in InGroup
      BY <2>2 DEF Owners, OwnersOf, InGroup
    <2> QED BY <1>2, <1>4, <2>2, <2>3 DEF RankInv, EldestOwns, JoinedBefore
  <1>8. HeirsEldest'
    <2> SUFFICES ASSUME groupThere, NEW c \in Calls PROVE HeirEldest(calls[c])'
      BY DEF HeirsEldest
    <2>1. CASE calls'[c] = NoCall
      BY <2>1 DEF HeirEldest, NoCall
    <2>2. CASE calls'[c] = calls[c]
      BY <1>2, <1>4, <1>5, <2>2 DEF RankInv, HeirsEldest, HeirEldest, JoinedBefore
    <2> QED BY <2>1, <2>2
  <1> QED BY <1>6, <1>7, <1>8 DEF RankInv

(* Who leaves leaves the others in their order. *)
LEMMA RankShrinks ==
  ASSUME IndInv, RankInv, NEW c \in Calls,
         \A u \in Users : members'[u] # Nobody => members[u] # Nobody,
         joined' = Stayed(members'), calls' = [HeirsOf(members') EXCEPT ![c] = NoCall],
         UNCHANGED <<groupThere, creator>>,
         \A o \in Owners' \ Owners : \A v \in InGroup' : JoinedBefore(v, o) => v = o
  PROVE  RankInv'
  <1>1. InGroup' \subseteq InGroup
    BY DEF InGroup
  <1>2. joined \subseteq InGroup \X InGroup /\ InGroup \subseteq Users
    BY DEF RankInv, Ranked, InGroup
  <1>3. \A v, w \in InGroup' : <<v, w>> \in joined' <=> <<v, w>> \in joined
    BY DEF Stayed, InGroup
  <1>4. joined' \subseteq InGroup' \X InGroup'
    <2> SUFFICES ASSUME NEW pair \in joined' PROVE pair \in InGroup' \X InGroup'
      OBVIOUS
    <2>1. pair \in joined /\ members'[pair[1]] # Nobody /\ members'[pair[2]] # Nobody
      BY DEF Stayed
    <2>2. PICK v \in Users, w \in Users : pair = <<v, w>>
      BY <1>2, <2>1
    <2> QED BY <2>1, <2>2 DEF InGroup
  <1>5. Ranked'
    BY <1>1, <1>3, <1>4 DEF RankInv, Ranked, JoinedBefore
  <1>6. EldestOwns'
    <2> SUFFICES ASSUME creator = Nobody, NEW o \in Owners', NEW v \in InGroup' PROVE JoinedBefore(o, v)'
      BY DEF EldestOwns
    <2>1. o \in InGroup'
      BY DEF Owners, OwnersOf, InGroup
    <2>2. JoinedBefore(o, v)
      <3>1. CASE o \in Owners
        BY <1>1, <3>1 DEF RankInv, EldestOwns
      <3>2. CASE o \notin Owners
        BY <1>1, <2>1, <3>2 DEF RankInv, Ranked, JoinedBefore
      <3> QED BY <3>1, <3>2
    <2> QED BY <1>3, <2>1, <2>2 DEF JoinedBefore
  <1>7. HeirsEldest'
    <2> SUFFICES ASSUME groupThere, NEW d \in Calls PROVE HeirEldest(calls[d])'
      BY DEF HeirsEldest
    <2>1. CASE d = c
      <3>1. calls'[d] = NoCall
        BY <2>1 DEF HeirsOf
      <3> QED BY <3>1 DEF HeirEldest, NoCall
    <2>2. CASE d # c /\ calls[d].heir # Nobody /\ members'[calls[d].heir] = Nobody
      <3> DEFINE call == calls[d]
      <3>1. calls'[d] = [call EXCEPT !.heir = call.user]
        BY <2>2 DEF HeirsOf
      <3>2. call \in Request /\ call.phase = "close"
        BY <2>2 DEF IndInv, CallsFit, RankInv, HeirsEldest, HeirEldest
      <3> HIDE DEF call
      <3>3. calls'[d].heir = calls'[d].user /\ calls'[d].phase = "close"
        BY <3>1, <3>2 DEF Request
      <3> QED BY <3>3 DEF HeirEldest
    <2>3. CASE d # c /\ ~(calls[d].heir # Nobody /\ members'[calls[d].heir] = Nobody)
      <3>1. calls'[d] = calls[d] /\ calls[d].heir \in Users \cup {Nobody}
        BY <2>3 DEF HeirsOf, IndInv, CallsFit, Request
      <3>2. HeirEldest(calls[d])
        BY DEF RankInv, HeirsEldest
      <3> QED BY <1>1, <1>3, <2>3, <3>1, <3>2 DEF HeirEldest, InGroup, JoinedBefore
    <2> QED BY <2>1, <2>2, <2>3
  <1> QED BY <1>5, <1>6, <1>7 DEF RankInv

(* A member who keeps their role and seat is no new owner. *)
LEMMA NoNewOwner ==
  ASSUME \A u \in Users : members'[u] = members[u] \/ members'[u] = Nobody
  PROVE  OwnersOf(members') \subseteq Owners
  BY DEF OwnersOf, Owners

LEMMA RankEnds ==
  ASSUME GroupGone
  PROVE  RankInv'
  <1>1. InGroup' = {} /\ joined' = {} /\ groupThere' = FALSE
    BY DEF GroupGone, InGroup
  <1> QED BY <1>1 DEF RankInv, Ranked, EldestOwns, HeirsEldest, Owners, OwnersOf, InGroup

(* The longest-standing of the others is one nobody else precedes. *)
LEMMA SurvivorsRead ==
  ASSUME IndInv, RankInv, groupThere, NEW c \in Calls, ReadSurvivors(c), NEW d \in Calls
  PROVE  calls'[d] = calls[d] \/ HeirEldest(calls'[d])
  <1> DEFINE old == calls[c]
             others == InGroup \ {old.user}
  <1>1. old \in Request /\ calls \in [Calls -> Request] /\ old.user \in Users
    BY DEF ReadSurvivors, IndInv, CallsFit, Fits
  <1>2. CASE Enter(c, [old EXCEPT !.phase = "guests"])
    <2> DEFINE call == [old EXCEPT !.phase = "guests"]
    <2>1. calls' = [calls EXCEPT ![c] = call]
      BY <1>2 DEF Enter
    <2>2. call.heir = Nobody
      BY <1>1 DEF Request, ReadSurvivors, RankInv, HeirsEldest, HeirEldest
    <2> HIDE DEF call
    <2> QED BY <1>1, <2>1, <2>2 DEF HeirEldest
  <1>3. ASSUME NEW heir \in others, \A u \in others : JoinedBefore(heir, u),
               Enter(c, [old EXCEPT !.phase = "close", !.heir = heir])
        PROVE  calls'[d] = calls[d] \/ HeirEldest(calls'[d])
    <2> DEFINE call == [old EXCEPT !.phase = "close", !.heir = heir]
    <2>1. calls' = [calls EXCEPT ![c] = call]
      BY <1>3 DEF Enter
    <2>2. call.heir = heir /\ call.user = old.user /\ call.phase = "close"
      BY <1>1 DEF Request
    <2> HIDE DEF call
    <2>3. HeirEldest(call)
      <3>1. ASSUME NEW v \in InGroup, JoinedBefore(v, heir) PROVE v \in {heir, old.user}
        BY <1>3, <3>1 DEF RankInv, Ranked, JoinedBefore
      <3> QED BY <1>3, <2>2, <3>1 DEF HeirEldest
    <2> QED BY <1>1, <2>1, <2>3
  <1> QED BY <1>2, <1>3 DEF ReadSurvivors

(* What the other requests read names no heir. *)
LEMMA OthersRead ==
  ASSUME NEW call,
         \/ \E f \in Phases \ {"close"} : \E p : call = [NoCall EXCEPT !.phase = f, !.seat = p]
         \/ \E i : call = [NoCall EXCEPT !.phase = "redeem", !.invite = i]
         \/ \E u, i : call = [NoCall EXCEPT !.phase = "claim", !.user = u, !.invite = i]
         \/ \E u : call = [NoCall EXCEPT !.phase = "close", !.user = u, !.guests = TRUE]
         \/ \E u, b : call = [NoCall EXCEPT !.phase = "survivors", !.user = u, !.owner = b]
         \/ call = NoCall
  PROVE  HeirEldest(call)
  <1>1. ASSUME NEW f \in Phases \ {"close"}, NEW p, call = [NoCall EXCEPT !.phase = f, !.seat = p]
        PROVE  call.heir = Nobody
    BY <1>1 DEF NoCall
  <1>2. ASSUME NEW i, call = [NoCall EXCEPT !.phase = "redeem", !.invite = i]
        PROVE  call.heir = Nobody
    BY <1>2 DEF NoCall
  <1>3. ASSUME NEW u, NEW i, call = [NoCall EXCEPT !.phase = "claim", !.user = u, !.invite = i]
        PROVE  call.heir = Nobody
    BY <1>3 DEF NoCall
  <1>4. ASSUME NEW u, call = [NoCall EXCEPT !.phase = "close", !.user = u, !.guests = TRUE]
        PROVE  call.heir = Nobody
    BY <1>4 DEF NoCall
  <1>5. ASSUME NEW u, NEW b, call = [NoCall EXCEPT !.phase = "survivors", !.user = u, !.owner = b]
        PROVE  call.heir = Nobody
    BY <1>5 DEF NoCall
  <1>6. CASE call = NoCall
    BY <1>6 DEF HeirEldest, NoCall
  <1> QED BY <1>1, <1>2, <1>3, <1>4, <1>5, <1>6 DEF HeirEldest

(* A request entered, and another request's reading is as it was. *)
LEMMA Entered ==
  ASSUME NEW c \in Calls, NEW call, Enter(c, call), calls \in [Calls -> Request], NEW d \in Calls
  PROVE  calls'[d] = calls[d] \/ calls'[d] = call
  BY DEF Enter

LEMMA ReadingRanks ==
  ASSUME IndInv, RankInv, NEW c \in Calls,
         \/ \E p \in Seats : OfferLink(c, p) \/ PickName(c, p) \/ BeginRemoval(c, p)
         \/ \E i \in Invites : OpenLink(c, i)
         \/ \E u \in Users, s \in Sessions : BringCookie(c, u, s)
         \/ \E u \in Users : BeginClosing(c, u)
         \/ ReadSurvivors(c) \/ ReadGuests(c) \/ Abandon(c)
  PROVE  RankInv'
  <1> SUFFICES groupThere => \A d \in Calls : calls'[d] = calls[d] \/ HeirEldest(calls'[d])
    BY RankRead DEF OfferLink, PickName, BeginRemoval, OpenLink, BringCookie, BeginClosing,
                    ReadSurvivors, ReadGuests, Abandon, rowsOfGroup
  <1> SUFFICES ASSUME groupThere, NEW d \in Calls PROVE calls'[d] = calls[d] \/ HeirEldest(calls'[d])
    OBVIOUS
  <1>1. calls \in [Calls -> Request]
    BY DEF IndInv, CallsFit
  <1>2. CASE \E p \in Seats : OfferLink(c, p) \/ PickName(c, p) \/ BeginRemoval(c, p)
    <2>1. {"invite", "guestJoin", "remove"} \subseteq Phases \ {"close"}
      BY DEF Phases
    <2>2. PICK f \in {"invite", "guestJoin", "remove"}, p \in Seats :
            Enter(c, [NoCall EXCEPT !.phase = f, !.seat = p])
      BY <1>2 DEF OfferLink, PickName, BeginRemoval
    <2> QED BY <1>1, <2>1, <2>2, Entered, OthersRead
  <1>3. CASE \E i \in Invites : OpenLink(c, i)
    BY <1>1, <1>3, Entered, OthersRead DEF OpenLink
  <1>4. CASE \E u \in Users, s \in Sessions : BringCookie(c, u, s)
    <2>1. PICK u \in Users, s \in Sessions : BringCookie(c, u, s)
      BY <1>4
    <2> DEFINE i == guestSessions[s].invite
               call == [NoCall EXCEPT !.phase = "claim", !.user = u, !.invite = i]
    <2>2. Enter(c, call)
      BY <2>1 DEF BringCookie
    <2> HIDE DEF i
    <2>3. HeirEldest(call)
      BY OthersRead
    <2> HIDE DEF call
    <2> QED BY <1>1, <2>2, <2>3, Entered
  <1>5. CASE \E u \in Users : BeginClosing(c, u)
    <2>1. PICK u \in Users : BeginClosing(c, u)
      BY <1>5
    <2> DEFINE b == members[u].role = "owner"
    <2>2. PICK call :
            /\ Enter(c, call)
            /\ \/ call = [NoCall EXCEPT !.phase = "close", !.user = u, !.guests = TRUE]
               \/ call = [NoCall EXCEPT !.phase = "survivors", !.user = u, !.owner = b]
      BY <2>1 DEF BeginClosing
    <2> HIDE DEF b
    <2>3. HeirEldest(call)
      BY <2>2, OthersRead
    <2> QED BY <1>1, <2>2, <2>3, Entered
  <1>6. CASE ReadSurvivors(c)
    BY <1>6, SurvivorsRead
  <1>7. CASE ReadGuests(c)
    <2> DEFINE old == calls[c]
               b == \E i \in Invites : OpensSeat(i)
               call == [old EXCEPT !.phase = "close", !.guests = b]
    <2>1. old \in Request /\ Enter(c, call) /\ old.heir = Nobody
      BY <1>1, <1>7 DEF ReadGuests, RankInv, HeirsEldest, HeirEldest
    <2> HIDE DEF old, b
    <2>2. call.heir = old.heir /\ call.phase = "close"
      BY <2>1 DEF Request
    <2> HIDE DEF call
    <2>3. HeirEldest(call)
      BY <2>1, <2>2 DEF HeirEldest
    <2> QED BY <1>1, <2>1, <2>3, Entered
  <1>8. CASE Abandon(c)
    <2>1. Enter(c, NoCall)
      BY <1>8 DEF Abandon, Leave, Enter
    <2> QED BY <1>1, <2>1, Entered, OthersRead
  <1> QED BY <1>2, <1>3, <1>4, <1>5, <1>6, <1>7, <1>8

(* A request that has written, and leaves. *)
LEMMA Left ==
  ASSUME IndInv, NEW c \in Calls, Leave(c), NEW d \in Calls
  PROVE  /\ calls'[d] = calls[d] \/ HeirEldest(calls'[d])
         /\ calls'[d] = calls[d] \/ calls'[d] = NoCall
  <1>1. calls'[d] = calls[d] \/ calls'[d] = NoCall
    BY DEF Leave, IndInv, CallsFit
  <1> QED BY <1>1 DEF HeirEldest, NoCall

(* Nobody sits twice: whose account is on no seat has no row of group_members. *)
LEMMA SeatlessIsOut ==
  ASSUME IndInv, NEW u \in Users, ~HasSeat(u)
  PROVE  members[u] = Nobody
  BY DEF HasSeat, IndInv, People, PeopleTyped, SeatsAgree, Member

LEMMA RankStep ==
  ASSUME IndInv, RankInv, [MembershipNext]_membershipVars
  PROVE  RankInv'
  <1>1. ASSUME NEW c \in Calls, NEW p \in Seats, OfferLink(c, p) \/ PickName(c, p) \/ BeginRemoval(c, p)
        PROVE  RankInv'
    BY <1>1, ReadingRanks
  <1>2. ASSUME NEW c \in Calls, NEW i \in Invites, WriteLink(c, i) \/ TakeName(c, i)
        PROVE  RankInv'
    BY <1>2, RankRead, Left DEF WriteLink, TakeName
  <1>3. ASSUME NEW c \in Calls, NEW i \in Invites, OpenLink(c, i)
        PROVE  RankInv'
    BY <1>3, ReadingRanks
  <1>4. ASSUME NEW p \in Seats, RevokeLink(p) \/ AddName(p)
        PROVE  RankInv'
    BY <1>4, RankRead DEF RevokeLink, AddName
  <1>5. ASSUME NEW p \in Seats, RestoreSeat(p)
        PROVE  RankInv'
    <2> DEFINE u == seats[p].account
    <2>1. u # Nobody => u \in Users
      BY DEF IndInv, People, PeopleTyped, Seat
    <2>2. /\ UNCHANGED <<members, joined>> \/ (u # Nobody /\ members[u] = Nobody /\ Joined(u, p, "member"))
          /\ UNCHANGED <<groupThere, creator, calls>>
      BY <1>5 DEF RestoreSeat
    <2> HIDE DEF u
    <2> QED BY <2>1, <2>2, RankRead, RankGrows
  <1>6. ASSUME NEW p \in Seats, NEW i \in Invites, JoinAsNewGuest(p, i)
        PROVE  RankInv'
    BY <1>6, RankRead DEF JoinAsNewGuest
  <1>7. ASSUME NEW c \in Calls, NEW s \in Sessions, StartSession(c, s)
        PROVE  RankInv'
    BY <1>7, RankRead, Left DEF StartSession
  <1>8. ASSUME NEW u \in Users, NEW p \in Seats, ClaimMember(u, p) \/ JoinAsNew(u, p)
        PROVE  RankInv'
    BY <1>8, SeatlessIsOut, RankGrows DEF ClaimMember, JoinAsNew
  <1>9. ASSUME NEW c \in Calls, NEW u \in Users, NEW s \in Sessions, BringCookie(c, u, s)
        PROVE  RankInv'
    BY <1>9, ReadingRanks
  <1>10. ASSUME NEW c \in Calls, NEW u \in Users, BeginClosing(c, u)
         PROVE  RankInv'
    BY <1>10, ReadingRanks
  <1>11. ASSUME NEW c \in Calls, ReadSurvivors(c) \/ ReadGuests(c) \/ Abandon(c)
         PROVE  RankInv'
    BY <1>11, ReadingRanks
  <1>12. ASSUME NEW c \in Calls, ClaimSeat(c)
         PROVE  RankInv'
    <2> DEFINE u == calls[c].user
               i == calls[c].invite
               p == invites[i].seat
               role == RoleOf(p)
    <2>1. /\ groupThere /\ ~HasSeat(u) /\ Joined(u, p, role) /\ Leave(c)
          /\ UNCHANGED <<groupThere, creator>>
      BY <1>12 DEF ClaimSeat
    <2>2. u \in Users /\ i \in Invites /\ invites[i] # Nobody
      BY <1>12, <2>1 DEF ClaimSeat, IndInv, CallsFit, Fits
    <2>3. p \in Seats /\ role \in {"owner", "member"} /\ (role = "owner" => creator = p)
      BY <2>2 DEF IndInv, Links, LinksTyped, Invite, RoleOf
    <2> HIDE DEF u, i, p, role
    <2>4. members[u] = Nobody
      BY <2>1, <2>2, SeatlessIsOut
    <2>5. \A d \in Calls : calls'[d] = calls[d] \/ calls'[d] = NoCall
      BY <2>1, Left
    <2> QED BY <2>1, <2>2, <2>3, <2>4, <2>5, RankGrows
  <1>13. ASSUME NEW c \in Calls, FinishRemoval(c)
         PROVE  RankInv'
    <2>1. \A u \in Users : members'[u] = members[u] \/ members'[u] = Nobody
      BY <1>13 DEF FinishRemoval
    <2>2. Owners' \subseteq Owners
      BY <2>1, NoNewOwner DEF Owners
    <2> QED BY <1>13, <2>1, <2>2, RankShrinks DEF FinishRemoval
  <1>14. ASSUME NEW c \in Calls, CloseAccount(c)
         PROVE  RankInv'
    <2>1. /\ members' = Succession(c) /\ joined' = Stayed(members')
          /\ calls' = [HeirsOf(members') EXCEPT ![c] = NoCall] /\ calls[c].phase = "close"
          /\ UNCHANGED <<groupThere, creator>>
      BY <1>14 DEF CloseAccount
    <2>2. \A u \in Users : members'[u] # Nobody => members[u] # Nobody /\ u # calls[c].user
      BY <2>1 DEF Succession
    <2>3. ASSUME NEW o \in Owners' \ Owners, NEW v \in InGroup', JoinedBefore(v, o) PROVE v = o
      <3>1. /\ o \in Users /\ members'[o] # Nobody /\ o # calls[c].user
            /\ o \in Owners \/ (o = calls[c].heir /\ members[o] # Nobody)
        BY <2>1, <2>2 DEF Owners, OwnersOf, Succession
      <3>2. o = calls[c].heir /\ o \notin {Nobody, calls[c].user} /\ groupThere
        BY <3>1 DEF IndInv, NothingLeft
      <3>3. v \in InGroup /\ v # calls[c].user
        BY <2>2 DEF InGroup
      <3> QED BY <2>1, <2>3, <3>2, <3>3 DEF RankInv, HeirsEldest, HeirEldest
    <2> QED BY <2>1, <2>2, <2>3, RankShrinks
  <1>15. ASSUME NEW c \in Calls, CloseGroup(c)
         PROVE  RankInv'
    BY <1>15, RankEnds DEF CloseGroup
  <1>16. CASE DeleteGroup
    BY <1>16, RankEnds DEF DeleteGroup
  <1>17. CASE UNCHANGED membershipVars
    BY <1>17, RankRead DEF membershipVars, rowsOfGroup
  <1> QED BY <1>1, <1>2, <1>3, <1>4, <1>5, <1>6, <1>7, <1>8, <1>9, <1>10, <1>11, <1>12, <1>13, <1>14,
             <1>15, <1>16, <1>17 DEF MembershipNext

LEMMA RankStarts == MembershipInit => RankInv
  <1> SUFFICES ASSUME MembershipInit PROVE RankInv
    OBVIOUS
  <1>1. joined = {} /\ \A u, v \in InGroup : u = v
    BY DEF MembershipInit, InGroup
  <1>2. \A c \in Calls : HeirEldest(calls[c])
    BY DEF MembershipInit, HeirEldest, NoCall
  <1> QED BY <1>1, <1>2 DEF RankInv, Ranked, EldestOwns, HeirsEldest, JoinedBefore, Owners, OwnersOf, InGroup

(* The tables agree, everybody has their place in the succession, and a    *)
(* group an account has begun is its eldest member's, however closings,    *)
(* removals and returns overlap (deleteAccount, auth/service.ts).          *)
THEOREM SeatsAlwaysMatch == MembershipSpec => []SeatsMatch
  <1>1. IndInv /\ RankInv /\ [MembershipNext]_membershipVars => RankInv'
    BY RankStep
  <1>2. IndInv /\ RankInv => SeatsMatch
    BY DEF IndInv, People, RankInv, SeatsMatch
  <1> QED BY <1>1, <1>2, RankStarts, Inductive, PTL DEF MembershipSpec

-----------------------------------------------------------------------------
(* The door. *)

(* A new member is an owner only on the creator's seat, in a group without.*)
LEMMA JoinsTheGroup ==
  ASSUME IndInv, NEW u \in Users, NEW p, NEW role, Joined(u, p, role),
         role = "member" \/ (Owners = {} /\ creator = p)
  PROVE  \A v \in OwnersOf(members') \ Owners : Owners = {} /\ members'[v].seat = creator
  <1> DEFINE m == [role |-> role, seat |-> p]
  <1>1. members' = [members EXCEPT ![u] = m] /\ m.role = role /\ m.seat = p
    BY DEF Joined
  <1> HIDE DEF m
  <1>2. members'[u] = m /\ \A v \in Users : v # u => members'[v] = members[v]
    BY <1>1 DEF IndInv, People, PeopleTyped
  <1> QED BY <1>1, <1>2 DEF OwnersOf, Owners

LEMMA DoorStep ==
  ASSUME IndInv, [MembershipNext]_membershipVars, NEW v \in OwnersOf(members') \ Owners
  PROVE  members[v] # Nobody \/ (Owners = {} /\ members'[v].seat = creator)
  <1>1. v \in Users /\ members'[v] # Nobody
    BY DEF OwnersOf
  <1>2. ASSUME UNCHANGED members PROVE FALSE
    BY <1>2, NoNewOwner
  <1>3. ASSUME NEW u \in Users, NEW p, NEW role, Joined(u, p, role),
               role = "member" \/ (Owners = {} /\ creator = p)
        PROVE  Owners = {} /\ members'[v].seat = creator
    BY <1>3, JoinsTheGroup
  <1>4. ASSUME NEW c \in Calls, NEW p \in Seats, OfferLink(c, p) \/ PickName(c, p) \/ BeginRemoval(c, p)
        PROVE  FALSE
    BY <1>2, <1>4 DEF OfferLink, PickName, BeginRemoval, rowsOfGroup
  <1>5. ASSUME NEW c \in Calls, NEW i \in Invites, WriteLink(c, i) \/ TakeName(c, i) \/ OpenLink(c, i)
        PROVE  FALSE
    BY <1>2, <1>5 DEF WriteLink, TakeName, OpenLink, rowsOfGroup
  <1>6. ASSUME NEW p \in Seats, RevokeLink(p) \/ AddName(p)
        PROVE  FALSE
    BY <1>2, <1>6 DEF RevokeLink, AddName
  <1>7. ASSUME NEW p \in Seats, RestoreSeat(p)
        PROVE  Owners = {} /\ members'[v].seat = creator
    <2> DEFINE u == seats[p].account
    <2>1. u # Nobody => u \in Users
      BY DEF IndInv, People, PeopleTyped, Seat
    <2>2. UNCHANGED members \/ (u # Nobody /\ Joined(u, p, "member"))
      BY <1>7 DEF RestoreSeat
    <2> HIDE DEF u
    <2> QED BY <1>2, <1>3, <2>1, <2>2
  <1>8. ASSUME NEW p \in Seats, NEW i \in Invites, JoinAsNewGuest(p, i)
        PROVE  FALSE
    BY <1>2, <1>8 DEF JoinAsNewGuest
  <1>9. ASSUME NEW c \in Calls, NEW s \in Sessions, StartSession(c, s)
        PROVE  FALSE
    BY <1>2, <1>9 DEF StartSession
  <1>10. ASSUME NEW u \in Users, NEW p \in Seats, ClaimMember(u, p) \/ JoinAsNew(u, p)
         PROVE  Owners = {} /\ members'[v].seat = creator
    BY <1>3, <1>10 DEF ClaimMember, JoinAsNew
  <1>11. ASSUME NEW c \in Calls, NEW u \in Users, NEW s \in Sessions, BringCookie(c, u, s)
         PROVE  FALSE
    BY <1>2, <1>11 DEF BringCookie, rowsOfGroup
  <1>12. ASSUME NEW c \in Calls, NEW u \in Users, BeginClosing(c, u)
         PROVE  FALSE
    BY <1>2, <1>12 DEF BeginClosing, rowsOfGroup
  <1>13. ASSUME NEW c \in Calls, ClaimSeat(c)
         PROVE  Owners = {} /\ members'[v].seat = creator
    <2> DEFINE u == calls[c].user
               p == invites[calls[c].invite].seat
               role == RoleOf(p)
    <2>1. u \in Users /\ Joined(u, p, role)
      BY <1>13 DEF ClaimSeat, IndInv, CallsFit, Fits
    <2>2. role = "member" \/ (Owners = {} /\ creator = p)
      BY DEF RoleOf
    <2> HIDE DEF u, p, role
    <2> QED BY <1>3, <2>1, <2>2
  <1>14. ASSUME NEW c \in Calls, FinishRemoval(c)
         PROVE  FALSE
    BY <1>14, NoNewOwner DEF FinishRemoval
  <1>15. ASSUME NEW c \in Calls, CloseAccount(c)
         PROVE  members[v] # Nobody
    BY <1>1, <1>15 DEF CloseAccount, Succession
  <1>16. ASSUME NEW c \in Calls, CloseGroup(c)
         PROVE  FALSE
    BY <1>1, <1>16 DEF CloseGroup, GroupGone
  <1>17. ASSUME NEW c \in Calls, ReadSurvivors(c) \/ ReadGuests(c) \/ Abandon(c)
         PROVE  FALSE
    BY <1>2, <1>17 DEF ReadSurvivors, ReadGuests, Abandon, rowsOfGroup
  <1>18. ASSUME DeleteGroup PROVE FALSE
    BY <1>1, <1>18 DEF DeleteGroup, GroupGone
  <1>19. ASSUME UNCHANGED membershipVars PROVE FALSE
    BY <1>2, <1>19 DEF membershipVars, rowsOfGroup
  <1> QED BY <1>4, <1>5, <1>6, <1>7, <1>8, <1>9, <1>10, <1>11, <1>12, <1>13, <1>14, <1>15, <1>16,
             <1>17, <1>18, <1>19 DEF MembershipNext

(* No request makes an owner of somebody who was neither a member nor on   *)
(* the creator's own seat (guests/service.ts, claimGuestSession).          *)
THEOREM DoorAlwaysKept == MembershipSpec => DoorKept
  <1>1. IndInv /\ [MembershipNext]_membershipVars =>
          [\A u \in OwnersOf(members') \ Owners :
             members[u] # Nobody \/ (Owners = {} /\ members'[u].seat = creator)]_membershipVars
    BY DoorStep
  <1> QED BY <1>1, Inductive, PTL DEF MembershipSpec, DoorKept
=============================================================================
