----------------------------- MODULE Membership -----------------------------
(***************************************************************************)
(* Who is in a group: seats (participants), the accounts on them, personal *)
(* links and the guest sessions spent from them, and the roles of those    *)
(* with an account.  modules/join, modules/guests, lib/security/           *)
(* guest-session, the people of modules/groups, and the closing of an      *)
(* account in modules/auth.                                                *)
(*                                                                         *)
(* One group.  A transaction is split wherever another can commit between  *)
(* two of its statements and what it has read is used afterwards.  The     *)
(* group's shared link is live throughout; expiries are left out, and so   *)
(* is the balance that lets somebody leave, which is Ledger's.  A join is  *)
(* one step, so joined_at orders members as they come in.                  *)
(***************************************************************************)
EXTENDS Naturals, FiniteSets

CONSTANTS
  Seats, Users, Invites, Sessions,  \* ids that rows may take
  Calls,                            \* requests under way, one at a time each
  FirstSeat, FirstInvite,           \* what createGroup writes
  Nobody                            \* null

ASSUME NobodyAssumption ==
  Nobody \notin Seats \cup Users \cup Invites \cup Sessions
ASSUME FirstAssumption == FirstSeat \in Seats /\ FirstInvite \in Invites

VARIABLES
  groupThere,     \* the row of groups
  creator,        \* groups.created_by_participant_id
  seats,          \* participants
  members,        \* group_members, by account
  joined,         \* pairs of those with a row there, the earlier joined_at first
  accounts,       \* users
  invites,        \* guest_invitations
  guestSessions,  \* guest_sessions
  calls           \* what each request has read

rowsOfGroup == <<groupThere, creator, seats, members, joined, invites, guestSessions>>
membershipVars == <<rowsOfGroup, accounts, calls>>

-----------------------------------------------------------------------------
Seat == [there: BOOLEAN, account: Users \cup {Nobody}, removed: BOOLEAN]
Member == [role: {"owner", "member"}, seat: Seats]
Invite == [seat: Seats, revoked: BOOLEAN]
GuestSession == [invite: Invites, revoked: BOOLEAN]

ASSUME RowsAssumption == Nobody \notin Member \cup Invite \cup GuestSession

Phases == {"idle", "invite", "guestJoin", "redeem", "claim", "remove",
           "survivors", "guests", "close"}
Request == [phase: Phases, user: Users \cup {Nobody}, seat: Seats \cup {Nobody},
            invite: Invites \cup {Nobody}, owner: BOOLEAN,
            heir: Users \cup {Nobody}, guests: BOOLEAN]

NoSeat == [there |-> FALSE, account |-> Nobody, removed |-> FALSE]
NoCall == [phase |-> "idle", user |-> Nobody, seat |-> Nobody, invite |-> Nobody,
           owner |-> FALSE, heir |-> Nobody, guests |-> FALSE]

MembershipTypeOK ==
  /\ groupThere \in BOOLEAN
  /\ creator \in Seats \cup {Nobody}
  /\ seats \in [Seats -> Seat]
  /\ members \in [Users -> Member \cup {Nobody}]
  /\ accounts \subseteq Users
  /\ invites \in [Invites -> Invite \cup {Nobody}]
  /\ guestSessions \in [Sessions -> GuestSession \cup {Nobody}]
  /\ calls \in [Calls -> Request]
  \* foreign keys
  /\ \A u \in Users : members[u] # Nobody =>
       u \in accounts /\ seats[members[u].seat].there
  /\ \A p \in Seats : seats[p].account # Nobody => seats[p].account \in accounts
  /\ \A s \in Sessions : guestSessions[s] # Nobody =>
       invites[guestSessions[s].invite] # Nobody

-----------------------------------------------------------------------------
LiveInvite(i) == invites[i] # Nobody /\ ~invites[i].revoked
LinksOf(p) == {i \in Invites : LiveInvite(i) /\ invites[i].seat = p}
OwnersOf(m) == {u \in Users : m[u] # Nobody /\ m[u].role = "owner"}
Owners == OwnersOf(members)
InGroup == {u \in Users : members[u] # Nobody}
HasSeat(u) == \E p \in Seats : seats[p].account = u
\* a seat nobody signs in to and nobody has left
Vacant(p) == seats[p].there /\ ~seats[p].removed /\ seats[p].account = Nobody
OpensSeat(i) == LiveInvite(i) /\ Vacant(invites[i].seat)

\* resolveGuestSession
Resolves(s) ==
  /\ guestSessions[s] # Nobody /\ ~guestSessions[s].revoked
  /\ OpensSeat(guestSessions[s].invite)

\* reservedForCreator
Reserved(p) == creator = p /\ Owners = {}

\* a removal holds the row of whom it removes until it ends
SeatFree(p) == ~\E c \in Calls : calls[c].phase = "remove" /\ calls[c].seat = p

Retired(links) ==
  [i \in Invites |-> IF i \in links THEN [invites[i] EXCEPT !.revoked = TRUE] ELSE invites[i]]
\* revokeSessionsForInvitation, for each of them
Expelled(links) ==
  [s \in Sessions |->
     IF guestSessions[s] # Nobody /\ guestSessions[s].invite \in links
       THEN [guestSessions[s] EXCEPT !.revoked = TRUE] ELSE guestSessions[s]]
Retire(links) == invites' = Retired(links) /\ guestSessions' = Expelled(links)

\* An heir is known by their row of group_members: once it is deleted the id
\* finds nothing, also if they come back, and stands as the caller's own.
HeirsOf(m) ==
  [c \in Calls |-> IF calls[c].heir # Nobody /\ m[calls[c].heir] = Nobody
                    THEN [calls[c] EXCEPT !.heir = calls[c].user] ELSE calls[c]]

Enter(c, request) == calls' = [calls EXCEPT ![c] = request]
Leave(c) == calls' = [calls EXCEPT ![c] = NoCall]
Ready(c) == calls[c].phase = "idle"

\* createGroup gives the group an owner; createGroupAsGuest gives its creator a
\* seat and a link.  Everybody has an account to join with.
MembershipInit ==
  /\ groupThere = TRUE
  /\ accounts = Users /\ joined = {}
  /\ guestSessions = [s \in Sessions |-> Nobody]
  /\ calls = [c \in Calls |-> NoCall]
  /\ \/ /\ creator = FirstSeat
        /\ seats = [p \in Seats |-> [NoSeat EXCEPT !.there = (p = FirstSeat)]]
        /\ members = [u \in Users |-> Nobody]
        /\ invites = [i \in Invites |->
             IF i = FirstInvite THEN [seat |-> FirstSeat, revoked |-> FALSE] ELSE Nobody]
     \/ /\ creator = Nobody
        /\ invites = [i \in Invites |-> Nobody]
        /\ \E o \in Users :
             /\ seats = [p \in Seats |->
                  IF p = FirstSeat THEN [there |-> TRUE, account |-> o, removed |-> FALSE]
                  ELSE NoSeat]
             /\ members = [u \in Users |->
                  IF u = o THEN [role |-> "owner", seat |-> FirstSeat] ELSE Nobody]

-----------------------------------------------------------------------------
(* Personal links. *)

\* createInvitation, the owner's: the seat is read ...
OfferLink(c, p) ==
  /\ Ready(c) /\ groupThere /\ Owners # {} /\ Vacant(p)
  /\ Enter(c, [NoCall EXCEPT !.phase = "invite", !.seat = p])
  /\ UNCHANGED <<rowsOfGroup, accounts>>

Mint(i, p, others) ==
  /\ invites[i] = Nobody
  /\ invites' = [others EXCEPT ![i] = [seat |-> p, revoked |-> FALSE]]

\* ... and the links it had give way to a new one
WriteLink(c, i) ==
  LET p == calls[c].seat IN
  /\ calls[c].phase = "invite" /\ groupThere
  /\ Mint(i, p, Retired(LinksOf(p)))
  /\ guestSessions' = Expelled(LinksOf(p))
  /\ Leave(c)
  /\ UNCHANGED <<groupThere, creator, seats, members, joined, accounts>>

\* revokeInvitation
RevokeLink(p) ==
  /\ groupThere /\ Owners # {} /\ LinksOf(p) # {}
  /\ Retire(LinksOf(p))
  /\ UNCHANGED <<groupThere, creator, seats, members, joined, accounts, calls>>

\* joinAsGuest, for a name on the list: the seat is read ...
PickName(c, p) ==
  /\ Ready(c) /\ groupThere /\ Vacant(p) /\ ~Reserved(p)
  /\ Enter(c, [NoCall EXCEPT !.phase = "guestJoin", !.seat = p])
  /\ UNCHANGED <<rowsOfGroup, accounts>>

LinkFreeAnyway(p) == TRUE

\* guest_invitations_active_participant_unique
LinkFree(p) == LinksOf(p) = {}

\* ... and gets a link, unless it has one
TakeName(c, i) ==
  LET p == calls[c].seat IN
  /\ calls[c].phase = "guestJoin" /\ groupThere
  /\ LinkFree(p)
  /\ Mint(i, p, invites)
  /\ Leave(c)
  /\ UNCHANGED <<groupThere, creator, seats, members, joined, guestSessions, accounts>>

\* addParticipant: a name on the list, and nothing else
AddName(p) ==
  /\ groupThere /\ ~seats[p].there
  /\ seats' = [seats EXCEPT ![p].there = TRUE]
  /\ UNCHANGED <<groupThere, creator, members, joined, invites, guestSessions, accounts, calls>>

\* joinAsGuest, under a new name
JoinAsNewGuest(p, i) ==
  /\ groupThere /\ ~seats[p].there
  /\ seats' = [seats EXCEPT ![p].there = TRUE]
  /\ Mint(i, p, invites)
  /\ UNCHANGED <<groupThere, creator, members, joined, guestSessions, accounts, calls>>

\* redeemInvitation: the link is read, and then spent into a session
OpenLink(c, i) ==
  /\ Ready(c) /\ OpensSeat(i)
  /\ Enter(c, [NoCall EXCEPT !.phase = "redeem", !.invite = i])
  /\ UNCHANGED <<rowsOfGroup, accounts>>

StartSession(c, s) ==
  /\ calls[c].phase = "redeem" /\ invites[calls[c].invite] # Nobody
  /\ guestSessions[s] = Nobody
  /\ guestSessions' = [guestSessions EXCEPT ![s] =
       [invite |-> calls[c].invite, revoked |-> FALSE]]
  /\ Leave(c)
  /\ UNCHANGED <<groupThere, creator, seats, members, joined, invites, accounts>>

-----------------------------------------------------------------------------
(* Joining with an account. *)

Joined(u, p, role) ==
  /\ members' = [members EXCEPT ![u] = [role |-> role, seat |-> p]]
  /\ joined' = joined \cup InGroup \X {u}

MayClaimTaken(p) == seats[p].there /\ ~seats[p].removed /\ ~Reserved(p)

\* claimMember's UPDATE: the seat is vacant and not kept for its creator
MayClaim(p) == Vacant(p) /\ ~Reserved(p)

\* redeemGroupLink, redeemInvitationAs: claimMember
ClaimMember(u, p) ==
  /\ groupThere /\ u \in accounts /\ ~HasSeat(u)
  /\ MayClaim(p) /\ SeatFree(p)
  /\ seats' = [seats EXCEPT ![p].account = u]
  /\ Joined(u, p, "member")
  /\ Retire(LinksOf(p))
  /\ UNCHANGED <<groupThere, creator, accounts, calls>>

\* createMember
JoinAsNew(u, p) ==
  /\ groupThere /\ u \in accounts /\ ~HasSeat(u)
  /\ ~seats[p].there
  /\ seats' = [seats EXCEPT ![p] = [there |-> TRUE, account |-> u, removed |-> FALSE]]
  /\ Joined(u, p, "member")
  /\ UNCHANGED <<groupThere, creator, invites, guestSessions, accounts, calls>>

\* claimGuestSession: the cookie is resolved ...
BringCookie(c, u, s) ==
  /\ Ready(c) /\ u \in accounts /\ Resolves(s)
  /\ Enter(c, [NoCall EXCEPT !.phase = "claim", !.user = u,
                             !.invite = guestSessions[s].invite])
  /\ UNCHANGED <<rowsOfGroup, accounts>>

\* the UPDATE of claimGuestSession: no account on the seat, removed or not
Unclaimed(p) == seats[p].there /\ seats[p].account = Nobody

RoleOfFirst(p) == IF Owners = {} THEN "owner" ELSE "member"

\* claiming the creator's seat is what makes an owner, and no other
RoleOf(p) == IF Owners = {} /\ creator = p THEN "owner" ELSE "member"

\* ... and the seat behind it linked to the account
ClaimSeat(c) ==
  LET u == calls[c].user
      i == calls[c].invite
      p == invites[i].seat
  IN
  /\ calls[c].phase = "claim"
  /\ groupThere /\ u \in accounts /\ ~HasSeat(u)
  /\ Unclaimed(p) /\ SeatFree(p)
  /\ seats' = [seats EXCEPT ![p].account = u]
  /\ Joined(u, p, RoleOf(p))
  /\ Retire({i})
  /\ Leave(c)
  /\ UNCHANGED <<groupThere, creator, accounts>>

-----------------------------------------------------------------------------
(* Leaving, and coming back. *)

Stayed(m) == {pair \in joined : m[pair[1]] # Nobody /\ m[pair[2]] # Nobody}

RoleAt(p) == {members[u].role : u \in {v \in Users : members[v] # Nobody /\ members[v].seat = p}}

\* removeParticipant, by the owner or on one's own row: the row is locked, and
\* the role that goes with it read
BeginRemoval(c, p) ==
  /\ Ready(c) /\ groupThere
  /\ seats[p].there /\ ~seats[p].removed /\ SeatFree(p)
  /\ Owners # {} \/ RoleAt(p) # {}
  /\ "owner" \notin RoleAt(p)
  /\ Enter(c, [NoCall EXCEPT !.phase = "remove", !.seat = p])
  /\ UNCHANGED <<rowsOfGroup, accounts>>

\* the person leaves, with their links, their sessions and their membership
FinishRemoval(c) ==
  LET p == calls[c].seat IN
  /\ calls[c].phase = "remove"
  /\ seats' = [seats EXCEPT ![p].removed = TRUE]
  /\ Retire(LinksOf(p))
  /\ members' = [u \in Users |->
       IF members[u] # Nobody /\ members[u].seat = p THEN Nobody ELSE members[u]]
  /\ joined' = Stayed(members')
  /\ calls' = [HeirsOf(members') EXCEPT ![c] = NoCall]
  /\ UNCHANGED <<groupThere, creator, accounts>>

\* restoreParticipant: the person, not their links
RestoreSeat(p) ==
  LET u == seats[p].account IN
  /\ groupThere /\ Owners # {} /\ seats[p].removed
  /\ seats' = [seats EXCEPT ![p].removed = FALSE]
  /\ IF u # Nobody /\ members[u] = Nobody
       THEN Joined(u, p, "member") ELSE UNCHANGED <<members, joined>>
  /\ UNCHANGED <<groupThere, creator, invites, guestSessions, accounts, calls>>

-----------------------------------------------------------------------------
(* Closing an account. *)

\* deleteAccount: its membership and role, those who stay, and the guests
BeginClosing(c, u) ==
  /\ Ready(c) /\ u \in accounts
  /\ IF members[u] = Nobody
       THEN Enter(c, [NoCall EXCEPT !.phase = "close", !.user = u, !.guests = TRUE])
       ELSE Enter(c, [NoCall EXCEPT !.phase = "survivors", !.user = u,
                                    !.owner = (members[u].role = "owner")])
  /\ UNCHANGED <<rowsOfGroup, accounts>>

\* ORDER BY joined_at
JoinedBefore(u, v) == u = v \/ <<u, v>> \in joined

ReadSurvivors(c) ==
  LET others == InGroup \ {calls[c].user} IN
  /\ calls[c].phase = "survivors"
  /\ \/ /\ others = {}
        /\ Enter(c, [calls[c] EXCEPT !.phase = "guests"])
     \/ \E heir \in others :
          /\ \A u \in others : JoinedBefore(heir, u)
          /\ Enter(c, [calls[c] EXCEPT !.phase = "close", !.heir = heir])
  /\ UNCHANGED <<rowsOfGroup, accounts>>

\* hasLiveGuest
ReadGuests(c) ==
  /\ calls[c].phase = "guests"
  /\ Enter(c, [calls[c] EXCEPT !.phase = "close", !.guests = \E i \in Invites : OpensSeat(i)])
  /\ UNCHANGED <<rowsOfGroup, accounts>>

\* the membership goes with the account, and the seat stays under its name
Vacated(u) == [p \in Seats |->
  IF seats[p].account = u THEN [seats[p] EXCEPT !.account = Nobody] ELSE seats[p]]

\* the one who has stayed longest is an owner's heir
Succession(c) ==
  [u \in Users |->
     IF u = calls[c].user THEN Nobody
     ELSE IF u = calls[c].heir /\ calls[c].owner /\ members[u] # Nobody
       THEN [members[u] EXCEPT !.role = "owner"] ELSE members[u]]

CloseAccount(c) ==
  LET u == calls[c].user IN
  /\ calls[c].phase = "close"
  /\ calls[c].heir # Nobody \/ calls[c].guests \/ ~groupThere
  /\ \A p \in Seats : seats[p].account = u => SeatFree(p)
  /\ accounts' = accounts \ {u}
  /\ seats' = Vacated(u)
  /\ members' = Succession(c) /\ joined' = Stayed(members')
  /\ calls' = [HeirsOf(members') EXCEPT ![c] = NoCall]
  /\ UNCHANGED <<groupThere, creator, invites, guestSessions>>

\* what the cascade from groups takes
GroupGone ==
  /\ groupThere' = FALSE /\ creator' = Nobody
  /\ seats' = [p \in Seats |-> NoSeat]
  /\ members' = [u \in Users |-> Nobody] /\ joined' = {}
  /\ invites' = [i \in Invites |-> Nobody]
  /\ guestSessions' = [s \in Sessions |-> Nobody]

\* deleteAccount, when nobody is left who could open the group
CloseGroup(c) ==
  /\ calls[c].phase = "close" /\ groupThere
  /\ calls[c].heir = Nobody /\ ~calls[c].guests
  /\ \A p \in Seats : SeatFree(p)
  /\ accounts' = accounts \ {calls[c].user}
  /\ GroupGone
  /\ Leave(c)

\* deleteGroup, the owner's
DeleteGroup ==
  /\ groupThere /\ Owners # {} /\ \A p \in Seats : SeatFree(p)
  /\ GroupGone
  /\ UNCHANGED <<accounts, calls>>

\* a process lost, a constraint hit, a deadlock broken: nothing is left of it
Abandon(c) ==
  /\ ~Ready(c)
  /\ Leave(c)
  /\ UNCHANGED <<rowsOfGroup, accounts>>

MembershipNext ==
  \/ \E c \in Calls, p \in Seats : OfferLink(c, p) \/ PickName(c, p) \/ BeginRemoval(c, p)
  \/ \E c \in Calls, i \in Invites : WriteLink(c, i) \/ TakeName(c, i) \/ OpenLink(c, i)
  \/ \E p \in Seats : RevokeLink(p) \/ RestoreSeat(p) \/ AddName(p)
  \/ \E p \in Seats, i \in Invites : JoinAsNewGuest(p, i)
  \/ \E c \in Calls, s \in Sessions : StartSession(c, s)
  \/ \E u \in Users, p \in Seats : ClaimMember(u, p) \/ JoinAsNew(u, p)
  \/ \E c \in Calls, u \in Users, s \in Sessions : BringCookie(c, u, s)
  \/ \E c \in Calls, u \in Users : BeginClosing(c, u)
  \/ \E c \in Calls : \/ ClaimSeat(c) \/ FinishRemoval(c)
                      \/ ReadSurvivors(c) \/ ReadGuests(c)
                      \/ CloseAccount(c) \/ CloseGroup(c) \/ Abandon(c)
  \/ DeleteGroup

MembershipSpec == MembershipInit /\ [][MembershipNext]_membershipVars

-----------------------------------------------------------------------------
(* Properties. *)

\* Whoever is a member sits on the seat that carries their account, and on one
\* only: the two tables never disagree, whoever claims, leaves or closes.
SeatsAgree ==
  /\ \A u \in Users : members[u] # Nobody => seats[members[u].seat].account = u
  /\ \A p, q \in Seats : seats[p].account # Nobody /\ seats[p].account = seats[q].account
                           => p = q

\* The order of succession ranks everybody with a row of group_members, and
\* nobody else.
Ranked ==
  /\ joined \subseteq InGroup \X InGroup
  /\ \A u, v \in InGroup : <<u, v>> \in joined => <<v, u>> \notin joined
  /\ \A u, v \in InGroup : JoinedBefore(u, v) \/ JoinedBefore(v, u)
  /\ \A u, v, w \in InGroup : <<u, v>> \in joined /\ <<v, w>> \in joined => <<u, w>> \in joined

\* A group that somebody with an account has begun belongs to whoever of its
\* members has been there longest, also while closings of accounts overlap.
EldestOwns ==
  creator = Nobody => \A o \in Owners : \A u \in InGroup : JoinedBefore(o, u)

\* The tables agree on who is in the group and in which order they came, and
\* ownership passes on in that order.
SeatsMatch == SeatsAgree /\ Ranked /\ EldestOwns

\* The door goes to an heir who was a member already, or to whoever brings an
\* account to the creator's seat while nobody has the group; to no other guest,
\* though any of them may make an account first (guests/service.ts:94-106).
DoorKept ==
  [][\A u \in OwnersOf(members') \ Owners :
       members[u] # Nobody \/ (Owners = {} /\ members'[u].seat = creator)]_membershipVars

\* A seat has one live link at most, although the owner and the shared link mint
\* them without a lock.
OneLiveLink == \A p \in Seats : Cardinality(LinksOf(p)) <= 1

\* Whoever is removed has lost their membership (groups/service.ts:861, "history
\* kept, links revoked, membership gone").  It fails: claimGuestSession resolves
\* the cookie before the removal commits, and its UPDATE asks for no account only.
RemovedAreOut == \A u \in Users : members[u] # Nobody => ~seats[members[u].seat].removed
=============================================================================
