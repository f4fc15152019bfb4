SPECIFICATION AccessSpec
CONSTANTS
  Seats = {s1, s2}
  Users = {u1, u2, u3}
  Invites = {i1, i2}
  Sessions = {g1}
  Calls = {r1, r2}
  FirstSeat = s1
  FirstInvite = i1
  Nobody = Nobody
  Codes = {c1}
  GrantIds = {n1, n2}
  Callers = {r1, r2}
  NoGrant = NoGrant
  CodeLife = 1
  RefreshLife = 2
  Grace = 0
  CodeKept = 1
  GrantKept = 0
  MaxGen = 2
  MaxDay = 4
  Logins = {l1, l2}
  Keys = {k1}
  Passkeys = {p1}
  Tokens = {n1, n2}
  Requests = {r1, r2}
  NoToken = NoToken
INVARIANTS SeatsMatch OneLiveLink SpentOnce ReuseEndsGrant TakenBack TokenSpentOnce SweptStaysOut
PROPERTIES DoorKept EndedStaysEnded ProofEvictsOnce
SYMMETRY AccessSymmetry
CHECK_DEADLOCK FALSE
