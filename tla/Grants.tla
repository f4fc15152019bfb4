------------------------------- MODULE Grants -------------------------------
(***************************************************************************)
(* modules/agent-access: what an account has allowed AI assistants.        *)
(* "Allow" mints a code; the code is exchanged once for a grant, whose     *)
(* refresh token is replaced whenever it is spent; a code or a token that  *)
(* comes back ends the grant; a password reset ends everything.  A request *)
(* is split wherever another can commit between its statements.            *)
(*                                                                         *)
(* One account.  A refresh token is a grant and a generation: 0 came with  *)
(* the grant, n + 1 replaced n.  Whether a request names the right client, *)
(* redirect address and verifier is a flag.  A refusal changes nothing and *)
(* is not a step.                                                          *)
(***************************************************************************)
EXTENDS Naturals, FiniteSets

CONSTANTS
  Codes,        \* authorization codes that may be minted
  GrantIds,     \* ids of agent_grants
  Callers,      \* requests to the token endpoint, one at a time each
  NoGrant,      \* null
  CodeLife, RefreshLife, Grace, CodeKept, GrantKept,  \* the times of constants.ts
  MaxGen,       \* bound: replacements of a grant's refresh token
  MaxDay        \* bound: the clock

ASSUME TimesAssumption ==
  /\ {CodeLife, RefreshLife, Grace, CodeKept, GrantKept} \subseteq Nat
  /\ MaxGen \in Nat /\ MaxDay \in Nat

VARIABLES
  codes,      \* agent_codes
  grants,     \* agent_grants
  replaced,   \* agent_refresh_history
  asks,       \* what each request has read
  takeBack,   \* where a disconnectAll stands
  day,        \* the time
  mintedBy,   \* the code each grant was made from, kept after the row is pruned
  rotations,  \* every row replaced ever had, kept after pruning
  uses,       \* exchanges of each code that have been answered, up to two
  reused,     \* grants whose stolen token has been presented and refused
  before,     \* codes allowed before the disconnectAll that is under way
  taken       \* codes allowed before a disconnectAll that has ended

tables == <<codes, grants, replaced>>
ghosts == <<mintedBy, rotations, uses, reused, before, taken>>
grantsVars == <<tables, asks, takeBack, day, ghosts>>

-----------------------------------------------------------------------------
CodeRow == [state: {"unminted", "unspent", "spent", "gone"},
            expires: Nat, grant: GrantIds \cup {NoGrant}]
GrantRow == [gen: Nat, expires: Nat, revokedAt: Nat \cup {NoGrant}]
Replaced == [grant: GrantIds, gen: Nat, at: Nat, expires: Nat]
Ask == [phase: {"idle", "spend", "raced", "rotate", "revoke"},
        code: Codes \cup {NoGrant}, grant: GrantIds \cup {NoGrant},
        gen: Nat, at: Nat]

ASSUME NoGrantAssumption ==
  NoGrant \notin Codes \cup GrantIds /\ NoGrant \notin Nat /\ NoGrant \notin GrantRow

NoAsk == [phase |-> "idle", code |-> NoGrant, grant |-> NoGrant, gen |-> 0, at |-> 0]

GrantsTypeOK ==
  /\ codes \in [Codes -> CodeRow]
  /\ grants \in [GrantIds -> GrantRow \cup {NoGrant}]
  /\ replaced \subseteq Replaced /\ replaced \subseteq rotations
  /\ asks \in [Callers -> Ask]
  /\ takeBack \in {"none", "grants"}
  /\ day \in Nat
  /\ mintedBy \in [GrantIds -> Codes \cup {NoGrant}]
  /\ rotations \subseteq Replaced
  /\ uses \in [Codes -> 0..2]
  /\ reused \subseteq GrantIds
  /\ before \subseteq Codes /\ taken \subseteq Codes
  \* a row that is there was made from a code, and history hangs off a grant
  /\ \A g \in GrantIds : grants[g] # NoGrant => mintedBy[g] # NoGrant
  /\ \A row \in replaced : grants[row.grant] # NoGrant

Standing(g) == grants[g] # NoGrant /\ grants[g].revokedAt = NoGrant
Live(g) == Standing(g) /\ day < grants[g].expires

GrantsInit ==
  /\ codes = [c \in Codes |-> [state |-> "unminted", expires |-> 0, grant |-> NoGrant]]
  /\ grants = [g \in GrantIds |-> NoGrant]
  /\ replaced = {}
  /\ asks = [r \in Callers |-> NoAsk]
  /\ takeBack = "none"
  /\ day = 0
  /\ mintedBy = [g \in GrantIds |-> NoGrant]
  /\ rotations = {}
  /\ uses = [c \in Codes |-> 0]
  /\ reused = {} /\ before = {} /\ taken = {}

-----------------------------------------------------------------------------
(* Minting a code, and exchanging it. *)

\* approveAuthorization: the person has said yes
Allow(c) ==
  /\ codes[c].state = "unminted"
  /\ codes' = [codes EXCEPT ![c] =
       [state |-> "unspent", expires |-> day + CodeLife, grant |-> NoGrant]]
  /\ UNCHANGED <<grants, replaced, asks, takeBack, day, ghosts>>

Begin(r, phase, c, g, n) ==
  asks' = [asks EXCEPT ![r] =
    [phase |-> phase, code |-> c, grant |-> g, gen |-> n, at |-> day]]
Answered(r) == asks' = [asks EXCEPT ![r] = NoAsk]
Used(c) == uses' = [uses EXCEPT ![c] = IF @ = 2 THEN 2 ELSE @ + 1]

\* exchangeAuthorizationCode, the read: a spent code is a replay, whoever has it
Exchange(r, c, mine) ==
  /\ asks[r].phase = "idle"
  /\ \/ /\ codes[c].state = "spent"
        /\ Begin(r, "revoke", c, codes[c].grant, 0)
     \/ /\ codes[c].state = "unspent" /\ mine /\ day < codes[c].expires
        /\ Begin(r, "spend", c, NoGrant, 0)
  /\ UNCHANGED <<tables, takeBack, day, ghosts>>

\* the UPDATE matches the code only while nobody has spent it
Unspent(c) == codes[c].state = "unspent"

\* the transaction: the code is spent, the grant made and written on the code
Spend(r, g) ==
  LET c == asks[r].code IN
  /\ asks[r].phase = "spend"
  /\ Unspent(c)
  /\ mintedBy[g] = NoGrant
  /\ codes' = [codes EXCEPT ![c].state = "spent", ![c].grant = g]
  /\ grants' = [grants EXCEPT ![g] =
       [gen |-> 0, expires |-> asks[r].at + RefreshLife, revokedAt |-> NoGrant]]
  /\ mintedBy' = [mintedBy EXCEPT ![g] = c]
  /\ Used(c)
  /\ Answered(r)
  /\ UNCHANGED <<replaced, takeBack, day, rotations, reused, before, taken>>

\* the UPDATE found the code spent, or deleted
LoseRace(r) ==
  /\ asks[r].phase = "spend"
  /\ ~Unspent(asks[r].code)
  /\ asks' = [asks EXCEPT ![r].phase = "raced"]
  /\ UNCHANGED <<tables, takeBack, day, ghosts>>

\* after the transaction: the winner's grant is read, to be ended
AfterRace(r) ==
  LET c == asks[r].code IN
  /\ asks[r].phase = "raced"
  /\ IF codes[c].state = "spent"
       THEN /\ asks' = [asks EXCEPT ![r].phase = "revoke", ![r].grant = codes[c].grant]
            /\ UNCHANGED uses
       ELSE Answered(r) /\ Used(c)
  /\ UNCHANGED <<tables, takeBack, day, mintedBy, rotations, reused, before, taken>>

EndedAt(row, at) ==
  IF row = NoGrant THEN row
  ELSE IF row.revokedAt = NoGrant THEN [row EXCEPT !.revokedAt = at] ELSE row

\* revokeGrant, and the refusal that follows it
Revoke(r) ==
  LET g == asks[r].grant IN
  /\ asks[r].phase = "revoke"
  /\ grants' = [grants EXCEPT ![g] = EndedAt(@, asks[r].at)]
  /\ Answered(r)
  /\ IF asks[r].code = NoGrant
       THEN reused' = reused \cup {g} /\ UNCHANGED uses
       ELSE Used(asks[r].code) /\ UNCHANGED reused
  /\ UNCHANGED <<codes, replaced, takeBack, day, mintedBy, rotations, before, taken>>

-----------------------------------------------------------------------------
(* Refreshing. *)

\* refreshGrant, the reads: the token presented is the current one
Refresh(r, g, mine) ==
  /\ asks[r].phase = "idle"
  /\ Live(g) /\ mine
  /\ Begin(r, "rotate", NoGrant, g, grants[g].gen)
  /\ UNCHANGED <<tables, takeBack, day, ghosts>>

\* it came back too late to be the twin of the request that spent it
Late(row) == day > row.at + Grace

\* the token was replaced: the second SELECT looks for it in the history
PresentReplaced(r, g, n, mine) ==
  /\ asks[r].phase = "idle"
  /\ grants[g] # NoGrant /\ n < grants[g].gen
  /\ mine /\ Standing(g)
  /\ IF \E row \in replaced : row.grant = g /\ row.gen = n /\ Late(row)
       THEN /\ Begin(r, "revoke", NoGrant, g, n)
            /\ UNCHANGED reused
       ELSE /\ \E row \in rotations :
                 row.grant = g /\ row.gen = n /\ Late(row) /\ day <= row.expires
            /\ reused' = reused \cup {g}
            /\ UNCHANGED asks
  /\ UNCHANGED <<tables, takeBack, day, mintedBy, rotations, uses, before, taken>>

CurrentAny(g, n) == Standing(g)

CurrentToken(g, n) == grants[g] # NoGrant /\ grants[g].gen = n

\* the UPDATE matches the grant while it stands and has the token presented
Current(g, n) == Standing(g) /\ grants[g].gen = n

RememberLatest(row) == {old \in replaced : old.grant # row.grant} \cup {row}

Remember(row) == replaced \cup {row}

\* the transaction: a fresh pair, and the old token remembered
Rotate(r) ==
  LET g == asks[r].grant
      n == asks[r].gen
      old == [grant |-> g, gen |-> n, at |-> asks[r].at, expires |-> grants[g].expires]
  IN
  /\ asks[r].phase = "rotate"
  /\ Current(g, n)
  /\ grants[g].gen < MaxGen
  /\ grants' = [grants EXCEPT ![g].gen = @ + 1,
                              ![g].expires = asks[r].at + RefreshLife]
  /\ replaced' = Remember(old)
  /\ rotations' = rotations \cup {old}
  /\ Answered(r)
  /\ UNCHANGED <<codes, takeBack, day, mintedBy, uses, reused, before, taken>>

RefuseRotation(r) ==
  /\ asks[r].phase = "rotate"
  /\ ~Current(asks[r].grant, asks[r].gen)
  /\ Answered(r)
  /\ UNCHANGED <<tables, takeBack, day, ghosts>>

-----------------------------------------------------------------------------
(* Ending. *)

\* disconnect: the Security screen, on one connection
Disconnect(g) ==
  /\ Standing(g)
  /\ grants' = [grants EXCEPT ![g] = EndedAt(@, day)]
  /\ UNCHANGED <<codes, replaced, asks, takeBack, day, ghosts>>

TakeBackNoCodes ==
  /\ takeBack = "none"
  /\ before' = {c \in Codes : codes[c].state # "unminted"}
  /\ takeBack' = "grants"
  /\ UNCHANGED <<codes, grants, replaced, asks, day, mintedBy, rotations, uses, reused, taken>>

\* disconnectAll, first statement: the codes nobody has spent
TakeBackCodes ==
  /\ takeBack = "none"
  /\ codes' = [c \in Codes |->
       IF Unspent(c) THEN [codes[c] EXCEPT !.state = "gone"] ELSE codes[c]]
  /\ before' = {c \in Codes : codes[c].state # "unminted"}
  /\ takeBack' = "grants"
  /\ UNCHANGED <<grants, replaced, asks, day, mintedBy, rotations, uses, reused, taken>>

\* disconnectAll, second statement: the grants
TakeBackGrants ==
  /\ takeBack = "grants"
  /\ grants' = [g \in GrantIds |-> EndedAt(grants[g], day)]
  /\ taken' = taken \cup before
  /\ before' = {}
  /\ takeBack' = "none"
  /\ UNCHANGED <<codes, replaced, asks, day, mintedBy, rotations, uses, reused>>

Over(row) ==
  \/ row.revokedAt # NoGrant /\ row.revokedAt + GrantKept < day
  \/ row.expires + GrantKept < day

\* pruneAgentAccess: three deletions that read nothing of each other's tables,
\* and the cascade from a grant to its history
Prune ==
  /\ codes' = [c \in Codes |->
       IF codes[c].state # "unminted" /\ codes[c].expires + CodeKept < day
         THEN [codes[c] EXCEPT !.state = "gone"] ELSE codes[c]]
  /\ grants' = [g \in GrantIds |->
       IF grants[g] # NoGrant /\ Over(grants[g]) THEN NoGrant ELSE grants[g]]
  /\ replaced' = {row \in replaced : row.expires >= day /\ grants'[row.grant] # NoGrant}
  /\ UNCHANGED <<asks, takeBack, day, ghosts>>

\* no request outlasts the time for which a code is kept, a day
Prompt == \A r \in Callers : asks[r].phase # "idle" => day < asks[r].at + CodeKept

NextDay ==
  /\ day < MaxDay /\ Prompt
  /\ day' = day + 1
  /\ UNCHANGED <<tables, asks, takeBack, ghosts>>

GrantsNext ==
  \/ \E c \in Codes : Allow(c)
  \/ \E r \in Callers, c \in Codes, mine \in BOOLEAN : Exchange(r, c, mine)
  \/ \E r \in Callers, g \in GrantIds : Spend(r, g)
  \/ \E r \in Callers : \/ LoseRace(r) \/ AfterRace(r) \/ Revoke(r)
                        \/ Rotate(r) \/ RefuseRotation(r)
  \/ \E r \in Callers, g \in GrantIds, mine \in BOOLEAN : Refresh(r, g, mine)
  \/ \E r \in Callers, g \in GrantIds, n \in 0..MaxGen, mine \in BOOLEAN :
       PresentReplaced(r, g, n, mine)
  \/ \E g \in GrantIds : Disconnect(g)
  \/ TakeBackCodes \/ TakeBackGrants
  \/ Prune \/ NextDay

GrantsSpec == GrantsInit /\ [][GrantsNext]_grantsVars

-----------------------------------------------------------------------------
(* Properties. *)

\* A code makes one grant, however many exchanges race for it: the UPDATE that
\* spends it matches once (exchangeAuthorizationCode).
CodeSpentOnce ==
  \A g, h \in GrantIds : mintedBy[g] # NoGrant /\ mintedBy[g] = mintedBy[h] => g = h

\* Once a code has been used twice and both have had their answer, what it made
\* is over: which of the two was the application nobody can tell.
ReplayEndsGrant ==
  \A g \in GrantIds : mintedBy[g] # NoGrant /\ uses[mintedBy[g]] = 2 => ~Standing(g)

\* A refresh token buys one pair: each generation replaced its predecessor once.
RefreshSpentOnce ==
  \A g \in GrantIds : grants[g] # NoGrant =>
    \A n \in 0..MaxGen :
      Cardinality({row \in rotations : row.grant = g /\ row.gen = n})
        = IF n < grants[g].gen THEN 1 ELSE 0

\* A replaced token presented after its grace and within its life ends the
\* grant, whichever replacement it was: a later rotation does not hide it.
StolenTokenEnds == \A g \in reused : ~Standing(g)

\* A code and a refresh token each buy one pair of tokens.
SpentOnce == CodeSpentOnce /\ RefreshSpentOnce

\* A code or a refresh token that is used again ends its grant.
ReuseEndsGrant == ReplayEndsGrant /\ StolenTokenEnds

\* Taking an account back ends every connection allowed before it, also those
\* whose code was being exchanged meanwhile (disconnectAll: codes first).
TakenBack ==
  \A g \in GrantIds : mintedBy[g] \in taken => ~Standing(g)

\* A grant that has ended gets no fresh pair and does not come back, although
\* a rotation that read it before it ended may still be under way.
EndedStaysEnded ==
  [][\A g \in GrantIds :
       mintedBy[g] # NoGrant /\ ~Standing(g) =>
         /\ ~Standing(g)'
         /\ {row \in rotations' : row.grant = g} = {row \in rotations : row.grant = g}]_grantsVars
=============================================================================
