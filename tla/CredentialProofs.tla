-------------------------- MODULE CredentialProofs --------------------------
(***************************************************************************)
(* Theorems about what lets somebody in.  Grants, for any number of codes, *)
(* grants, requests and days: what the safety properties of the token      *)
(* endpoint rest on.  Accounts, for any number of sessions, keys, passkeys,*)
(* tokens and requests: a token is accepted once, and what a proof or a    *)
(* reset has ended stays ended.                                            *)
(***************************************************************************)
EXTENDS Grants, Accounts, FiniteSetTheorems, TLAPS

(* A grant comes from a code that has been spent, and a spent code names   *)
(* its grant.                                                              *)
MintedFromSpent ==
  \A g \in GrantIds : mintedBy[g] # NoGrant =>
    codes[mintedBy[g]].state \in {"spent", "gone"}
SpentNames ==
  \A c \in Codes : codes[c].state = "spent" =>
    codes[c].grant \in GrantIds /\ mintedBy[codes[c].grant] = c

(* What a request carries in each phase, and when it was asked.  It does   *)
(* not outlast the time for which its code is kept.                        *)
AskShape ==
  \A r \in Callers :
    LET ask == asks[r] IN
    /\ ask.phase # "idle" => ask.at <= day /\ day <= ask.at + CodeKept
    /\ ask.phase \in {"spend", "raced"} =>
         ask.code \in Codes /\ ask.at < codes[ask.code].expires
    /\ ask.phase \in {"rotate", "revoke"} =>
         ask.grant \in GrantIds /\ mintedBy[ask.grant] # NoGrant
    /\ ask.phase = "revoke" /\ ask.code # NoGrant => mintedBy[ask.grant] = ask.code

(* A code that a request waits to spend is not lost once somebody has      *)
(* spent it: the loser of the race finds the winner's grant.               *)
WinnerShows ==
  \A r \in Callers : asks[r].phase \in {"spend", "raced"} =>
    /\ codes[asks[r].code].state # "unminted"
    /\ asks[r].phase = "raced" => codes[asks[r].code].state # "unspent"
    /\ codes[asks[r].code].state = "gone" => \A g \in GrantIds : mintedBy[g] # asks[r].code

UnspentUnused ==
  \A c \in Codes : codes[c].state \in {"unminted", "unspent"} => uses[c] = 0

(* A replacement is remembered until its token has expired or its grant is *)
(* gone.                                                                   *)
ReplacementKept ==
  \A row \in rotations :
    /\ mintedBy[row.grant] # NoGrant
    /\ row \in replaced \/ row.expires < day \/ grants[row.grant] = NoGrant

ReusedMinted == \A g \in reused : mintedBy[g] # NoGrant

AllowedBefore == \A c \in before \cup taken : codes[c].state \in {"spent", "gone"}

(* Each generation was replaced by the next, once. *)
Generations ==
  /\ \A row1, row2 \in rotations :
       row1.grant = row2.grant /\ row1.gen = row2.gen => row1 = row2
  /\ \A g \in GrantIds : grants[g] # NoGrant =>
       /\ \A row \in rotations : row.grant = g => row.gen < grants[g].gen
       /\ \A n \in Nat : n < grants[g].gen =>
            \E row \in rotations : row.grant = g /\ row.gen = n

GrantInv ==
  /\ GrantsTypeOK
  /\ CodeSpentOnce /\ MintedFromSpent /\ SpentNames
  /\ AskShape /\ WinnerShows /\ UnspentUnused
  /\ ReplayEndsGrant /\ StolenTokenEnds /\ TakenBack
  /\ ReplacementKept /\ ReusedMinted /\ AllowedBefore
  /\ Generations

USE NoGrantAssumption, TimesAssumption

-----------------------------------------------------------------------------
(* Ending a grant. *)

LEMMA EndedRow ==
  ASSUME NEW row \in GrantRow \cup {NoGrant}, NEW at \in Nat
  PROVE  /\ EndedAt(row, at) \in GrantRow \cup {NoGrant}
         /\ EndedAt(row, at) = NoGrant <=> row = NoGrant
         /\ row # NoGrant => /\ EndedAt(row, at).revokedAt # NoGrant
                             /\ EndedAt(row, at).gen = row.gen
  BY DEF EndedAt, GrantRow

(* Some grants end, and nothing else of them changes. *)
SomeEnd ==
  /\ grants' \in [GrantIds -> GrantRow \cup {NoGrant}]
  /\ \A g \in GrantIds :
       /\ grants'[g] = NoGrant <=> grants[g] = NoGrant
       /\ grants[g] # NoGrant => grants'[g].gen = grants[g].gen
       /\ ~Standing(g) => ~Standing(g)'

LEMMA OneEnds ==
  ASSUME GrantsTypeOK, NEW g \in GrantIds, NEW at \in Nat,
         grants' = [grants EXCEPT ![g] = EndedAt(@, at)]
  PROVE  SomeEnd /\ ~Standing(g)'
  <1>1. grants[g] \in GrantRow \cup {NoGrant}
    BY DEF GrantsTypeOK
  <1>2. grants'[g] = EndedAt(grants[g], at)
    BY DEF GrantsTypeOK
  <1> DEFINE row == grants[g]
  <1>6. /\ EndedAt(row, at) \in GrantRow \cup {NoGrant}
        /\ EndedAt(row, at) = NoGrant <=> row = NoGrant
        /\ row # NoGrant => /\ EndedAt(row, at).revokedAt # NoGrant
                             /\ EndedAt(row, at).gen = row.gen
    <2>1. row \in GrantRow \cup {NoGrant}
      BY <1>1
    <2> HIDE DEF row
    <2> QED BY <2>1, EndedRow
  <1>3. /\ grants'[g] \in GrantRow \cup {NoGrant}
        /\ grants'[g] = NoGrant <=> grants[g] = NoGrant
        /\ grants[g] # NoGrant => grants'[g].revokedAt # NoGrant /\ grants'[g].gen = grants[g].gen
    BY <1>2, <1>6
  <1>4. grants' \in [GrantIds -> GrantRow \cup {NoGrant}]
    BY <1>3 DEF GrantsTypeOK
  <1>5. \A h \in GrantIds : h # g => grants'[h] = grants[h]
    BY DEF GrantsTypeOK
  <1> QED BY <1>3, <1>4, <1>5 DEF SomeEnd, Standing

LEMMA AllEnd ==
  ASSUME GrantsTypeOK, grants' = [g \in GrantIds |-> EndedAt(grants[g], day)]
  PROVE  SomeEnd /\ \A g \in GrantIds : ~Standing(g)'
  <1>1. \A g \in GrantIds : grants[g] \in GrantRow \cup {NoGrant} /\ day \in Nat
    BY DEF GrantsTypeOK
  <1>2. \A g \in GrantIds : grants'[g] = EndedAt(grants[g], day)
    OBVIOUS
  <1>3. \A g \in GrantIds :
          /\ grants'[g] \in GrantRow \cup {NoGrant}
          /\ grants'[g] = NoGrant <=> grants[g] = NoGrant
          /\ grants[g] # NoGrant => grants'[g].revokedAt # NoGrant /\ grants'[g].gen = grants[g].gen
    BY <1>1, <1>2, EndedRow
  <1>4. grants' \in [GrantIds -> GrantRow \cup {NoGrant}]
    BY <1>3
  <1> QED BY <1>3, <1>4 DEF SomeEnd, Standing

(* A step that leaves the codes alone, and ends grants or none. *)
LEMMA GrantEndKeeps ==
  ASSUME GrantInv, SomeEnd, UNCHANGED <<codes, replaced, day, mintedBy, rotations>>
  PROVE  /\ CodeSpentOnce' /\ MintedFromSpent' /\ SpentNames'
         /\ ReplacementKept' /\ Generations'
         /\ \A g \in GrantIds : grants'[g] # NoGrant => mintedBy'[g] # NoGrant
         /\ \A row \in replaced' : grants'[row.grant] # NoGrant
  <1>1. \A row \in rotations : row \in Replaced
    BY DEF GrantInv, GrantsTypeOK
  <1>2. \A row \in replaced : row \in Replaced
    BY DEF GrantInv, GrantsTypeOK
  <1> QED BY <1>1, <1>2 DEF GrantInv, GrantsTypeOK, SomeEnd, CodeSpentOnce, MintedFromSpent, SpentNames,
               ReplacementKept, Generations, Replaced

(* The step of one request, the others waiting where they were. *)
OneAsk(r) == \A q \in Callers : q # r => asks'[q] = asks[q]

LEMMA AskTypes ==
  ASSUME GrantsTypeOK, NEW r \in Callers,
         NEW phase \in {"idle", "spend", "raced", "rotate", "revoke"},
         NEW c \in Codes \cup {NoGrant}, NEW g \in GrantIds \cup {NoGrant}, NEW n \in Nat,
         Begin(r, phase, c, g, n)
  PROVE  /\ asks' \in [Callers -> Ask]
         /\ asks'[r] = [phase |-> phase, code |-> c, grant |-> g, gen |-> n, at |-> day]
         /\ OneAsk(r)
  BY DEF GrantsTypeOK, Begin, Ask, OneAsk

LEMMA AnsweredTypes ==
  ASSUME GrantsTypeOK, NEW r \in Callers, Answered(r)
  PROVE  /\ asks' \in [Callers -> Ask]
         /\ asks'[r].phase = "idle"
         /\ OneAsk(r)
  BY DEF GrantsTypeOK, Answered, NoAsk, Ask, OneAsk

-----------------------------------------------------------------------------
(* One lemma per action. *)

LEMMA AllowKeeps ==
  ASSUME GrantInv, NEW c \in Codes, Allow(c)
  PROVE  GrantInv'
  <1> DEFINE fresh == [state |-> "unspent", expires |-> day + CodeLife, grant |-> NoGrant]
  <1>1. /\ codes' = [codes EXCEPT ![c] = fresh]
        /\ codes[c].state = "unminted"
        /\ UNCHANGED <<grants, replaced, asks, takeBack, day, ghosts>>
    BY DEF Allow
  <1>2. fresh \in CodeRow
    BY DEF CodeRow, GrantInv, GrantsTypeOK
  <1>3. codes' \in [Codes -> CodeRow]
    BY <1>1, <1>2 DEF GrantInv, GrantsTypeOK
  <1>4. codes'[c].state = "unspent" /\ \A d \in Codes : d # c => codes'[d] = codes[d]
    BY <1>1 DEF GrantInv, GrantsTypeOK
  <1>5. GrantsTypeOK'
    BY <1>1, <1>3 DEF GrantInv, GrantsTypeOK, ghosts
  <1>6. \A g \in GrantIds : mintedBy[g] # c
    BY <1>1 DEF GrantInv, MintedFromSpent, GrantsTypeOK
  <1>7. CodeSpentOnce' /\ MintedFromSpent' /\ SpentNames' /\ UnspentUnused'
    BY <1>1, <1>4, <1>6 DEF GrantInv, GrantsTypeOK, CodeSpentOnce, MintedFromSpent, SpentNames,
                            UnspentUnused, ghosts
  <1>8. AskShape' /\ WinnerShows'
    BY <1>1, <1>4 DEF GrantInv, AskShape, WinnerShows, ghosts
  <1>9. ReplayEndsGrant' /\ StolenTokenEnds' /\ TakenBack' /\ ReusedMinted'
    BY <1>1 DEF GrantInv, ReplayEndsGrant, StolenTokenEnds, TakenBack, ReusedMinted, Standing, ghosts
  <1>10. ReplacementKept' /\ Generations'
    BY <1>1 DEF GrantInv, ReplacementKept, Generations, ghosts
  <1>11. AllowedBefore'
    BY <1>1, <1>4 DEF GrantInv, AllowedBefore, GrantsTypeOK, ghosts
  <1> QED BY <1>5, <1>7, <1>8, <1>9, <1>10, <1>11 DEF GrantInv

(* Nothing but a request moves. *)
LEMMA OnlyAsks ==
  ASSUME GrantInv, asks' \in [Callers -> Ask], AskShape', WinnerShows',
         UNCHANGED <<tables, takeBack, day, ghosts>>
  PROVE  GrantInv'
  BY DEF GrantInv, GrantsTypeOK, CodeSpentOnce, MintedFromSpent, SpentNames, UnspentUnused,
         ReplayEndsGrant, StolenTokenEnds, TakenBack, ReusedMinted, Standing, ReplacementKept,
         Generations, AllowedBefore, tables, ghosts

LEMMA ExchangeKeeps ==
  ASSUME GrantInv, NEW r \in Callers, NEW c \in Codes, NEW mine \in BOOLEAN, Exchange(r, c, mine)
  PROVE  GrantInv'
  <1>1. UNCHANGED <<tables, takeBack, day, ghosts>> /\ day \in Nat
    BY DEF Exchange, GrantInv, GrantsTypeOK
  <1>2. CASE codes[c].state = "spent" /\ Begin(r, "revoke", c, codes[c].grant, 0)
    <2>1. codes[c].grant \in GrantIds /\ mintedBy[codes[c].grant] = c
      BY <1>2 DEF GrantInv, SpentNames
    <2> DEFINE g == codes[c].grant
    <2>2. /\ asks' \in [Callers -> Ask] /\ OneAsk(r)
          /\ asks'[r] = [phase |-> "revoke", code |-> c, grant |-> g, gen |-> 0, at |-> day]
      BY <1>2, <2>1, AskTypes DEF GrantInv
    <2>3. AskShape' /\ WinnerShows'
      BY <1>1, <2>1, <2>2 DEF GrantInv, AskShape, WinnerShows, OneAsk, tables, ghosts
    <2> QED BY <1>1, <2>2, <2>3, OnlyAsks
  <1>3. CASE /\ codes[c].state = "unspent" /\ day < codes[c].expires
             /\ Begin(r, "spend", c, NoGrant, 0)
    <2>2. /\ asks' \in [Callers -> Ask] /\ OneAsk(r)
          /\ asks'[r] = [phase |-> "spend", code |-> c, grant |-> NoGrant, gen |-> 0, at |-> day]
      BY <1>3, AskTypes DEF GrantInv
    <2>3. AskShape' /\ WinnerShows'
      BY <1>1, <1>3, <2>2 DEF GrantInv, AskShape, WinnerShows, OneAsk, tables, ghosts
    <2> QED BY <1>1, <2>2, <2>3, OnlyAsks
  <1> QED BY <1>2, <1>3 DEF Exchange

LEMMA RefreshKeeps ==
  ASSUME GrantInv, NEW r \in Callers, NEW g \in GrantIds, NEW mine \in BOOLEAN,
         Refresh(r, g, mine)
  PROVE  GrantInv'
  <1>1. UNCHANGED <<tables, takeBack, day, ghosts>> /\ day \in Nat /\ Standing(g)
    BY DEF Refresh, Live, GrantInv, GrantsTypeOK
  <1>2. grants[g].gen \in Nat /\ mintedBy[g] # NoGrant
    BY <1>1 DEF Standing, GrantInv, GrantsTypeOK, GrantRow
  <1> DEFINE n == grants[g].gen
  <1>3. /\ asks' \in [Callers -> Ask] /\ OneAsk(r)
        /\ asks'[r] = [phase |-> "rotate", code |-> NoGrant, grant |-> g, gen |-> n, at |-> day]
    BY <1>2, AskTypes DEF GrantInv, Refresh
  <1>4. AskShape' /\ WinnerShows'
    BY <1>1, <1>2, <1>3 DEF GrantInv, AskShape, WinnerShows, OneAsk, tables, ghosts
  <1> QED BY <1>1, <1>3, <1>4, OnlyAsks

LEMMA LoseRaceKeeps ==
  ASSUME GrantInv, NEW r \in Callers, LoseRace(r)
  PROVE  GrantInv'
  <1>1. /\ UNCHANGED <<tables, takeBack, day, ghosts>>
        /\ asks[r].phase = "spend" /\ asks' = [asks EXCEPT ![r].phase = "raced"]
        /\ codes[asks[r].code].state # "unspent"
    BY DEF LoseRace, Unspent
  <1>2. /\ asks' \in [Callers -> Ask] /\ OneAsk(r)
        /\ asks'[r].phase = "raced" /\ asks'[r].code = asks[r].code /\ asks'[r].at = asks[r].at
    BY <1>1 DEF GrantInv, GrantsTypeOK, Ask, OneAsk
  <1>3. AskShape' /\ WinnerShows'
    BY <1>1, <1>2 DEF GrantInv, AskShape, WinnerShows, OneAsk, tables, ghosts
  <1> QED BY <1>1, <1>2, <1>3, OnlyAsks

LEMMA RefuseRotationKeeps ==
  ASSUME GrantInv, NEW r \in Callers, RefuseRotation(r)
  PROVE  GrantInv'
  <1>1. UNCHANGED <<tables, takeBack, day, ghosts>> /\ Answered(r)
    BY DEF RefuseRotation
  <1>2. AskShape' /\ WinnerShows' /\ asks' \in [Callers -> Ask]
    BY <1>1, AnsweredTypes DEF GrantInv, AskShape, WinnerShows, OneAsk, tables, ghosts
  <1> QED BY <1>1, <1>2, OnlyAsks

(* A code is spent, and its grant made. *)
LEMMA SpendKeeps ==
  ASSUME GrantInv, NEW r \in Callers, NEW g \in GrantIds, Spend(r, g)
  PROVE  GrantInv'
  <1> DEFINE c == asks[r].code
             new == [gen |-> 0, expires |-> asks[r].at + RefreshLife, revokedAt |-> NoGrant]
             row == [codes[c] EXCEPT !.state = "spent", !.grant = g]
  <1>1. /\ asks[r].phase = "spend" /\ codes[c].state = "unspent" /\ mintedBy[g] = NoGrant
        /\ codes' = [codes EXCEPT ![c].state = "spent", ![c].grant = g]
        /\ grants' = [grants EXCEPT ![g] = new]
        /\ mintedBy' = [mintedBy EXCEPT ![g] = c]
        /\ uses' = [uses EXCEPT ![c] = IF @ = 2 THEN 2 ELSE @ + 1]
        /\ Answered(r)
        /\ UNCHANGED <<replaced, takeBack, day, rotations, reused, before, taken>>
    BY DEF Spend, Unspent, Used
  <1>2. c \in Codes /\ c # NoGrant
    BY <1>1 DEF GrantInv, AskShape
  <1>3. asks[r].at \in Nat /\ asks[r].at + RefreshLife \in Nat
    BY DEF GrantInv, GrantsTypeOK, Ask
  <1>4. new \in GrantRow /\ new # NoGrant
    BY <1>3 DEF GrantRow
  <1>5. /\ codes' \in [Codes -> CodeRow]
        /\ codes'[c].state = "spent" /\ codes'[c].grant = g /\ codes'[c].expires = codes[c].expires
        /\ \A d \in Codes : d # c => codes'[d] = codes[d]
    <2>1. codes[c] \in CodeRow
      BY <1>2 DEF GrantInv, GrantsTypeOK
    <2>2. row \in CodeRow /\ row.state = "spent" /\ row.grant = g /\ row.expires = codes[c].expires
      BY <2>1 DEF CodeRow
    <2>3. codes' = [codes EXCEPT ![c] = row]
      BY <1>1, <1>2 DEF GrantInv, GrantsTypeOK
    <2> HIDE DEF row
    <2> QED BY <1>2, <2>2, <2>3 DEF GrantInv, GrantsTypeOK
  <1>6. /\ grants' \in [GrantIds -> GrantRow \cup {NoGrant}]
        /\ grants'[g] = new /\ grants'[g].gen = 0
        /\ \A h \in GrantIds : h # g => grants'[h] = grants[h]
    BY <1>1, <1>4 DEF GrantInv, GrantsTypeOK
  <1>7. /\ mintedBy' \in [GrantIds -> Codes \cup {NoGrant}]
        /\ mintedBy'[g] = c /\ \A h \in GrantIds : h # g => mintedBy'[h] = mintedBy[h]
    BY <1>1, <1>2 DEF GrantInv, GrantsTypeOK
  <1>8. uses[c] = 0
    BY <1>1, <1>2 DEF GrantInv, UnspentUnused
  <1>9. /\ uses' \in [Codes -> 0..2] /\ uses'[c] = 1
        /\ \A d \in Codes : d # c => uses'[d] = uses[d]
    BY <1>1, <1>2, <1>8 DEF GrantInv, GrantsTypeOK
  <1>10. asks' \in [Callers -> Ask] /\ asks'[r].phase = "idle" /\ OneAsk(r)
    BY <1>1, AnsweredTypes DEF GrantInv
  <1>11. grants[g] = NoGrant /\ \A h \in GrantIds : mintedBy[h] # c
    BY <1>1, <1>2 DEF GrantInv, GrantsTypeOK, MintedFromSpent
  <1> HIDE DEF new, row
  <1>12. GrantsTypeOK'
    <2>1. \A old \in replaced' : old \in Replaced /\ grants'[old.grant] # NoGrant
      BY <1>1, <1>6, <1>11 DEF GrantInv, GrantsTypeOK, Replaced
    <2>2. \A h \in GrantIds : grants'[h] # NoGrant => mintedBy'[h] # NoGrant
      BY <1>2, <1>6, <1>7 DEF GrantInv, GrantsTypeOK
    <2> QED BY <1>1, <1>5, <1>6, <1>7, <1>9, <1>10, <2>1, <2>2 DEF GrantInv, GrantsTypeOK
  <1>13. CodeSpentOnce' /\ MintedFromSpent' /\ SpentNames' /\ UnspentUnused'
    <2>1. CodeSpentOnce'
      BY <1>7, <1>11 DEF GrantInv, CodeSpentOnce
    <2>2. MintedFromSpent'
      BY <1>5, <1>7 DEF GrantInv, MintedFromSpent, GrantsTypeOK
    <2>3. SpentNames'
      BY <1>1, <1>5, <1>7 DEF GrantInv, SpentNames, GrantsTypeOK
    <2>4. UnspentUnused'
      BY <1>5, <1>9 DEF GrantInv, UnspentUnused
    <2> QED BY <2>1, <2>2, <2>3, <2>4
  <1>14. AskShape'
    <2> SUFFICES ASSUME NEW q \in Callers PROVE AskShape!(q)'
      BY DEF AskShape
    <2> QED BY <1>1, <1>2, <1>5, <1>7, <1>10, <1>11 DEF GrantInv, AskShape, OneAsk
  <1>15. WinnerShows'
    BY <1>2, <1>5, <1>7, <1>10 DEF GrantInv, WinnerShows, OneAsk, AskShape
  <1>16. ReplayEndsGrant'
    BY <1>2, <1>6, <1>7, <1>9, <1>11 DEF GrantInv, ReplayEndsGrant, Standing, GrantsTypeOK
  <1>17. StolenTokenEnds' /\ ReusedMinted'
    BY <1>1, <1>2, <1>6, <1>7 DEF GrantInv, StolenTokenEnds, ReusedMinted, Standing, GrantsTypeOK
  <1>18. TakenBack' /\ AllowedBefore'
    BY <1>1, <1>2, <1>5, <1>6, <1>7 DEF GrantInv, TakenBack, AllowedBefore, Standing, GrantsTypeOK
  <1>19. ReplacementKept'
    <2>1. \A old \in rotations : old \in Replaced
      BY DEF GrantInv, GrantsTypeOK
    <2> QED BY <1>1, <1>2, <1>6, <1>7, <2>1 DEF GrantInv, ReplacementKept, Replaced
  <1>20. Generations'
    <2>1. \A old \in rotations : old.grant # g
      BY <1>1 DEF GrantInv, ReplacementKept
    <2> QED BY <1>1, <1>6, <2>1 DEF GrantInv, Generations
  <1> QED BY <1>12, <1>13, <1>14, <1>15, <1>16, <1>17, <1>18, <1>19, <1>20 DEF GrantInv

LEMMA AfterRaceKeeps ==
  ASSUME GrantInv, NEW r \in Callers, AfterRace(r)
  PROVE  GrantInv'
  <1> DEFINE c == asks[r].code
  <1>1. /\ asks[r].phase = "raced" /\ c \in Codes
        /\ UNCHANGED <<tables, takeBack, day, mintedBy, rotations, reused, before, taken>>
    BY DEF AfterRace, GrantInv, AskShape
  <1>2. CASE codes[c].state = "spent"
    <2>1. /\ asks' = [asks EXCEPT ![r].phase = "revoke", ![r].grant = codes[c].grant]
          /\ UNCHANGED uses
      BY <1>2 DEF AfterRace
    <2>2. codes[c].grant \in GrantIds /\ mintedBy[codes[c].grant] = c /\ c # NoGrant
      BY <1>1, <1>2 DEF GrantInv, SpentNames
    <2>3. /\ asks' \in [Callers -> Ask] /\ OneAsk(r)
          /\ asks'[r].phase = "revoke" /\ asks'[r].grant = codes[c].grant
          /\ asks'[r].code = c /\ asks'[r].at = asks[r].at
      <3> DEFINE ask == [asks[r] EXCEPT !.phase = "revoke", !.grant = codes[c].grant]
      <3>1. asks[r] \in Ask
        BY DEF GrantInv, GrantsTypeOK
      <3>2. /\ ask \in Ask /\ ask.phase = "revoke" /\ ask.grant = codes[c].grant
            /\ ask.code = c /\ ask.at = asks[r].at
        BY <2>2, <3>1 DEF Ask
      <3>3. asks' = [asks EXCEPT ![r] = ask]
        BY <2>1 DEF GrantInv, GrantsTypeOK
      <3> HIDE DEF ask
      <3> QED BY <3>2, <3>3 DEF GrantInv, GrantsTypeOK, OneAsk
    <2>4. AskShape' /\ WinnerShows'
      BY <1>1, <2>2, <2>3 DEF GrantInv, AskShape, WinnerShows, OneAsk, tables
    <2> QED BY <1>1, <2>1, <2>3, <2>4, OnlyAsks DEF ghosts
  <1>3. CASE codes[c].state # "spent"
    <2>1. Answered(r) /\ uses' = [uses EXCEPT ![c] = IF @ = 2 THEN 2 ELSE @ + 1]
      BY <1>3 DEF AfterRace, Used
    <2>2. asks' \in [Callers -> Ask] /\ asks'[r].phase = "idle" /\ OneAsk(r)
      BY <2>1, AnsweredTypes DEF GrantInv
    <2>3. uses' \in [Codes -> 0..2] /\ \A d \in Codes : d # c => uses'[d] = uses[d]
      <3>1. uses[c] \in 0..2 /\ (IF uses[c] = 2 THEN 2 ELSE uses[c] + 1) \in 0..2
        BY <1>1 DEF GrantInv, GrantsTypeOK
      <3> QED BY <2>1, <3>1 DEF GrantInv, GrantsTypeOK
    <2>4. codes[c].state = "gone" /\ \A g \in GrantIds : mintedBy[g] # c
      BY <1>1, <1>3 DEF GrantInv, WinnerShows, GrantsTypeOK, CodeRow
    <2>5. GrantsTypeOK'
      BY <1>1, <2>2, <2>3 DEF GrantInv, GrantsTypeOK, tables
    <2>6. AskShape' /\ WinnerShows'
      BY <1>1, <2>2 DEF GrantInv, AskShape, WinnerShows, OneAsk, tables
    <2>7. UnspentUnused' /\ ReplayEndsGrant'
      BY <1>1, <2>3, <2>4 DEF GrantInv, UnspentUnused, ReplayEndsGrant, Standing, tables, GrantsTypeOK
    <2> QED BY <1>1, <2>5, <2>6, <2>7 DEF GrantInv, CodeSpentOnce, MintedFromSpent, SpentNames,
                 StolenTokenEnds, TakenBack, ReusedMinted, Standing, ReplacementKept, Generations,
                 AllowedBefore, tables
  <1> QED BY <1>2, <1>3

(* A replay, of a code or of a refresh token, ends the grant. *)
LEMMA RevokeKeeps ==
  ASSUME GrantInv, NEW r \in Callers, Revoke(r),
         NEW g, g = asks[r].grant, NEW c, c = asks[r].code
  PROVE  GrantInv'
  <1>1. /\ asks[r].phase = "revoke" /\ Answered(r)
        /\ grants' = [grants EXCEPT ![g] = EndedAt(@, asks[r].at)]
        /\ UNCHANGED <<codes, replaced, takeBack, day, mintedBy, rotations, before, taken>>
    BY DEF Revoke
  <1>2. g \in GrantIds /\ mintedBy[g] # NoGrant /\ (c # NoGrant => mintedBy[g] = c)
    BY <1>1 DEF GrantInv, AskShape
  <1>3. asks[r].at \in Nat /\ c \in Codes \cup {NoGrant}
    BY DEF GrantInv, GrantsTypeOK, Ask
  <1>4. asks' \in [Callers -> Ask] /\ asks'[r].phase = "idle" /\ OneAsk(r)
    BY <1>1, AnsweredTypes DEF GrantInv
  <1>5. SomeEnd /\ ~Standing(g)'
    <2> DEFINE at == asks[r].at
    <2>1. at \in Nat /\ grants' = [grants EXCEPT ![g] = EndedAt(@, at)] /\ GrantsTypeOK
      BY <1>1, <1>3 DEF GrantInv
    <2> HIDE DEF at
    <2> QED BY <1>2, <2>1, OneEnds
  <1>6. /\ reused' \in {reused, reused \cup {g}}
        /\ uses' \in [Codes -> 0..2]
        /\ \A d \in Codes : d # c => uses'[d] = uses[d]
        /\ c = NoGrant => uses' = uses
    BY <1>3 DEF Revoke, Used, GrantInv, GrantsTypeOK
  <1>7. /\ CodeSpentOnce' /\ MintedFromSpent' /\ SpentNames'
        /\ ReplacementKept' /\ Generations'
        /\ \A h \in GrantIds : grants'[h] # NoGrant => mintedBy'[h] # NoGrant
        /\ \A row \in replaced' : grants'[row.grant] # NoGrant
    BY <1>1, <1>5, GrantEndKeeps
  <1>8. GrantsTypeOK'
    BY <1>1, <1>2, <1>4, <1>5, <1>6, <1>7 DEF GrantInv, GrantsTypeOK, SomeEnd
  <1>9. AskShape' /\ WinnerShows'
    BY <1>1, <1>4 DEF GrantInv, AskShape, WinnerShows, OneAsk
  <1>10. UnspentUnused'
    BY <1>1, <1>2, <1>6 DEF GrantInv, UnspentUnused, MintedFromSpent
  <1>11. ReplayEndsGrant'
    <2> SUFFICES ASSUME NEW h \in GrantIds, mintedBy[h] # NoGrant, uses'[mintedBy[h]] = 2
                 PROVE  ~Standing(h)'
      BY <1>1 DEF ReplayEndsGrant
    <2>1. CASE mintedBy[h] = c
      BY <1>2, <1>5, <2>1 DEF GrantInv, CodeSpentOnce
    <2>2. CASE mintedBy[h] # c
      BY <1>5, <1>6, <2>2 DEF GrantInv, ReplayEndsGrant, SomeEnd, Standing, GrantsTypeOK
    <2> QED BY <2>1, <2>2
  <1>12. StolenTokenEnds' /\ ReusedMinted' /\ TakenBack' /\ AllowedBefore'
    <2>1. StolenTokenEnds'
      BY <1>2, <1>5, <1>6 DEF GrantInv, StolenTokenEnds, SomeEnd, Standing, GrantsTypeOK
    <2>2. ReusedMinted' /\ AllowedBefore'
      BY <1>1, <1>2, <1>6 DEF GrantInv, ReusedMinted, AllowedBefore
    <2>3. TakenBack'
      BY <1>1, <1>5 DEF GrantInv, TakenBack, SomeEnd, Standing
    <2> QED BY <2>1, <2>2, <2>3
  <1> QED BY <1>7, <1>8, <1>9, <1>10, <1>11, <1>12 DEF GrantInv

(* A replaced token is presented: a request is to revoke, or somebody late *)
(* is noted only when there is a replacement to be found.                  *)
LEMMA PresentReplacedKeeps ==
  ASSUME GrantInv, NEW r \in Callers, NEW g \in GrantIds, NEW n \in 0..MaxGen,
         NEW mine \in BOOLEAN, PresentReplaced(r, g, n, mine)
  PROVE  GrantInv'
  <1>1. /\ UNCHANGED <<tables, takeBack, day, mintedBy, rotations, uses, before, taken>>
        /\ Standing(g) /\ grants[g] # NoGrant /\ mintedBy[g] # NoGrant
        /\ day \in Nat /\ n \in Nat
    BY DEF PresentReplaced, GrantInv, GrantsTypeOK
  <1>2. ASSUME NEW row \in rotations, row.grant = g, row.gen = n, Late(row), day <= row.expires
        PROVE  \E old \in replaced : old.grant = g /\ old.gen = n /\ Late(old)
    <2>1. row \in Replaced /\ row.expires \in Nat
      BY DEF GrantInv, GrantsTypeOK, Replaced
    <2>2. row \in replaced
      BY <1>1, <1>2, <2>1 DEF GrantInv, ReplacementKept
    <2> QED BY <1>2, <2>2
  <1>3. Begin(r, "revoke", NoGrant, g, n) /\ UNCHANGED reused
    BY <1>2 DEF PresentReplaced
  <1>4. /\ asks' \in [Callers -> Ask] /\ OneAsk(r)
        /\ asks'[r] = [phase |-> "revoke", code |-> NoGrant, grant |-> g, gen |-> n, at |-> day]
    BY <1>1, <1>3, AskTypes DEF GrantInv
  <1>5. AskShape' /\ WinnerShows'
    BY <1>1, <1>4 DEF GrantInv, AskShape, WinnerShows, OneAsk, tables
  <1> QED BY <1>1, <1>3, <1>4, <1>5, OnlyAsks DEF ghosts

LEMMA RotateKeeps ==
  ASSUME GrantInv, NEW r \in Callers, Rotate(r), NEW g, g = asks[r].grant, NEW n, n = asks[r].gen
  PROVE  GrantInv'
  <1> DEFINE old == [grant |-> g, gen |-> n, at |-> asks[r].at, expires |-> grants[g].expires]
             new == [grants[g] EXCEPT !.gen = @ + 1, !.expires = asks[r].at + RefreshLife]
  <1>1. /\ asks[r].phase = "rotate" /\ Standing(g) /\ grants[g].gen = n
        /\ grants' = [grants EXCEPT ![g].gen = @ + 1, ![g].expires = asks[r].at + RefreshLife]
        /\ replaced' = replaced \cup {old} /\ rotations' = rotations \cup {old}
        /\ Answered(r)
        /\ UNCHANGED <<codes, takeBack, day, mintedBy, uses, reused, before, taken>>
    BY DEF Rotate, Current, Remember
  <1>2. g \in GrantIds /\ mintedBy[g] # NoGrant
    BY <1>1 DEF GrantInv, AskShape
  <1>3. asks[r].at \in Nat /\ asks[r].at + RefreshLife \in Nat
    BY DEF GrantInv, GrantsTypeOK, Ask
  <1>4. grants[g] \in GrantRow /\ grants[g].revokedAt = NoGrant /\ n \in Nat
    BY <1>1, <1>2 DEF GrantInv, GrantsTypeOK, Standing, GrantRow
  <1>5. /\ new \in GrantRow /\ new # NoGrant /\ new.gen = n + 1
        /\ new.revokedAt = NoGrant
    <2> DEFINE at == asks[r].at + RefreshLife
               row == grants[g]
    <2>1. PICK m \in Nat, e \in Nat, v \in Nat \cup {NoGrant} :
            row = [gen |-> m, expires |-> e, revokedAt |-> v]
      BY <1>4 DEF GrantRow
    <2>2. /\ new = [row EXCEPT !.gen = row.gen + 1, !.expires = at] /\ at \in Nat
          /\ row.gen = m /\ m = n /\ v = NoGrant /\ n + 1 \in Nat
      BY <1>1, <1>3, <1>4, <2>1
    <2> HIDE DEF new, at, row
    <2>3. new = [gen |-> n + 1, expires |-> at, revokedAt |-> NoGrant]
      BY <2>1, <2>2
    <2>4. new.gen = n + 1 /\ new.revokedAt = NoGrant
      BY <2>3
    <2>5. new \in GrantRow
      <3>1. n + 1 \in Nat /\ at \in Nat /\ NoGrant \in Nat \cup {NoGrant}
        BY <2>2
      <3> QED BY <3>1, <2>3, Zenon DEF GrantRow
    <2> QED BY <2>4, <2>5, NoGrantAssumption
  <1>6. old \in Replaced /\ old.grant = g /\ old.gen = n
    BY <1>2, <1>3, <1>4 DEF Replaced, GrantRow
  <1>7. grants' = [grants EXCEPT ![g] = new]
    BY <1>1, <1>2 DEF GrantInv, GrantsTypeOK
  <1> HIDE DEF new, old
  <1>8. /\ grants' \in [GrantIds -> GrantRow \cup {NoGrant}] /\ grants'[g] = new
        /\ \A h \in GrantIds : h # g => grants'[h] = grants[h]
    BY <1>2, <1>5, <1>7 DEF GrantInv, GrantsTypeOK
  <1>9. asks' \in [Callers -> Ask] /\ asks'[r].phase = "idle" /\ OneAsk(r)
    BY <1>1, AnsweredTypes DEF GrantInv
  <1>10. GrantsTypeOK'
    <2>1. \A row \in replaced' : row \in Replaced /\ grants'[row.grant] # NoGrant
      BY <1>1, <1>5, <1>6, <1>8 DEF GrantInv, GrantsTypeOK, Replaced
    <2>2. \A h \in GrantIds : grants'[h] # NoGrant => mintedBy'[h] # NoGrant
      BY <1>1, <1>2, <1>8 DEF GrantInv, GrantsTypeOK
    <2> QED BY <1>1, <1>6, <1>8, <1>9, <2>1, <2>2 DEF GrantInv, GrantsTypeOK
  <1>11. CodeSpentOnce' /\ MintedFromSpent' /\ SpentNames' /\ UnspentUnused' /\ ReusedMinted'
           /\ AllowedBefore'
    <2>1. /\ codes' = codes /\ mintedBy' = mintedBy /\ uses' = uses
          /\ reused' = reused /\ before' = before /\ taken' = taken
      BY <1>1
    <2>2. CodeSpentOnce'
      BY <2>1 DEF GrantInv, CodeSpentOnce
    <2>3. MintedFromSpent'
      BY <2>1 DEF GrantInv, MintedFromSpent
    <2>4. SpentNames'
      BY <2>1 DEF GrantInv, SpentNames
    <2>5. UnspentUnused' /\ ReusedMinted' /\ AllowedBefore'
      BY <2>1 DEF GrantInv, UnspentUnused, ReusedMinted, AllowedBefore
    <2> QED BY <2>2, <2>3, <2>4, <2>5
  <1>12. AskShape' /\ WinnerShows'
    BY <1>1, <1>9 DEF GrantInv, AskShape, WinnerShows, OneAsk
  <1>13. \A h \in GrantIds : ~Standing(h) => ~Standing(h)'
    BY <1>1, <1>8 DEF Standing
  <1>14. ReplayEndsGrant' /\ StolenTokenEnds' /\ TakenBack'
    BY <1>1, <1>13 DEF GrantInv, ReplayEndsGrant, StolenTokenEnds, TakenBack, GrantsTypeOK
  <1>15. ReplacementKept'
    <2>1. \A row \in rotations : row \in Replaced
      BY DEF GrantInv, GrantsTypeOK
    <2> QED BY <1>1, <1>2, <1>4, <1>6, <1>8, <2>1 DEF GrantInv, ReplacementKept, Replaced
  <1>16. Generations'
    <2>1. \A row \in rotations : row \in Replaced /\ (row.grant = g => row.gen < n)
      BY <1>1, <1>2, <1>4 DEF GrantInv, GrantsTypeOK, Generations, Standing
    <2>2. \A row1, row2 \in rotations' :
            row1.grant = row2.grant /\ row1.gen = row2.gen => row1 = row2
      BY <1>1, <1>4, <1>6, <2>1 DEF GrantInv, Generations, Replaced
    <2>3. \A row \in rotations' : row.grant = g => row.gen < new.gen
      BY <1>1, <1>4, <1>5, <1>6, <2>1 DEF Replaced
    <2>4. \A m \in Nat : m < new.gen => \E row \in rotations' : row.grant = g /\ row.gen = m
      <3> SUFFICES ASSUME NEW m \in Nat, m < n + 1
                   PROVE  \E row \in rotations' : row.grant = g /\ row.gen = m
        BY <1>5
      <3>1. CASE m = n
        BY <1>1, <1>6, <3>1
      <3>2. CASE m < n
        BY <1>1, <1>2, <1>4, <3>2 DEF GrantInv, Generations, Standing
      <3> QED BY <1>4, <3>1, <3>2
    <2>5. \A h \in GrantIds : h # g /\ grants'[h] # NoGrant =>
            /\ \A row \in rotations' : row.grant = h => row.gen < grants'[h].gen
            /\ \A m \in Nat : m < grants'[h].gen =>
                 \E row \in rotations' : row.grant = h /\ row.gen = m
      BY <1>1, <1>6, <1>8 DEF GrantInv, Generations
    <2> QED BY <1>8, <2>2, <2>3, <2>4, <2>5 DEF Generations
  <1> QED BY <1>10, <1>11, <1>12, <1>14, <1>15, <1>16 DEF GrantInv

LEMMA DisconnectKeeps ==
  ASSUME GrantInv, NEW g \in GrantIds, Disconnect(g)
  PROVE  GrantInv'
  <1>1. /\ grants' = [grants EXCEPT ![g] = EndedAt(@, day)]
        /\ UNCHANGED <<codes, replaced, asks, takeBack, day, ghosts>>
    BY DEF Disconnect
  <1>2. SomeEnd
    <2> DEFINE at == day
    <2>1. at \in Nat /\ grants' = [grants EXCEPT ![g] = EndedAt(@, at)] /\ GrantsTypeOK
      BY <1>1 DEF GrantInv, GrantsTypeOK
    <2> HIDE DEF at
    <2> QED BY <2>1, OneEnds
  <1>3. /\ CodeSpentOnce' /\ MintedFromSpent' /\ SpentNames'
        /\ ReplacementKept' /\ Generations'
        /\ \A h \in GrantIds : grants'[h] # NoGrant => mintedBy'[h] # NoGrant
        /\ \A row \in replaced' : grants'[row.grant] # NoGrant
    BY <1>1, <1>2, GrantEndKeeps DEF ghosts
  <1>4. GrantsTypeOK'
    BY <1>1, <1>2, <1>3 DEF GrantInv, GrantsTypeOK, SomeEnd, ghosts
  <1>5. AskShape' /\ WinnerShows' /\ UnspentUnused' /\ ReusedMinted' /\ AllowedBefore'
    BY <1>1 DEF GrantInv, AskShape, WinnerShows, UnspentUnused, ReusedMinted, AllowedBefore, ghosts
  <1>6. ReplayEndsGrant' /\ StolenTokenEnds' /\ TakenBack'
    BY <1>1, <1>2 DEF GrantInv, ReplayEndsGrant, StolenTokenEnds, TakenBack, SomeEnd, Standing,
                      GrantsTypeOK, ghosts
  <1> QED BY <1>3, <1>4, <1>5, <1>6 DEF GrantInv

(* The codes go before the grants: what is not spent never will be. *)
LEMMA TakeBackCodesKeeps ==
  ASSUME GrantInv, TakeBackCodes
  PROVE  GrantInv'
  <1>1. /\ codes' = [c \in Codes |->
              IF codes[c].state = "unspent" THEN [codes[c] EXCEPT !.state = "gone"] ELSE codes[c]]
        /\ before' = {c \in Codes : codes[c].state # "unminted"}
        /\ takeBack' = "grants"
        /\ UNCHANGED <<grants, replaced, asks, day, mintedBy, rotations, uses, reused, taken>>
    BY DEF TakeBackCodes, Unspent
  <1>2. \A c \in Codes :
          /\ codes'[c] \in CodeRow /\ codes'[c].expires = codes[c].expires
          /\ codes'[c].grant = codes[c].grant
          /\ codes'[c].state = IF codes[c].state = "unspent" THEN "gone" ELSE codes[c].state
    <2> SUFFICES ASSUME NEW c \in Codes
                 PROVE /\ codes'[c] \in CodeRow /\ codes'[c].expires = codes[c].expires
                       /\ codes'[c].grant = codes[c].grant
                       /\ codes'[c].state = IF codes[c].state = "unspent" THEN "gone" ELSE codes[c].state
      OBVIOUS
    <2>1. codes[c] \in CodeRow
      BY DEF GrantInv, GrantsTypeOK
    <2> QED BY <1>1, <2>1 DEF CodeRow
  <1>3. codes' \in [Codes -> CodeRow]
    BY <1>1, <1>2
  <1>4. GrantsTypeOK'
    BY <1>1, <1>3 DEF GrantInv, GrantsTypeOK
  <1>5. CodeSpentOnce' /\ MintedFromSpent' /\ SpentNames' /\ UnspentUnused'
    BY <1>1, <1>2 DEF GrantInv, CodeSpentOnce, MintedFromSpent, SpentNames, UnspentUnused, GrantsTypeOK
  <1>6. AskShape'
    BY <1>1, <1>2 DEF GrantInv, AskShape
  <1>7. WinnerShows'
    BY <1>1, <1>2 DEF GrantInv, WinnerShows, AskShape, MintedFromSpent, GrantsTypeOK
  <1>8. AllowedBefore'
    <2>1. \A c \in Codes : codes[c].state \in {"unminted", "unspent", "spent", "gone"}
      BY DEF GrantInv, GrantsTypeOK, CodeRow
    <2> QED BY <1>1, <1>2, <2>1 DEF GrantInv, AllowedBefore, GrantsTypeOK
  <1>9. ReplayEndsGrant' /\ StolenTokenEnds' /\ TakenBack'
    BY <1>1 DEF GrantInv, ReplayEndsGrant, StolenTokenEnds, TakenBack, Standing
  <1>10. ReusedMinted' /\ ReplacementKept' /\ Generations'
    BY <1>1 DEF GrantInv, ReusedMinted, ReplacementKept, Generations
  <1> QED BY <1>4, <1>5, <1>6, <1>7, <1>8, <1>9, <1>10 DEF GrantInv

LEMMA TakeBackGrantsKeeps ==
  ASSUME GrantInv, TakeBackGrants
  PROVE  GrantInv'
  <1>1. /\ grants' = [g \in GrantIds |-> EndedAt(grants[g], day)]
        /\ taken' = taken \cup before /\ before' = {} /\ takeBack' = "none"
        /\ UNCHANGED <<codes, replaced, asks, day, mintedBy, rotations, uses, reused>>
    BY DEF TakeBackGrants
  <1>2. SomeEnd /\ \A g \in GrantIds : ~Standing(g)'
    BY <1>1, AllEnd DEF GrantInv
  <1>3. /\ CodeSpentOnce' /\ MintedFromSpent' /\ SpentNames'
        /\ ReplacementKept' /\ Generations'
        /\ \A h \in GrantIds : grants'[h] # NoGrant => mintedBy'[h] # NoGrant
        /\ \A row \in replaced' : grants'[row.grant] # NoGrant
    BY <1>1, <1>2, GrantEndKeeps
  <1>4. GrantsTypeOK'
    BY <1>1, <1>2, <1>3 DEF GrantInv, GrantsTypeOK, SomeEnd
  <1>5. AskShape' /\ WinnerShows' /\ UnspentUnused' /\ ReusedMinted' /\ AllowedBefore'
    BY <1>1 DEF GrantInv, AskShape, WinnerShows, UnspentUnused, ReusedMinted, AllowedBefore
  <1>6. ReplayEndsGrant' /\ StolenTokenEnds' /\ TakenBack'
    BY <1>1, <1>2 DEF GrantInv, ReplayEndsGrant, StolenTokenEnds, TakenBack, Standing, GrantsTypeOK
  <1> QED BY <1>3, <1>4, <1>5, <1>6 DEF GrantInv

(* Pruning outwaits every request: the code that one is about to spend, or *)
(* has lost, is still there.                                               *)
LEMMA PruneKeeps ==
  ASSUME GrantInv, Prune
  PROVE  GrantInv'
  <1>1. /\ codes' = [c \in Codes |->
              IF codes[c].state # "unminted" /\ codes[c].expires + CodeKept < day
                THEN [codes[c] EXCEPT !.state = "gone"] ELSE codes[c]]
        /\ grants' = [g \in GrantIds |->
              IF grants[g] # NoGrant /\ Over(grants[g]) THEN NoGrant ELSE grants[g]]
        /\ replaced' = {row \in replaced : row.expires >= day /\ grants'[row.grant] # NoGrant}
        /\ UNCHANGED <<asks, takeBack, day, ghosts>>
    BY DEF Prune
  <1>2. \A c \in Codes :
          /\ codes'[c] \in CodeRow /\ codes'[c].expires = codes[c].expires
          /\ codes'[c].grant = codes[c].grant
          /\ \/ codes'[c].state = codes[c].state
             \/ /\ codes[c].state # "unminted" /\ codes[c].expires + CodeKept < day
                /\ codes'[c].state = "gone"
    <2> SUFFICES ASSUME NEW c \in Codes
                 PROVE /\ codes'[c] \in CodeRow /\ codes'[c].expires = codes[c].expires
                       /\ codes'[c].grant = codes[c].grant
                       /\ \/ codes'[c].state = codes[c].state
                          \/ /\ codes[c].state # "unminted" /\ codes[c].expires + CodeKept < day
                             /\ codes'[c].state = "gone"
      OBVIOUS
    <2>1. codes[c] \in CodeRow
      BY DEF GrantInv, GrantsTypeOK
    <2> QED BY <1>1, <2>1 DEF CodeRow
  <1>3. codes' \in [Codes -> CodeRow]
    BY <1>1, <1>2
  <1>4. \A g \in GrantIds : grants'[g] = grants[g] \/ grants'[g] = NoGrant
    BY <1>1
  <1>5. grants' \in [GrantIds -> GrantRow \cup {NoGrant}]
    BY <1>1 DEF GrantInv, GrantsTypeOK
  <1>6. GrantsTypeOK'
    BY <1>1, <1>3, <1>4, <1>5 DEF GrantInv, GrantsTypeOK, ghosts
  <1>7. CodeSpentOnce' /\ MintedFromSpent' /\ SpentNames' /\ UnspentUnused'
    BY <1>1, <1>2 DEF GrantInv, CodeSpentOnce, MintedFromSpent, SpentNames, UnspentUnused, GrantsTypeOK,
                      ghosts
  <1>8. AskShape'
    BY <1>1, <1>2 DEF GrantInv, AskShape, ghosts
  <1>9. WinnerShows'
    <2> SUFFICES ASSUME NEW r \in Callers, asks[r].phase \in {"spend", "raced"}
                 PROVE  codes'[asks[r].code].state = codes[asks[r].code].state
      BY <1>1 DEF GrantInv, WinnerShows, ghosts
    <2> DEFINE c == asks[r].code  at == asks[r].at  x == codes[c].expires
    <2>1. c \in Codes /\ at < x /\ day <= at + CodeKept
      BY DEF GrantInv, AskShape
    <2>2. at \in Nat /\ x \in Nat /\ day \in Nat
      BY <2>1 DEF GrantInv, GrantsTypeOK, Ask, CodeRow
    <2>3. ~(x + CodeKept < day)
      <3> HIDE DEF at, x
      <3> QED BY <2>1, <2>2
    <2> QED BY <1>2, <2>1, <2>3
  <1>10. \A g \in GrantIds : ~Standing(g) => ~Standing(g)'
    BY <1>4 DEF Standing
  <1>11. ReplayEndsGrant' /\ StolenTokenEnds' /\ TakenBack'
    BY <1>1, <1>10 DEF GrantInv, ReplayEndsGrant, StolenTokenEnds, TakenBack, GrantsTypeOK, ghosts
  <1>12. ReusedMinted'
    BY <1>1 DEF GrantInv, ReusedMinted, ghosts
  <1>13. AllowedBefore'
    BY <1>1, <1>2 DEF GrantInv, AllowedBefore, GrantsTypeOK, ghosts
  <1>14. ReplacementKept'
    <2> SUFFICES ASSUME NEW row \in rotations
                 PROVE  /\ mintedBy[row.grant] # NoGrant
                        /\ row \in replaced' \/ row.expires < day \/ grants'[row.grant] = NoGrant
      BY <1>1 DEF ReplacementKept, ghosts
    <2>1. row \in Replaced /\ row.expires \in Nat /\ row.grant \in GrantIds /\ day \in Nat
      BY DEF GrantInv, GrantsTypeOK, Replaced
    <2>2. /\ mintedBy[row.grant] # NoGrant
          /\ row \in replaced \/ row.expires < day \/ grants[row.grant] = NoGrant
      BY DEF GrantInv, ReplacementKept
    <2>3. CASE row \in replaced /\ row.expires >= day /\ grants'[row.grant] # NoGrant
      BY <1>1, <2>2, <2>3
    <2> QED BY <1>4, <2>1, <2>2, <2>3
  <1>15. Generations'
    BY <1>1, <1>4 DEF GrantInv, Generations, ghosts
  <1> QED BY <1>6, <1>7, <1>8, <1>9, <1>11, <1>12, <1>13, <1>14, <1>15 DEF GrantInv

LEMMA NextDayKeeps ==
  ASSUME GrantInv, NextDay
  PROVE  GrantInv'
  <1>1. /\ day' = day + 1 /\ day \in Nat
        /\ \A r \in Callers : asks[r].phase # "idle" => day < asks[r].at + CodeKept
        /\ UNCHANGED <<codes, grants, replaced, asks, takeBack, ghosts>>
    BY DEF NextDay, Prompt, tables, GrantInv, GrantsTypeOK
  <1>2. GrantsTypeOK'
    BY <1>1 DEF GrantInv, GrantsTypeOK, ghosts
  <1>3. AskShape'
    <2> SUFFICES ASSUME NEW r \in Callers, asks[r].phase # "idle"
                 PROVE  asks[r].at <= day + 1 /\ day + 1 <= asks[r].at + CodeKept
      BY <1>1 DEF GrantInv, AskShape, ghosts
    <2>1. asks[r].at \in Nat /\ asks[r].at <= day
      BY DEF GrantInv, AskShape, GrantsTypeOK, Ask
    <2> QED BY <1>1, <2>1
  <1>4. WinnerShows' /\ UnspentUnused' /\ ReusedMinted' /\ AllowedBefore' /\ Generations'
    BY <1>1 DEF GrantInv, WinnerShows, UnspentUnused, ReusedMinted, AllowedBefore, Generations, ghosts
  <1>5. CodeSpentOnce' /\ MintedFromSpent' /\ SpentNames'
    BY <1>1 DEF GrantInv, CodeSpentOnce, MintedFromSpent, SpentNames, ghosts
  <1>6. ReplayEndsGrant' /\ StolenTokenEnds' /\ TakenBack'
    BY <1>1 DEF GrantInv, ReplayEndsGrant, StolenTokenEnds, TakenBack, Standing, ghosts
  <1>7. ReplacementKept'
    <2>1. \A row \in rotations : row.expires \in Nat
      BY DEF GrantInv, GrantsTypeOK, Replaced
    <2> QED BY <1>1, <2>1 DEF GrantInv, ReplacementKept, ghosts
  <1> QED BY <1>2, <1>3, <1>4, <1>5, <1>6, <1>7 DEF GrantInv

-----------------------------------------------------------------------------
(* The invariant is inductive. *)
THEOREM GrantsInductive == GrantsSpec => []GrantInv
  <1>1. GrantsInit => GrantInv
    <2> SUFFICES ASSUME GrantsInit PROVE GrantInv
      OBVIOUS
    <2>1. NoAsk \in Ask /\ NoAsk.phase = "idle"
      BY DEF NoAsk, Ask
    <2>2. GrantsTypeOK
      BY <2>1 DEF GrantsInit, GrantsTypeOK, CodeRow
    <2>3. AskShape /\ WinnerShows
      BY <2>1 DEF GrantsInit, AskShape, WinnerShows
    <2>4. CodeSpentOnce /\ MintedFromSpent /\ SpentNames /\ UnspentUnused
      BY DEF GrantsInit, CodeSpentOnce, MintedFromSpent, SpentNames, UnspentUnused
    <2>5. ReplayEndsGrant /\ StolenTokenEnds /\ TakenBack
      BY DEF GrantsInit, ReplayEndsGrant, StolenTokenEnds, TakenBack
    <2>6. ReplacementKept /\ ReusedMinted /\ AllowedBefore /\ Generations
      BY DEF GrantsInit, ReplacementKept, ReusedMinted, AllowedBefore, Generations
    <2> QED BY <2>2, <2>3, <2>4, <2>5, <2>6 DEF GrantInv
  <1>2. GrantInv /\ [GrantsNext]_grantsVars => GrantInv'
    <2> SUFFICES ASSUME GrantInv, [GrantsNext]_grantsVars PROVE GrantInv'
      OBVIOUS
    <2>1. ASSUME NEW c \in Codes, Allow(c) PROVE GrantInv'
      BY <2>1, AllowKeeps
    <2>2. ASSUME NEW r \in Callers, NEW c \in Codes, NEW mine \in BOOLEAN, Exchange(r, c, mine)
          PROVE  GrantInv'
      BY <2>2, ExchangeKeeps
    <2>3. ASSUME NEW r \in Callers, NEW g \in GrantIds, Spend(r, g) PROVE GrantInv'
      BY <2>3, SpendKeeps
    <2>4. ASSUME NEW r \in Callers, LoseRace(r) \/ AfterRace(r) \/ RefuseRotation(r) PROVE GrantInv'
      BY <2>4, LoseRaceKeeps, AfterRaceKeeps, RefuseRotationKeeps
    <2>5. ASSUME NEW r \in Callers, Revoke(r) PROVE GrantInv'
      BY <2>5, RevokeKeeps
    <2>6. ASSUME NEW r \in Callers, Rotate(r) PROVE GrantInv'
      BY <2>6, RotateKeeps
    <2>7. ASSUME NEW r \in Callers, NEW g \in GrantIds, NEW mine \in BOOLEAN, Refresh(r, g, mine)
          PROVE  GrantInv'
      BY <2>7, RefreshKeeps
    <2>8. ASSUME NEW r \in Callers, NEW g \in GrantIds, NEW n \in 0..MaxGen,
                 NEW mine \in BOOLEAN, PresentReplaced(r, g, n, mine)
          PROVE  GrantInv'
      BY <2>8, PresentReplacedKeeps
    <2>9. ASSUME NEW g \in GrantIds, Disconnect(g) PROVE GrantInv'
      BY <2>9, DisconnectKeeps
    <2>10. CASE TakeBackCodes \/ TakeBackGrants \/ Prune \/ NextDay
      BY <2>10, TakeBackCodesKeeps, TakeBackGrantsKeeps, PruneKeeps, NextDayKeeps
    <2>11. CASE UNCHANGED grantsVars
      <3>1. UNCHANGED <<tables, takeBack, day, ghosts>> /\ asks' = asks
        BY <2>11 DEF grantsVars
      <3>2. AskShape' /\ WinnerShows' /\ asks' \in [Callers -> Ask]
        BY <3>1 DEF GrantInv, AskShape, WinnerShows, GrantsTypeOK, tables, ghosts
      <3> QED BY <3>1, <3>2, OnlyAsks
    <2> QED BY <2>1, <2>2, <2>3, <2>4, <2>5, <2>6, <2>7, <2>8, <2>9, <2>10, <2>11 DEF GrantsNext
  <1> QED BY <1>1, <1>2, PTL DEF GrantsSpec

(* Every variable keeps its type, and history hangs off grants that are    *)
(* there (the cascade of agent_refresh_history).                           *)
THEOREM GrantTypeCorrect == GrantsSpec => []GrantsTypeOK
  <1>1. GrantInv => GrantsTypeOK
    BY DEF GrantInv
  <1> QED BY <1>1, GrantsInductive, PTL

LEMMA OneRow ==
  ASSUME GrantInv, NEW g \in GrantIds, grants[g] # NoGrant, NEW n \in Nat
  PROVE  Cardinality({row \in rotations : row.grant = g /\ row.gen = n})
           = IF n < grants[g].gen THEN 1 ELSE 0
  <1> DEFINE S == {row \in rotations : row.grant = g /\ row.gen = n}
  <1>0. grants[g].gen \in Nat /\ \A row \in rotations : row.gen \in Nat
    BY DEF GrantInv, GrantsTypeOK, GrantRow, Replaced
  <1>1. CASE n < grants[g].gen
    <2>1. PICK row \in rotations : row.grant = g /\ row.gen = n
      BY <1>1 DEF GrantInv, Generations
    <2>2. S = {row}
      BY <2>1 DEF GrantInv, Generations
    <2> QED BY <1>1, <2>2, FS_Singleton
  <1>2. CASE ~(n < grants[g].gen)
    <2>1. S = {}
      BY <1>0, <1>2 DEF GrantInv, Generations
    <2> QED BY <1>2, <2>1, FS_EmptySet
  <1> QED BY <1>1, <1>2

(* A code makes one grant, and a refresh token buys one pair, however many *)
(* requests bring them at once.                                            *)
THEOREM EachSpentOnce == GrantsSpec => []SpentOnce
  <1>1. GrantInv => SpentOnce
    <2> SUFFICES ASSUME GrantInv PROVE SpentOnce
      OBVIOUS
    <2>1. RefreshSpentOnce
      BY OneRow DEF RefreshSpentOnce
    <2> QED BY <2>1 DEF SpentOnce, GrantInv
  <1> QED BY <1>1, GrantsInductive, PTL

(* A code or a refresh token that is used again ends its grant. *)
THEOREM ReuseEnds == GrantsSpec => []ReuseEndsGrant
  <1>1. GrantInv => ReuseEndsGrant
    BY DEF GrantInv, ReuseEndsGrant
  <1> QED BY <1>1, GrantsInductive, PTL

(* Nothing allowed before everything was taken back stands after it. *)
THEOREM TakenBackEnds == GrantsSpec => []TakenBack
  <1>1. GrantInv => TakenBack
    BY DEF GrantInv
  <1> QED BY <1>1, GrantsInductive, PTL

(* What is not standing gets no fresh pair, and does not stand again. *)
LEMMA EndedStays ==
  ASSUME GrantInv, [GrantsNext]_grantsVars,
         NEW g \in GrantIds, mintedBy[g] # NoGrant, ~Standing(g)
  PROVE  /\ ~Standing(g)'
         /\ \A row \in rotations' \ rotations : row.grant # g
         /\ rotations \subseteq rotations'
  <1> DEFINE P == /\ ~Standing(g)'
                  /\ \A row \in rotations' \ rotations : row.grant # g
                  /\ rotations \subseteq rotations'
  <1>1. ASSUME UNCHANGED <<grants, rotations>> PROVE P
    BY <1>1 DEF Standing
  <1>2. ASSUME NEW c \in Codes, Allow(c) PROVE P
    BY <1>1, <1>2 DEF Allow, ghosts
  <1>3. ASSUME NEW r \in Callers, NEW c \in Codes, NEW mine \in BOOLEAN, Exchange(r, c, mine)
        PROVE  P
    BY <1>1, <1>3 DEF Exchange, tables, ghosts
  <1>4. ASSUME NEW r \in Callers, NEW h \in GrantIds, Spend(r, h) PROVE P
    BY <1>4 DEF Spend, Standing, GrantInv, GrantsTypeOK
  <1>5. ASSUME NEW r \in Callers, LoseRace(r) \/ AfterRace(r) \/ RefuseRotation(r) PROVE P
    BY <1>1, <1>5 DEF LoseRace, AfterRace, RefuseRotation, tables, ghosts
  <1>6. ASSUME NEW r \in Callers, Revoke(r) PROVE P
    <2>1. ASSUME NEW h, h = asks[r].grant PROVE P
      <3>1. /\ h \in GrantIds /\ grants' = [grants EXCEPT ![h] = EndedAt(@, asks[r].at)]
            /\ UNCHANGED rotations
        BY <1>6, <2>1 DEF Revoke, GrantInv, AskShape
      <3>2. SomeEnd
        <4> DEFINE at == asks[r].at
        <4>1. at \in Nat /\ grants' = [grants EXCEPT ![h] = EndedAt(@, at)] /\ GrantsTypeOK
          BY <3>1 DEF GrantInv, GrantsTypeOK, Ask
        <4> HIDE DEF at
        <4> QED BY <3>1, <4>1, OneEnds
      <3> QED BY <3>1, <3>2 DEF SomeEnd, Standing
    <2> QED BY <2>1
  <1>7. ASSUME NEW r \in Callers, Rotate(r) PROVE P
    <2>1. ASSUME NEW h, h = asks[r].grant PROVE P
      <3>1. /\ h # g /\ rotations \subseteq rotations'
            /\ \A row \in rotations' \ rotations : row.grant = h
            /\ grants'[g] = grants[g]
        BY <1>7, <2>1 DEF Rotate, Current, GrantInv, GrantsTypeOK
      <3> QED BY <3>1 DEF Standing
    <2> QED BY <2>1
  <1>8. ASSUME NEW r \in Callers, NEW h \in GrantIds, NEW mine \in BOOLEAN, Refresh(r, h, mine)
        PROVE  P
    BY <1>1, <1>8 DEF Refresh, tables, ghosts
  <1>9. ASSUME NEW r \in Callers, NEW h \in GrantIds, NEW n \in 0..MaxGen,
               NEW mine \in BOOLEAN, PresentReplaced(r, h, n, mine)
        PROVE  P
    BY <1>1, <1>9 DEF PresentReplaced, tables
  <1>10. ASSUME NEW h \in GrantIds, Disconnect(h) PROVE P
    <2>1. UNCHANGED rotations
      BY <1>10 DEF Disconnect, ghosts
    <2>2. SomeEnd
      <3> DEFINE at == day
      <3>1. at \in Nat /\ grants' = [grants EXCEPT ![h] = EndedAt(@, at)] /\ GrantsTypeOK
        BY <1>10 DEF Disconnect, GrantInv, GrantsTypeOK
      <3> HIDE DEF at
      <3> QED BY <3>1, OneEnds
    <2> QED BY <2>1, <2>2 DEF SomeEnd, Standing
  <1>11. CASE TakeBackCodes
    BY <1>1, <1>11 DEF TakeBackCodes
  <1>12. CASE TakeBackGrants
    <2>1. UNCHANGED rotations /\ grants' = [h \in GrantIds |-> EndedAt(grants[h], day)]
      BY <1>12 DEF TakeBackGrants
    <2> QED BY <2>1, AllEnd DEF GrantInv
  <1>13. CASE Prune
    BY <1>13 DEF Prune, ghosts, Standing
  <1>14. CASE NextDay
    BY <1>1, <1>14 DEF NextDay, tables, ghosts
  <1>15. CASE UNCHANGED grantsVars
    BY <1>1, <1>15 DEF grantsVars, tables, ghosts
  <1> QED BY <1>2, <1>3, <1>4, <1>5, <1>6, <1>7, <1>8, <1>9, <1>10, <1>11, <1>12, <1>13,
             <1>14, <1>15 DEF GrantsNext

(* A grant that has ended stays so, whatever was under way (refreshGrant). *)
THEOREM EndedForGood == GrantsSpec => EndedStaysEnded
  <1>1. GrantInv /\ [GrantsNext]_grantsVars =>
          [\A g \in GrantIds :
             mintedBy[g] # NoGrant /\ ~Standing(g) =>
               /\ ~Standing(g)'
               /\ {row \in rotations' : row.grant = g} = {row \in rotations : row.grant = g}]_grantsVars
    <2> SUFFICES ASSUME GrantInv, [GrantsNext]_grantsVars, NEW g \in GrantIds,
                        mintedBy[g] # NoGrant, ~Standing(g)
                 PROVE  /\ ~Standing(g)'
                        /\ {row \in rotations' : row.grant = g}
                              = {row \in rotations : row.grant = g}
      OBVIOUS
    <2>1. /\ ~Standing(g)'
          /\ \A row \in rotations' \ rotations : row.grant # g
          /\ rotations \subseteq rotations'
      BY EndedStays
    <2> QED BY <2>1
  <1> QED BY <1>1, GrantsInductive, PTL DEF GrantsSpec, EndedStaysEnded

-----------------------------------------------------------------------------
(* Accounts. *)

(* A token that can still be spent has not been, and none is spent twice.  *)
UnspentTokens ==
  \A t \in Tokens :
    /\ spends[t] <= 1
    /\ tokens[t].state # "consumed" => spends[t] = 0

(* What has been swept can neither be live nor be spent again.             *)
SweptIsOver ==
  /\ \A x \in swept \cap Credentials : creds[x] = "ended"
  /\ \A t \in swept \cap Tokens : tokens[t].state = "consumed" /\ spends[t] = 0

AccountInv == AccountsTypeOK /\ UnspentTokens /\ SweptIsOver

USE CredentialsAssumption

-----------------------------------------------------------------------------
(* The tables. *)

(* Ending credentials makes none live. *)
LEMMA WithoutEnds ==
  ASSUME creds \in [Credentials -> {"none", "live", "ended"}], NEW gone
  PROVE  /\ Without(gone) \in [Credentials -> {"none", "live", "ended"}]
         /\ \A x \in Credentials : x \in gone => Without(gone)[x] = "ended"
         /\ \A x \in Credentials : creds[x] = "ended" => Without(gone)[x] = "ended"
  BY DEF Without

(* Consuming tokens leaves their purposes, and the other tokens. *)
LEMMA ConsumedTokens ==
  ASSUME tokens \in [Tokens -> Token], NEW ts
  PROVE  /\ Consumed(ts) \in [Tokens -> Token]
         /\ \A t \in Tokens : t \in ts => Consumed(ts)[t].state = "consumed"
         /\ \A t \in Tokens : t \notin ts => Consumed(ts)[t] = tokens[t]
  <1>1. ASSUME NEW t \in Tokens
        PROVE  /\ [tokens[t] EXCEPT !.state = "consumed"] \in Token
               /\ [tokens[t] EXCEPT !.state = "consumed"].state = "consumed"
    <2>1. tokens[t] \in Token
      OBVIOUS
    <2> QED BY <2>1 DEF Token
  <1> QED BY <1>1 DEF Consumed

(* A change of one request to a well-formed call. *)
CallOK(call) ==
  call \in Call /\ (call.phase \in {"code", "prove", "reset", "confirm"} => call.token \in Tokens)
CallsOK == requests \in [Requests -> Call] /\ \A r \in Requests : CallOK(requests[r])

LEMMA OneCall ==
  ASSUME CallsOK, NEW r \in Requests, NEW call, CallOK(call),
         requests' = [requests EXCEPT ![r] = call]
  PROVE  CallsOK'
  BY DEF CallsOK, CallOK

LEMMA TypedCalls == AccountsTypeOK => CallsOK
  BY DEF AccountsTypeOK, CallsOK, CallOK

LEMMA IdleOK == CallOK(Idle)
  BY DEF CallOK, Call, Idle, Phase, Purposes

LEMMA FinishOK ==
  ASSUME CallsOK, NEW r \in Requests, Finish(r)
  PROVE  CallsOK'
  BY OneCall, IdleOK DEF Finish

LEMMA GoToOK ==
  ASSUME CallsOK, NEW r \in Requests, NEW phase,
         phase \in {"login", "endLogins", "endKeys", "newPassword", "endOthers", "idle"},
         requests' = [requests EXCEPT ![r].phase = phase]
  PROVE  CallsOK'
  <1> DEFINE call == [requests[r] EXCEPT !.phase = phase]
  <1>1. PICK ph \in Phase, pu \in Purposes, to \in Tokens \cup {NoToken}, lo \in Logins \cup {NoToken} :
          requests[r] = [phase |-> ph, purpose |-> pu, token |-> to, login |-> lo]
    BY DEF CallsOK, Call
  <1>2. call = [phase |-> phase, purpose |-> pu, token |-> to, login |-> lo]
    BY <1>1
  <1>3. phase \in Phase
    BY DEF Phase
  <1>4. requests' = [requests EXCEPT ![r] = call]
    BY DEF CallsOK
  <1> HIDE DEF call
  <1>5. call \in Call
    BY <1>2, <1>3, Zenon DEF Call
  <1>6. call.phase \notin {"code", "prove", "reset", "confirm"}
    BY <1>2
  <1> QED BY <1>4, <1>5, <1>6, OneCall DEF CallOK

(* What a request carries that has just begun. *)
LEMMA IdleCalls ==
  ASSUME NEW phase, NEW purpose, NEW s
  PROVE  /\ [Idle EXCEPT !.phase = phase]
               = [phase |-> phase, purpose |-> "verify", token |-> NoToken, login |-> NoToken]
         /\ [Idle EXCEPT !.phase = phase, !.login = s]
               = [phase |-> phase, purpose |-> "verify", token |-> NoToken, login |-> s]
         /\ [Idle EXCEPT !.phase = phase, !.purpose = purpose]
               = [phase |-> phase, purpose |-> purpose, token |-> NoToken, login |-> NoToken]
  <1>1. [Idle EXCEPT !.phase = phase]
          = [phase |-> phase, purpose |-> "verify", token |-> NoToken, login |-> NoToken]
    BY DEF Idle
  <1>2. ASSUME NEW y, y = [Idle EXCEPT !.phase = phase, !.login = s]
        PROVE  y = [phase |-> phase, purpose |-> "verify", token |-> NoToken, login |-> s]
    BY <1>2 DEF Idle
  <1>3. ASSUME NEW y, y = [Idle EXCEPT !.phase = phase, !.purpose = purpose]
        PROVE  y = [phase |-> phase, purpose |-> purpose, token |-> NoToken, login |-> NoToken]
    BY <1>3 DEF Idle
  <1> QED BY <1>1, <1>2, <1>3, Zenon

LEMMA TokenCall ==
  ASSUME NEW phase, NEW purpose, NEW t, NEW y,
         y = [Idle EXCEPT !.phase = phase, !.purpose = purpose, !.token = t]
  PROVE  y = [phase |-> phase, purpose |-> purpose, token |-> t, login |-> NoToken]
  BY DEF Idle

(* A request that has just begun, on a purpose, a token or a session. *)
LEMMA BegunOK ==
  ASSUME CallsOK, NEW r \in Requests, NEW phase \in Phase, NEW purpose \in Purposes,
         NEW t \in Tokens \cup {NoToken}, NEW s \in Logins \cup {NoToken},
         phase \in {"code", "prove", "reset", "confirm"} => t \in Tokens,
         requests' = [requests EXCEPT ![r] =
           [phase |-> phase, purpose |-> purpose, token |-> t, login |-> s]]
  PROVE  CallsOK'
  <1> DEFINE call == [phase |-> phase, purpose |-> purpose, token |-> t, login |-> s]
  <1>1. call \in Call /\ call.phase = phase /\ call.token = t
    BY Zenon DEF Call
  <1> HIDE DEF call
  <1>2. CallOK(call)
    BY <1>1 DEF CallOK
  <1>3. requests' = [requests EXCEPT ![r] = call]
    BY DEF call
  <1> QED BY <1>2, <1>3, OneCall

-----------------------------------------------------------------------------
(* Steps. *)

(* What touches requests alone keeps the invariant. *)
LEMMA OnlyRequests ==
  ASSUME AccountInv, CallsOK', UNCHANGED <<accountRow, creds, tokens, swept, spends, proofLogins>>
  PROVE  AccountInv'
  BY DEF AccountInv, AccountsTypeOK, UnspentTokens, SweptIsOver, CallsOK, CallOK, accountRow

(* Credentials that were ended stay ended: sign-ins and new keys included. *)
LEMMA CredsKeep ==
  ASSUME AccountInv, CallsOK', verified' \in BOOLEAN, password' \in BOOLEAN,
         creds' \in [Credentials -> {"none", "live", "ended"}],
         \A x \in Credentials : creds[x] = "ended" => creds'[x] = "ended",
         proofLogins' \subseteq Logins, UNCHANGED <<tokens, swept, spends>>
  PROVE  AccountInv'
  BY DEF AccountInv, AccountsTypeOK, UnspentTokens, SweptIsOver, CallsOK, CallOK

LEMMA RetokenKeeps ==
  ASSUME AccountInv, NEW r \in Requests, NEW purpose \in Purposes, Retoken(r, purpose)
  PROVE  AccountInv'
  <1> DEFINE ts == LiveTokens(purpose)
  <1>1. CallsOK'
    <2>1. requests' = [requests EXCEPT ![r] =
            [phase |-> "issue", purpose |-> purpose, token |-> NoToken, login |-> NoToken]]
      BY IdleCalls DEF Retoken
    <2>2. "issue" \in Phase
      BY DEF Phase
    <2> QED BY <2>1, <2>2, TypedCalls, BegunOK DEF AccountInv
  <1>2. tokens' = Consumed(ts) /\ UNCHANGED <<accountRow, creds, swept, spends, proofLogins>>
    BY DEF Retoken
  <1> HIDE DEF ts
  <1>3. /\ tokens' \in [Tokens -> Token]
        /\ \A t \in Tokens : t \in ts => tokens'[t].state = "consumed"
        /\ \A t \in Tokens : t \notin ts => tokens'[t] = tokens[t]
    BY <1>2, ConsumedTokens DEF AccountInv, AccountsTypeOK
  <1>4. AccountsTypeOK'
    BY <1>1, <1>2, <1>3 DEF AccountInv, AccountsTypeOK, CallsOK, CallOK, accountRow
  <1>5. UnspentTokens' /\ SweptIsOver'
    BY <1>2, <1>3 DEF AccountInv, UnspentTokens, SweptIsOver
  <1> QED BY <1>4, <1>5 DEF AccountInv

LEMMA IssueKeeps ==
  ASSUME AccountInv, NEW r \in Requests, NEW t \in Tokens, Issue(r, t)
  PROVE  AccountInv'
  <1> DEFINE row == [purpose |-> requests[r].purpose, state |-> "live"]
  <1>1. CallsOK'
    BY FinishOK, TypedCalls DEF Issue, AccountInv
  <1>2. row \in Token /\ row.state = "live"
    <2>1. requests[r].purpose \in Purposes
      BY DEF AccountInv, AccountsTypeOK, Call
    <2> QED BY <2>1 DEF Token
  <1>3. /\ tokens' = [tokens EXCEPT ![t] = row] /\ tokens[t].state = "unissued"
        /\ UNCHANGED <<accountRow, creds, swept, spends, proofLogins>>
    BY DEF Issue
  <1> HIDE DEF row
  <1>4. AccountsTypeOK'
    BY <1>1, <1>2, <1>3 DEF AccountInv, AccountsTypeOK, CallsOK, CallOK, accountRow
  <1>5. UnspentTokens' /\ SweptIsOver'
    BY <1>2, <1>3 DEF AccountInv, AccountsTypeOK, UnspentTokens, SweptIsOver
  <1> QED BY <1>4, <1>5 DEF AccountInv

(* The token was live: it had not been spent, and nothing had swept it. *)
LEMMA AcceptKeeps ==
  ASSUME AccountInv, NEW r \in Requests, NEW t \in Tokens, NEW next \in {"prove", "reset", "confirm"},
         Accept(r, t, next)
  PROVE  AccountInv'
  <1> DEFINE purpose == tokens[t].purpose
             call == [Idle EXCEPT !.phase = next, !.purpose = purpose, !.token = t]
  <1>1. purpose \in Purposes
    BY DEF AccountInv, AccountsTypeOK, Token
  <1>2. /\ tokens[t].state = "live"
        /\ tokens' = Consumed({t})
        /\ spends' = [spends EXCEPT ![t] = IF @ = 2 THEN 2 ELSE @ + 1]
        /\ requests' = [requests EXCEPT ![r] =
             [phase |-> next, purpose |-> purpose, token |-> t, login |-> NoToken]]
        /\ UNCHANGED <<accountRow, creds, swept, proofLogins>>
    <2>1. call = [phase |-> next, purpose |-> purpose, token |-> t, login |-> NoToken]
      BY TokenCall, Zenon
    <2>2. requests' = [requests EXCEPT ![r] = call]
      BY DEF Accept
    <2> HIDE DEF call
    <2> QED BY <2>1, <2>2 DEF Accept, Spendable
  <1> HIDE DEF purpose
  <1>3. CallsOK'
    <2>1. next \in Phase
      BY DEF Phase
    <2> QED BY <1>1, <1>2, <2>1, TypedCalls, BegunOK DEF AccountInv
  <1>4. /\ tokens' \in [Tokens -> Token]
        /\ tokens'[t].state = "consumed"
        /\ \A u \in Tokens : u # t => tokens'[u] = tokens[u]
    BY <1>2, ConsumedTokens DEF AccountInv, AccountsTypeOK
  <1>5. /\ spends[t] = 0 /\ t \notin swept
        /\ spends' \in [Tokens -> 0..2] /\ spends'[t] = 1
        /\ \A u \in Tokens : u # t => spends'[u] = spends[u]
    BY <1>2 DEF AccountInv, AccountsTypeOK, UnspentTokens, SweptIsOver
  <1>6. AccountsTypeOK'
    <2>1. /\ requests' \in [Requests -> Call]
          /\ \A x \in Requests : requests'[x].phase \in {"code", "prove", "reset", "confirm"}
               => requests'[x].token \in Tokens
      BY <1>3 DEF CallsOK, CallOK
    <2>2. UNCHANGED <<verified, password, creds, swept, proofLogins>>
      BY <1>2 DEF accountRow
    <2>3. /\ verified \in BOOLEAN /\ password \in BOOLEAN
          /\ creds \in [Credentials -> {"none", "live", "ended"}]
          /\ swept \subseteq Credentials \cup Tokens /\ proofLogins \subseteq Logins
      BY DEF AccountInv, AccountsTypeOK
    <2> QED BY <2>1, <2>2, <2>3, <1>4, <1>5 DEF AccountsTypeOK
  <1>7. UnspentTokens'
    BY <1>4, <1>5 DEF AccountInv, UnspentTokens
  <1>8. SweptIsOver'
    <2>1. SweptIsOver /\ swept' = swept /\ creds' = creds
      BY <1>2 DEF AccountInv
    <2> QED BY <2>1, <1>4, <1>5 DEF SweptIsOver
  <1> QED BY <1>6, <1>7, <1>8 DEF AccountInv

(* A sweep takes what was live: a link it takes has not been spent. *)
LEMMA SweepKeeps ==
  ASSUME AccountInv, CallsOK', NEW gone \in SUBSET Credentials, NEW links \in SUBSET Tokens,
         \A t \in links : tokens[t].state = "live", Sweep(gone, links),
         verified' \in BOOLEAN, password' \in BOOLEAN, UNCHANGED <<spends, proofLogins>>
  PROVE  AccountInv'
  <1>1. /\ creds' \in [Credentials -> {"none", "live", "ended"}]
        /\ \A x \in Credentials : x \in gone \/ creds[x] = "ended" => creds'[x] = "ended"
    BY WithoutEnds DEF AccountInv, AccountsTypeOK, Sweep
  <1>2. /\ tokens' \in [Tokens -> Token]
        /\ \A t \in Tokens : t \in links => tokens'[t].state = "consumed"
        /\ \A t \in Tokens : t \notin links => tokens'[t] = tokens[t]
    BY ConsumedTokens DEF AccountInv, AccountsTypeOK, Sweep
  <1>3. swept' = swept \cup gone \cup links /\ \A t \in links : spends[t] = 0
    BY DEF Sweep, AccountInv, UnspentTokens
  <1>4. AccountsTypeOK'
    BY <1>1, <1>2, <1>3 DEF AccountInv, AccountsTypeOK, CallsOK, CallOK
  <1>5. UnspentTokens'
    BY <1>2 DEF AccountInv, UnspentTokens
  <1>6. SweptIsOver'
    <2>1. gone \cap Tokens = {} /\ links \cap Credentials = {}
      BY DEF Credentials
    <2>2. \A x \in swept' \cap Credentials : creds'[x] = "ended"
      BY <1>1, <1>3, <2>1 DEF AccountInv, SweptIsOver
    <2>3. \A t \in swept' \cap Tokens : tokens'[t].state = "consumed" /\ spends'[t] = 0
      BY <1>2, <1>3, <2>1 DEF AccountInv, SweptIsOver
    <2> QED BY <2>2, <2>3 DEF SweptIsOver
  <1> QED BY <1>4, <1>5, <1>6 DEF AccountInv

LEMMA LiveOnes ==
  /\ \A kind : LiveOf(kind) \subseteq kind
  /\ \A purpose \in Purposes : /\ LiveTokens(purpose) \subseteq Tokens
                               /\ \A t \in LiveTokens(purpose) : tokens[t].state = "live"
  BY DEF LiveOf, LiveTokens

LEMMA ProveKeeps ==
  ASSUME AccountInv, NEW r \in Requests, Prove(r)
  PROVE  AccountInv'
  <1> DEFINE gone == EndedByProof
             links == IF FirstProof THEN LiveTokens("change") ELSE {}
  <1>1. CallsOK'
    BY GoToOK, FinishOK, TypedCalls DEF Prove, GoTo, AccountInv
  <1>2. /\ gone \in SUBSET Credentials /\ links \in SUBSET Tokens
        /\ \A t \in links : tokens[t].state = "live"
    BY LiveOnes DEF EndedByProof, Purposes
  <1>3. /\ verified' \in BOOLEAN /\ password' \in BOOLEAN
        /\ Sweep(gone, links) /\ UNCHANGED <<spends, proofLogins>>
    BY DEF Prove, AccountInv, AccountsTypeOK
  <1> HIDE DEF gone, links
  <1> QED BY <1>1, <1>2, <1>3, SweepKeeps

LEMMA ResetKeeps ==
  ASSUME AccountInv, NEW r \in Requests, ResetPassword(r)
  PROVE  AccountInv'
  <1> DEFINE gone == EndedByProof \cup EndedByReset
             links == LiveTokens("change")
  <1>1. CallsOK'
    BY FinishOK, TypedCalls DEF ResetPassword, AccountInv
  <1>2. /\ gone \in SUBSET Credentials /\ links \in SUBSET Tokens
        /\ \A t \in links : tokens[t].state = "live"
    BY LiveOnes DEF EndedByProof, EndedByReset, Purposes, Credentials
  <1>3. /\ verified' \in BOOLEAN /\ password' \in BOOLEAN
        /\ Sweep(gone, links) /\ UNCHANGED <<spends, proofLogins>>
    BY DEF ResetPassword
  <1> HIDE DEF gone, links
  <1> QED BY <1>1, <1>2, <1>3, SweepKeeps

(* Ending sessions or keys outside a proof. *)
LEMMA CredentialEndKeeps ==
  ASSUME AccountInv, CallsOK', NEW gone, creds' = Without(gone),
         verified' \in BOOLEAN, password' \in BOOLEAN,
         UNCHANGED <<tokens, swept, spends, proofLogins>>
  PROVE  AccountInv'
  <1>1. /\ creds' \in [Credentials -> {"none", "live", "ended"}]
        /\ \A x \in Credentials : creds[x] = "ended" => creds'[x] = "ended"
    BY WithoutEnds DEF AccountInv, AccountsTypeOK
  <1>2. proofLogins' \subseteq Logins
    BY DEF AccountInv, AccountsTypeOK
  <1> QED BY <1>1, <1>2, CredsKeep

(* A credential appears where there was none. *)
LEMMA AddingKeeps ==
  ASSUME AccountInv, CallsOK', NEW x \in Credentials, creds[x] = "none",
         creds' = [creds EXCEPT ![x] = "live"], proofLogins' \subseteq Logins,
         UNCHANGED <<accountRow, tokens, swept, spends>>
  PROVE  AccountInv'
  <1>1. /\ creds' \in [Credentials -> {"none", "live", "ended"}]
        /\ \A y \in Credentials : creds[y] = "ended" => creds'[y] = "ended"
    BY DEF AccountInv, AccountsTypeOK
  <1>2. verified' \in BOOLEAN /\ password' \in BOOLEAN
    BY DEF AccountInv, AccountsTypeOK, accountRow
  <1> QED BY <1>1, <1>2, CredsKeep

LEMMA StepKeeps == AccountInv /\ [AccountsNext]_accountsVars => AccountInv'
  <1> SUFFICES ASSUME AccountInv, [AccountsNext]_accountsVars PROVE AccountInv'
    OBVIOUS
  <1>1. CallsOK /\ verified \in BOOLEAN /\ password \in BOOLEAN /\ proofLogins \subseteq Logins
    BY TypedCalls DEF AccountInv, AccountsTypeOK
  <1>2. ASSUME NEW r \in Requests, NEW purpose \in Purposes, Retoken(r, purpose) PROVE AccountInv'
    BY <1>2, RetokenKeeps
  <1>3. ASSUME NEW r \in Requests, NEW t \in Tokens, Issue(r, t) PROVE AccountInv'
    BY <1>3, IssueKeeps
  <1>4. ASSUME NEW r \in Requests, NEW t \in Tokens, FollowLink(r, t) PROVE AccountInv'
    BY <1>4, AcceptKeeps DEF FollowLink
  <1>5. ASSUME NEW r \in Requests, NEW t \in Tokens, ReadCode(r, t) PROVE AccountInv'
    <2> DEFINE call == [Idle EXCEPT !.phase = "code", !.purpose = "code", !.token = t]
    <2>1. requests' = [requests EXCEPT ![r] =
            [phase |-> "code", purpose |-> "code", token |-> t, login |-> NoToken]]
      <3>1. requests' = [requests EXCEPT ![r] = call]
        BY <1>5 DEF ReadCode
      <3>2. call = [phase |-> "code", purpose |-> "code", token |-> t, login |-> NoToken]
        BY TokenCall, Zenon
      <3> HIDE DEF call
      <3> QED BY <3>1, <3>2
    <2>2. "code" \in Phase /\ "code" \in Purposes
      BY DEF Phase, Purposes
    <2>3. CallsOK'
      BY <1>1, <2>1, <2>2, BegunOK
    <2> QED BY <1>5, <2>3, OnlyRequests DEF ReadCode
  <1>6. ASSUME NEW r \in Requests, SpendCode(r) PROVE AccountInv'
    <2>1. requests[r].token \in Tokens
      BY <1>6 DEF SpendCode, At, AccountInv, AccountsTypeOK
    <2> QED BY <1>6, <2>1, AcceptKeeps DEF SpendCode
  <1>7. ASSUME NEW r \in Requests, RefuseCode(r) PROVE AccountInv'
    BY <1>1, <1>7, FinishOK, OnlyRequests DEF RefuseCode
  <1>8. ASSUME NEW r \in Requests, Prove(r) PROVE AccountInv'
    BY <1>8, ProveKeeps
  <1>9. ASSUME NEW r \in Requests, ResetPassword(r) PROVE AccountInv'
    BY <1>9, ResetKeeps
  <1>10. ASSUME NEW r \in Requests, ConfirmChange(r) PROVE AccountInv'
    <2>1. CallsOK'
      BY <1>1, <1>10, GoToOK DEF ConfirmChange, GoTo
    <2>2. /\ verified' \in BOOLEAN /\ password' \in BOOLEAN
          /\ creds' = creds /\ proofLogins' = proofLogins
          /\ UNCHANGED <<tokens, swept, spends>>
      BY <1>1, <1>10 DEF ConfirmChange
    <2> QED BY <1>1, <2>1, <2>2, CredsKeep DEF AccountInv, AccountsTypeOK
  <1>11. ASSUME NEW r \in Requests, EndLogins(r) \/ EndKeys(r) PROVE AccountInv'
    <2>1. CallsOK'
      BY <1>1, <1>11, GoToOK DEF EndLogins, EndKeys, EndAll
    <2>2. /\ creds' = Without(LiveOf(Logins)) \/ creds' = Without(LiveOf(Keys))
          /\ verified' \in BOOLEAN /\ password' \in BOOLEAN
          /\ UNCHANGED <<tokens, swept, spends, proofLogins>>
      BY <1>1, <1>11 DEF EndLogins, EndKeys, EndAll, accountRow
    <2> QED BY <2>1, <2>2, CredentialEndKeeps
  <1>12. ASSUME NEW r \in Requests, SignIn(r) PROVE AccountInv'
    <2>1. requests' = [requests EXCEPT ![r] =
            [phase |-> "login", purpose |-> "verify", token |-> NoToken, login |-> NoToken]]
      BY <1>12, IdleCalls DEF SignIn
    <2>2. "login" \in Phase /\ "verify" \in Purposes
      BY DEF Phase, Purposes
    <2>3. CallsOK'
      BY <1>1, <2>1, <2>2, BegunOK
    <2> QED BY <1>12, <2>3, OnlyRequests DEF SignIn
  <1>13. ASSUME NEW r \in Requests, NEW s \in Logins, StartLogin(r, s) PROVE AccountInv'
    <2>1. CallsOK'
      BY <1>1, <1>13, FinishOK DEF StartLogin
    <2>2. /\ s \in Credentials /\ proofLogins' \subseteq Logins
          /\ UNCHANGED <<accountRow, tokens, swept, spends>>
      BY <1>1, <1>13 DEF StartLogin, Credentials
    <2> QED BY <1>13, <2>1, <2>2, AddingKeeps DEF StartLogin
  <1>14. ASSUME NEW r \in Requests, NEW s \in Logins, ResolveLogin(r, s) PROVE AccountInv'
    <2>1. requests' = [requests EXCEPT ![r] =
            [phase |-> "signedIn", purpose |-> "verify", token |-> NoToken, login |-> s]]
      BY <1>14, IdleCalls DEF ResolveLogin
    <2>2. "signedIn" \in Phase /\ "verify" \in Purposes
      BY DEF Phase, Purposes
    <2>3. CallsOK'
      BY <1>1, <2>1, <2>2, BegunOK
    <2> QED BY <1>14, <2>3, OnlyRequests DEF ResolveLogin
  <1>15. ASSUME NEW r \in Requests, NEW x \in Credentials, Add(r, x) PROVE AccountInv'
    <2>1. CallsOK'
      BY <1>1, <1>15, FinishOK DEF Add
    <2> QED BY <1>1, <1>15, <2>1, AddingKeeps DEF Add
  <1>16. ASSUME NEW r \in Requests, NEW x \in Credentials, Drop(r, x) PROVE AccountInv'
    <2>1. CallsOK'
      BY <1>1, <1>16, FinishOK DEF Drop
    <2>2. /\ creds' = Without({x}) /\ verified' \in BOOLEAN /\ password' \in BOOLEAN
          /\ UNCHANGED <<tokens, swept, spends, proofLogins>>
      BY <1>1, <1>16 DEF Drop, accountRow
    <2> QED BY <2>1, <2>2, CredentialEndKeeps
  <1>17. ASSUME NEW r \in Requests, VerifyOldPassword(r) PROVE AccountInv'
    BY <1>1, <1>17, GoToOK, OnlyRequests DEF VerifyOldPassword, GoTo
  <1>18. ASSUME NEW r \in Requests, WriteNewPassword(r) PROVE AccountInv'
    <2>1. CallsOK'
      BY <1>1, <1>18, GoToOK DEF WriteNewPassword, GoTo
    <2> QED BY <1>1, <1>18, <2>1, CredsKeep DEF WriteNewPassword, AccountInv, AccountsTypeOK
  <1>19. ASSUME NEW r \in Requests, EndOthers(r) PROVE AccountInv'
    <2>1. CallsOK'
      BY <1>1, <1>19, FinishOK DEF EndOthers
    <2>2. /\ creds' = Without(LiveOf(Logins) \ {requests[r].login})
          /\ verified' \in BOOLEAN /\ password' \in BOOLEAN
          /\ UNCHANGED <<tokens, swept, spends, proofLogins>>
      BY <1>1, <1>19 DEF EndOthers, accountRow
    <2> QED BY <2>1, <2>2, CredentialEndKeeps
  <1>20. CASE UNCHANGED accountsVars
    BY <1>20 DEF accountsVars, accountRow, AccountInv, AccountsTypeOK, UnspentTokens, SweptIsOver
  <1> QED BY <1>2, <1>3, <1>4, <1>5, <1>6, <1>7, <1>8, <1>9, <1>10, <1>11, <1>12, <1>13,
             <1>14, <1>15, <1>16, <1>17, <1>18, <1>19, <1>20 DEF AccountsNext

THEOREM AccountsInductive == AccountsSpec => []AccountInv
  <1>1. AccountsInit => AccountInv
    <2> SUFFICES ASSUME AccountsInit PROVE AccountInv
      OBVIOUS
    <2>1. /\ creds \in [Credentials -> {"none", "live", "ended"}]
          /\ verified \in BOOLEAN /\ password \in BOOLEAN
      BY DEF AccountsInit
    <2>2. tokens \in [Tokens -> Token]
      <3>1. [purpose |-> "verify", state |-> "unissued"] \in Token
        BY DEF Token, Purposes
      <3> QED BY <3>1 DEF AccountsInit
    <2>3. CallsOK
      BY IdleOK DEF AccountsInit, CallsOK, CallOK
    <2> QED BY <2>1, <2>2, <2>3 DEF AccountsInit, AccountInv, AccountsTypeOK, UnspentTokens,
                                    SweptIsOver, CallsOK, CallOK
  <1> QED BY <1>1, StepKeeps, PTL DEF AccountsSpec

(* The variables keep their types, and a request past its proof has spent  *)
(* a token.                                                                *)
THEOREM AccountTypeCorrect == AccountsSpec => []AccountsTypeOK
  <1>1. AccountInv => AccountsTypeOK
    BY DEF AccountInv
  <1> QED BY <1>1, AccountsInductive, PTL

(* A link or a code is accepted once (consumeVerificationToken,            *)
(* consumeCode): the statement that spends it finds it live.               *)
THEOREM AcceptedOnce == AccountsSpec => []TokenSpentOnce
  <1>1. AccountInv => TokenSpentOnce
    BY DEF AccountInv, UnspentTokens, TokenSpentOnce
  <1> QED BY <1>1, AccountsInductive, PTL

(* What a first proof or a reset has ended is over for good (proveAddress, *)
(* resetPassword).                                                         *)
THEOREM SweptForGood == AccountsSpec => []SweptStaysOut
  <1>1. AccountInv => SweptStaysOut
    BY DEF AccountInv, SweptIsOver, SweptStaysOut
  <1> QED BY <1>1, AccountsInductive, PTL

(* A request leaves its proof by proving, and a proof of an address that   *)
(* has been proved ends nothing.                                           *)
LEMMA ProofStep ==
  ASSUME AccountInv, AccountsNext, NEW r \in Requests, At(r, "prove"), requests'[r] # requests[r],
         verified
  PROVE  creds' = creds
  <1>1. ASSUME NEW q \in Requests, NEW phase, At(q, phase), phase # "prove"
        PROVE  q # r
    BY <1>1 DEF At
  <1>2. ASSUME NEW q \in Requests, q # r, NEW call, requests' = [requests EXCEPT ![q] = call]
        PROVE  FALSE
    BY <1>2 DEF AccountInv, AccountsTypeOK
  <1>3. PICK q \in Requests :
    \/ \E purpose \in Purposes : Retoken(q, purpose)
    \/ \E t \in Tokens : Issue(q, t) \/ FollowLink(q, t) \/ ReadCode(q, t)
    \/ SpendCode(q) \/ RefuseCode(q)
    \/ Prove(q) \/ ResetPassword(q) \/ ConfirmChange(q) \/ EndLogins(q) \/ EndKeys(q)
    \/ SignIn(q)
    \/ \E s \in Logins : StartLogin(q, s) \/ ResolveLogin(q, s)
    \/ \E x \in Credentials : Add(q, x) \/ Drop(q, x)
    \/ VerifyOldPassword(q) \/ WriteNewPassword(q) \/ EndOthers(q)
    BY DEF AccountsNext
  <1>4. CASE Prove(q)
    <2>1. EndedByProof = {}
      BY DEF EndedByProof, FirstProof
    <2>2. creds' = Without({})
      BY <1>4, <2>1 DEF Prove, Sweep
    <2> QED BY <2>2 DEF Without, AccountInv, AccountsTypeOK
  <1>5. CASE \E purpose \in Purposes : Retoken(q, purpose)
    BY <1>5 DEF Retoken
  <1>6. CASE \E t \in Tokens : Issue(q, t) \/ FollowLink(q, t) \/ ReadCode(q, t)
    BY <1>6 DEF Issue, FollowLink, Accept, ReadCode
  <1>7. CASE SpendCode(q) \/ RefuseCode(q) \/ ConfirmChange(q) \/ SignIn(q)
    BY <1>7 DEF SpendCode, Accept, RefuseCode, ConfirmChange, SignIn
  <1>8. CASE VerifyOldPassword(q) \/ WriteNewPassword(q)
    BY <1>8 DEF VerifyOldPassword, WriteNewPassword
  <1>9. CASE ResetPassword(q)
    BY <1>1, <1>2, <1>9 DEF ResetPassword, Finish
  <1>10. CASE EndLogins(q) \/ EndKeys(q)
    <2>1. q # r
      BY <1>1, <1>10 DEF EndLogins, EndKeys, EndAll
    <2>2. requests'[r] = requests[r]
      BY <2>1, <1>10 DEF EndLogins, EndKeys, EndAll, AccountInv, AccountsTypeOK
    <2> QED BY <2>2
  <1>11. CASE \E s \in Logins : StartLogin(q, s) \/ ResolveLogin(q, s)
    BY <1>1, <1>2, <1>11 DEF StartLogin, ResolveLogin, Finish
  <1>12. CASE \E x \in Credentials : Add(q, x) \/ Drop(q, x)
    BY <1>1, <1>2, <1>12 DEF Add, Drop, Finish
  <1>13. CASE EndOthers(q)
    BY <1>1, <1>2, <1>13 DEF EndOthers, Finish
  <1> QED BY <1>3, <1>4, <1>5, <1>6, <1>7, <1>8, <1>9, <1>10, <1>11, <1>12, <1>13

(* Whatever order two proofs come in, the later ends no session that the   *)
(* earlier has handed out (address-proof.ts).                              *)
THEOREM FirstProofAlone == AccountsSpec => ProofEvictsOnce
  <1>1. AccountInv /\ [AccountsNext]_accountsVars =>
          [\A r \in Requests : At(r, "prove") /\ requests'[r] # requests[r] /\ verified =>
             \A s \in proofLogins : creds'[s] = creds[s]]_accountsVars
    BY ProofStep
  <1> QED BY <1>1, AccountsInductive, PTL DEF AccountsSpec, ProofEvictsOnce
=============================================================================
