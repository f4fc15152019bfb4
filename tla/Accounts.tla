------------------------------ MODULE Accounts ------------------------------
(***************************************************************************)
(* modules/auth: what lets somebody into one account, and what ends it.    *)
(* Sessions, API keys, passkeys (an Apple link stands among them), and the *)
(* links and codes mailed to its address.  A link is spent in one          *)
(* statement, a code is read and then spent; what follows is a transaction *)
(* of its own, or several statements, so every request is split there.     *)
(*                                                                         *)
(* The instance has SMTP.  Which address the account has is left out, and  *)
(* so are expiries, guesses and what is typed: a request that would be     *)
(* refused for them is not a step.                                         *)
(***************************************************************************)
EXTENDS Naturals, FiniteSets

CONSTANTS
  Logins, Keys, Passkeys,  \* ids of sessions, api_tokens and passkeys
  Tokens,                  \* ids of verification_tokens
  Requests,                \* requests under way, one at a time each
  NoToken                  \* null

ASSUME CredentialsAssumption ==
  /\ Logins \cap Keys = {} /\ Logins \cap Passkeys = {} /\ Keys \cap Passkeys = {}
  /\ (Logins \cup Keys \cup Passkeys) \cap Tokens = {}
  /\ NoToken \notin Tokens

VARIABLES
  verified,   \* users.email_verified_at is set
  password,   \* users.password_hash is set
  creds,      \* sessions, api_tokens and passkeys
  tokens,     \* verification_tokens
  requests,   \* where each request stands
  swept,      \* what a first proof or a reset has ended
  spends,     \* times each token has been accepted, up to two
  proofLogins \* sessions handed out for a code or a confirmation link

accountRow == <<verified, password>>
accountsVars == <<accountRow, creds, tokens, requests, swept, spends, proofLogins>>

-----------------------------------------------------------------------------
Credentials == Logins \cup Keys \cup Passkeys
Purposes == {"verify", "code", "reset", "change"}
Token == [purpose: Purposes, state: {"unissued", "live", "consumed"}]
Phase == {"idle", "issue", "code", "prove", "login", "reset", "confirm",
          "endLogins", "endKeys", "signedIn", "newPassword", "endOthers"}
Call == [phase: Phase, purpose: Purposes, token: Tokens \cup {NoToken},
         login: Logins \cup {NoToken}]
Idle == [phase |-> "idle", purpose |-> "verify", token |-> NoToken, login |-> NoToken]

AccountsTypeOK ==
  /\ verified \in BOOLEAN /\ password \in BOOLEAN
  /\ creds \in [Credentials -> {"none", "live", "ended"}]
  /\ tokens \in [Tokens -> Token]
  /\ requests \in [Requests -> Call]
  /\ swept \subseteq Credentials \cup Tokens
  /\ spends \in [Tokens -> 0..2]
  /\ proofLogins \subseteq Logins
  \* a request past its proof carries the token it has spent
  /\ \A r \in Requests : requests[r].phase \in {"code", "prove", "reset", "confirm"}
       => requests[r].token \in Tokens

\* registerUser and startCodeSignup write the row and mail its address;
\* finishPasskeySignup writes it with a passkey, and signs it in
AccountsInit ==
  /\ verified = FALSE
  /\ \/ password \in BOOLEAN /\ creds = [x \in Credentials |-> "none"]
     \/ /\ password = FALSE
        /\ \E k \in Passkeys, s \in Logins :
             creds = [x \in Credentials |-> IF x \in {k, s} THEN "live" ELSE "none"]
  /\ tokens = [t \in Tokens |-> [purpose |-> "verify", state |-> "unissued"]]
  /\ requests = [r \in Requests |-> Idle]
  /\ swept = {} /\ proofLogins = {}
  /\ spends = [t \in Tokens |-> 0]

GoTo(r, phase) == requests' = [requests EXCEPT ![r].phase = phase]
Finish(r) == requests' = [requests EXCEPT ![r] = Idle]
At(r, phase) == requests[r].phase = phase

LiveOf(kind) == {x \in kind : creds[x] = "live"}
LiveTokens(purpose) ==
  {t \in Tokens : tokens[t] = [purpose |-> purpose, state |-> "live"]}
Without(gone) == [x \in Credentials |-> IF x \in gone THEN "ended" ELSE creds[x]]
Consumed(ts) ==
  [t \in Tokens |-> IF t \in ts THEN [tokens[t] EXCEPT !.state = "consumed"] ELSE tokens[t]]

-----------------------------------------------------------------------------
(* Mailing: issueVerificationToken and issueCode, in two statements. *)

\* what was live for the purpose is consumed; only an email change needs a session
Retoken(r, purpose) ==
  /\ IF purpose = "change" THEN At(r, "signedIn") ELSE At(r, "idle")
  /\ tokens' = Consumed(LiveTokens(purpose))
  /\ requests' = [requests EXCEPT ![r] = [Idle EXCEPT !.phase = "issue", !.purpose = purpose]]
  /\ UNCHANGED <<accountRow, creds, swept, spends, proofLogins>>

Issue(r, t) ==
  /\ At(r, "issue")
  /\ tokens[t].state = "unissued"
  /\ tokens' = [tokens EXCEPT ![t] = [purpose |-> requests[r].purpose, state |-> "live"]]
  /\ Finish(r)
  /\ UNCHANGED <<accountRow, creds, swept, spends, proofLogins>>

-----------------------------------------------------------------------------
(* Spending. *)

SpendableAnyway(t) == tokens[t].state # "unissued"

\* the UPDATE that spends a token looks at whether it is spent
Spendable(t) == tokens[t].state = "live"

Accept(r, t, next) ==
  /\ Spendable(t)
  /\ tokens' = Consumed({t})
  /\ spends' = [spends EXCEPT ![t] = IF @ = 2 THEN 2 ELSE @ + 1]
  /\ requests' = [requests EXCEPT ![r] =
       [Idle EXCEPT !.phase = next, !.purpose = tokens[t].purpose, !.token = t]]
  /\ UNCHANGED <<accountRow, creds, swept, proofLogins>>

\* verifyEmail, resetPassword, confirmEmailChange: consumeVerificationToken
FollowLink(r, t) ==
  /\ At(r, "idle")
  /\ \/ tokens[t].purpose = "verify" /\ Accept(r, t, "prove")
     \/ tokens[t].purpose = "reset" /\ Accept(r, t, "reset")
     \/ tokens[t].purpose = "change" /\ Accept(r, t, "confirm")

\* verifySignupCode, signInWithCode: consumeCode reads the live code ...
ReadCode(r, t) ==
  /\ At(r, "idle") /\ t \in LiveTokens("code")
  /\ requests' = [requests EXCEPT ![r] =
       [Idle EXCEPT !.phase = "code", !.purpose = "code", !.token = t]]
  /\ UNCHANGED <<accountRow, creds, tokens, swept, spends, proofLogins>>

\* ... and spends it, or finds it spent
SpendCode(r) == At(r, "code") /\ Accept(r, requests[r].token, "prove")

RefuseCode(r) ==
  /\ At(r, "code") /\ ~Spendable(requests[r].token)
  /\ Finish(r)
  /\ UNCHANGED <<accountRow, creds, tokens, swept, spends, proofLogins>>

-----------------------------------------------------------------------------
(* Proving the address. *)

ProofAnyway == TRUE

\* proveAddress: only on an address not proved before
FirstProof == ~verified

\* what the first proof, and what a reset, takes away
EndedByProof == IF FirstProof THEN LiveOf(Credentials) ELSE {}
EndedByReset == LiveOf(Logins \cup Keys)

SweepButLinks(gone, links) ==
  /\ creds' = Without(gone)
  /\ swept' = swept \cup gone \cup links
  /\ UNCHANGED tokens

Sweep(gone, links) ==
  /\ creds' = Without(gone)
  /\ tokens' = Consumed(links)
  /\ swept' = swept \cup gone \cup links

\* the transaction of verifyEmail, verifySignupCode and signInWithCode
Prove(r) ==
  /\ At(r, "prove")
  /\ verified' = TRUE
  /\ password' = (password /\ (requests[r].purpose = "verify" \/ ~FirstProof))
  /\ Sweep(EndedByProof, IF FirstProof THEN LiveTokens("change") ELSE {})
  /\ \/ GoTo(r, "login")
     \/ requests[r].purpose = "verify" /\ Finish(r)  \* opened in another browser
  /\ UNCHANGED <<spends, proofLogins>>

\* the transaction of resetPassword
ResetPassword(r) ==
  /\ At(r, "reset")
  /\ verified' = TRUE /\ password' = TRUE
  /\ Sweep(EndedByProof \cup EndedByReset, LiveTokens("change"))
  /\ Finish(r)
  /\ UNCHANGED <<spends, proofLogins>>

\* confirmEmailChange: the address moves, proved; then every session ends, and
\* then every key, each in its own statement
ConfirmChange(r) ==
  /\ At(r, "confirm")
  /\ verified' = TRUE
  /\ GoTo(r, "endLogins")
  /\ UNCHANGED <<password, creds, tokens, swept, spends, proofLogins>>

EndAll(r, phase, kind, next) ==
  /\ At(r, phase)
  /\ creds' = Without(LiveOf(kind))
  /\ requests' = [requests EXCEPT ![r].phase = next]
  /\ UNCHANGED <<accountRow, tokens, swept, spends, proofLogins>>

EndLogins(r) == EndAll(r, "endLogins", Logins, "endKeys")
EndKeys(r) == EndAll(r, "endKeys", Keys, "idle")

-----------------------------------------------------------------------------
(* Signing in, and what a session may do. *)

\* signInWithPassword refuses an unproved address; finishPasskeyAuthentication
\* does not
SignIn(r) ==
  /\ At(r, "idle")
  /\ (password /\ verified) \/ LiveOf(Passkeys) # {}
  /\ requests' = [requests EXCEPT ![r] = [Idle EXCEPT !.phase = "login"]]
  /\ UNCHANGED <<accountRow, creds, tokens, swept, spends, proofLogins>>

\* createSession
StartLogin(r, s) ==
  /\ At(r, "login") /\ creds[s] = "none"
  /\ creds' = [creds EXCEPT ![s] = "live"]
  /\ proofLogins' = IF requests[r].token # NoToken THEN proofLogins \cup {s} ELSE proofLogins
  /\ Finish(r)
  /\ UNCHANGED <<accountRow, tokens, swept, spends>>

\* resolveSession, by a request that goes on to do something
ResolveLogin(r, s) ==
  /\ At(r, "idle") /\ creds[s] = "live"
  /\ requests' = [requests EXCEPT ![r] = [Idle EXCEPT !.phase = "signedIn", !.login = s]]
  /\ UNCHANGED <<accountRow, creds, tokens, swept, spends, proofLogins>>

\* createApiToken, insertPasskey
Add(r, x) ==
  /\ At(r, "signedIn") /\ x \in Keys \cup Passkeys /\ creds[x] = "none"
  /\ creds' = [creds EXCEPT ![x] = "live"]
  /\ Finish(r)
  /\ UNCHANGED <<accountRow, tokens, swept, spends, proofLogins>>

\* revokeApiToken, deletePasskey, revokeSession
Drop(r, x) ==
  /\ At(r, "signedIn") /\ creds[x] = "live"
  /\ x \in Logins => x = requests[r].login
  /\ creds' = Without({x})
  /\ Finish(r)
  /\ UNCHANGED <<accountRow, tokens, swept, spends, proofLogins>>

\* changePassword: the old one is verified, the new one written, the other
\* sessions ended
VerifyOldPassword(r) ==
  /\ At(r, "signedIn") /\ password
  /\ GoTo(r, "newPassword")
  /\ UNCHANGED <<accountRow, creds, tokens, swept, spends, proofLogins>>

WriteNewPassword(r) ==
  /\ At(r, "newPassword")
  /\ password' = TRUE
  /\ GoTo(r, "endOthers")
  /\ UNCHANGED <<verified, creds, tokens, swept, spends, proofLogins>>

EndOthers(r) ==
  /\ At(r, "endOthers")
  /\ creds' = Without(LiveOf(Logins) \ {requests[r].login})
  /\ Finish(r)
  /\ UNCHANGED <<accountRow, tokens, swept, spends, proofLogins>>

AccountsNext ==
  \E r \in Requests :
    \/ \E purpose \in Purposes : Retoken(r, purpose)
    \/ \E t \in Tokens : Issue(r, t) \/ FollowLink(r, t) \/ ReadCode(r, t)
    \/ SpendCode(r) \/ RefuseCode(r)
    \/ Prove(r) \/ ResetPassword(r) \/ ConfirmChange(r) \/ EndLogins(r) \/ EndKeys(r)
    \/ SignIn(r)
    \/ \E s \in Logins : StartLogin(r, s) \/ ResolveLogin(r, s)
    \/ \E x \in Credentials : Add(r, x) \/ Drop(r, x)
    \/ VerifyOldPassword(r) \/ WriteNewPassword(r) \/ EndOthers(r)

AccountsSpec == AccountsInit /\ [][AccountsNext]_accountsVars

-----------------------------------------------------------------------------
(* Properties. *)

\* A link or a code is accepted once, also when two requests bring it at the
\* same time, or a code is superseded between its being read and being spent.
TokenSpentOnce == \A t \in Tokens : spends[t] <= 1

\* What a first proof or a reset has ended is not live again, and an email
\* change it has taken back is not confirmed afterwards.
SweptStaysOut ==
  /\ \A x \in swept \cap Credentials : creds[x] = "ended"
  /\ \A t \in swept \cap Tokens : spends[t] = 0

\* The first proof alone evicts: a code spent beside it does not end the session
\* the other has just been handed (address-proof.ts:41-44).
ProofEvictsOnce ==
  [][\A r \in Requests : At(r, "prove") /\ requests'[r] # requests[r] /\ verified =>
       \A s \in proofLogins : creds'[s] = creds[s]]_accountsVars

\* Only one code works at a time (verification-codes.ts:28-29, "asking for a
\* second code because the first has not arrived cannot leave two working codes
\* behind").  It fails: two requests may retire what was live, and then both insert.
OneLiveCode == Cardinality(LiveTokens("code")) <= 1
=============================================================================
