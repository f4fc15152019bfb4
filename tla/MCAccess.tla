------------------------------ MODULE MCAccess ------------------------------
(***************************************************************************)
(* Membership, Grants and Accounts for TLC.  They share no state, so a     *)
(* behaviour is one of one component's: `part` says whose, and the other   *)
(* two stay in one of their initial states.                                *)
(***************************************************************************)
EXTENDS Membership, Grants, Accounts, TLC

VARIABLE part

accessVars == <<membershipVars, grantsVars, accountsVars, part>>

AccessInit ==
  /\ MembershipInit /\ GrantsInit /\ AccountsInit
  /\ part \in {"membership", "grants", "accounts"}
  /\ part # "membership" => creator = FirstSeat
  /\ part # "accounts" => password

AccessNext ==
  \/ part = "membership" /\ MembershipNext /\ UNCHANGED <<grantsVars, accountsVars, part>>
  \/ part = "grants" /\ GrantsNext /\ UNCHANGED <<membershipVars, accountsVars, part>>
  \/ part = "accounts" /\ AccountsNext /\ UNCHANGED <<membershipVars, grantsVars, part>>

AccessSpec == AccessInit /\ [][AccessNext]_accessVars

\* ids that no definition names; Calls, Callers and Requests are one set of
\* model values, and so are GrantIds and Tokens: TLC permutes few of them
AccessSymmetry ==
  Permutations(Users) \cup Permutations(Requests) \cup Permutations(Tokens)
=============================================================================
