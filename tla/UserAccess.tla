----------------------------- MODULE UserAccess -----------------------------
(***************************************************************************)
(* How users prove who they are: Sessions and Accounts.  They share no     *)
(* state (a new password reaches Sessions as PasswordStored), so a         *)
(* behaviour moves one of them and leaves the other where it starts.       *)
(***************************************************************************)
EXTENDS Sessions

CONSTANTS Users, Addresses, Identities, MaxAccountCalls

VARIABLES email, verified, link, userToken, accountCall, accountCalls,
          proven, overtaken, provisioned, halfMade,
          part    \* which of the two moves

Account == INSTANCE Accounts WITH token <- userToken, call <- accountCall,
                                  begun <- accountCalls, MaxCalls <- MaxAccountCalls

\* What stands for "none" is no user and no address.
ASSUME AccountsAssumption ==
  MaxAccountCalls \in Nat /\ Account!NoUser \notin Users /\ Account!NoAddress \notin Addresses

accountVars == <<email, verified, link, userToken, accountCall, accountCalls,
                 proven, overtaken, provisioned, halfMade>>

PartsInit == Init /\ Account!Init /\ part \in {"sessions", "accounts"}

PartsNext == \/ part = "sessions" /\ Next /\ UNCHANGED <<accountVars, part>>
             \/ part = "accounts" /\ Account!Next /\ UNCHANGED <<vars, part>>

PartsSpec == PartsInit /\ [][PartsNext]_<<vars, accountVars, part>>

\* The rows and calls of both modules have their types.
PartsTypeOK == TypeOK /\ Account!TypeOK

\* Accounts: a verified address was proven to be the user's, unless its change
\* met another call or stopped half way.
VerifiedWasProven == Account!VerifiedWasProven

\* Accounts: a user made by a provider sign-in keeps a link to sign in with.
ProvisionedKeepsLink == Account!ProvisionedKeepsLink
=============================================================================
