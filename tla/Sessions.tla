------------------------------ MODULE Sessions ------------------------------
(***************************************************************************)
(* The sessions of one user: refresh tokens, the access tokens issued with *)
(* them, and the calls that issue, rotate and revoke them while others     *)
(* join and leave the user's tenants.                                      *)
(*                                                                         *)
(* Only the rotation is a transaction.  Every other call is a series of    *)
(* statements, so it writes on what it has read before.  A statement that  *)
(* revokes several rows is two steps: which rows it sees, then their       *)
(* change.  A row that a rotation commits between the two is not among     *)
(* them.                                                                   *)
(*                                                                         *)
(* History that nothing in the system reads: the token a session started   *)
(* with (root), how many revocations of all sessions were complete when it *)
(* was proven (since), whether the user has left its tenant (left), and    *)
(* why it may outlive a revocation (origin): "raced" when the call that    *)
(* issued it was under way during one, "access" when an access token alone *)
(* was its proof.                                                          *)
(***************************************************************************)
EXTENDS Integers, FiniteSets

CONSTANTS Tenants,         \* tenants the user may belong to
          Tokens,          \* ids of token pairs
          Calls,           \* calls in flight at a time
          MaxCalls,        \* bound: calls that begin
          MaxRevocations   \* bound: completed revocations of all sessions

ASSUME SessionsAssumption == MaxCalls \in Nat /\ MaxRevocations \in Nat

VARIABLES member,       \* tenants the user has a membership row for
          token,        \* refresh_tokens by id, with the access token of the pair
          call,         \* where each call is
          begun,        \* calls that have begun
          revocations,  \* completed revocations of all sessions
          halfRemoved   \* tenants left by a removal that never revoked

vars == <<member, token, call, begun, revocations, halfRemoved>>

-----------------------------------------------------------------------------
NoTenant == "no tenant"
NoToken == "no token"
Origins == {"proof", "access", "raced"}

Unissued == [state |-> "absent", access |-> "none", tenant |-> NoTenant,
             root |-> NoToken, since |-> 0, origin |-> "proof", left |-> FALSE]

\* "ended": revoked_at is set, or expires_at has passed, or the row is purged.
Issued == [state : {"live", "ended"}, access : {"valid", "denied", "expired"},
           tenant : Tenants, root : Tokens, since : Nat, origin : Origins,
           left : BOOLEAN]

Idle == [op |-> "none", pc |-> "idle", used |-> NoToken, tenant |-> NoTenant,
         since |-> 0, origin |-> "proof", seen |-> {}]

Call == [op : {"issue", "rotate", "revoke", "remove"},
         pc : {"resolve", "write", "select", "apply", "deny"},
         used : Tokens \cup {NoToken}, tenant : Tenants \cup {NoTenant},
         since : Nat, origin : Origins, seen : SUBSET Tokens]

TypeOK ==
  /\ member \subseteq Tenants
  /\ token \in [Tokens -> Issued \cup {Unissued}]
  /\ call \in [Calls -> Call \cup {Idle}]
  /\ begun \in 0..MaxCalls
  /\ revocations \in 0..MaxRevocations
  /\ halfRemoved \subseteq Tenants

\* A registered user belongs to the tenant made for it.
Init ==
  /\ \E t \in Tenants : member = {t}
  /\ token = [r \in Tokens |-> Unissued]
  /\ call = [c \in Calls |-> Idle]
  /\ begun = 0
  /\ revocations = 0
  /\ halfRemoved = {}

Live(r) == token[r].state = "live"

\* The access token decodes and has not expired or been refused.
Accepted(a) == token[a].access = "valid"

\* What the middleware asks of a bearer token before a handler runs.
Authenticated(a) == Accepted(a) /\ token[a].tenant \in member

Revoking == \E d \in Calls : call[d].op = "revoke" /\ call[d].pc = "apply"
Leaving(t) == \E d \in Calls : call[d].op = "remove" /\ call[d].tenant = t

Begin == begun < MaxCalls /\ begun' = begun + 1

Start(c, new) == /\ call[c] = Idle
                 /\ call' = [call EXCEPT ![c] = new]
                 /\ Begin

End(c) == call' = [call EXCEPT ![c] = Idle]

-----------------------------------------------------------------------------
(* Issuing a session.                                                      *)

\* The user is found, the password is right.
PasswordVerified ==
  [Idle EXCEPT !.op = "issue", !.pc = "resolve", !.since = revocations,
               !.origin = IF Revoking THEN "raced" ELSE "proof"]

\* Registration and social login issue their session in the same way.
Login(c) ==
  /\ Start(c, PasswordVerified)
  /\ UNCHANGED <<member, token, revocations, halfRemoved>>

\* Nothing but the access token is asked for.
Switching(a) ==
  [Idle EXCEPT !.op = "issue", !.pc = "resolve", !.since = token[a].since,
               !.origin = "access"]

SwitchTenant(c, a) ==
  /\ Authenticated(a)
  /\ Start(c, Switching(a))
  /\ UNCHANGED <<member, token, revocations, halfRemoved>>

\* The row has been read and is neither revoked nor expired.
Refreshing(r) ==
  [Idle EXCEPT !.op = "rotate", !.pc = "resolve", !.used = r, !.since = token[r].since,
               !.origin = IF Revoking THEN "raced" ELSE token[r].origin]

Refresh(c, r) ==
  /\ Live(r)
  /\ Start(c, Refreshing(r))
  /\ UNCHANGED <<member, token, revocations, halfRemoved>>

\* The tenant asked for, the one the token is recorded with, or the default.
ResolveMembership(c) ==
  /\ call[c].pc = "resolve"
  /\ \E t \in member :
       call' = [call EXCEPT ![c].pc = "write", ![c].tenant = t,
                            ![c].origin = IF Leaving(t) THEN "raced" ELSE @]
  /\ UNCHANGED <<member, token, revocations, halfRemoved, begun>>

\* The access token and the refresh token of a new pair.
TokenPair(c, root, left) ==
  [state |-> "live", access |-> "valid", tenant |-> call[c].tenant, root |-> root,
   since |-> call[c].since, origin |-> call[c].origin, left |-> left]

CreateRefreshToken(c) ==
  /\ call[c].op = "issue" /\ call[c].pc = "write"
  /\ \E n \in Tokens :
       /\ token[n] = Unissued
       /\ token' = [token EXCEPT ![n] = TokenPair(c, n, FALSE)]
  /\ End(c)
  /\ UNCHANGED <<member, revocations, halfRemoved, begun>>

\* Mutant: the UPDATE of the rotation looks at the id alone.
RotatableById(r) == TRUE

Rotatable(r) == Live(r)

\* One transaction: the old row is ended and the new one inserted, or neither.
RotateRefreshToken(c) ==
  LET r == call[c].used
  IN  /\ call[c].op = "rotate" /\ call[c].pc = "write"
      /\ \/ /\ Rotatable(r)
            /\ \E n \in Tokens :
                 /\ token[n] = Unissued
                 /\ token' = [token EXCEPT
                      ![r].state = "ended",
                      ![n] = TokenPair(c, token[r].root,
                               token[r].left /\ token[r].tenant = call[c].tenant)]
         \/ ~Rotatable(r) /\ UNCHANGED token
      /\ End(c)
      /\ UNCHANGED <<member, revocations, halfRemoved, begun>>

-----------------------------------------------------------------------------
(* Ending sessions.                                                        *)

Ended(rows) == [r \in Tokens |-> IF r \in rows /\ Live(r)
                                 THEN [token[r] EXCEPT !.state = "ended"]
                                 ELSE token[r]]

\* The refresh token is the proof; the access token is refused afterwards,
\* by a command to Redis, when the client sent one.
Logout(c, r) ==
  /\ token[r] # Unissued
  /\ token' = Ended({r})
  /\ \/ Start(c, [Idle EXCEPT !.op = "revoke", !.pc = "deny", !.used = r])
     \/ call[c] = Idle /\ UNCHANGED call /\ Begin
  /\ UNCHANGED <<member, revocations, halfRemoved>>

ActiveSessions == {r \in Tokens : Live(r)}

RevokeSession(a, r) ==
  /\ Authenticated(a) /\ r \in ActiveSessions
  /\ token' = Ended({r})
  /\ UNCHANGED <<member, call, revocations, halfRemoved, begun>>

LogoutAll(c, a) ==
  /\ Authenticated(a)
  /\ Start(c, [Idle EXCEPT !.op = "revoke", !.pc = "select", !.used = a])
  /\ UNCHANGED <<member, token, revocations, halfRemoved>>

\* A changed or reset password has been stored; logins that have read the
\* old one are calls under way.
PasswordStored(c) ==
  /\ Start(c, [Idle EXCEPT !.op = "revoke", !.pc = "select"])
  /\ UNCHANGED <<member, token, revocations, halfRemoved>>

\* The checks of remove_member have passed (Membership): the membership goes,
\* the tokens for the tenant are revoked by the next statement.
DeleteMembership(c, t) ==
  /\ t \in member /\ call[c] = Idle /\ Begin
  /\ member' = member \ {t}
  /\ token' = [r \in Tokens |-> IF Live(r) /\ token[r].tenant = t
                                THEN [token[r] EXCEPT !.left = TRUE] ELSE token[r]]
  /\ call' = [d \in Calls |->
               CASE d = c -> [Idle EXCEPT !.op = "remove", !.pc = "select",
                                          !.tenant = t]
                 [] d # c /\ call[d].pc = "write" /\ call[d].tenant = t
                      -> [call[d] EXCEPT !.origin = "raced"]
                 [] OTHER -> call[d]]
  /\ UNCHANGED <<revocations, halfRemoved>>

AcceptInvitation(t) ==
  /\ member' = member \cup {t}
  /\ UNCHANGED <<token, call, revocations, halfRemoved, begun>>

\* Mutants: "everywhere" is one tenant; the revocation of a removal is forgotten.
RowsOfTenant(c) == {r \in Tokens : Live(r) /\ call[c].tenant = token[r].tenant}
RowsUnlessRemoved(c) == {r \in Tokens : Live(r) /\ call[c].op # "remove"}

RowsToRevoke(c) ==
  {r \in Tokens : Live(r) /\ (call[c].op = "remove" => token[r].tenant = call[c].tenant)}

\* The statement begins: these are the rows it sees.
SelectRows(c) ==
  /\ call[c].pc = "select"
  /\ call' = [d \in Calls |->
               CASE d = c -> [call[c] EXCEPT !.pc = "apply", !.seen = RowsToRevoke(c)]
                 [] /\ d # c /\ call[c].op = "revoke"
                    /\ call[d].pc \in {"resolve", "write"}
                      -> [call[d] EXCEPT !.origin = "raced"]
                 [] OTHER -> call[d]]
  /\ UNCHANGED <<member, token, revocations, halfRemoved, begun>>

\* The statement commits: of a row changed meanwhile it looks again at
\* revoked_at.
ApplyRevocation(c) ==
  /\ call[c].pc = "apply"
  /\ token' = Ended(call[c].seen)
  /\ \/ /\ call[c].op = "revoke" /\ revocations < MaxRevocations
        /\ revocations' = revocations + 1
        /\ UNCHANGED halfRemoved
     \/ /\ call[c].op = "remove"
        /\ halfRemoved' = halfRemoved \ {call[c].tenant}
        /\ UNCHANGED revocations
  /\ IF call[c].used = NoToken THEN End(c)
     ELSE call' = [call EXCEPT ![c].pc = "deny", ![c].seen = {}]
  /\ UNCHANGED <<member, begun>>

DenyAccessToken(c) ==
  LET a == call[c].used
  IN  /\ call[c].pc = "deny"
      /\ token' = [token EXCEPT ![a].access = IF @ = "valid" THEN "denied" ELSE @]
      /\ End(c)
      /\ UNCHANGED <<member, revocations, halfRemoved, begun>>

-----------------------------------------------------------------------------
(* Time and faults.                                                        *)

RefreshTokenExpires(r) ==
  /\ Live(r)
  /\ token' = Ended({r})
  /\ UNCHANGED <<member, call, revocations, halfRemoved, begun>>

AccessTokenExpires(r) ==
  /\ token[r].access \in {"valid", "denied"}
  /\ token' = [token EXCEPT ![r].access = "expired"]
  /\ UNCHANGED <<member, call, revocations, halfRemoved, begun>>

\* Redis loses the refused tokens.
LoseDenylist ==
  /\ \E r \in Tokens : token[r].access = "denied"
  /\ token' = [r \in Tokens |-> IF token[r].access = "denied"
                                THEN [token[r] EXCEPT !.access = "valid"] ELSE token[r]]
  /\ UNCHANGED <<member, call, revocations, halfRemoved, begun>>

\* A statement fails, the caller is refused, or the process dies.
AbandonCall(c) ==
  /\ call[c] # Idle
  /\ End(c)
  /\ halfRemoved' = IF call[c].op = "remove" THEN halfRemoved \cup {call[c].tenant}
                    ELSE halfRemoved
  /\ UNCHANGED <<member, token, revocations, begun>>

-----------------------------------------------------------------------------
Next ==
  \/ \E c \in Calls :
       \/ Login(c) \/ ResolveMembership(c) \/ CreateRefreshToken(c)
       \/ RotateRefreshToken(c) \/ PasswordStored(c) \/ SelectRows(c)
       \/ ApplyRevocation(c) \/ DenyAccessToken(c) \/ AbandonCall(c)
       \/ \E r \in Tokens : SwitchTenant(c, r) \/ Refresh(c, r) \/ Logout(c, r)
                            \/ LogoutAll(c, r)
       \/ \E t \in Tenants : DeleteMembership(c, t)
  \/ \E r \in Tokens : RefreshTokenExpires(r) \/ AccessTokenExpires(r)
  \/ \E a, r \in Tokens : RevokeSession(a, r)
  \/ \E t \in Tenants : AcceptInvitation(t)
  \/ LoseDenylist

Spec == Init /\ [][Next]_vars

-----------------------------------------------------------------------------
\* However refreshes, logouts and revocations overlap, one proof of identity
\* never holds two live sessions: rotation ends the token it replaces.
OneSessionPerProof ==
  \A r, s \in Tokens : Live(r) /\ Live(s) /\ token[r].root = token[s].root => r = s

\* A session proven before a completed revocation of all sessions (logout
\* everywhere, password change or reset) is live only if the call that issued
\* it was under way during one, or its proof was an access token, which
\* revocations leave valid until it expires.  The second takes no race and the
\* documentation does not allow it: after a reset "all sessions must log in
\* again" (docs/frontend-contract.md:98), but switch_tenant makes of an old
\* access token a refresh token with a whole life of its own.
SurvivorsRacedRevocation ==
  \A r \in Tokens :
    Live(r) /\ token[r].since < revocations => token[r].origin \in {"raced", "access"}

\* A live session for a tenant the user is not in, or has left since, costs a
\* removal that is not complete, or a call that had read the membership.
StraySessionsCostFaults ==
  \A r \in Tokens :
    Live(r) /\ (token[r].left \/ token[r].tenant \notin member)
      => \/ token[r].origin = "raced"
         \/ token[r].tenant \in halfRemoved
         \/ Leaving(token[r].tenant)
=============================================================================
