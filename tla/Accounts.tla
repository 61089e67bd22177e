------------------------------ MODULE Accounts ------------------------------
(***************************************************************************)
(* Email addresses of users: registration, verification and reset links,   *)
(* change of address, and sign-in through a provider such as Google.       *)
(*                                                                         *)
(* A token names its user, not the address it was sent to.  That a         *)
(* verified address was proven therefore rests on create_user_token, which *)
(* marks the earlier tokens used, and on the order of the statements of    *)
(* each call.                                                              *)
(*                                                                         *)
(* History that nothing in the system reads: where a token was sent, which *)
(* addresses were proven for a user, whose change of address met another   *)
(* call or failed half way (overtaken), and who was made by a provider     *)
(* sign-in (provisioned) that did not end well (halfMade).                 *)
(***************************************************************************)
EXTENDS Integers, FiniteSets

CONSTANTS Users,       \* user ids
          Addresses,   \* email addresses
          Identities,  \* provider accounts: a provider and a subject
          Tokens,      \* single-use tokens
          Calls,       \* calls in flight at a time
          MaxCalls     \* bound: calls that begin

VARIABLES email,       \* users.email; NoAddress: no row
          verified,    \* users with email_verified_at
          link,        \* oauth_accounts: the user of an identity
          token,       \* user_tokens
          call,        \* where each call is
          begun,       \* calls that have begun
          proven, overtaken, provisioned, halfMade   \* history

history == <<proven, overtaken, provisioned, halfMade>>
vars == <<email, verified, link, token, call, begun, history>>

-----------------------------------------------------------------------------
NoUser == "no user"
NoAddress == "no address"
NoIdentity == "no identity"
NoToken == "no token"
Kinds == {"verification", "reset"}

Unissued == [state |-> "absent", user |-> NoUser, kind |-> "none", sentTo |-> NoAddress]
Idle == [pc |-> "idle", user |-> NoUser, addr |-> NoAddress, kind |-> "none",
         token |-> NoToken, subject |-> NoIdentity]

Existing == {u \in Users : email[u] # NoAddress}
UserOf(a) == {u \in Users : email[u] = a}
Usable(t) == token[t].state \in {"stored", "sent"}

TypeOK ==
  /\ email \in [Users -> Addresses \cup {NoAddress}]
  /\ \A u, v \in Existing : email[u] = email[v] => u = v
  /\ verified \subseteq Existing
  /\ link \in [Identities -> Existing \cup {NoUser}]
  /\ token \in [Tokens -> [state : {"stored", "sent", "used"}, user : Existing,
                           kind : Kinds, sentTo : Addresses] \cup {Unissued}]
  /\ \A c \in Calls : call[c] = Idle \/ call[c].user \in Existing \cup {NoUser}
  /\ begun \in 0..MaxCalls
  /\ proven \in [Users -> SUBSET Addresses]
  /\ overtaken \cup provisioned \cup halfMade \subseteq Existing

Init ==
  /\ email = [u \in Users |-> NoAddress]
  /\ verified = {}
  /\ link = [i \in Identities |-> NoUser]
  /\ token = [t \in Tokens |-> Unissued]
  /\ call = [c \in Calls |-> Idle]
  /\ begun = 0
  /\ proven = [u \in Users |-> {}]
  /\ overtaken = {} /\ provisioned = {} /\ halfMade = {}

Start(c, new) == /\ call[c] = Idle /\ begun < MaxCalls
                 /\ call' = [call EXCEPT ![c] = new]
                 /\ begun' = begun + 1
End(c) == call' = [call EXCEPT ![c] = Idle]
Prove(u, a) == proven' = [proven EXCEPT ![u] = @ \cup {a}]

\* A call that has read a user and is about to send a token to that address.
Sending(u, a, kind) == [Idle EXCEPT !.pc = "create token", !.user = u, !.addr = a,
                                    !.kind = kind]
SendVerification(c, u, a) == Start(c, Sending(u, a, "verification"))

-----------------------------------------------------------------------------
(* Registration, links sent by email, change of address.                   *)

\* Mutant: users.email is not unique.
InsertUnchecked(u, a) == email[u] = NoAddress /\ email' = [email EXCEPT ![u] = a]

\* users.email is unique.
Insert(u, a) == /\ email[u] = NoAddress /\ UserOf(a) = {}
                /\ email' = [email EXCEPT ![u] = a]

Register(c, u, a) ==
  /\ Insert(u, a)
  /\ SendVerification(c, u, a)
  /\ UNCHANGED <<verified, link, token, history>>

ResendVerification(c, a) ==
  /\ \E u \in UserOf(a) \ verified : SendVerification(c, u, a)
  /\ UNCHANGED <<email, verified, link, token, history>>

RequestPasswordReset(c, a) ==
  /\ \E u \in UserOf(a) : Start(c, Sending(u, a, "reset"))
  /\ UNCHANGED <<email, verified, link, token, history>>

\* Calls that go on with the address they have read.
HaveRead(u) == {d \in Calls : /\ call[d].user = u
                              /\ call[d].pc \in {"create token", "link", "mark"}}

UpdateEmail(u, a) == /\ email' = [email EXCEPT ![u] = a]
                     /\ verified' = verified \ {u}

\* The password is right.  Whatever has read the old address is overtaken.
ChangeEmail(c, u, a) ==
  /\ u \in Existing /\ UserOf(a) = {}
  /\ UpdateEmail(u, a)
  /\ SendVerification(c, u, a)
  /\ overtaken' = IF HaveRead(u) # {} THEN overtaken \cup {u} ELSE overtaken
  /\ UNCHANGED <<link, token, proven, provisioned, halfMade>>

\* Mutant: earlier tokens stay usable.
KeepsEarlier(u, kind) == {}

Replaced(u, kind) == {t \in Tokens : Usable(t) /\ token[t].user = u /\ token[t].kind = kind}

\* One transaction: earlier tokens of the kind are used up, the new one stored.
CreateUserToken(c) ==
  LET u == call[c].user
      kind == call[c].kind
  IN  /\ call[c].pc = "create token"
      /\ \E n \in Tokens :
           /\ token[n] = Unissued
           /\ token' = [t \in Tokens |->
                CASE t = n -> [state |-> "stored", user |-> u, kind |-> kind,
                               sentTo |-> call[c].addr]
                  [] t # n /\ t \in Replaced(u, kind) -> [token[t] EXCEPT !.state = "used"]
                  [] OTHER -> token[t]]
           /\ call' = [call EXCEPT ![c].pc = "enqueue", ![c].token = n]
      /\ UNCHANGED <<email, verified, link, begun, history>>

\* The outbox sends the token; one replaced meanwhile is of no use.
EnqueueEmail(c) ==
  LET t == call[c].token
  IN  /\ call[c].pc = "enqueue"
      /\ token' = [token EXCEPT ![t].state = IF @ = "stored" THEN "sent" ELSE @]
      /\ End(c)
      /\ UNCHANGED <<email, verified, link, begun, history>>

\* A changed address whose own token is not stored yet: the old one is usable.
Replacing(t) == \E d \in Calls : /\ call[d].pc = "create token"
                                 /\ call[d].user = token[t].user
                                 /\ call[d].kind = token[t].kind
                                 /\ call[d].addr # token[t].sentTo

Consume(c, t, pc) ==
  /\ token[t].state = "sent"
  /\ token' = [token EXCEPT ![t].state = "used"]
  /\ Start(c, [Idle EXCEPT !.pc = pc, !.user = token[t].user])

\* Whoever reads the mail of the address follows the link.
VerifyEmail(c, t) ==
  LET u == token[t].user
  IN  /\ token[t].kind = "verification"
      /\ Consume(c, t, "mark")
      /\ Prove(u, token[t].sentTo)
      /\ overtaken' = IF Replacing(t) THEN overtaken \cup {u} ELSE overtaken
      /\ UNCHANGED <<email, verified, link, provisioned, halfMade>>

ConfirmPasswordReset(c, t) ==
  /\ token[t].kind = "reset"
  /\ Consume(c, t, "store password")
  /\ UNCHANGED <<email, verified, link, history>>

\* What a new password does to the sessions is Sessions!PasswordStored.
StorePassword(c) ==
  /\ call[c].pc = "store password"
  /\ End(c)
  /\ UNCHANGED <<email, verified, link, token, begun, history>>

MarkUserEmailVerified(c) ==
  /\ call[c].pc = "mark"
  /\ verified' = verified \cup {call[c].user}
  /\ End(c)
  /\ UNCHANGED <<email, link, token, begun, history>>

-----------------------------------------------------------------------------
(* Sign-in through a provider.                                             *)

\* Mutant: the address of a linked identity is not compared with the user's.
VouchesForAny(u, a, vouched) == vouched

Vouches(u, a, vouched) == vouched /\ email[u] = a

\* What the provider says of an identity: an address, and whether it has
\* verified that address itself.
Claims == [addr : Addresses, vouched : BOOLEAN]

\* A linked user is found at once.
SignInLinked(c, i, claim) ==
  LET u == link[i]
      a == claim.addr
  IN  /\ u # NoUser /\ Vouches(u, a, claim.vouched)
      /\ Start(c, [Idle EXCEPT !.pc = "mark", !.user = u])
      /\ Prove(u, a)
      /\ UNCHANGED <<email, verified, link, token, overtaken, provisioned, halfMade>>

SignInUnlinked(c, i, claim) ==
  /\ link[i] = NoUser /\ claim.vouched
  /\ Start(c, [Idle EXCEPT !.pc = "look up", !.addr = claim.addr, !.subject = i])
  /\ UNCHANGED <<email, verified, link, token, history>>

SignIn(c, i, claim) == SignInLinked(c, i, claim) \/ SignInUnlinked(c, i, claim)

LookUpEmail(c) ==
  LET a == call[c].addr
  IN  /\ call[c].pc = "look up"
      /\ \/ \E u \in UserOf(a) : /\ call' = [call EXCEPT ![c].pc = "link", ![c].user = u]
                                 /\ Prove(u, a)
         \/ /\ UserOf(a) = {}
            /\ call' = [call EXCEPT ![c].pc = "provision"]
            /\ UNCHANGED proven
      /\ UNCHANGED <<email, verified, link, token, begun, overtaken, provisioned, halfMade>>

\* The transaction of create_user_with_tenant; a taken address refuses it.
Provision(c) ==
  LET a == call[c].addr
  IN  /\ call[c].pc = "provision"
      /\ \/ \E u \in Users : /\ Insert(u, a)
                             /\ call' = [call EXCEPT ![c].pc = "link", ![c].user = u]
                             /\ Prove(u, a)
                             /\ provisioned' = provisioned \cup {u}
         \/ /\ UserOf(a) # {}
            /\ End(c)
            /\ UNCHANGED <<email, proven, provisioned>>
      /\ UNCHANGED <<verified, link, token, begun, overtaken, halfMade>>

\* Mutant: a second sign-in takes the link over.
LinkedAnew(i, u) == u

\* ON CONFLICT DO NOTHING on the identity.
LinkedTo(i, u) == IF link[i] = NoUser THEN u ELSE link[i]

LinkOAuthAccount(c) ==
  LET i == call[c].subject
      u == call[c].user
  IN  /\ call[c].pc = "link"
      /\ link' = [link EXCEPT ![i] = LinkedTo(i, u)]
      /\ \/ /\ link'[i] # link[i]
            /\ call' = [call EXCEPT ![c].pc = "mark", ![c].subject = NoIdentity]
            /\ UNCHANGED halfMade
         \/ /\ link'[i] = link[i]
            /\ End(c)
            /\ halfMade' = halfMade \cup {u}
      /\ UNCHANGED <<email, verified, token, begun, proven, overtaken, provisioned>>

UnlinkOAuthAccount(u) ==
  /\ \E i \in Identities : link[i] = u
  /\ link' = [i \in Identities |-> IF link[i] = u THEN NoUser ELSE link[i]]
  /\ provisioned' = provisioned \ {u}
  /\ UNCHANGED <<email, verified, token, call, begun, proven, overtaken, halfMade>>

-----------------------------------------------------------------------------
TokenExpires(t) ==
  /\ Usable(t)
  /\ token' = [token EXCEPT ![t].state = "used"]
  /\ UNCHANGED <<email, verified, link, call, begun, history>>

\* A statement fails or the process dies.  A change of address that does not
\* get as far as its token leaves the earlier tokens usable.
AbandonCall(c) ==
  LET u == call[c].user
  IN  /\ call[c] # Idle
      /\ End(c)
      /\ overtaken' = IF \E t \in Tokens : Usable(t) /\ call[c].pc = "create token"
                                           /\ token[t].user = u
                                           /\ token[t].sentTo # call[c].addr
                      THEN overtaken \cup {u} ELSE overtaken
      /\ halfMade' = IF call[c].pc = "link" THEN halfMade \cup {u} ELSE halfMade
      /\ UNCHANGED <<email, verified, link, token, begun, proven, provisioned>>

-----------------------------------------------------------------------------
Next ==
  \/ \E c \in Calls :
       \/ CreateUserToken(c) \/ EnqueueEmail(c) \/ StorePassword(c)
       \/ MarkUserEmailVerified(c) \/ LookUpEmail(c) \/ Provision(c)
       \/ LinkOAuthAccount(c) \/ AbandonCall(c)
       \/ \E a \in Addresses :
            \/ ResendVerification(c, a) \/ RequestPasswordReset(c, a)
            \/ \E u \in Users : Register(c, u, a) \/ ChangeEmail(c, u, a)
       \/ \E i \in Identities, claim \in Claims : SignIn(c, i, claim)
       \/ \E t \in Tokens : VerifyEmail(c, t) \/ ConfirmPasswordReset(c, t)
  \/ \E u \in Users : UnlinkOAuthAccount(u)
  \/ \E t \in Tokens : TokenExpires(t)

Spec == Init /\ [][Next]_vars

-----------------------------------------------------------------------------
\* A verified address was proven to be the user's: somebody followed a link
\* sent there, or a provider vouched for it.  The exceptions are a change of
\* address that met a call that had read the old one, was used before its own
\* token replaced the earlier ones, or never got as far as that token.
VerifiedWasProven ==
  \A u \in verified : email[u] \in proven[u] \/ u \in overtaken

\* A user that a provider sign-in made keeps a link to sign in with, unless it
\* was unlinked on purpose or the sign-in stopped, or lost its identity to
\* another one, between the transactions.
ProvisionedKeepsLink ==
  \A u \in provisioned :
    \/ \E i \in Identities : link[i] = u
    \/ \E c \in Calls : call[c].user = u /\ call[c].pc = "link"
    \/ u \in halfMade
=============================================================================
