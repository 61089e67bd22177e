----------------------------- MODULE Membership -----------------------------
(***************************************************************************)
(* The members of one tenant, their roles, their email addresses, and the  *)
(* invitations to it.                                                      *)
(*                                                                         *)
(* Every call is a series of statements without a transaction.  A manager's *)
(* reads the caller's role (the middleware), then the target's membership, *)
(* counts owners if an owner is to go, and writes by primary key; an       *)
(* invitation looks up the user of an address, then that user's            *)
(* membership, and inserts.  Whoever accepts reads the own address, and    *)
(* then runs one transaction.  A user may change the address at any time:  *)
(* nothing looks at invitations then.                                      *)
(*                                                                         *)
(* What a call has read may be out of date when it writes.  The flag       *)
(* `dirty' of a call and the variable `raced' record that, the flag        *)
(* `taken' of an invitation that a member moved to its address; nothing in *)
(* the system reads them.                                                  *)
(***************************************************************************)
EXTENDS Integers, FiniteSets

CONSTANTS Users,      \* accounts
          Addresses,  \* email addresses
          Calls       \* calls in flight at a time

ASSUME MembershipAssumption == IsFiniteSet(Users)

VARIABLES role,        \* tenant_memberships.role; "none": no row
          address,     \* users.email
          invitation,  \* the row neither accepted nor revoked, per address
          call,        \* where each call is
          raced        \* has a call written on what it had read too early?

vars == <<role, address, invitation, call, raced>>

-----------------------------------------------------------------------------
Roles == {"owner", "admin", "member"}
Managers == {"owner", "admin"}
Invitable == {"admin", "member"}

NoInvitation == [role |-> "none", live |-> FALSE, taken |-> FALSE]
Invitation == [role : Invitable, live : BOOLEAN, taken : BOOLEAN]

RoleOps == {"update", "remove"}

NoUser == "no user"
NoAddress == "no address"
Idle == [op |-> "none", pc |-> "idle", actor |-> "none", target |-> NoUser,
         email |-> NoAddress, new |-> "none", dirty |-> FALSE]
RoleCall ==
  [op : RoleOps, pc : {"check", "count", "write"}, actor : Managers,
   target : Users, email : {NoAddress}, new : Roles \cup {"none"}, dirty : BOOLEAN]
InviteCall ==
  [op : {"invite"}, pc : {"find", "check", "write"}, actor : {"none"},
   target : Users \cup {NoUser}, email : Addresses, new : Invitable, dirty : BOOLEAN]
AcceptCall ==
  [op : {"accept"}, pc : {"write"}, actor : {"none"}, target : Users,
   email : Addresses, new : {"none"}, dirty : BOOLEAN]

Owners == {u \in Users : role[u] = "owner"}

HoldersOf(a) == {u \in Users : address[u] = a}

TypeOK ==
  /\ role \in [Users -> Roles \cup {"none"}]
  /\ address \in [Users -> Addresses]
  /\ invitation \in [Addresses -> Invitation \cup {NoInvitation}]
  /\ call \in [Calls -> RoleCall \cup InviteCall \cup AcceptCall \cup {Idle}]
  /\ raced \in BOOLEAN

\* The tenant as its registration leaves it, and users who registered: no two
\* have one address.
Init ==
  /\ \E founder \in Users :
       role = [u \in Users |-> IF u = founder THEN "owner" ELSE "none"]
  /\ address \in [Users -> Addresses]
  /\ \A u, v \in Users : address[u] = address[v] => u = v
  /\ invitation = [a \in Addresses |-> NoInvitation]
  /\ call = [c \in Calls |-> Idle]
  /\ raced = FALSE

-----------------------------------------------------------------------------
(* A call arrives: the middleware has read the caller's role.              *)

\* Mutant: an invitation may name any role.
AnyRole == Roles

InvitedRoles == Invitable

AskRoleChange(c) ==
  /\ call[c] = Idle
  /\ \E u, t \in Users, op \in RoleOps :
     \E new \in (IF op = "update" THEN Roles ELSE {"none"}) :
       /\ role[u] \in Managers
       /\ call' = [call EXCEPT ![c] =
                     [op |-> op, pc |-> "check", actor |-> role[u], target |-> t,
                      email |-> NoAddress, new |-> new, dirty |-> FALSE]]
  /\ UNCHANGED <<role, address, invitation, raced>>

\* An invitation of an admin is refused to an admin before anything is read.
AskInvitation(c) ==
  /\ call[c] = Idle
  /\ \E u \in Users, a \in Addresses, new \in InvitedRoles :
       /\ role[u] \in Managers
       /\ new = "admin" => role[u] = "owner"
       /\ call' = [call EXCEPT ![c] =
                     [op |-> "invite", pc |-> "find", actor |-> "none",
                      target |-> NoUser, email |-> a, new |-> new, dirty |-> FALSE]]
  /\ UNCHANGED <<role, address, invitation, raced>>

\* A user presents the token of a row; the own address is read first.  The token
\* of any other row than that address's is refused in the end.
PresentToken(c) ==
  /\ call[c] = Idle
  /\ \E u \in Users :
     /\ invitation[address[u]] # NoInvitation
     /\ call' = [call EXCEPT ![c] =
                  [op |-> "accept", pc |-> "write", actor |-> "none", target |-> u,
                   email |-> address[u], new |-> "none", dirty |-> FALSE]]
  /\ UNCHANGED <<role, address, invitation, raced>>

-----------------------------------------------------------------------------
(* Reads.                                                                  *)

\* Mutant: only the role to be given is looked at, not the one to be lost.
PrivilegedGrant(current, new) == new \in Managers

TouchesPrivileged(current, new) == current \in Managers \/ new \in Managers

LosesOwner(current, new) == current = "owner" /\ new # "owner"

\* What is left of a role call that has read the current role of its target;
\* the caller's role is the one the middleware read.
AfterCheck(actor, current, new) ==
  CASE current = "none" -> "refused"
    [] current # "none" /\ actor # "owner" /\ TouchesPrivileged(current, new) -> "refused"
    [] OTHER -> IF LosesOwner(current, new) THEN "count" ELSE "write"

Proceed(c, pc) ==
  call' = [call EXCEPT ![c] = IF pc = "refused" THEN Idle ELSE [@ EXCEPT !.pc = pc]]

CheckTarget(c) ==
  /\ call[c].op \in RoleOps /\ call[c].pc = "check"
  /\ Proceed(c, AfterCheck(call[c].actor, role[call[c].target], call[c].new))
  /\ UNCHANGED <<role, address, invitation, raced>>

\* Mutant: the owner to be lost is counted as one who stays.
EnoughCountingTarget == Cardinality(Owners) > 0

EnoughOwners == Cardinality(Owners) > 1

CountOwners(c) ==
  /\ call[c].pc = "count"
  /\ Proceed(c, IF EnoughOwners THEN "write" ELSE "refused")
  /\ UNCHANGED <<role, address, invitation, raced>>

\* The user who has the address to be invited, if any.
FindInvitee(c) ==
  /\ call[c].pc = "find"
  /\ \/ /\ HoldersOf(call[c].email) = {}
        /\ Proceed(c, "write")
     \/ \E u \in HoldersOf(call[c].email) :
          call' = [call EXCEPT ![c] = [@ EXCEPT !.pc = "check", !.target = u]]
  /\ UNCHANGED <<role, address, invitation, raced>>

CheckInvitee(c) ==
  /\ call[c].op = "invite" /\ call[c].pc = "check"
  /\ Proceed(c, IF role[call[c].target] = "none" THEN "write" ELSE "refused")
  /\ UNCHANGED <<role, address, invitation, raced>>

-----------------------------------------------------------------------------
(* Writes.  Each makes what other calls have read out of date: a role all  *)
(* that, an address what an invitation or an acceptance has read.          *)

HasRead(d) ==
  \/ call[d].pc \in {"count", "write"}
  \/ call[d].op = "invite" /\ call[d].pc = "check"

ReadsAddress(d) == call[d].op \in {"invite", "accept"}

Outdated(d, what) ==
  IF HasRead(d) /\ (what = "role" \/ ReadsAddress(d))
  THEN [call[d] EXCEPT !.dirty = TRUE] ELSE call[d]

FinishWrite(c, what) ==
  /\ call' = [d \in Calls |-> IF d = c THEN Idle ELSE Outdated(d, what)]
  /\ raced' = (raced \/ call[c].dirty)

FinishQuietly(c) ==
  /\ call' = [call EXCEPT ![c] = Idle]
  /\ raced' = (raced \/ call[c].dirty)

\* The acceptances that hold the token of the row of an address: once the row
\* is spent or revoked they find none, also when the address is invited anew.
HasTokenFor(d, a) == call[d].op = "accept" /\ call[d].email = a

\* UPDATE and DELETE by primary key: they look at no role.
WriteRole(c) ==
  LET t == call[c].target
  IN  /\ call[c].pc = "write" /\ call[c].op \in RoleOps
      /\ role' = IF role[t] = "none" THEN role ELSE [role EXCEPT ![t] = call[c].new]
      /\ FinishWrite(c, "role")
      /\ UNCHANGED <<address, invitation>>

\* The unique index on unaccepted, unrevoked rows knows nothing of expiry.
WriteInvitation(c) ==
  LET a == call[c].email
  IN  /\ call[c].pc = "write" /\ call[c].op = "invite"
      /\ invitation' = IF invitation[a] # NoInvitation THEN invitation
                       ELSE [invitation EXCEPT ![a] = [role |-> call[c].new,
                                                       live |-> TRUE, taken |-> FALSE]]
      /\ FinishQuietly(c)
      /\ UNCHANGED <<role, address>>

\* Mutant: accepted_at is not set.
SpentLater(a) == invitation

Spent(a) == [invitation EXCEPT ![a] = NoInvitation]

\* One transaction: the row is spent and the membership inserted, or neither
\* (a member's insert violates the primary key).
AcceptInvitation(c) ==
  LET u == call[c].target
      a == call[c].email
  IN  /\ call[c].op = "accept"
      /\ IF invitation[a].live /\ role[u] = "none"
         THEN /\ role' = [role EXCEPT ![u] = invitation[a].role]
              /\ invitation' = Spent(a)
              /\ call' = [d \in Calls |-> IF HasTokenFor(d, a) THEN Idle
                                         ELSE Outdated(d, "role")]
              /\ raced' = (raced \/ call[c].dirty)
         ELSE /\ call' = [call EXCEPT ![c] = Idle]
              /\ UNCHANGED <<role, invitation, raced>>
      /\ UNCHANGED address

RevokeInvitation(a) ==
  /\ invitation[a] # NoInvitation
  /\ invitation' = [invitation EXCEPT ![a] = NoInvitation]
  /\ call' = [d \in Calls |-> IF HasTokenFor(d, a) THEN Idle ELSE call[d]]
  /\ UNCHANGED <<role, address, raced>>

InvitationExpires(a) ==
  /\ invitation[a].live
  /\ invitation' = [invitation EXCEPT ![a].live = FALSE]
  /\ UNCHANGED <<role, address, call, raced>>

\* UPDATE by id: the unique index on users.email is all that is looked at, so
\* a member may move to an address with a pending invitation.
ChangeEmail(u, a) ==
  /\ HoldersOf(a) = {}
  /\ address' = [address EXCEPT ![u] = a]
  /\ invitation' = IF role[u] # "none" /\ invitation[a] # NoInvitation
                   THEN [invitation EXCEPT ![a].taken = TRUE] ELSE invitation
  /\ call' = [d \in Calls |-> Outdated(d, "address")]
  /\ UNCHANGED <<role, raced>>

\* A statement fails, or the process dies, between two statements.
AbandonCall(c) ==
  /\ call[c] # Idle
  /\ call' = [call EXCEPT ![c] = Idle]
  /\ UNCHANGED <<role, address, invitation, raced>>

-----------------------------------------------------------------------------
Next ==
  \/ \E c \in Calls :
       \/ AskRoleChange(c) \/ AskInvitation(c) \/ PresentToken(c)
       \/ CheckTarget(c) \/ CountOwners(c) \/ FindInvitee(c) \/ CheckInvitee(c)
       \/ WriteRole(c) \/ WriteInvitation(c) \/ AcceptInvitation(c) \/ AbandonCall(c)
  \/ \E a \in Addresses :
       \/ RevokeInvitation(a) \/ InvitationExpires(a)
       \/ \E u \in Users : ChangeEmail(u, a)

Spec == Init /\ [][Next]_vars

-----------------------------------------------------------------------------
\* The tenant keeps an owner unless some call wrote on what it had read too
\* early: by themselves the checks of update_member_role and remove_member
\* cover promotions, demotions, removals and self-removals.
OwnerLossCostsRace == raced \/ Owners # {}

\* A member whose address has a pending invitation, which lets the member back
\* in after a removal, got it in one of two ways: some call raced, or a member
\* moved to the address while it was invited.  The second needs no race:
\* change_email looks at no invitation and create_invitation at no later
\* address.
InvitedIsStranger ==
  raced \/ \A u \in Users :
             role[u] # "none" /\ invitation[address[u]] # NoInvitation
               => invitation[address[u]].taken

\* A call that only an admin stands behind neither makes nor unmakes owners
\* and admins, unless some role changed after the call read its target's.
AdminsManageMembersOnly ==
  [][\A c \in Calls : \A u \in Users :
       (/\ WriteRole(c) /\ ~call[c].dirty /\ call[c].actor = "admin"
        /\ role'[u] # role[u])
         => role[u] = "member" /\ role'[u] \notin Managers]_vars

\* What the documentation says: a tenant always retains at least one owner.
TenantKeepsOwner == Owners # {}
=============================================================================
