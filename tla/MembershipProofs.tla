-------------------------- MODULE MembershipProofs --------------------------
(***************************************************************************)
(* Membership for any number of users, addresses and calls in flight.      *)
(* What a call has read still holds while no write has overtaken it        *)
(* (Fresh); from that follow the owner who stays, the invitee who is a     *)
(* stranger and the admin's reach.                                         *)
(***************************************************************************)
EXTENDS Membership, FiniteSetTheorems, TLAPS

AnyCall == RoleCall \cup InviteCall \cup AcceptCall \cup {Idle}

\* No address belongs to two users.
OneHolder == \A u, v \in Users : address[u] = address[v] => u = v

\* A call that no write has overtaken since its first read.
Fresh(c) ==
  HasRead(c) /\ ~call[c].dirty =>
    /\ call[c].op \in RoleOps /\ call[c].actor = "admin"
         => role[call[c].target] = "member" /\ call[c].new \notin Managers
    /\ call[c].op \in RoleOps /\ call[c].pc = "write"
         /\ LosesOwner(role[call[c].target], call[c].new)
         => \E u \in Owners : u # call[c].target
    /\ call[c].op = "invite" /\ call[c].pc = "check"
         => call[c].target \in Users /\ address[call[c].target] = call[c].email
    /\ call[c].op = "invite" /\ call[c].pc = "write"
         => \A u \in HoldersOf(call[c].email) : role[u] = "none"
    /\ call[c].op = "accept" => address[call[c].target] = call[c].email

MInv ==
  /\ TypeOK
  /\ OneHolder
  /\ OwnerLossCostsRace
  /\ InvitedIsStranger
  /\ \A c \in Calls : Fresh(c)

\* Which record a call is.
LEMMA CallTypes ==
  ASSUME TypeOK, NEW c \in Calls
  PROVE  /\ call[c].op \in RoleOps => call[c] \in RoleCall
         /\ call[c].pc = "count" => call[c] \in RoleCall
         /\ call[c].op = "invite" => call[c] \in InviteCall
         /\ call[c].pc = "find" => call[c] \in InviteCall
         /\ call[c].op = "accept" => call[c] \in AcceptCall
  BY DEF TypeOK, RoleCall, InviteCall, AcceptCall, Idle, RoleOps

\* Where CheckTarget can send a call, and with what read.
LEMMA CheckOutcome ==
  ASSUME NEW actor \in Managers, NEW current \in Roles \cup {"none"},
         NEW new \in Roles \cup {"none"}, AfterCheck(actor, current, new) # "refused"
  PROVE  /\ AfterCheck(actor, current, new) \in {"count", "write"}
         /\ actor = "admin" => current = "member" /\ new \notin Managers
         /\ AfterCheck(actor, current, new) = "write" => ~LosesOwner(current, new)
<1>1. current # "none" /\ ~(actor # "owner" /\ TouchesPrivileged(current, new))
  BY DEF AfterCheck
<1>2. AfterCheck(actor, current, new)
        = IF LosesOwner(current, new) THEN "count" ELSE "write"
  BY <1>1 DEF AfterCheck
<1>3. actor = "admin" => current = "member" /\ new \notin Managers
  BY <1>1 DEF TouchesPrivileged, Managers, Roles
<1>4. QED
  BY <1>2, <1>3

\* The count of CountOwners leaves an owner besides any one user.
LEMMA AnotherOwner ==
  ASSUME EnoughOwners, NEW t PROVE \E u \in Owners : u # t
<1>1. SUFFICES ASSUME \A u \in Owners : u = t PROVE FALSE
  OBVIOUS
<1>2. IsFiniteSet({t}) /\ Cardinality({t}) = 1
  BY FS_Singleton
<1>3. Owners \subseteq {t}
  BY <1>1
<1>4. Cardinality(Owners) <= 1 /\ Cardinality(Owners) \in Nat
  BY <1>2, <1>3, FS_Subset, FS_CardinalityType
<1>5. QED
  BY <1>4 DEF EnoughOwners

-----------------------------------------------------------------------------
(* Types. *)

LEMMA OutdatedCall ==
  ASSUME TypeOK, NEW d \in Calls, NEW what PROVE Outdated(d, what) \in AnyCall
<1>1. CASE Outdated(d, what) = call[d]
  BY <1>1 DEF TypeOK, AnyCall
<1>2. CASE Outdated(d, what) = [call[d] EXCEPT !.dirty = TRUE] /\ HasRead(d)
  <2>1. call[d] \in RoleCall \cup InviteCall \cup AcceptCall
    BY <1>2 DEF HasRead, TypeOK, Idle
  <2>2. QED
    BY <1>2, <2>1 DEF AnyCall, RoleCall, InviteCall, AcceptCall
<1>3. QED
  BY <1>1, <1>2 DEF Outdated

\* Steps of one call that only move it on.
LEMMA MoveType ==
  ASSUME TypeOK, NEW c \in Calls, NEW k \in AnyCall, call' = [call EXCEPT ![c] = k],
         UNCHANGED <<role, address, invitation, raced>>
  PROVE  TypeOK'
  BY DEF TypeOK, AnyCall

LEMMA ProceedType ==
  ASSUME TypeOK, NEW c \in Calls, NEW pc, Proceed(c, pc),
         \/ pc = "refused"
         \/ call[c] \in RoleCall /\ pc \in {"count", "write"}
         \/ call[c] \in InviteCall /\ pc = "write",
         UNCHANGED <<role, address, invitation, raced>>
  PROVE  TypeOK'
<1>1. PICK k : k = IF pc = "refused" THEN Idle ELSE [call[c] EXCEPT !.pc = pc]
  OBVIOUS
<1>2. k \in AnyCall
  BY <1>1 DEF AnyCall, RoleCall, InviteCall
<1>3. call' = [call EXCEPT ![c] = k]
  BY <1>1 DEF Proceed
<1>4. QED
  BY <1>2, <1>3, MoveType

\* A write ends its own call and may outdate the others.
LEMMA WriteType ==
  ASSUME TypeOK, NEW c \in Calls, call[c].dirty \in BOOLEAN,
         \/ \E what : FinishWrite(c, what)
         \/ FinishQuietly(c)
  PROVE  /\ call' \in [Calls -> AnyCall]
         /\ raced' \in BOOLEAN
<1>1. raced' \in BOOLEAN
  BY DEF FinishWrite, FinishQuietly, TypeOK
<1>2. CASE \E what : FinishWrite(c, what)
  <2>1. PICK what : call' = [d \in Calls |-> IF d = c THEN Idle ELSE Outdated(d, what)]
    BY <1>2 DEF FinishWrite
  <2>2. Idle \in AnyCall /\ \A d \in Calls : Outdated(d, what) \in AnyCall
    BY OutdatedCall DEF AnyCall
  <2>3. QED
    BY <1>1, <2>1, <2>2
<1>3. CASE FinishQuietly(c)
  BY <1>1, <1>3 DEF FinishQuietly, TypeOK, AnyCall
<1>4. QED
  BY <1>2, <1>3

LEMMA TypeStep == TypeOK /\ [Next]_vars => TypeOK'
<1> SUFFICES ASSUME TypeOK, [Next]_vars PROVE TypeOK'
  OBVIOUS
<1>1. ASSUME NEW c \in Calls, AskRoleChange(c) PROVE TypeOK'
  <2>1. PICK u \in Users, t \in Users, op \in RoleOps :
          \E new \in (IF op = "update" THEN Roles ELSE {"none"}) :
            /\ role[u] \in Managers
            /\ call' = [call EXCEPT ![c] =
                     [op |-> op, pc |-> "check", actor |-> role[u], target |-> t,
                      email |-> NoAddress, new |-> new, dirty |-> FALSE]]
    BY <1>1 DEF AskRoleChange
  <2>2. PICK new \in Roles \cup {"none"} :
          /\ role[u] \in Managers
          /\ call' = [call EXCEPT ![c] =
                   [op |-> op, pc |-> "check", actor |-> role[u], target |-> t,
                    email |-> NoAddress, new |-> new, dirty |-> FALSE]]
    BY <2>1
  <2>3. PICK k : k = [op |-> op, pc |-> "check", actor |-> role[u], target |-> t,
                      email |-> NoAddress, new |-> new, dirty |-> FALSE]
    OBVIOUS
  <2>4. k \in AnyCall
    BY <2>2, <2>3 DEF AnyCall, RoleCall
  <2>5. QED
    BY <1>1, <2>2, <2>3, <2>4, MoveType DEF AskRoleChange
<1>2. ASSUME NEW c \in Calls, AskInvitation(c) PROVE TypeOK'
  <2>1. PICK a \in Addresses, new \in Invitable :
          call' = [call EXCEPT ![c] =
                     [op |-> "invite", pc |-> "find", actor |-> "none",
                      target |-> NoUser, email |-> a, new |-> new, dirty |-> FALSE]]
    BY <1>2 DEF AskInvitation, InvitedRoles
  <2>2. PICK k : k = [op |-> "invite", pc |-> "find", actor |-> "none",
                      target |-> NoUser, email |-> a, new |-> new, dirty |-> FALSE]
    OBVIOUS
  <2>3. k \in AnyCall
    BY <2>2 DEF AnyCall, InviteCall
  <2>4. QED
    BY <1>2, <2>1, <2>2, <2>3, MoveType DEF AskInvitation
<1>3. ASSUME NEW c \in Calls, PresentToken(c) PROVE TypeOK'
  <2>1. PICK u \in Users :
          call' = [call EXCEPT ![c] =
                     [op |-> "accept", pc |-> "write", actor |-> "none", target |-> u,
                      email |-> address[u], new |-> "none", dirty |-> FALSE]]
    BY <1>3 DEF PresentToken
  <2>2. PICK k : k = [op |-> "accept", pc |-> "write", actor |-> "none", target |-> u,
                      email |-> address[u], new |-> "none", dirty |-> FALSE]
    OBVIOUS
  <2>3. k \in AnyCall
    BY <2>2 DEF AnyCall, AcceptCall, TypeOK
  <2>4. QED
    BY <1>3, <2>1, <2>2, <2>3, MoveType DEF PresentToken
<1>4. ASSUME NEW c \in Calls, CheckTarget(c) PROVE TypeOK'
  <2>1. call[c] \in RoleCall
    BY <1>4, CallTypes DEF CheckTarget
  <2>2. AfterCheck(call[c].actor, role[call[c].target], call[c].new)
          \in {"count", "write", "refused"}
    BY DEF AfterCheck
  <2>3. QED
    BY <1>4, <2>1, <2>2, ProceedType DEF CheckTarget
<1>5. ASSUME NEW c \in Calls, CountOwners(c) PROVE TypeOK'
  <2>1. call[c] \in RoleCall
    BY <1>5, CallTypes DEF CountOwners
  <2>2. QED
    BY <1>5, <2>1, ProceedType DEF CountOwners
<1>6. ASSUME NEW c \in Calls, FindInvitee(c) PROVE TypeOK'
  <2>1. call[c] \in InviteCall
    BY <1>6, CallTypes DEF FindInvitee
  <2>2. CASE Proceed(c, "write")
    BY <1>6, <2>1, <2>2, ProceedType DEF FindInvitee
  <2>3. ASSUME NEW u \in Users,
               call' = [call EXCEPT ![c] = [@ EXCEPT !.pc = "check", !.target = u]]
        PROVE  TypeOK'
    <3>1. PICK k : k = [call[c] EXCEPT !.pc = "check", !.target = u]
      OBVIOUS
    <3>2. k \in AnyCall
      BY <2>1, <3>1 DEF AnyCall, InviteCall
    <3>3. call' = [call EXCEPT ![c] = k]
      BY <2>3, <3>1
    <3>4. QED
      BY <1>6, <3>2, <3>3, MoveType DEF FindInvitee
  <2>4. QED
    BY <1>6, <2>2, <2>3 DEF FindInvitee, HoldersOf
<1>7. ASSUME NEW c \in Calls, CheckInvitee(c) PROVE TypeOK'
  <2>1. call[c] \in InviteCall
    BY <1>7, CallTypes DEF CheckInvitee
  <2>2. QED
    BY <1>7, <2>1, ProceedType DEF CheckInvitee
<1>8. ASSUME NEW c \in Calls, WriteRole(c) PROVE TypeOK'
  <2>1. call[c] \in RoleCall
    BY <1>8, CallTypes DEF WriteRole
  <2>2. role' \in [Users -> Roles \cup {"none"}]
    BY <1>8, <2>1 DEF WriteRole, TypeOK, RoleCall
  <2>3. call' \in [Calls -> AnyCall] /\ raced' \in BOOLEAN
    BY <1>8, <2>1, WriteType DEF WriteRole, RoleCall
  <2>4. QED
    BY <1>8, <2>2, <2>3 DEF WriteRole, TypeOK, AnyCall
<1>9. ASSUME NEW c \in Calls, WriteInvitation(c) PROVE TypeOK'
  <2>1. call[c] \in InviteCall
    BY <1>9, CallTypes DEF WriteInvitation
  <2>2. [role |-> call[c].new, live |-> TRUE, taken |-> FALSE] \in Invitation
    BY <2>1 DEF InviteCall, Invitation
  <2>3. invitation' \in [Addresses -> Invitation \cup {NoInvitation}]
    BY <1>9, <2>2 DEF WriteInvitation, TypeOK
  <2>4. call' \in [Calls -> AnyCall] /\ raced' \in BOOLEAN
    BY <1>9, <2>1, WriteType DEF WriteInvitation, InviteCall
  <2>5. QED
    BY <1>9, <2>3, <2>4 DEF WriteInvitation, TypeOK, AnyCall
<1>10. ASSUME NEW c \in Calls, AcceptInvitation(c) PROVE TypeOK'
  <2> DEFINE u == call[c].target
             a == call[c].email
  <2>1. call[c] \in AcceptCall /\ u \in Users /\ a \in Addresses /\ Idle \in AnyCall
    BY <1>10, CallTypes DEF AcceptInvitation, AcceptCall, AnyCall
  <2>2. CASE invitation[a].live /\ role[u] = "none"
    <3>1. invitation[a] \in Invitation
      BY <2>1, <2>2 DEF TypeOK, NoInvitation
    <3>2. role' \in [Users -> Roles \cup {"none"}]
      BY <1>10, <2>1, <2>2, <3>1 DEF AcceptInvitation, TypeOK, Invitation, Invitable, Roles
    <3>3. invitation' \in [Addresses -> Invitation \cup {NoInvitation}]
      BY <1>10, <2>1, <2>2 DEF AcceptInvitation, Spent, TypeOK
    <3>4. call' = [d \in Calls |-> IF HasTokenFor(d, a) THEN Idle
                                  ELSE Outdated(d, "role")]
      BY <1>10, <2>2 DEF AcceptInvitation
    <3>5. \A d \in Calls : Outdated(d, "role") \in AnyCall
      BY OutdatedCall
    <3> HIDE DEF a
    <3>6. call' \in [Calls -> AnyCall]
      BY <2>1, <3>4, <3>5
    <3>7. raced' \in BOOLEAN
      BY <1>10, <2>1, <2>2 DEF AcceptInvitation, TypeOK, AcceptCall, a
    <3>8. QED
      BY <1>10, <3>2, <3>3, <3>6, <3>7 DEF AcceptInvitation, TypeOK, AnyCall
  <2>3. CASE ~(invitation[a].live /\ role[u] = "none")
    BY <1>10, <2>1, <2>3, MoveType DEF AcceptInvitation
  <2>4. QED
    BY <2>2, <2>3
<1>11. ASSUME NEW a \in Addresses, RevokeInvitation(a) PROVE TypeOK'
  BY <1>11 DEF RevokeInvitation, TypeOK
<1>12. ASSUME NEW a \in Addresses, InvitationExpires(a) PROVE TypeOK'
  <2>1. invitation[a] \in Invitation
    BY <1>12 DEF InvitationExpires, TypeOK, NoInvitation
  <2>2. [invitation[a] EXCEPT !.live = FALSE] \in Invitation
    BY <2>1 DEF Invitation
  <2>3. QED
    BY <1>12, <2>2 DEF InvitationExpires, TypeOK
<1>13. ASSUME NEW u \in Users, NEW a \in Addresses, ChangeEmail(u, a) PROVE TypeOK'
  <2>1. invitation' \in [Addresses -> Invitation \cup {NoInvitation}]
    <3>1. CASE invitation[a] # NoInvitation
      <4>1. [invitation[a] EXCEPT !.taken = TRUE] \in Invitation
        BY <3>1 DEF TypeOK, Invitation
      <4>2. QED
        BY <1>13, <4>1 DEF ChangeEmail, TypeOK
    <3>2. CASE invitation[a] = NoInvitation
      BY <1>13, <3>2 DEF ChangeEmail, TypeOK
    <3>3. QED
      BY <3>1, <3>2
  <2>2. call' \in [Calls -> AnyCall]
    BY <1>13, OutdatedCall DEF ChangeEmail
  <2>3. QED
    BY <1>13, <2>1, <2>2 DEF ChangeEmail, TypeOK, AnyCall
<1>14. ASSUME NEW c \in Calls, AbandonCall(c) PROVE TypeOK'
  BY <1>14, MoveType DEF AbandonCall, AnyCall
<1>15. CASE UNCHANGED vars
  BY <1>15 DEF vars, TypeOK
<1>16. QED
  BY <1>1, <1>2, <1>3, <1>4, <1>5, <1>6, <1>7, <1>8, <1>9, <1>10, <1>11, <1>12,
     <1>13, <1>14, <1>15 DEF Next

LEMMA TypeInit == Init => TypeOK
  BY DEF Init, TypeOK, Roles

\* Roles, addresses, invitations and calls keep their types, and no invitation
\* names an owner: nobody becomes one by accepting.
THEOREM TypeCorrect == Spec => []TypeOK
  BY TypeInit, TypeStep, PTL DEF Spec

-----------------------------------------------------------------------------
(* Safety. *)

\* A write that outdates the call, or one that touches nothing it has read.
LEMMA Overtaken ==
  ASSUME TypeOK, NEW d \in Calls, NEW what \in {"role", "address"},
         call'[d] = Outdated(d, what), what = "address" => UNCHANGED role, Fresh(d)
  PROVE  Fresh(d)'
<1>1. CASE HasRead(d) /\ (what = "role" \/ ReadsAddress(d))
  <2>1. call[d] \in RoleCall \cup InviteCall \cup AcceptCall
    BY <1>1 DEF HasRead, TypeOK, Idle
  <2>2. call'[d].dirty
    BY <1>1, <2>1 DEF Outdated, RoleCall, InviteCall, AcceptCall
  <2>3. QED
    BY <2>2 DEF Fresh
<1>2. CASE HasRead(d) /\ what = "address" /\ ~ReadsAddress(d)
  <2>1. call'[d] = call[d] /\ call[d].op \notin {"invite", "accept"}
    BY <1>2 DEF Outdated, ReadsAddress
  <2>2. QED
    BY <1>2, <2>1 DEF Fresh, HasRead, Owners
<1>3. CASE ~HasRead(d)
  <2>1. call'[d] = call[d]
    BY <1>3 DEF Outdated
  <2>2. QED
    BY <1>3, <2>1 DEF Fresh, HasRead
<1>4. QED
  BY <1>1, <1>2, <1>3

\* A call that has not read yet, or is over.
LEMMA NotReadYet ==
  ASSUME NEW d, ~HasRead(d)' PROVE Fresh(d)'
  BY DEF Fresh

LEMMA CallOver ==
  ASSUME NEW d, call'[d] = Idle PROVE Fresh(d)'
  BY DEF Fresh, HasRead, Idle

LEMMA Untouched ==
  ASSUME NEW d, Fresh(d), call'[d] = call[d], UNCHANGED <<role, address>>
  PROVE  Fresh(d)'
  BY DEF Fresh, HasRead, Owners, HoldersOf

\* One call moves on, and may be fresh where it arrives.
LEMMA CallMoves ==
  ASSUME MInv, NEW c \in Calls, NEW k, call' = [call EXCEPT ![c] = k], Fresh(c)',
         TypeOK', UNCHANGED <<role, address, invitation, raced>>
  PROVE  MInv'
<1>1. \A d \in Calls \ {c} : call'[d] = call[d]
  BY DEF MInv, TypeOK
<1>2. \A d \in Calls : Fresh(d)'
  BY <1>1, Untouched DEF MInv
<1>3. QED
  BY <1>2 DEF MInv, OneHolder, OwnerLossCostsRace, InvitedIsStranger, Owners

\* What WriteRole does, if nothing overtook its call.
LEMMA RoleWritten ==
  ASSUME MInv, NEW c \in Calls, WriteRole(c), ~call[c].dirty
  PROVE  /\ OwnerLossCostsRace'
         /\ call[c].actor = "admin"
              => \A u \in Users : role'[u] # role[u]
                                    => role[u] = "member" /\ role'[u] \notin Managers
<1> DEFINE t == call[c].target
<1>1. t \in Users /\ call[c].pc = "write" /\ call[c].op \in RoleOps /\ Fresh(c) /\ HasRead(c)
  BY CallTypes DEF WriteRole, MInv, HasRead, RoleCall
<1>2. role' = IF role[t] = "none" THEN role ELSE [role EXCEPT ![t] = call[c].new]
  BY DEF WriteRole
<1>3. role \in [Users -> Roles \cup {"none"}]
  BY DEF MInv, TypeOK
<1> HIDE DEF t
<1>4. \A u \in Users : role'[u] # role[u] => u = t /\ role'[u] = call[c].new
  BY <1>1, <1>2, <1>3
<1>5. ASSUME ~raced' PROVE Owners' # {}
  <2>1. PICK o \in Owners : TRUE
    BY <1>5 DEF WriteRole, FinishWrite, MInv, OwnerLossCostsRace
  <2>2. CASE LosesOwner(role[t], call[c].new)
    <3>1. PICK u \in Owners : u # t
      BY <1>1, <2>2 DEF Fresh, t
    <3>2. u \in Owners'
      BY <1>4, <3>1 DEF Owners
    <3>3. QED
      BY <3>2
  <2>3. CASE ~LosesOwner(role[t], call[c].new)
    <3>1. o \in Owners'
      BY <1>1, <1>2, <1>3, <1>4, <2>1, <2>3 DEF Owners, LosesOwner
    <3>2. QED
      BY <3>1
  <2>4. QED
    BY <2>2, <2>3
<1>6. ASSUME call[c].actor = "admin", NEW u \in Users, role'[u] # role[u]
      PROVE  role[u] = "member" /\ role'[u] \notin Managers
  BY <1>1, <1>4, <1>6 DEF Fresh, t
<1>7. QED
  BY <1>5, <1>6 DEF OwnerLossCostsRace

\* The calls that read.
LEMMA ReadStep ==
  ASSUME MInv, TypeOK', NEW c \in Calls,
         CheckTarget(c) \/ CountOwners(c) \/ FindInvitee(c) \/ CheckInvitee(c)
  PROVE  MInv'
<1>t. TypeOK
  BY DEF MInv
<1>1. CASE call'[c] = Idle /\ call' = [call EXCEPT ![c] = Idle]
  BY <1>1, CallOver, CallMoves DEF CheckTarget, CountOwners, FindInvitee, CheckInvitee
<1>2. CASE CheckTarget(c)
  <2> DEFINE k == call[c]
             pc == AfterCheck(k.actor, role[k.target], k.new)
             next == IF pc = "refused" THEN Idle ELSE [k EXCEPT !.pc = pc]
  <2>1. k \in RoleCall /\ role[k.target] \in Roles \cup {"none"}
    BY <1>2, <1>t, CallTypes DEF CheckTarget, TypeOK, RoleCall
  <2>2. call' = [call EXCEPT ![c] = next] /\ call'[c] = next /\ UNCHANGED role
    BY <1>2, <1>t DEF CheckTarget, Proceed, TypeOK
  <2>3. CASE pc = "refused"
    BY <1>1, <2>2, <2>3
  <2>4. CASE pc # "refused"
    <3>1. /\ pc \in {"count", "write"}
          /\ k.actor = "admin" => role[k.target] = "member" /\ k.new \notin Managers
          /\ pc = "write" => ~LosesOwner(role[k.target], k.new)
      BY <2>1, <2>4, CheckOutcome DEF RoleCall
    <3>2. /\ next.pc = pc /\ next.op = k.op /\ next.target = k.target
          /\ next.actor = k.actor /\ next.new = k.new /\ k.op \in RoleOps
      BY <2>1, <2>4 DEF RoleCall
    <3> HIDE DEF next, pc
    <3>3. Fresh(c)'
      BY <2>2, <3>1, <3>2 DEF Fresh, RoleOps
    <3>4. QED
      BY <1>2, <2>2, <3>3, CallMoves DEF CheckTarget
  <2>5. QED
    BY <2>3, <2>4
<1>3. CASE CountOwners(c)
  <2> DEFINE k == call[c]
             next == IF EnoughOwners THEN [k EXCEPT !.pc = "write"] ELSE Idle
  <2>1. k \in RoleCall /\ k.pc = "count" /\ HasRead(c) /\ Fresh(c)
    BY <1>3, <1>t, CallTypes DEF CountOwners, HasRead, MInv
  <2>2. call' = [call EXCEPT ![c] = next] /\ call'[c] = next /\ UNCHANGED role
    BY <1>3, <1>t DEF CountOwners, Proceed, TypeOK
  <2>3. CASE ~EnoughOwners
    BY <1>1, <2>2, <2>3
  <2>4. CASE EnoughOwners
    <3>1. \E u \in Owners : u # k.target
      BY <2>4, AnotherOwner
    <3>2. /\ next.pc = "write" /\ next.op = k.op /\ next.target = k.target
          /\ next.actor = k.actor /\ next.new = k.new /\ next.dirty = k.dirty
          /\ k.op \in RoleOps
      BY <2>1, <2>4 DEF RoleCall
    <3> HIDE DEF next
    <3>3. Fresh(c)'
      BY <2>1, <2>2, <3>1, <3>2 DEF Fresh, Owners, RoleOps
    <3>4. QED
      BY <1>3, <2>2, <3>3, CallMoves DEF CountOwners
  <2>5. QED
    BY <2>3, <2>4
<1>4. CASE FindInvitee(c)
  <2>1. call[c] \in InviteCall
    BY <1>4, <1>t, CallTypes DEF FindInvitee
  <2>2. CASE HoldersOf(call[c].email) = {} /\ Proceed(c, "write")
    <3>1. PICK k : k = [call[c] EXCEPT !.pc = "write"]
      OBVIOUS
    <3>2. call' = [call EXCEPT ![c] = k] /\ call'[c] = k
      BY <1>t, <2>2, <3>1 DEF Proceed, TypeOK
    <3>3. k.op = "invite" /\ k.pc = "write" /\ k.email = call[c].email
      BY <2>1, <3>1 DEF InviteCall
    <3>4. Fresh(c)'
      BY <1>4, <2>2, <3>2, <3>3 DEF Fresh, FindInvitee, HoldersOf, RoleOps
    <3>5. QED
      BY <1>4, <3>2, <3>4, CallMoves DEF FindInvitee
  <2>3. ASSUME NEW u \in HoldersOf(call[c].email),
               call' = [call EXCEPT ![c] = [@ EXCEPT !.pc = "check", !.target = u]]
        PROVE  MInv'
    <3>1. PICK k : k = [call[c] EXCEPT !.pc = "check", !.target = u]
      OBVIOUS
    <3>2. call' = [call EXCEPT ![c] = k] /\ call'[c] = k
      BY <1>t, <2>3, <3>1 DEF TypeOK
    <3>3. k.op = "invite" /\ k.pc = "check" /\ k.email = call[c].email /\ k.target = u
      BY <2>1, <3>1 DEF InviteCall
    <3>4. Fresh(c)'
      BY <1>4, <3>2, <3>3 DEF Fresh, FindInvitee, HoldersOf, RoleOps
    <3>5. QED
      BY <1>4, <3>2, <3>4, CallMoves DEF FindInvitee
  <2>4. QED
    BY <1>4, <2>2, <2>3 DEF FindInvitee
<1>5. CASE CheckInvitee(c)
  <2>1. call[c] \in InviteCall /\ call[c].pc = "check" /\ HasRead(c) /\ Fresh(c)
    BY <1>5, <1>t, CallTypes DEF CheckInvitee, HasRead, MInv
  <2>2. CASE role[call[c].target] = "none"
    <3>1. PICK k : k = [call[c] EXCEPT !.pc = "write"]
      OBVIOUS
    <3>2. call' = [call EXCEPT ![c] = k] /\ call'[c] = k
      BY <1>5, <1>t, <2>2, <3>1 DEF CheckInvitee, Proceed, TypeOK
    <3>3. /\ k.op = "invite" /\ k.pc = "write" /\ k.email = call[c].email
          /\ k.dirty = call[c].dirty
      BY <2>1, <3>1 DEF InviteCall
    <3>4. ~call[c].dirty => \A u \in HoldersOf(call[c].email) : u = call[c].target
      BY <1>5, <2>1 DEF Fresh, HoldersOf, MInv, OneHolder, CheckInvitee
    <3>5. Fresh(c)'
      BY <1>5, <2>2, <3>2, <3>3, <3>4 DEF Fresh, CheckInvitee, HoldersOf, RoleOps
    <3>6. QED
      BY <1>5, <3>2, <3>5, CallMoves DEF CheckInvitee
  <2>3. CASE role[call[c].target] # "none"
    BY <1>1, <1>5, <1>t, <2>3 DEF CheckInvitee, Proceed, TypeOK
  <2>4. QED
    BY <2>2, <2>3
<1>6. QED
  BY <1>2, <1>3, <1>4, <1>5

LEMMA SafetyStep == MInv /\ [Next]_vars => MInv'
<1> SUFFICES ASSUME MInv, [Next]_vars PROVE MInv'
  OBVIOUS
<1>t. TypeOK /\ TypeOK'
  BY TypeStep DEF MInv
<1>1. ASSUME NEW c \in Calls, AskRoleChange(c) \/ AskInvitation(c) PROVE MInv'
  <2>1. PICK k : call' = [call EXCEPT ![c] = k] /\ k.pc \in {"check", "find"}
                 /\ (k.op = "invite" => k.pc = "find")
    <3> DEFINE Unread(k) == call' = [call EXCEPT ![c] = k] /\ k.pc \in {"check", "find"}
                            /\ (k.op = "invite" => k.pc = "find")
    <3>1. CASE AskInvitation(c)
      <4>1. PICK a \in Addresses, new \in InvitedRoles :
              Unread([op |-> "invite", pc |-> "find", actor |-> "none",
                      target |-> NoUser, email |-> a, new |-> new, dirty |-> FALSE])
        BY <3>1 DEF AskInvitation
      <4>2. QED
        BY <4>1
    <3>2. CASE AskRoleChange(c)
      <4>1. PICK u \in Users, t \in Users, op \in RoleOps :
              \E new \in (IF op = "update" THEN Roles ELSE {"none"}) :
                call' = [call EXCEPT ![c] =
                  [op |-> op, pc |-> "check", actor |-> role[u], target |-> t,
                   email |-> NoAddress, new |-> new, dirty |-> FALSE]]
        BY <3>2 DEF AskRoleChange
      <4>2. PICK new \in (IF op = "update" THEN Roles ELSE {"none"}) :
              call' = [call EXCEPT ![c] =
                [op |-> op, pc |-> "check", actor |-> role[u], target |-> t,
                 email |-> NoAddress, new |-> new, dirty |-> FALSE]]
        BY <4>1
      <4>3. op # "invite"
        BY DEF RoleOps
      <4>4. Unread([op |-> op, pc |-> "check", actor |-> role[u], target |-> t,
                    email |-> NoAddress, new |-> new, dirty |-> FALSE])
        BY <4>2, <4>3
      <4>5. QED
        BY <4>4
    <3>3. QED
      BY <1>1, <3>1, <3>2
  <2>2. Fresh(c)'
    BY <1>t, <2>1, NotReadYet DEF TypeOK, HasRead
  <2>3. QED
    BY <1>1, <1>t, <2>1, <2>2, CallMoves DEF AskRoleChange, AskInvitation
<1>2. ASSUME NEW c \in Calls, PresentToken(c) PROVE MInv'
  <2>1. PICK u \in Users :
          call' = [call EXCEPT ![c] =
                     [op |-> "accept", pc |-> "write", actor |-> "none", target |-> u,
                      email |-> address[u], new |-> "none", dirty |-> FALSE]]
    BY <1>2 DEF PresentToken
  <2>2. PICK k : k = [op |-> "accept", pc |-> "write", actor |-> "none", target |-> u,
                      email |-> address[u], new |-> "none", dirty |-> FALSE]
    OBVIOUS
  <2>3. call'[c] = k /\ k.op = "accept" /\ k.target = u /\ k.email = address[u]
    BY <1>t, <2>1, <2>2 DEF TypeOK
  <2>4. Fresh(c)'
    BY <1>2, <2>3 DEF Fresh, PresentToken, RoleOps
  <2>5. QED
    BY <1>2, <1>t, <2>1, <2>4, CallMoves DEF PresentToken
<1>3. ASSUME NEW c \in Calls,
             CheckTarget(c) \/ CountOwners(c) \/ FindInvitee(c) \/ CheckInvitee(c)
      PROVE  MInv'
  BY <1>3, <1>t, ReadStep
<1>4. ASSUME NEW c \in Calls, WriteRole(c) PROVE MInv'
  <2>1. FinishWrite(c, "role") /\ call[c] \in RoleCall
    BY <1>4, <1>t, CallTypes DEF WriteRole
  <2>2. ASSUME NEW d \in Calls PROVE Fresh(d)'
    <3>1. CASE d = c
      BY <2>1, <3>1, CallOver DEF FinishWrite
    <3>2. CASE d # c
      <4>1. call'[d] = Outdated(d, "role") /\ Fresh(d)
        BY <2>1, <3>2 DEF FinishWrite, MInv
      <4>2. QED
        BY <1>t, <4>1, Overtaken
    <3>3. QED
      BY <3>1, <3>2
  <2>3. OwnerLossCostsRace'
    BY <1>4, <2>1, RoleWritten DEF FinishWrite, OwnerLossCostsRace, RoleCall
  <2>4. \A u \in Users : role[u] = "none" => role'[u] = "none"
    BY <1>4, <1>t DEF WriteRole, TypeOK
  <2>5. InvitedIsStranger'
    BY <1>4, <2>1, <2>4 DEF WriteRole, FinishWrite, MInv, InvitedIsStranger
  <2>6. QED
    BY <1>4, <1>t, <2>2, <2>3, <2>5 DEF MInv, OneHolder, WriteRole
<1>5. ASSUME NEW c \in Calls, WriteInvitation(c) PROVE MInv'
  <2> DEFINE a == call[c].email
  <2>1. FinishQuietly(c) /\ call[c] \in InviteCall /\ a \in Addresses
        /\ UNCHANGED <<role, address>>
    BY <1>5, <1>t, CallTypes DEF WriteInvitation, InviteCall
  <2>2. ASSUME NEW d \in Calls PROVE Fresh(d)'
    <3>1. CASE d = c
      BY <1>t, <2>1, <3>1, CallOver DEF FinishQuietly, TypeOK
    <3>2. CASE d # c
      BY <1>t, <2>1, <3>2, Untouched DEF FinishQuietly, TypeOK, MInv
    <3>3. QED
      BY <3>1, <3>2
  <2>3. ASSUME ~raced' PROVE ~raced /\ \A u \in HoldersOf(a) : role[u] = "none"
    BY <1>5, <2>1, <2>3 DEF WriteInvitation, FinishQuietly, MInv, Fresh, HasRead, InviteCall
  <2>4. \A b \in Addresses : b # a => invitation'[b] = invitation[b]
    BY <1>5, <1>t, <2>1 DEF WriteInvitation, TypeOK
  <2>5. address \in [Users -> Addresses]
    BY <1>t DEF TypeOK
  <2>6. ASSUME ~raced', NEW u \in Users, role'[u] # "none",
               invitation'[address'[u]] # NoInvitation
        PROVE  invitation'[address'[u]].taken
    <3>1. address[u] # a
      BY <2>1, <2>3, <2>6 DEF HoldersOf
    <3>2. invitation'[address[u]] = invitation[address[u]]
      BY <2>4, <2>5, <3>1
    <3>3. QED
      BY <2>1, <2>3, <2>6, <3>2 DEF MInv, InvitedIsStranger
  <2>7. InvitedIsStranger'
    BY <2>6 DEF InvitedIsStranger
  <2>8. OwnerLossCostsRace' /\ OneHolder'
    BY <2>1, <2>3 DEF MInv, OneHolder, OwnerLossCostsRace, Owners
  <2>9. QED
    BY <1>t, <2>2, <2>7, <2>8 DEF MInv
<1>6. ASSUME NEW c \in Calls, AcceptInvitation(c) PROVE MInv'
  <2> DEFINE u == call[c].target
             a == call[c].email
  <2>1. call[c] \in AcceptCall /\ u \in Users /\ a \in Addresses /\ HasRead(c) /\ Fresh(c)
    BY <1>6, <1>t, CallTypes DEF AcceptInvitation, AcceptCall, HasRead, MInv
  <2>2. CASE invitation[a].live /\ role[u] = "none"
    <3>1. /\ call' = [d \in Calls |-> IF HasTokenFor(d, a) THEN Idle
                                      ELSE Outdated(d, "role")]
          /\ raced' = (raced \/ call[c].dirty)
          /\ UNCHANGED address
      BY <1>6, <2>2 DEF AcceptInvitation
    <3>2. /\ \A v \in Users : v # u => role'[v] = role[v]
          /\ \A b \in Addresses : b # a => invitation'[b] = invitation[b]
          /\ invitation'[a] = NoInvitation
      BY <1>6, <1>t, <2>1, <2>2 DEF AcceptInvitation, Spent, TypeOK
    <3>3. ASSUME NEW d \in Calls PROVE Fresh(d)'
      <4>1. CASE call'[d] = Idle
        BY <4>1, CallOver
      <4>2. CASE call'[d] = Outdated(d, "role")
        BY <1>t, <4>2, Overtaken DEF MInv
      <4>3. QED
        BY <3>1, <4>1, <4>2
    <3>4. InvitedIsStranger'
      <4>1. address \in [Users -> Addresses]
        BY <1>t DEF TypeOK
      <4>2. ASSUME ~raced', NEW v \in Users, role'[v] # "none",
                   invitation'[address'[v]] # NoInvitation
            PROVE  invitation'[address'[v]].taken
        <5>1. address[u] = a
          BY <1>6, <2>1, <3>1, <4>2 DEF Fresh, AcceptInvitation, AcceptCall
        <5>2. v # u /\ address[v] # a
          BY <2>1, <3>1, <3>2, <4>2, <5>1
        <5>3. role[v] = role'[v] /\ invitation'[address[v]] = invitation[address[v]]
          BY <3>2, <4>1, <5>2
        <5>4. QED
          BY <2>1, <3>1, <4>2, <5>3 DEF MInv, InvitedIsStranger, AcceptCall
      <4>3. QED
        BY <4>2 DEF InvitedIsStranger
    <3>5. Owners \subseteq Owners'
      BY <2>2, <3>2 DEF Owners
    <3>6. OwnerLossCostsRace'
      BY <3>1, <3>5 DEF MInv, OwnerLossCostsRace
    <3>7. QED
      BY <1>t, <3>1, <3>3, <3>4, <3>6 DEF MInv, OneHolder
  <2>3. CASE ~(invitation[a].live /\ role[u] = "none")
    <3>1. call' = [call EXCEPT ![c] = Idle]
      BY <1>6, <2>3 DEF AcceptInvitation
    <3>2. Fresh(c)'
      BY <1>t, <3>1, CallOver DEF TypeOK
    <3>3. QED
      BY <1>6, <1>t, <2>3, <3>1, <3>2, CallMoves DEF AcceptInvitation
  <2>4. QED
    BY <2>2, <2>3
<1>7. ASSUME NEW a \in Addresses, RevokeInvitation(a) PROVE MInv'
  <2>1. ASSUME NEW d \in Calls PROVE Fresh(d)'
    <3>1. call'[d] = Idle \/ call'[d] = call[d]
      BY <1>7 DEF RevokeInvitation
    <3>2. QED
      BY <1>7, <3>1, CallOver, Untouched DEF RevokeInvitation, MInv
  <2>2. InvitedIsStranger' /\ OwnerLossCostsRace' /\ OneHolder'
    BY <1>7, <1>t
       DEF RevokeInvitation, MInv, InvitedIsStranger, OwnerLossCostsRace, OneHolder,
           Owners, TypeOK
  <2>3. QED
    BY <1>t, <2>1, <2>2 DEF MInv
<1>8. ASSUME NEW a \in Addresses, InvitationExpires(a) PROVE MInv'
  <2>1. \A b \in Addresses :
          invitation'[b] # NoInvitation
            => invitation[b] # NoInvitation /\ invitation'[b].taken = invitation[b].taken
    <3>1. invitation[a] \in Invitation
      BY <1>8, <1>t DEF InvitationExpires, TypeOK, NoInvitation
    <3>2. invitation[a] # NoInvitation
      BY <3>1 DEF Invitation, NoInvitation, Invitable
    <3>3. invitation'[a].taken = invitation[a].taken
      BY <1>8, <1>t, <3>1 DEF InvitationExpires, TypeOK, Invitation
    <3>4. \A b \in Addresses \ {a} : invitation'[b] = invitation[b]
      BY <1>8, <1>t DEF InvitationExpires, TypeOK
    <3>5. QED
      BY <3>2, <3>3, <3>4
  <2>2. \A d \in Calls : Fresh(d)'
    BY <1>8, Untouched DEF InvitationExpires, MInv
  <2>3. QED
    BY <1>8, <1>t, <2>1, <2>2
       DEF InvitationExpires, MInv, InvitedIsStranger, OwnerLossCostsRace, OneHolder,
           Owners, TypeOK
<1>9. ASSUME NEW u \in Users, NEW a \in Addresses, ChangeEmail(u, a) PROVE MInv'
  <2>1. /\ UNCHANGED <<role, raced>>
        /\ address'[u] = a
        /\ \A v \in Users : v # u => address'[v] = address[v]
        /\ \A v \in Users : address[v] # a /\ address[v] \in Addresses
    BY <1>9, <1>t DEF ChangeEmail, TypeOK, HoldersOf
  <2>2. /\ \A b \in Addresses : b # a => invitation'[b] = invitation[b]
        /\ invitation[a] = NoInvitation => invitation'[a] = NoInvitation
        /\ role[u] # "none" /\ invitation[a] # NoInvitation => invitation'[a].taken
    <3>1. \A b \in Addresses : b # a => invitation'[b] = invitation[b]
      BY <1>9, <1>t DEF ChangeEmail, TypeOK
    <3>2. invitation[a] = NoInvitation => invitation'[a] = NoInvitation
      BY <1>9, <1>t DEF ChangeEmail, TypeOK
    <3>3. ASSUME role[u] # "none", invitation[a] # NoInvitation PROVE invitation'[a].taken
      <4>1. invitation[a] \in Invitation
        BY <1>t, <3>3 DEF TypeOK
      <4>2. invitation'[a] = [invitation[a] EXCEPT !.taken = TRUE]
        BY <1>9, <1>t, <3>3 DEF ChangeEmail, TypeOK
      <4>3. QED
        BY <4>1, <4>2 DEF Invitation
    <3>4. QED
      BY <3>1, <3>2, <3>3
  <2>3. ASSUME NEW d \in Calls PROVE Fresh(d)'
    <3>1. call'[d] = Outdated(d, "address") /\ Fresh(d)
      BY <1>9 DEF ChangeEmail, MInv
    <3>2. QED
      BY <1>t, <2>1, <3>1, Overtaken
  <2>4. OneHolder'
    BY <2>1 DEF MInv, OneHolder
  <2>5. ASSUME ~raced', NEW v \in Users, role'[v] # "none",
               invitation'[address'[v]] # NoInvitation
        PROVE  invitation'[address'[v]].taken
    <3>1. CASE v = u
      BY <2>1, <2>2, <2>5, <3>1
    <3>2. CASE v # u
      BY <2>1, <2>2, <2>5, <3>2 DEF MInv, InvitedIsStranger
    <3>3. QED
      BY <3>1, <3>2
  <2>6. QED
    BY <1>t, <2>1, <2>3, <2>4, <2>5 DEF MInv, InvitedIsStranger, OwnerLossCostsRace, Owners
<1>10. ASSUME NEW c \in Calls, AbandonCall(c) PROVE MInv'
  <2>1. Fresh(c)'
    BY <1>10, <1>t, CallOver DEF AbandonCall, TypeOK
  <2>2. QED
    BY <1>10, <1>t, <2>1, CallMoves DEF AbandonCall
<1>11. CASE UNCHANGED vars
  <2>1. \A d \in Calls : Fresh(d)'
    BY <1>11, Untouched DEF vars, MInv
  <2>2. QED
    BY <1>11, <1>t, <2>1
       DEF vars, MInv, OneHolder, InvitedIsStranger, OwnerLossCostsRace, Owners
<1>12. QED
  BY <1>1, <1>2, <1>3, <1>4, <1>5, <1>6, <1>7, <1>8, <1>9, <1>10, <1>11 DEF Next

LEMMA SafetyInit == Init => MInv
<1> SUFFICES ASSUME Init PROVE MInv
  OBVIOUS
<1>1. OwnerLossCostsRace
  BY DEF Init, OwnerLossCostsRace, Owners
<1>2. \A c \in Calls : Fresh(c)
  BY DEF Init, Fresh, HasRead, Idle
<1>3. InvitedIsStranger
  BY DEF Init, InvitedIsStranger
<1>4. QED
  BY <1>1, <1>2, <1>3, TypeInit DEF Init, MInv, OneHolder

\* With any number of concurrent role changes and removals a tenant loses its
\* last owner only after a call wrote on what another write had outdated
\* (update_member_role and remove_member count the owners in a statement of
\* their own).
THEOREM OwnersLostByRace == Spec => []OwnerLossCostsRace
<1>1. MInv => OwnerLossCostsRace
  BY DEF MInv
<1>2. QED
  BY <1>1, SafetyInit, SafetyStep, PTL DEF Spec

\* With any number of concurrent invitations, acceptances and changes of
\* address a member's address has a pending invitation only after a call wrote
\* on what another write had outdated, or after a member moved to the address
\* while it was invited (create_invitation looks for the member before it
\* inserts, change_email does not look for the invitation).
THEOREM InviteesAreStrangers == Spec => []InvitedIsStranger
<1>1. MInv => InvitedIsStranger
  BY DEF MInv
<1>2. QED
  BY <1>1, SafetyInit, SafetyStep, PTL DEF Spec

\* An admin's call that nothing overtook changes only plain members' roles,
\* and makes nobody an owner or admin.
THEOREM AdminsReach == Spec => AdminsManageMembersOnly
<1> DEFINE A == \A c \in Calls : \A u \in Users :
                  (/\ WriteRole(c) /\ ~call[c].dirty /\ call[c].actor = "admin"
                   /\ role'[u] # role[u])
                    => role[u] = "member" /\ role'[u] \notin Managers
<1>1. MInv => A
  BY RoleWritten
<1>2. QED
  BY <1>1, SafetyInit, SafetyStep, PTL DEF Spec, AdminsManageMembersOnly
=============================================================================
