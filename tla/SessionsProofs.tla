--------------------------- MODULE SessionsProofs ---------------------------
(***************************************************************************)
(* Proofs about how users prove who they are, for any number of tenants,   *)
(* users, addresses, identities, tokens, calls and revocations: Sessions   *)
(* first, then Accounts, then both as UserAccess runs them.                *)
(*                                                                         *)
(* Sessions.  A call writes on what it has read, and a revocation changes  *)
(* the rows it has seen.  The invariant says what both may rely on in      *)
(* between: CallShape, what a call holds at each of its statements;        *)
(* CallsTell and WhileRevoking, that a call whose proof is older than a    *)
(* revocation knows it and that a row no revocation has seen comes from    *)
(* such a call; WritesOnStale, WhileRemoving and RotationsInherit, the     *)
(* same for a removal from a tenant.                                       *)
(*                                                                         *)
(* Accounts.  A call marks the user it has read, whatever the address is   *)
(* by then.  CallsBacked: such a user's address was proven.  CallsCurrent  *)
(* and TokensCurrent: a usable link was sent to the address its user has,  *)
(* or a call that is to replace it knows the new one; each up to the       *)
(* overtaken.                                                              *)
(***************************************************************************)
EXTENDS UserAccess, TLAPS

Issuing(c) == call[c].op \in {"issue", "rotate"}
Known(r) == token[r] # Unissued

CallShape ==
  \A c \in Calls :
    /\ call[c].pc \in {"resolve", "write"} <=> Issuing(c)
    /\ call[c].pc = "write" \/ call[c].op = "remove" => call[c].tenant \in Tenants
    /\ call[c].op = "rotate" => call[c].used \in Tokens /\ Known(call[c].used)
    /\ call[c].op = "remove" => call[c].used = NoToken
    /\ call[c].pc = "deny" => call[c].op = "revoke" /\ call[c].used \in Tokens

RootsKnown == \A r \in Tokens : Known(r) => token[r].root \in Tokens /\ Known(token[r].root)

CallsTell ==
  \A c \in Calls : Issuing(c) /\ call[c].since < revocations => call[c].origin # "proof"

WhileRevoking ==
  \A d \in Calls : call[d].op = "revoke" /\ call[d].pc = "apply" =>
    /\ \A r \in Tokens : Live(r) => r \in call[d].seen \/ token[r].origin # "proof"
    /\ \A c \in Calls : Issuing(c) => call[c].origin # "proof"

WritesOnStale ==
  \A c \in Calls :
    call[c].pc = "write" /\ (call[c].tenant \notin member \/ Leaving(call[c].tenant))
      => call[c].origin = "raced"

WhileRemoving ==
  \A d \in Calls : call[d].op = "remove" /\ call[d].pc = "apply" =>
    \A r \in Tokens : Live(r) /\ token[r].tenant = call[d].tenant
                        => r \in call[d].seen \/ token[r].origin = "raced"

RotationsInherit ==
  \A c \in Calls : call[c].op = "rotate" /\ token[call[c].used].origin = "raced"
                     => call[c].origin = "raced"

Shape == TypeOK /\ CallShape /\ RootsKnown /\ OneSessionPerProof
Revoked == CallsTell /\ WhileRevoking /\ SurvivorsRacedRevocation
Removed == WritesOnStale /\ WhileRemoving /\ RotationsInherit /\ StraySessionsCostFaults

SInv == Shape /\ Revoked /\ Removed

-----------------------------------------------------------------------------
(* Rows and calls.                                                         *)

LEMMA Rows ==
  ASSUME TypeOK, NEW r \in Tokens
  PROVE  /\ Known(r) <=> token[r] \in Issued
         /\ Known(r) => token[r].root \in Tokens /\ token[r].tenant \in Tenants
         /\ Live(r) => Known(r)
         /\ token[r].origin \in Origins /\ token[r].since \in Nat
  BY DEF TypeOK, Known, Live, Issued, Unissued, Origins

LEMMA Shapes ==
  ASSUME TypeOK, NEW c \in Calls
  PROVE  /\ call[c] # Idle <=> call[c] \in Call
         /\ call[c] = Idle => call[c].op = "none" /\ call[c].pc = "idle"
         /\ call[c].pc # "idle" => call[c] # Idle
         /\ call[c].op # "none" => call[c] # Idle
         /\ call[c].origin \in Origins /\ call[c].since \in Nat
  BY DEF TypeOK, Call, Idle, Origins

\* No row appears and none comes back; what a row says of its past stays.
RowFades(r) ==
  /\ token'[r] \in Issued \cup {Unissued}
  /\ token'[r] = Unissued <=> token[r] = Unissued
  /\ token'[r].tenant = token[r].tenant
  /\ token'[r].root = token[r].root
  /\ token'[r].since = token[r].since
  /\ token'[r].origin = token[r].origin
  /\ token'[r].state = "live" => token[r].state = "live"

LeftSame(r) == token'[r].left = token[r].left

Fades == /\ token' \in [Tokens -> Issued \cup {Unissued}]
         /\ \A r \in Tokens : RowFades(r)

NobodyLeft == \A r \in Tokens : LeftSame(r)

LEMMA RowStays ==
  ASSUME TypeOK, NEW r \in Tokens, token'[r] = token[r]
  PROVE  RowFades(r) /\ LeftSame(r)
  BY DEF TypeOK, RowFades, LeftSame

LEMMA RowEnds ==
  ASSUME NEW r \in Tokens, token[r] \in Issued,
         token'[r] = [token[r] EXCEPT !.state = "ended"]
  PROVE  RowFades(r) /\ LeftSame(r) /\ token'[r].state = "ended"
<1>1. token'[r] \in Issued
  BY DEF Issued
<1>2. token'[r] # Unissued /\ token[r] # Unissued
  BY <1>1 DEF Issued, Unissued
<1>3. QED
  BY <1>1, <1>2 DEF Issued, RowFades, LeftSame

LEMMA RowAccess ==
  ASSUME NEW r \in Tokens, token[r] \in Issued,
         NEW a \in {"valid", "denied", "expired"},
         token'[r] = [token[r] EXCEPT !.access = a]
  PROVE  RowFades(r) /\ LeftSame(r)
<1>1. token'[r] \in Issued
  BY DEF Issued
<1>2. token'[r] # Unissued /\ token[r] # Unissued
  BY <1>1 DEF Issued, Unissued
<1>3. QED
  BY <1>1, <1>2 DEF Issued, RowFades, LeftSame

\* A statement that ends rows.
LEMMA Ends ==
  ASSUME TypeOK, NEW rows, token' = Ended(rows)
  PROVE  /\ Fades /\ NobodyLeft
         /\ \A r \in Tokens : token'[r].state = "live" => r \notin rows
<1>1. ASSUME NEW r \in Tokens
      PROVE  /\ RowFades(r) /\ LeftSame(r)
             /\ token'[r].state = "live" => r \notin rows
  <2>1. CASE r \in rows /\ Live(r)
    <3>1. token'[r] = [token[r] EXCEPT !.state = "ended"] /\ token[r] \in Issued
      BY <2>1, Rows DEF Ended
    <3>2. QED
      BY <3>1, RowEnds
  <2>2. CASE ~(r \in rows /\ Live(r))
    <3>1. token'[r] = token[r]
      BY <2>2 DEF Ended
    <3>2. QED
      BY <2>2, <3>1, RowStays DEF Live
  <2>3. QED
    BY <2>1, <2>2
<1>2. token' \in [Tokens -> Issued \cup {Unissued}]
  <2>1. token' = [r \in Tokens |-> token'[r]]
    BY DEF Ended
  <2>2. \A r \in Tokens : token'[r] \in Issued \cup {Unissued}
    BY <1>1 DEF RowFades
  <2>3. QED
    BY <2>1, <2>2
<1>3. QED
  BY <1>1, <1>2 DEF Fades, NobodyLeft

\* Access tokens are refused, expire, or are valid again.
LEMMA Access ==
  ASSUME TypeOK, token' = [r \in Tokens |-> token'[r]],
         \A r \in Tokens :
           \/ token'[r] = token[r]
           \/ \E a \in {"valid", "denied", "expired"} :
                Known(r) /\ token'[r] = [token[r] EXCEPT !.access = a]
  PROVE  Fades /\ NobodyLeft
<1>1. ASSUME NEW r \in Tokens
      PROVE  RowFades(r) /\ LeftSame(r)
  <2>1. CASE token'[r] = token[r]
    BY <2>1, RowStays
  <2>2. ASSUME NEW a \in {"valid", "denied", "expired"}, Known(r),
               token'[r] = [token[r] EXCEPT !.access = a]
        PROVE  RowFades(r) /\ LeftSame(r)
    BY <2>2, Rows, RowAccess
  <2>3. QED
    BY <2>1, <2>2
<1>2. \A r \in Tokens : token'[r] \in Issued \cup {Unissued}
  BY <1>1 DEF RowFades
<1>3. QED
  BY <1>1, <1>2 DEF Fades, NobodyLeft

LEMMA Stays ==
  ASSUME TypeOK, token' = token
  PROVE  Fades /\ NobodyLeft
  BY RowStays DEF TypeOK, Fades, NobodyLeft

LEMMA Moves ==
  ASSUME TypeOK, NEW c \in Calls, NEW s \in Call \cup {Idle},
         call' = [call EXCEPT ![c] = s]
  PROVE  /\ call' \in [Calls -> Call \cup {Idle}]
         /\ call'[c] = s
         /\ \A d \in Calls \ {c} : call'[d] = call[d]
  BY DEF TypeOK

\* The row of the old proof stays the only live one while rows fade.
LEMMA FadingKeepsShape ==
  ASSUME Shape, Fades
  PROVE  RootsKnown' /\ OneSessionPerProof'
  BY DEF Shape, Fades, RowFades, RootsKnown, OneSessionPerProof, Known, Live

-----------------------------------------------------------------------------
(* Steps that give nobody anything: rows fade, calls end, and calls that   *)
(* will revoke begin.  Whoever joins a tenant is such a step.              *)

QuietCall(c) ==
  \/ call'[c] = call[c]
  \/ /\ call'[c] = Idle
     /\ call[c].op = "remove" => call[c].tenant \in halfRemoved'
  \/ /\ call[c] = Idle
     /\ call'[c].op = "revoke" /\ call'[c].pc \in {"select", "deny"}
     /\ call'[c].pc = "deny" => call'[c].used \in Tokens

Quiet ==
  /\ Fades /\ NobodyLeft
  /\ revocations' = revocations
  /\ begun' \in 0..MaxCalls
  /\ member \subseteq member' /\ member' \subseteq Tenants
  /\ halfRemoved \subseteq halfRemoved' /\ halfRemoved' \subseteq Tenants
  /\ call' \in [Calls -> Call \cup {Idle}]
  /\ \A c \in Calls : QuietCall(c)

LEMMA QuietKeeps ==
  ASSUME SInv, Quiet
  PROVE  SInv'
<1>1. TypeOK' /\ RootsKnown' /\ OneSessionPerProof'
  BY FadingKeepsShape DEF SInv, Shape, Quiet, TypeOK, Fades
<1>2. ASSUME NEW c \in Calls
      PROVE  \/ call'[c] = call[c]
             \/ call'[c].op = "none" /\ call'[c].pc = "idle"
             \/ /\ call'[c].op = "revoke" /\ call'[c].pc \in {"select", "deny"}
                /\ call'[c].pc = "deny" => call'[c].used \in Tokens
  BY DEF Quiet, QuietCall, Idle
<1>3. \A r \in Tokens : RowFades(r) /\ LeftSame(r)
  BY DEF Quiet, Fades, NobodyLeft
<1>4. \A c \in Calls : Issuing(c)' => Issuing(c) /\ call'[c] = call[c]
  BY <1>2 DEF Issuing
<1>5. CallShape'
  BY <1>2, <1>3, <1>4 DEF SInv, Shape, CallShape, Issuing, Known, RowFades
<1>6. Revoked'
  <2>1. CallsTell'
    BY <1>4 DEF SInv, Revoked, CallsTell, Quiet
  <2>2. WhileRevoking'
    BY <1>2, <1>3, <1>4 DEF SInv, Revoked, WhileRevoking, RowFades, Live
  <2>3. SurvivorsRacedRevocation'
    BY <1>3 DEF SInv, Revoked, SurvivorsRacedRevocation, RowFades, Live, Quiet
  <2>4. QED
    BY <2>1, <2>2, <2>3 DEF Revoked
<1>7. \A t : Leaving(t)' => Leaving(t)
  BY <1>2 DEF Leaving
<1>8. \A t : Leaving(t) => Leaving(t)' \/ t \in halfRemoved'
  <2> SUFFICES ASSUME NEW t, NEW d \in Calls, call[d].op = "remove", call[d].tenant = t
               PROVE  Leaving(t)' \/ t \in halfRemoved'
    BY DEF Leaving
  <2>1. call'[d] = call[d] \/ t \in halfRemoved'
    BY DEF Quiet, QuietCall, Idle
  <2>2. QED
    BY <2>1 DEF Leaving
<1>9. Removed'
  <2>1. WritesOnStale'
    BY <1>2, <1>7 DEF SInv, Removed, WritesOnStale, Quiet
  <2>2. WhileRemoving'
    BY <1>2, <1>3 DEF SInv, Removed, WhileRemoving, RowFades, Live
  <2>3. RotationsInherit'
    BY <1>2, <1>3 DEF SInv, Shape, CallShape, Removed, RotationsInherit, RowFades
  <2>4. StraySessionsCostFaults'
    BY <1>3, <1>8
       DEF SInv, Removed, StraySessionsCostFaults, RowFades, LeftSame, Live, Quiet
  <2>5. QED
    BY <2>1, <2>2, <2>3, <2>4 DEF Removed
<1>10. QED
  BY <1>1, <1>5, <1>6, <1>9 DEF SInv, Shape

\* A call that only ends leaves what it was to leave.
LEMMA QuietEnd ==
  ASSUME SInv, NEW c \in Calls, End(c), call[c].op = "remove" => call[c].tenant \in halfRemoved'
  PROVE  /\ call' \in [Calls -> Call \cup {Idle}]
         /\ \A d \in Calls : QuietCall(d)
  BY Moves DEF SInv, Shape, End, QuietCall

\* A call that is to revoke.
LEMMA QuietStart ==
  ASSUME SInv, NEW c \in Calls, NEW s \in Call, Start(c, s), s.op = "revoke",
         s.pc \in {"select", "deny"}, s.pc = "deny" => s.used \in Tokens
  PROVE  /\ call' \in [Calls -> Call \cup {Idle}]
         /\ \A d \in Calls : QuietCall(d)
         /\ begun' \in 0..MaxCalls
<1>1. begun' \in 0..MaxCalls
  BY SessionsAssumption DEF Start, Begin, SInv, Shape, TypeOK
<1>2. QED
  BY <1>1, Moves DEF SInv, Shape, Start, QuietCall

LEMMA Revokers ==
  ASSUME NEW r \in Tokens
  PROVE  /\ [Idle EXCEPT !.op = "revoke", !.pc = "deny", !.used = r] \in Call
         /\ [Idle EXCEPT !.op = "revoke", !.pc = "select", !.used = r] \in Call
  BY DEF Idle, Call, Origins

QuietSteps ==
  \/ \E c \in Calls :
       \/ PasswordStored(c) \/ DenyAccessToken(c) \/ AbandonCall(c)
       \/ \E r \in Tokens : Logout(c, r) \/ LogoutAll(c, r)
  \/ \E r \in Tokens : RefreshTokenExpires(r) \/ AccessTokenExpires(r)
  \/ \E a, r \in Tokens : RevokeSession(a, r)
  \/ \E t \in Tenants : AcceptInvitation(t)
  \/ LoseDenylist
  \/ UNCHANGED vars

LEMMA QuietStep ==
  ASSUME SInv, QuietSteps
  PROVE  SInv'
<1>1. /\ revocations \in 0..MaxRevocations /\ begun \in 0..MaxCalls
      /\ member \subseteq Tenants /\ halfRemoved \subseteq Tenants
      /\ call \in [Calls -> Call \cup {Idle}] /\ TypeOK
  BY DEF SInv, Shape, TypeOK
<1>2. call' = call => \A c \in Calls : QuietCall(c)
  BY DEF QuietCall
<1>3. ASSUME NEW c \in Calls, PasswordStored(c)
      PROVE  Quiet
  <2> DEFINE s == [Idle EXCEPT !.op = "revoke", !.pc = "select"]
  <2>1. s \in Call
    BY DEF Idle, Call, Origins
  <2>2. s.op = "revoke" /\ s.pc = "select"
    BY DEF Idle
  <2>3. Start(c, s)
    BY <1>3 DEF PasswordStored
  <2> HIDE DEF s
  <2>4. /\ call' \in [Calls -> Call \cup {Idle}]
        /\ \A d \in Calls : QuietCall(d)
        /\ begun' \in 0..MaxCalls
    BY <2>1, <2>2, <2>3, QuietStart
  <2>5. QED
    BY <1>1, <1>3, <2>4, Stays DEF PasswordStored, Quiet
<1>4. ASSUME NEW c \in Calls, DenyAccessToken(c)
      PROVE  Quiet
  <2>1. call[c].op = "revoke" /\ call[c].used \in Tokens
    BY <1>4 DEF DenyAccessToken, SInv, Shape, CallShape
  <2>2. Fades /\ NobodyLeft
    <3> DEFINE a == call[c].used
    <3>1. CASE token[a].access = "valid"
      <4>1. Known(a)
        BY <3>1 DEF Known, Unissued
      <4>2. token' = [token EXCEPT ![a] = [token[a] EXCEPT !.access = "denied"]]
        BY <1>1, <1>4, <2>1, <3>1 DEF DenyAccessToken, TypeOK
      <4>3. /\ token' = [r \in Tokens |-> token'[r]]
            /\ token'[a] = [token[a] EXCEPT !.access = "denied"]
            /\ \A r \in Tokens : r # a => token'[r] = token[r]
        BY <1>1, <2>1, <4>2 DEF TypeOK
      <4>4. QED
        BY <1>1, <4>1, <4>3, Access
    <3>2. CASE token[a].access # "valid"
      <4>1. token' = token
        BY <1>1, <1>4, <2>1, <3>2 DEF DenyAccessToken, TypeOK, Issued, Unissued
      <4>2. QED
        BY <1>1, <4>1, Stays
    <3>3. QED
      BY <3>1, <3>2
  <2>3. QED
    BY <1>1, <1>4, <2>1, <2>2, QuietEnd DEF DenyAccessToken, Quiet
<1>5. ASSUME NEW c \in Calls, AbandonCall(c)
      PROVE  Quiet
  <2>1. halfRemoved \subseteq halfRemoved' /\ halfRemoved' \subseteq Tenants
    BY <1>1, <1>5 DEF AbandonCall, SInv, Shape, CallShape
  <2>2. call[c].op = "remove" => call[c].tenant \in halfRemoved'
    BY <1>5 DEF AbandonCall
  <2>3. QED
    BY <1>1, <1>5, <2>1, <2>2, QuietEnd, Stays DEF AbandonCall, Quiet
<1>6. ASSUME NEW c \in Calls, NEW r \in Tokens, Logout(c, r)
      PROVE  Quiet
  <2>1. Fades /\ NobodyLeft
    BY <1>1, <1>6, Ends DEF Logout
  <2>2. /\ call' \in [Calls -> Call \cup {Idle}]
        /\ \A d \in Calls : QuietCall(d)
        /\ begun' \in 0..MaxCalls
    <3>1. CASE Start(c, [Idle EXCEPT !.op = "revoke", !.pc = "deny", !.used = r])
      BY <3>1, QuietStart, Revokers DEF Idle
    <3>2. CASE call' = call /\ Begin
      BY <1>1, <1>2, <3>2, SessionsAssumption DEF Begin
    <3>3. QED
      BY <1>6, <3>1, <3>2 DEF Logout
  <2>3. QED
    BY <1>1, <1>6, <2>1, <2>2 DEF Logout, Quiet
<1>7. ASSUME NEW c \in Calls, NEW r \in Tokens, LogoutAll(c, r)
      PROVE  Quiet
  BY <1>1, <1>7, QuietStart, Revokers, Stays DEF LogoutAll, Quiet, Idle
<1>8. ASSUME NEW r \in Tokens, RefreshTokenExpires(r)
      PROVE  Quiet
  BY <1>1, <1>2, <1>8, Ends DEF RefreshTokenExpires, Quiet
<1>9. ASSUME NEW r \in Tokens, AccessTokenExpires(r)
      PROVE  Quiet
  <2>1. Known(r)
    BY <1>9 DEF AccessTokenExpires, Known, Unissued
  <2>2. Fades /\ NobodyLeft
    BY <1>1, <1>9, <2>1, Access DEF AccessTokenExpires, TypeOK
  <2>3. QED
    BY <1>1, <1>2, <1>9, <2>2 DEF AccessTokenExpires, Quiet
<1>10. ASSUME NEW a \in Tokens, NEW r \in Tokens, RevokeSession(a, r)
       PROVE  Quiet
  BY <1>1, <1>2, <1>10, Ends DEF RevokeSession, Quiet
<1>11. ASSUME NEW t \in Tenants, AcceptInvitation(t)
       PROVE  Quiet
  BY <1>1, <1>2, <1>11, Stays DEF AcceptInvitation, Quiet
<1>12. ASSUME LoseDenylist
       PROVE  Quiet
  <2>1. \A r \in Tokens : token[r].access = "denied" => Known(r)
    BY DEF Known, Unissued
  <2>2. Fades /\ NobodyLeft
    BY <1>1, <1>12, <2>1, Access DEF LoseDenylist
  <2>3. QED
    BY <1>1, <1>2, <1>12, <2>2 DEF LoseDenylist, Quiet
<1>13. ASSUME UNCHANGED vars
       PROVE  Quiet
  BY <1>1, <1>2, <1>13, Stays DEF vars, Quiet
<1>14. QED
  BY <1>3, <1>4, <1>5, <1>6, <1>7, <1>8, <1>9, <1>10, <1>11, <1>12, <1>13,
     QuietKeeps DEF QuietSteps

-----------------------------------------------------------------------------
(* Calls that are to issue.                                                *)

\* What a call that issues knows when it begins.
Informed(s) ==
  /\ s \in Call /\ s.op \in {"issue", "rotate"} /\ s.pc = "resolve"
  /\ s.op = "rotate" => /\ s.used \in Tokens /\ Known(s.used)
                        /\ token[s.used].origin = "raced" => s.origin = "raced"
  /\ s.since < revocations => s.origin # "proof"
  /\ Revoking => s.origin # "proof"

LEMMA BeginsToIssue ==
  ASSUME SInv, NEW c \in Calls, NEW s, Informed(s), Start(c, s),
         UNCHANGED <<member, token, revocations, halfRemoved>>
  PROVE  SInv'
<1>1. /\ call' \in [Calls -> Call \cup {Idle}]
      /\ call'[c] = s
      /\ \A d \in Calls \ {c} : call'[d] = call[d]
  BY Moves DEF SInv, Shape, Informed, Start
<1>2. begun' \in 0..MaxCalls
  BY SessionsAssumption DEF Start, Begin, SInv, Shape, TypeOK
<1>3. call[c].op = "none"
  BY DEF Start, Idle
<1>4. Shape'
  <2>1. TypeOK' /\ RootsKnown' /\ OneSessionPerProof'
    BY <1>1, <1>2 DEF SInv, Shape, TypeOK, RootsKnown, OneSessionPerProof, Known, Live
  <2>2. CallShape'
    BY <1>1 DEF SInv, Shape, CallShape, Issuing, Known, Informed
  <2>3. QED
    BY <2>1, <2>2 DEF Shape
<1>5. Revoked'
  <2>1. CallsTell'
    BY <1>1 DEF SInv, Revoked, CallsTell, Informed, Issuing
  <2>2. WhileRevoking'
    BY <1>1 DEF SInv, Revoked, WhileRevoking, Informed, Issuing, Revoking, Live
  <2>3. SurvivorsRacedRevocation'
    BY DEF SInv, Revoked, SurvivorsRacedRevocation, Live
  <2>4. QED
    BY <2>1, <2>2, <2>3 DEF Revoked
<1>6. \A t : Leaving(t)' <=> Leaving(t)
  BY <1>1, <1>3 DEF Leaving, Informed
<1>7. Removed'
  <2>1. WritesOnStale'
    BY <1>1, <1>6 DEF SInv, Removed, WritesOnStale, Informed
  <2>2. WhileRemoving'
    BY <1>1 DEF SInv, Removed, WhileRemoving, Informed, Live
  <2>3. RotationsInherit'
    BY <1>1 DEF SInv, Removed, RotationsInherit, Informed
  <2>4. StraySessionsCostFaults'
    BY <1>6 DEF SInv, Removed, StraySessionsCostFaults, Live
  <2>5. QED
    BY <2>1, <2>2, <2>3, <2>4 DEF Removed
<1>8. QED
  BY <1>4, <1>5, <1>7 DEF SInv

LEMMA LoginStep ==
  ASSUME SInv, NEW c \in Calls, Login(c)
  PROVE  SInv'
<1>1. revocations \in Nat
  BY SessionsAssumption DEF SInv, Shape, TypeOK
<1> DEFINE s == PasswordVerified
<1>2. /\ s.op = "issue" /\ s.pc = "resolve" /\ s.since = revocations
      /\ s.origin = IF Revoking THEN "raced" ELSE "proof"
      /\ s \in Call
  BY <1>1 DEF PasswordVerified, Idle, Call, Origins
<1>3. Informed(s)
  BY <1>1, <1>2 DEF Informed
<1>4. QED
  BY <1>3, BeginsToIssue DEF Login

LEMMA SwitchStep ==
  ASSUME SInv, NEW c \in Calls, NEW a \in Tokens, SwitchTenant(c, a)
  PROVE  SInv'
<1>1. token[a].since \in Nat
  BY Rows DEF SInv, Shape
<1>2. Informed(Switching(a))
  BY <1>1 DEF Switching, Idle, Call, Origins, Informed
<1>3. QED
  BY <1>2, BeginsToIssue DEF SwitchTenant

LEMMA RefreshStep ==
  ASSUME SInv, NEW c \in Calls, NEW r \in Tokens, Refresh(c, r)
  PROVE  SInv'
<1>1. /\ Live(r) /\ Known(r)
      /\ token[r].since \in Nat /\ token[r].origin \in Origins
  BY Rows DEF SInv, Shape, Refresh
<1>2. token[r].since < revocations => token[r].origin # "proof"
  BY <1>1 DEF SInv, Revoked, SurvivorsRacedRevocation
<1> DEFINE s == Refreshing(r)
<1>3. /\ s.op = "rotate" /\ s.pc = "resolve" /\ s.used = r /\ s.since = token[r].since
      /\ s.origin = IF Revoking THEN "raced" ELSE token[r].origin
      /\ s \in Call
  BY <1>1 DEF Refreshing, Idle, Call, Origins
<1>4. Informed(s)
  BY <1>1, <1>2, <1>3 DEF Informed
<1>5. QED
  BY <1>4, BeginsToIssue DEF Refresh

\* Other calls learn at most that they have been overtaken.
Overtaken(d) ==
  /\ call'[d] \in Call \cup {Idle}
  /\ call'[d].op = call[d].op /\ call'[d].pc = call[d].pc
  /\ call'[d].used = call[d].used /\ call'[d].tenant = call[d].tenant
  /\ call'[d].since = call[d].since /\ call'[d].seen = call[d].seen
  /\ call'[d].origin \in {call[d].origin, "raced"}

LEMMA ResolveStep ==
  ASSUME SInv, NEW c \in Calls, ResolveMembership(c)
  PROVE  SInv'
<1>1. /\ call[c] \in Call /\ call[c].pc = "resolve" /\ Issuing(c)
  BY Shapes DEF SInv, Shape, CallShape, ResolveMembership
<1>2. PICK t \in member :
        call' = [call EXCEPT ![c].pc = "write", ![c].tenant = t,
                             ![c].origin = IF Leaving(t) THEN "raced" ELSE @]
  BY DEF ResolveMembership
<1>3. UNCHANGED <<member, token, revocations, halfRemoved, begun>> /\ t \in Tenants
  BY DEF ResolveMembership, SInv, Shape, TypeOK
<1> DEFINE o == IF Leaving(t) THEN "raced" ELSE call[c].origin
<1> DEFINE s == [call[c] EXCEPT !.pc = "write", !.tenant = t, !.origin = o]
<1>4. call' = [call EXCEPT ![c] = s]
  BY <1>2 DEF SInv, Shape, TypeOK
<1>5. /\ s \in Call
      /\ s.pc = "write" /\ s.tenant = t /\ s.op = call[c].op /\ s.used = call[c].used
      /\ s.since = call[c].since /\ s.seen = call[c].seen
      /\ \/ s.origin = call[c].origin /\ ~Leaving(t)
         \/ s.origin = "raced"
  BY <1>1, <1>3 DEF Call, Origins
<1> HIDE DEF s
<1>6. /\ call' \in [Calls -> Call \cup {Idle}]
      /\ call'[c] = s
      /\ \A d \in Calls \ {c} : call'[d] = call[d]
  BY <1>4, <1>5, Moves DEF SInv, Shape
<1>7. Shape'
  <2>1. TypeOK' /\ RootsKnown' /\ OneSessionPerProof'
    BY <1>3, <1>6 DEF SInv, Shape, TypeOK, RootsKnown, OneSessionPerProof, Known, Live
  <2>2. CallShape'
    BY <1>1, <1>3, <1>5, <1>6 DEF SInv, Shape, CallShape, Issuing, Known
  <2>3. QED
    BY <2>1, <2>2 DEF Shape
<1>8. Revoked'
  <2>1. CallsTell'
    BY <1>1, <1>3, <1>5, <1>6 DEF SInv, Revoked, CallsTell, Issuing
  <2>2. WhileRevoking'
    BY <1>1, <1>3, <1>5, <1>6 DEF SInv, Revoked, WhileRevoking, Issuing, Live
  <2>3. SurvivorsRacedRevocation'
    BY <1>3 DEF SInv, Revoked, SurvivorsRacedRevocation, Live
  <2>4. QED
    BY <2>1, <2>2, <2>3 DEF Revoked
<1>9. \A u : Leaving(u)' <=> Leaving(u)
  BY <1>1, <1>5, <1>6 DEF Leaving, Issuing
<1>10. Removed'
  <2>1. WritesOnStale'
    BY <1>3, <1>5, <1>6, <1>9 DEF SInv, Removed, WritesOnStale
  <2>2. WhileRemoving'
    BY <1>3, <1>5, <1>6 DEF SInv, Removed, WhileRemoving, Live
  <2>3. RotationsInherit'
    BY <1>3, <1>5, <1>6 DEF SInv, Removed, RotationsInherit
  <2>4. StraySessionsCostFaults'
    BY <1>3, <1>9 DEF SInv, Removed, StraySessionsCostFaults, Live
  <2>5. QED
    BY <2>1, <2>2, <2>3, <2>4 DEF Removed
<1>11. QED
  BY <1>7, <1>8, <1>10 DEF SInv

-----------------------------------------------------------------------------
(* A new row.                                                              *)

\* A call writes the row n on what it has read.
Appends(c, n) ==
  /\ call[c].pc = "write" /\ End(c)
  /\ UNCHANGED <<member, revocations, halfRemoved, begun>>
  /\ token' \in [Tokens -> Issued \cup {Unissued}]
  /\ ~Known(n) /\ token'[n] \in Issued
  /\ token'[n].tenant = call[c].tenant
  /\ token'[n].since = call[c].since
  /\ token'[n].origin = call[c].origin
  /\ \A r \in Tokens \ {n} : RowFades(r) /\ LeftSame(r)

LEMMA AppendKeeps ==
  ASSUME SInv, NEW c \in Calls, NEW n \in Tokens, Appends(c, n),
         \/ token'[n].root = n
         \/ Known(token'[n].root),
         \A r \in Tokens \ {n} : token'[r].state = "live" => token'[r].root # token'[n].root,
         token'[n].left => \/ call[c].origin = "raced"
                           \/ call[c].tenant \in halfRemoved
                           \/ Leaving(call[c].tenant)
  PROVE  SInv'
<1>1. /\ call' \in [Calls -> Call \cup {Idle}]
      /\ call'[c] = Idle
      /\ \A d \in Calls \ {c} : call'[d] = call[d]
  BY Moves DEF SInv, Shape, Appends, End
<1>2. Issuing(c)
  BY DEF SInv, Shape, CallShape, Appends
<1>3. /\ call'[c].op = "none" /\ call'[c].pc = "idle"
  BY <1>1 DEF Idle
<1>4. \A r \in Tokens \ {n} : RowFades(r) /\ LeftSame(r)
  BY DEF Appends
<1>5. /\ UNCHANGED <<member, revocations, halfRemoved, begun>>
      /\ token'[n].tenant = call[c].tenant
      /\ token'[n].since = call[c].since
      /\ token'[n].origin = call[c].origin
      /\ ~Known(n) /\ token'[n] \in Issued
      /\ call[c].pc = "write"
  BY DEF Appends
<1>6. Known(n)'
  BY <1>5 DEF Known, Issued, Unissued
<1>7. \A r \in Tokens : Known(r) => r # n /\ Known(r)'
  BY <1>4, <1>5 DEF Known, RowFades
<1>8. Shape'
  <2>1. TypeOK'
    BY <1>1, <1>5 DEF SInv, Shape, TypeOK, Appends
  <2>2. RootsKnown'
    <3>1. token'[n].root \in Tokens
      BY <1>5 DEF Issued
    <3>2. QED
      BY <3>1, <1>4, <1>6, <1>7 DEF SInv, Shape, RootsKnown, Known, RowFades
  <2>3. OneSessionPerProof'
    <3> SUFFICES ASSUME NEW r \in Tokens, NEW s \in Tokens, Live(r)', Live(s)',
                        token'[r].root = token'[s].root
                 PROVE  r = s
      BY DEF OneSessionPerProof
    <3>1. CASE r # n /\ s # n
      BY <1>4, <3>1 DEF SInv, Shape, OneSessionPerProof, Live, RowFades
    <3>2. CASE r = n \/ s = n
      BY <3>2 DEF Live
    <3>3. QED
      BY <3>1, <3>2
  <2>4. CallShape'
    BY <1>1, <1>3, <1>7 DEF SInv, Shape, CallShape, Issuing
  <2>5. QED
    BY <2>1, <2>2, <2>3, <2>4 DEF Shape
<1>9. Revoked'
  <2>1. CallsTell'
    BY <1>1, <1>3, <1>5 DEF SInv, Revoked, CallsTell, Issuing
  <2>2. WhileRevoking'
    <3> SUFFICES ASSUME NEW d \in Calls, call'[d].op = "revoke", call'[d].pc = "apply"
                 PROVE  WhileRevoking!(d)!2'
      BY DEF WhileRevoking
    <3>1. d # c /\ call'[d] = call[d]
      BY <1>1, <1>3
    <3>2. /\ \A r \in Tokens : Live(r) => r \in call[d].seen \/ token[r].origin # "proof"
          /\ \A e \in Calls : Issuing(e) => call[e].origin # "proof"
      BY <3>1 DEF SInv, Revoked, WhileRevoking
    <3>3. \A r \in Tokens : Live(r)' => r \in call'[d].seen \/ token'[r].origin # "proof"
      BY <1>2, <1>4, <1>5, <3>1, <3>2 DEF RowFades, Live
    <3>4. \A e \in Calls : Issuing(e)' => call'[e].origin # "proof"
      BY <1>1, <1>3, <3>2 DEF Issuing
    <3>5. QED
      BY <3>3, <3>4
  <2>3. SurvivorsRacedRevocation'
    <3>1. call[c].origin \in Origins
      BY Shapes DEF SInv, Shape
    <3>2. call[c].since < revocations => call[c].origin \in {"raced", "access"}
      BY <1>2, <3>1 DEF SInv, Revoked, CallsTell, Origins
    <3>3. QED
      BY <1>4, <1>5, <3>2
         DEF SInv, Revoked, SurvivorsRacedRevocation, RowFades, Live
  <2>4. QED
    BY <2>1, <2>2, <2>3 DEF Revoked
<1>10. \A t : Leaving(t)' <=> Leaving(t)
  BY <1>1, <1>2, <1>3 DEF Leaving, Issuing
<1>11. call[c].tenant \notin member \/ Leaving(call[c].tenant) => call[c].origin = "raced"
  BY <1>5 DEF SInv, Removed, WritesOnStale
<1>12. Removed'
  <2>1. WritesOnStale'
    BY <1>1, <1>3, <1>5, <1>10 DEF SInv, Removed, WritesOnStale
  <2>2. WhileRemoving'
    <3> SUFFICES ASSUME NEW d \in Calls, call'[d].op = "remove", call'[d].pc = "apply",
                        NEW r \in Tokens, Live(r)', token'[r].tenant = call'[d].tenant
                 PROVE  r \in call'[d].seen \/ token'[r].origin = "raced"
      BY DEF WhileRemoving
    <3>1. d # c /\ call'[d] = call[d]
      BY <1>1, <1>3
    <3>2. CASE r = n
      BY <1>5, <1>11, <3>1, <3>2 DEF Leaving
    <3>3. CASE r # n
      BY <1>4, <3>1, <3>3 DEF SInv, Removed, WhileRemoving, RowFades, Live
    <3>4. QED
      BY <3>2, <3>3
  <2>3. RotationsInherit'
    BY <1>1, <1>3, <1>4, <1>5
       DEF SInv, Shape, CallShape, Removed, RotationsInherit, RowFades
  <2>4. StraySessionsCostFaults'
    <3> SUFFICES ASSUME NEW r \in Tokens, Live(r)',
                        token'[r].left \/ token'[r].tenant \notin member
                 PROVE  \/ token'[r].origin = "raced"
                        \/ token'[r].tenant \in halfRemoved
                        \/ Leaving(token'[r].tenant)
      BY <1>5, <1>10 DEF StraySessionsCostFaults
    <3>1. CASE r = n
      BY <1>5, <1>11, <3>1
    <3>2. CASE r # n
      BY <1>4, <3>2 DEF SInv, Removed, StraySessionsCostFaults, RowFades, LeftSame, Live
    <3>3. QED
      BY <3>1, <3>2
  <2>5. QED
    BY <2>1, <2>2, <2>3, <2>4 DEF Removed
<1>13. QED
  BY <1>8, <1>9, <1>12 DEF SInv

\* The pair of a call that writes is a row.
LEMMA Pairs ==
  ASSUME SInv, NEW c \in Calls, call[c].pc = "write", NEW root \in Tokens, NEW left \in BOOLEAN
  PROVE  /\ TokenPair(c, root, left) \in Issued
         /\ TokenPair(c, root, left).tenant = call[c].tenant
         /\ TokenPair(c, root, left).root = root
         /\ TokenPair(c, root, left).since = call[c].since
         /\ TokenPair(c, root, left).origin = call[c].origin
         /\ TokenPair(c, root, left).left = left
<1>1. /\ call[c].tenant \in Tenants
      /\ call[c].origin \in Origins /\ call[c].since \in Nat
  BY Shapes DEF SInv, Shape, CallShape
<1>2. QED
  BY <1>1 DEF TokenPair, Issued

LEMMA CreateStep ==
  ASSUME SInv, NEW c \in Calls, CreateRefreshToken(c)
  PROVE  SInv'
<1>1. PICK n \in Tokens :
        /\ token[n] = Unissued
        /\ token' = [token EXCEPT ![n] = TokenPair(c, n, FALSE)]
  BY DEF CreateRefreshToken
<1> DEFINE p == TokenPair(c, n, FALSE)
<1>2. /\ p \in Issued /\ p.tenant = call[c].tenant /\ p.root = n
      /\ p.since = call[c].since /\ p.origin = call[c].origin /\ p.left = FALSE
  BY Pairs DEF CreateRefreshToken
<1> HIDE DEF p
<1>3. /\ token' \in [Tokens -> Issued \cup {Unissued}]
      /\ token'[n] = p
      /\ \A r \in Tokens \ {n} : token'[r] = token[r]
  BY <1>1, <1>2 DEF SInv, Shape, TypeOK, p
<1>4. Appends(c, n)
  BY <1>1, <1>2, <1>3, RowStays DEF Appends, CreateRefreshToken, Known, SInv, Shape
<1>5. \A r \in Tokens \ {n} : token'[r].state = "live" => token'[r].root # n
  BY <1>1, <1>3, Rows DEF SInv, Shape, RootsKnown, Known, Live
<1>6. QED
  BY <1>2, <1>3, <1>4, <1>5, AppendKeeps

LEMMA RotateStep ==
  ASSUME SInv, NEW c \in Calls, RotateRefreshToken(c)
  PROVE  SInv'
<1> DEFINE u == call[c].used
<1>1. /\ call[c].op = "rotate" /\ call[c].pc = "write" /\ u \in Tokens /\ Known(u)
      /\ End(c) /\ UNCHANGED <<member, revocations, halfRemoved, begun>>
  BY DEF RotateRefreshToken, SInv, Shape, CallShape
<1>2. CASE ~Rotatable(u) /\ UNCHANGED token
  BY <1>1, <1>2, QuietEnd, Stays, QuietKeeps DEF Quiet, SInv, Shape, TypeOK
<1>3. CASE Rotatable(u) /\ \E n \in Tokens :
             /\ token[n] = Unissued
             /\ token' = [token EXCEPT
                  ![u].state = "ended",
                  ![n] = TokenPair(c, token[u].root,
                           token[u].left /\ token[u].tenant = call[c].tenant)]
  <2>1. /\ Live(u) /\ token[u] \in Issued /\ token[u].root \in Tokens
        /\ Known(token[u].root)
    BY <1>1, <1>3, Rows DEF Rotatable, SInv, Shape, RootsKnown
  <2> DEFINE l == token[u].left /\ token[u].tenant = call[c].tenant
  <2>2. PICK n \in Tokens :
          /\ token[n] = Unissued
          /\ token' = [token EXCEPT ![u].state = "ended",
                                    ![n] = TokenPair(c, token[u].root, l)]
    BY <1>3
  <2> DEFINE p == TokenPair(c, token[u].root, l)
  <2>3. /\ p \in Issued /\ p.tenant = call[c].tenant /\ p.root = token[u].root
        /\ p.since = call[c].since /\ p.origin = call[c].origin /\ p.left = l
    <3>1. l \in BOOLEAN
      OBVIOUS
    <3>2. QED
      BY <1>1, <2>1, <3>1, Pairs
  <2>4. n # u
    BY <2>1, <2>2, Rows DEF Known, SInv, Shape
  <2>5. token' = [token EXCEPT ![u].state = "ended", ![n] = p]
    BY <2>2
  <2> HIDE DEF p, l
  <2>6. /\ token'[n] = p
        /\ token'[u] = [token[u] EXCEPT !.state = "ended"]
        /\ \A r \in Tokens \ {n, u} : token'[r] = token[r]
        /\ token' = [r \in Tokens |-> token'[r]]
    BY <1>1, <2>4, <2>5 DEF SInv, Shape, TypeOK
  <2>7. \A r \in Tokens \ {n} : RowFades(r) /\ LeftSame(r)
    BY <2>1, <2>6, RowStays, RowEnds DEF SInv, Shape
  <2>8. token' \in [Tokens -> Issued \cup {Unissued}]
    <3>1. \A r \in Tokens : token'[r] \in Issued \cup {Unissued}
      BY <2>3, <2>6, <2>7 DEF RowFades
    <3>2. QED
      BY <2>6, <3>1
  <2>9. Appends(c, n)
    BY <1>1, <2>2, <2>3, <2>6, <2>7, <2>8 DEF Appends, Known
  <2>10. \A r \in Tokens \ {n} : token'[r].state = "live" => token'[r].root # token'[n].root
    <3> SUFFICES ASSUME NEW r \in Tokens \ {n}, token'[r].state = "live",
                        token'[r].root = token'[n].root
                 PROVE  FALSE
      OBVIOUS
    <3>1. r # u
      BY <2>1, <2>6, RowEnds
    <3>2. Live(r) /\ token[r].root = token[u].root
      BY <2>3, <2>6, <3>1 DEF Live
    <3>3. QED
      BY <1>1, <2>1, <3>1, <3>2 DEF SInv, Shape, OneSessionPerProof
  <2>11. p.left => \/ call[c].origin = "raced"
                   \/ call[c].tenant \in halfRemoved
                   \/ Leaving(call[c].tenant)
    BY <1>1, <2>1, <2>3 DEF l, SInv, Removed, StraySessionsCostFaults, RotationsInherit
  <2>12. QED
    BY <2>1, <2>3, <2>6, <2>9, <2>10, <2>11, AppendKeeps
<1>4. QED
  BY <1>2, <1>3 DEF RotateRefreshToken

-----------------------------------------------------------------------------
(* Removals and revocations.                                               *)

LEMMA Overtakes ==
  ASSUME TypeOK, NEW d \in Calls, call[d] \in Call,
         call'[d] = [call[d] EXCEPT !.origin = "raced"]
  PROVE  Overtaken(d) /\ call'[d].origin = "raced"
  BY DEF Call, Origins, Overtaken

LEMMA DeleteStep ==
  ASSUME SInv, NEW c \in Calls, NEW t \in Tenants, DeleteMembership(c, t)
  PROVE  SInv'
<1>1. /\ member' = member \ {t} /\ call[c] = Idle /\ call[c].op = "none"
      /\ UNCHANGED <<revocations, halfRemoved>>
  BY DEF DeleteMembership, Idle
<1>2. begun' \in 0..MaxCalls
  BY SessionsAssumption DEF DeleteMembership, Begin, SInv, Shape, TypeOK
<1>3. \A r \in Tokens :
        /\ RowFades(r) /\ (Live(r)' => Live(r))
        /\ LeftSame(r) \/ token'[r].tenant = t
  <2> SUFFICES ASSUME NEW r \in Tokens
               PROVE  /\ RowFades(r) /\ (Live(r)' => Live(r))
                      /\ LeftSame(r) \/ token'[r].tenant = t
    OBVIOUS
  <2>1. CASE Live(r) /\ token[r].tenant = t
    <3>1. token'[r] = [token[r] EXCEPT !.left = TRUE] /\ token[r] \in Issued
      BY <2>1, Rows DEF DeleteMembership, SInv, Shape
    <3>2. token'[r] \in Issued
      BY <3>1 DEF Issued
    <3>3. token'[r] # Unissued /\ token[r] # Unissued
      BY <3>1, <3>2 DEF Issued, Unissued
    <3>4. QED
      BY <2>1, <3>1, <3>2, <3>3 DEF Issued, RowFades, Live
  <2>2. CASE ~(Live(r) /\ token[r].tenant = t)
    <3>1. token'[r] = token[r]
      BY <2>2 DEF DeleteMembership
    <3>2. QED
      BY <3>1, RowStays DEF SInv, Shape, Live
  <2>3. QED
    BY <2>1, <2>2
<1>4. Fades
  <2>1. token' = [r \in Tokens |-> token'[r]]
    BY DEF DeleteMembership
  <2>2. \A r \in Tokens : token'[r] \in Issued \cup {Unissued}
    BY <1>3 DEF RowFades
  <2>3. QED
    BY <1>3, <2>1, <2>2 DEF Fades
<1> DEFINE s == [Idle EXCEPT !.op = "remove", !.pc = "select", !.tenant = t]
<1>5. /\ s \in Call /\ s.op = "remove" /\ s.pc = "select" /\ s.tenant = t
      /\ s.used = NoToken
  BY DEF Idle, Call, Origins
<1>6. call'[c] = s /\ call' = [d \in Calls |-> call'[d]]
  BY DEF DeleteMembership
<1> HIDE DEF s
<1>7. ASSUME NEW d \in Calls \ {c}
      PROVE  /\ Overtaken(d)
             /\ call[d].pc = "write" /\ call[d].tenant = t => call'[d].origin = "raced"
  <2>1. CASE call[d].pc = "write" /\ call[d].tenant = t
    <3>1. call'[d] = [call[d] EXCEPT !.origin = "raced"] /\ call[d] \in Call
      BY <2>1, Shapes DEF DeleteMembership, SInv, Shape
    <3>2. QED
      BY <3>1, Overtakes DEF SInv, Shape
  <2>2. CASE ~(call[d].pc = "write" /\ call[d].tenant = t)
    <3>1. call'[d] = call[d]
      BY <2>2 DEF DeleteMembership
    <3>2. QED
      BY <2>2, <3>1 DEF Overtaken, SInv, Shape, TypeOK
  <2>3. QED
    BY <2>1, <2>2
<1>8. Shape'
  <2>1. call' \in [Calls -> Call \cup {Idle}]
    <3>1. \A d \in Calls : call'[d] \in Call \cup {Idle}
      BY <1>5, <1>6, <1>7 DEF Overtaken
    <3>2. QED
      BY <1>6, <3>1
  <2>2. TypeOK' /\ RootsKnown' /\ OneSessionPerProof'
    BY <1>1, <1>2, <1>4, <2>1, FadingKeepsShape DEF SInv, Shape, TypeOK, Fades
  <2>3. CallShape'
    BY <1>3, <1>5, <1>6, <1>7
       DEF SInv, Shape, CallShape, Issuing, Known, Overtaken, RowFades
  <2>4. QED
    BY <2>2, <2>3 DEF Shape
<1>9. Revoked'
  <2>1. CallsTell'
    BY <1>1, <1>5, <1>6, <1>7 DEF SInv, Revoked, CallsTell, Issuing, Overtaken
  <2>2. WhileRevoking'
    BY <1>3, <1>5, <1>6, <1>7
       DEF SInv, Revoked, WhileRevoking, Issuing, Overtaken, RowFades
  <2>3. SurvivorsRacedRevocation'
    BY <1>1, <1>3 DEF SInv, Revoked, SurvivorsRacedRevocation, RowFades
  <2>4. QED
    BY <2>1, <2>2, <2>3 DEF Revoked
<1>10. /\ Leaving(t)'
       /\ \A u : u # t => (Leaving(u)' <=> Leaving(u))
       /\ \A u : Leaving(u) => Leaving(u)'
  <2>1. Leaving(t)'
    BY <1>5, <1>6 DEF Leaving
  <2>2. ASSUME NEW u, Leaving(u)
        PROVE  Leaving(u)'
    BY <1>1, <1>7, <2>2 DEF Leaving, Overtaken
  <2>3. ASSUME NEW u, u # t, Leaving(u)'
        PROVE  Leaving(u)
    BY <1>5, <1>6, <1>7, <2>3 DEF Leaving, Overtaken
  <2>4. QED
    BY <2>1, <2>2, <2>3
<1>11. Removed'
  <2>1. WritesOnStale'
    BY <1>1, <1>5, <1>6, <1>7, <1>10 DEF SInv, Removed, WritesOnStale, Overtaken
  <2>2. WhileRemoving'
    BY <1>3, <1>5, <1>6, <1>7 DEF SInv, Removed, WhileRemoving, Overtaken, RowFades
  <2>3. RotationsInherit'
    BY <1>3, <1>5, <1>6, <1>7
       DEF SInv, Shape, CallShape, Removed, RotationsInherit, Overtaken, RowFades
  <2>4. StraySessionsCostFaults'
    BY <1>1, <1>3, <1>10
       DEF SInv, Removed, StraySessionsCostFaults, RowFades, LeftSame
  <2>5. QED
    BY <2>1, <2>2, <2>3, <2>4 DEF Removed
<1>12. QED
  BY <1>8, <1>9, <1>11 DEF SInv

LEMMA SelectStep ==
  ASSUME SInv, NEW c \in Calls, SelectRows(c)
  PROVE  SInv'
<1>1. /\ call[c].pc = "select" /\ call[c] \in Call
      /\ UNCHANGED <<member, token, revocations, halfRemoved, begun>>
  BY Shapes DEF SelectRows, SInv, Shape
<1> DEFINE s == [call[c] EXCEPT !.pc = "apply", !.seen = RowsToRevoke(c)]
<1>2. /\ s \in Call /\ s.pc = "apply" /\ s.seen = RowsToRevoke(c)
      /\ s.op = call[c].op /\ s.tenant = call[c].tenant /\ s.used = call[c].used
      /\ s.op \notin {"issue", "rotate", "none"}
  <2>1. call[c].op \notin {"issue", "rotate"}
    BY <1>1 DEF SInv, Shape, CallShape, Issuing
  <2>2. RowsToRevoke(c) \in SUBSET Tokens
    BY DEF RowsToRevoke
  <2>3. QED
    BY <1>1, <2>1, <2>2 DEF Call
<1>3. call'[c] = s /\ call' = [d \in Calls |-> call'[d]]
  BY <1>1 DEF SelectRows
<1> HIDE DEF s
<1>4. ASSUME NEW d \in Calls \ {c}
      PROVE  /\ Overtaken(d)
             /\ call[c].op = "revoke" /\ Issuing(d) => call'[d].origin = "raced"
  <2>1. CASE call[c].op = "revoke" /\ call[d].pc \in {"resolve", "write"}
    <3>1. call'[d] = [call[d] EXCEPT !.origin = "raced"] /\ call[d] \in Call
      BY <2>1, Shapes DEF SelectRows, SInv, Shape
    <3>2. QED
      BY <3>1, Overtakes DEF SInv, Shape
  <2>2. CASE ~(call[c].op = "revoke" /\ call[d].pc \in {"resolve", "write"})
    <3>1. call'[d] = call[d]
      BY <2>2 DEF SelectRows
    <3>2. QED
      BY <2>2, <3>1 DEF Overtaken, SInv, Shape, TypeOK, CallShape
  <2>3. QED
    BY <2>1, <2>2
<1>5. Shape'
  <2>1. call' \in [Calls -> Call \cup {Idle}]
    <3>1. \A d \in Calls : call'[d] \in Call \cup {Idle}
      BY <1>2, <1>3, <1>4 DEF Overtaken
    <3>2. QED
      BY <1>3, <3>1
  <2>2. TypeOK' /\ RootsKnown' /\ OneSessionPerProof'
    BY <1>1, <2>1, FadingKeepsShape, Stays DEF SInv, Shape, TypeOK
  <2>3. CallShape'
    BY <1>1, <1>2, <1>3, <1>4 DEF SInv, Shape, CallShape, Issuing, Known, Overtaken
  <2>4. QED
    BY <2>2, <2>3 DEF Shape
<1>6. \A d \in Calls \ {c} : Issuing(d)' <=> Issuing(d)
  BY <1>4 DEF Overtaken, Issuing
<1>7. ~Issuing(c)' /\ ~Issuing(c)
  BY <1>2, <1>3 DEF Issuing
<1>8. Revoked'
  <2>1. CallsTell'
    BY <1>1, <1>4, <1>6, <1>7 DEF SInv, Revoked, CallsTell, Overtaken
  <2>2. WhileRevoking'
    <3> SUFFICES ASSUME NEW d \in Calls, call'[d].op = "revoke", call'[d].pc = "apply"
                 PROVE  WhileRevoking!(d)!2'
      BY DEF WhileRevoking
    <3>1. CASE d = c
      <4>1. \A r \in Tokens : Live(r) => r \in call'[c].seen
        BY <1>2, <1>3, <3>1 DEF RowsToRevoke
      <4>2. \A e \in Calls : Issuing(e)' => call'[e].origin # "proof"
        BY <1>2, <1>3, <1>4, <1>6, <1>7, <3>1
      <4>3. QED
        BY <1>1, <3>1, <4>1, <4>2 DEF Live
    <3>2. CASE d # c
      BY <1>1, <1>4, <1>6, <1>7, <3>2 DEF SInv, Revoked, WhileRevoking, Overtaken, Live
    <3>3. QED
      BY <3>1, <3>2
  <2>3. SurvivorsRacedRevocation'
    BY <1>1 DEF SInv, Revoked, SurvivorsRacedRevocation, Live
  <2>4. QED
    BY <2>1, <2>2, <2>3 DEF Revoked
<1>9. \A u : Leaving(u)' <=> Leaving(u)
  BY <1>2, <1>3, <1>4 DEF Leaving, Overtaken
<1>10. Removed'
  <2>1. WritesOnStale'
    BY <1>1, <1>2, <1>3, <1>4, <1>9 DEF SInv, Removed, WritesOnStale, Overtaken
  <2>2. WhileRemoving'
    BY <1>1, <1>2, <1>3, <1>4
       DEF SInv, Removed, WhileRemoving, Overtaken, RowsToRevoke, Live
  <2>3. RotationsInherit'
    BY <1>1, <1>2, <1>3, <1>4 DEF SInv, Removed, RotationsInherit, Overtaken
  <2>4. StraySessionsCostFaults'
    BY <1>1, <1>9 DEF SInv, Removed, StraySessionsCostFaults, Live
  <2>5. QED
    BY <2>1, <2>2, <2>3, <2>4 DEF Removed
<1>11. QED
  BY <1>5, <1>8, <1>10 DEF SInv

LEMMA ApplyStep ==
  ASSUME SInv, NEW c \in Calls, ApplyRevocation(c)
  PROVE  SInv'
<1>1. /\ call[c] \in Call /\ call[c].pc = "apply" /\ ~Issuing(c)
      /\ member' = member /\ begun' = begun
  BY Shapes DEF ApplyRevocation, SInv, Shape, CallShape
<1>2. /\ Fades /\ NobodyLeft
      /\ \A r \in Tokens : token'[r].state = "live" => r \notin call[c].seen
  BY Ends DEF ApplyRevocation, SInv, Shape
<1>3. \A r \in Tokens : RowFades(r) /\ LeftSame(r) /\ (Live(r)' => Live(r))
  BY <1>2 DEF Fades, NobodyLeft, RowFades, Live
<1>4. /\ call' \in [Calls -> Call \cup {Idle}]
      /\ \A d \in Calls \ {c} : call'[d] = call[d]
      /\ \/ call'[c] = Idle
         \/ /\ call[c].op = "revoke" /\ call'[c].op = "revoke" /\ call'[c].pc = "deny"
            /\ call'[c].used \in Tokens
  <2>1. CASE call[c].used = NoToken
    BY <2>1, Moves DEF ApplyRevocation, End, SInv, Shape
  <2>2. CASE call[c].used # NoToken
    <3> DEFINE s == [call[c] EXCEPT !.pc = "deny", !.seen = {}]
    <3>1. call' = [call EXCEPT ![c] = s]
      BY <2>2 DEF ApplyRevocation, SInv, Shape, TypeOK
    <3>2. /\ s \in Call /\ s.pc = "deny" /\ s.op = call[c].op
          /\ s.used = call[c].used /\ s.used \in Tokens
      BY <1>1, <2>2 DEF Call
    <3>3. call[c].op = "revoke"
      BY <2>2 DEF ApplyRevocation, SInv, Shape, CallShape
    <3> HIDE DEF s
    <3>4. QED
      BY <3>1, <3>2, <3>3, Moves DEF SInv, Shape
  <2>3. QED
    BY <2>1, <2>2
<1>5. /\ call'[c].op \in {"none", "revoke"} /\ call'[c].pc \in {"idle", "deny"}
      /\ call'[c].pc = "deny" => call'[c].op = "revoke" /\ call'[c].used \in Tokens
  BY <1>4 DEF Idle
<1>6. \A d \in Calls : Issuing(d)' => d # c /\ Issuing(d) /\ call'[d] = call[d]
  BY <1>4, <1>5 DEF Issuing
<1>7. \/ /\ call[c].op = "revoke" /\ revocations < MaxRevocations
         /\ revocations' = revocations + 1 /\ halfRemoved' = halfRemoved
      \/ /\ call[c].op = "remove" /\ halfRemoved' = halfRemoved \ {call[c].tenant}
         /\ revocations' = revocations
  BY DEF ApplyRevocation
<1>8. Shape'
  <2>1. revocations' \in 0..MaxRevocations /\ halfRemoved' \subseteq Tenants
    BY <1>7, SessionsAssumption DEF SInv, Shape, TypeOK
  <2>2. TypeOK' /\ RootsKnown' /\ OneSessionPerProof'
    BY <1>1, <1>2, <1>4, <2>1, FadingKeepsShape DEF SInv, Shape, TypeOK, Fades
  <2>3. CallShape'
    BY <1>3, <1>4, <1>5, <1>6 DEF SInv, Shape, CallShape, Issuing, Known, RowFades
  <2>4. QED
    BY <2>2, <2>3 DEF Shape
<1>9. revocations \in Nat /\ \A d \in Calls : call[d].since \in Nat
  BY Shapes, SessionsAssumption DEF SInv, Shape, TypeOK
<1>10. Revoked'
  <2>1. CASE call[c].op = "revoke"
    <3>1. /\ \A r \in Tokens : Live(r) => r \in call[c].seen \/ token[r].origin # "proof"
          /\ \A d \in Calls : Issuing(d) => call[d].origin # "proof"
      BY <1>1, <2>1 DEF SInv, Revoked, WhileRevoking
    <3>2. CallsTell'
      BY <1>6, <3>1 DEF CallsTell
    <3>3. WhileRevoking'
      BY <1>3, <1>4, <1>5, <1>6 DEF SInv, Revoked, WhileRevoking, RowFades
    <3>4. \A r \in Tokens : Live(r)' => token'[r].origin \in {"raced", "access"}
      <4>1. \A r \in Tokens : token[r].origin \in Origins
        BY Rows DEF SInv, Shape
      <4>2. QED
        BY <1>2, <1>3, <3>1, <4>1 DEF RowFades, Origins, Live
    <3>5. QED
      BY <3>2, <3>3, <3>4 DEF Revoked, SurvivorsRacedRevocation
  <2>2. CASE call[c].op = "remove"
    <3>1. revocations' = revocations
      BY <1>7, <2>2
    <3>2. CallsTell'
      BY <1>6, <3>1 DEF SInv, Revoked, CallsTell
    <3>3. WhileRevoking'
      BY <1>3, <1>4, <1>5, <1>6 DEF SInv, Revoked, WhileRevoking, RowFades
    <3>4. SurvivorsRacedRevocation'
      BY <1>3, <3>1 DEF SInv, Revoked, SurvivorsRacedRevocation, RowFades
    <3>5. QED
      BY <3>2, <3>3, <3>4 DEF Revoked
  <2>3. QED
    BY <1>7, <2>1, <2>2
<1>11. \A u : Leaving(u)' => Leaving(u)
  BY <1>4, <1>5 DEF Leaving
<1>12. \A u : Leaving(u) => \/ Leaving(u)'
                            \/ call[c].op = "remove" /\ call[c].tenant = u
  BY <1>4 DEF Leaving
<1>13. Removed'
  <2>1. WritesOnStale'
    BY <1>1, <1>4, <1>5, <1>11 DEF SInv, Removed, WritesOnStale
  <2>2. WhileRemoving'
    BY <1>3, <1>4, <1>5 DEF SInv, Removed, WhileRemoving, RowFades
  <2>3. RotationsInherit'
    BY <1>3, <1>4, <1>5 DEF SInv, Shape, CallShape, Removed, RotationsInherit, RowFades
  <2>4. StraySessionsCostFaults'
    <3> SUFFICES ASSUME NEW r \in Tokens, Live(r)',
                        token'[r].left \/ token'[r].tenant \notin member,
                        NEW t, t = token[r].tenant, token'[r].origin # "raced",
                        t \notin halfRemoved'
                 PROVE  Leaving(t)'
      BY <1>1, <1>3 DEF StraySessionsCostFaults, RowFades, Leaving
    <3>1. CASE call[c].op = "remove" /\ token[r].tenant = call[c].tenant
      BY <1>1, <1>2, <1>3, <3>1 DEF SInv, Removed, WhileRemoving, RowFades, Live
    <3>2. CASE ~(call[c].op = "remove" /\ token[r].tenant = call[c].tenant)
      BY <1>3, <1>7, <1>12, <3>2
         DEF SInv, Removed, StraySessionsCostFaults, RowFades, LeftSame
    <3>3. QED
      BY <3>1, <3>2
  <2>5. QED
    BY <2>1, <2>2, <2>3, <2>4 DEF Removed
<1>14. QED
  BY <1>8, <1>10, <1>13 DEF SInv

-----------------------------------------------------------------------------
(* The theorems.                                                           *)

LEMMA Initially ==
  ASSUME Init
  PROVE  SInv
<1>1. Shape
  BY SessionsAssumption
     DEF Init, Shape, TypeOK, CallShape, RootsKnown, OneSessionPerProof, Issuing, Known,
         Live, Unissued, Idle
<1>2. Revoked
  BY DEF Init, Revoked, CallsTell, WhileRevoking, SurvivorsRacedRevocation, Issuing,
         Live, Unissued, Idle
<1>3. Removed
  BY DEF Init, Removed, WritesOnStale, WhileRemoving, RotationsInherit,
         StraySessionsCostFaults, Live, Unissued, Idle
<1>4. QED
  BY <1>1, <1>2, <1>3 DEF SInv

LEMMA Steps ==
  ASSUME SInv, [Next]_vars
  PROVE  SInv'
  BY QuietStep, LoginStep, SwitchStep, RefreshStep, ResolveStep, CreateStep, RotateStep,
     DeleteStep, SelectStep, ApplyStep DEF Next, QuietSteps

LEMMA Invariant == Spec => []SInv
<1>1. Init => SInv
  BY Initially
<1>2. SInv /\ [Next]_vars => SInv'
  BY Steps
<1>3. QED
  BY <1>1, <1>2, PTL DEF Spec

\* The rows, the calls in flight and the counters keep their types through every
\* order of logins, rotations, revocations, removals, faults and abandoned calls.
THEOREM TypeCorrect == Spec => []TypeOK
<1>1. SInv => TypeOK
  BY DEF SInv, Shape
<1>2. QED
  BY <1>1, Invariant, PTL

\* However many refreshes of one token race each other, a logout or a revocation,
\* one proof of identity never holds two live sessions: the transaction of
\* rotate_refresh_token ends the row it replaces, or inserts nothing.
THEOREM RotationIsExclusive == Spec => []OneSessionPerProof
<1>1. SInv => OneSessionPerProof
  BY DEF SInv, Shape
<1>2. QED
  BY <1>1, Invariant, PTL

\* A session proven before a completed logout everywhere, password change or reset
\* outlives it only if its call was under way during a revocation, or if an access
\* token was its proof (switch_tenant asks for nothing else).
THEOREM RevocationIsComplete == Spec => []SurvivorsRacedRevocation
<1>1. SInv => SurvivorsRacedRevocation
  BY DEF SInv, Revoked
<1>2. QED
  BY <1>1, Invariant, PTL

\* A live session for a tenant the user has left costs a removal that has not
\* revoked yet or never will (remove_member revokes in a second statement), or a
\* call that had read the membership before the removal.
THEOREM RemovalIsComplete == Spec => []StraySessionsCostFaults
<1>1. SInv => StraySessionsCostFaults
  BY DEF SInv, Removed
<1>2. QED
  BY <1>1, Invariant, PTL


-----------------------------------------------------------------------------
(* Accounts.  What a call and a token hold, and why their address may be    *)
(* trusted.                                                                 *)

AccountPcs == {"idle", "create token", "enqueue", "mark", "store password",
               "look up", "provision", "link"}
AccountCall ==
  [pc : AccountPcs, user : Users \cup {Account!NoUser},
   addr : Addresses \cup {Account!NoAddress}, kind : Account!Kinds \cup {"none"},
   token : Tokens \cup {Account!NoToken}, subject : Identities \cup {Account!NoIdentity}]

\* What a call holds at each of its statements, given the users there are.
CallHolds(r, users) ==
  /\ r \in AccountCall
  /\ r.user \in users \cup {Account!NoUser}
  /\ r.pc \in {"create token", "mark", "link", "store password"} => r.user \in users
  /\ r.pc = "create token" => r.addr \in Addresses /\ r.kind \in Account!Kinds
  /\ r.pc \in {"look up", "provision"} => r.addr \in Addresses
  /\ r.pc \in {"look up", "provision", "link"} => r.subject \in Identities

Stored(users) == [state : {"stored", "sent", "used"}, user : users, kind : Account!Kinds,
                  sentTo : Addresses]
TokenHolds(r, users) == r \in Stored(users) \cup {Account!Unissued}

OneUserEach == \A u, v \in Account!Existing : email[u] = email[v] => u = v

ATypes ==
  /\ email \in [Users -> Addresses \cup {Account!NoAddress}]
  /\ OneUserEach
  /\ verified \subseteq Account!Existing
  /\ link = [x \in Identities |-> link[x]]
  /\ \A i \in Identities : link[i] \in Account!Existing \cup {Account!NoUser}
  /\ userToken = [x \in Tokens |-> userToken[x]]
  /\ \A t \in Tokens : TokenHolds(userToken[t], Account!Existing)
  /\ DOMAIN accountCall = Calls
  /\ \A c \in Calls : CallHolds(accountCall[c], Account!Existing)
  /\ accountCalls \in 0 .. MaxAccountCalls
  /\ proven \in [Users -> SUBSET Addresses]
  /\ overtaken \cup provisioned \cup halfMade \subseteq Account!Existing

\* The address of u was proven, or u is one of the exceptions.
Backed(u) == email[u] \in proven[u] \/ u \in overtaken
\* a is the address of u still.
Current(u, a) == a = email[u] \/ u \in overtaken

CallsBacked ==
  \A c \in Calls : accountCall[c].pc \in {"mark", "link"} => Backed(accountCall[c].user)
CallsCurrent ==
  \A c \in Calls : accountCall[c].pc = "create token" /\ accountCall[c].kind = "verification"
                     => Current(accountCall[c].user, accountCall[c].addr)
TokensCurrent ==
  \A t \in Tokens : Account!Usable(t) /\ userToken[t].kind = "verification"
                      => \/ Current(userToken[t].user, userToken[t].sentTo)
                         \/ Account!Replacing(t)

AInv == /\ ATypes /\ VerifiedWasProven /\ CallsBacked /\ CallsCurrent /\ TokensCurrent
        /\ ProvisionedKeepsLink

\* Next-state forms of the above.
BackedNext(u) == email'[u] \in proven'[u] \/ u \in overtaken'
CurrentNext(u, a) == a = email'[u] \/ u \in overtaken'

\* What an action may make of a call, of a token, and of a user's address.
CallMoves(c) ==
  /\ CallHolds(accountCall'[c], Account!Existing')
  /\ accountCall'[c].pc \in {"mark", "link"} => BackedNext(accountCall'[c].user)
  /\ accountCall'[c].pc = "create token" /\ accountCall'[c].kind = "verification"
       => CurrentNext(accountCall'[c].user, accountCall'[c].addr)
  /\ accountCall[c].pc = "create token" =>
       \A t \in Tokens :
         (/\ userToken[t].user = accountCall[c].user /\ userToken[t].kind = accountCall[c].kind
          /\ userToken[t].sentTo # accountCall[c].addr
          /\ Account!Usable(t) /\ Account!Usable(t)')
           => userToken[t].user \in overtaken'

TokenMoves(t) ==
  /\ TokenHolds(userToken'[t], Account!Existing')
  /\ Account!Usable(t)' /\ userToken'[t].kind = "verification" =>
       \/ CurrentNext(userToken'[t].user, userToken'[t].sentTo)
       \/ /\ Account!Usable(t)
          /\ userToken'[t].user = userToken[t].user /\ userToken'[t].kind = userToken[t].kind
          /\ userToken'[t].sentTo = userToken[t].sentTo

AddressChanges(u) ==
  /\ email'[u] \in Addresses
  /\ u \notin verified'
  /\ \A c \in Calls : accountCall[c].user = u /\ accountCall[c].pc \in {"create token", "link", "mark"}
       => u \in overtaken'
  /\ \A t \in Tokens :
       (/\ userToken'[t].user = u /\ userToken'[t].kind = "verification"
        /\ Account!Usable(t)' /\ userToken'[t].sentTo # email'[u])
         => Account!Replacing(t)'

LEMMA UsersStay ==
  ASSUME ATypes, \A u \in Account!Existing : email'[u] = email[u] \/ AddressChanges(u)
  PROVE  Account!Existing \subseteq Account!Existing'
  BY AccountsAssumption DEF AddressChanges, Account!Existing

LEMMA HoldsMore ==
  ASSUME NEW r, NEW S, NEW T, S \subseteq T
  PROVE  (CallHolds(r, S) => CallHolds(r, T)) /\ (TokenHolds(r, S) => TokenHolds(r, T))
  BY DEF CallHolds, TokenHolds, Stored

LEMMA AccountKeeps ==
  ASSUME AInv,
         email' \in [Users -> Addresses \cup {Account!NoAddress}], OneUserEach',
         \A u \in Account!Existing : email'[u] = email[u] \/ AddressChanges(u),
         overtaken \subseteq overtaken',
         proven' \in [Users -> SUBSET Addresses], \A u \in Users : proven[u] \subseteq proven'[u],
         overtaken' \cup provisioned' \cup halfMade' \subseteq Account!Existing',
         accountCalls' \in 0 .. MaxAccountCalls,
         \A u \in verified' : u \in verified \/ (u \in Account!Existing' /\ BackedNext(u)),
         link' = [x \in Identities |-> link'[x]],
         \A i \in Identities : link'[i] = link[i] \/ link'[i] \in Account!Existing' \cup {Account!NoUser},
         userToken' = [x \in Tokens |-> userToken'[x]],
         \A t \in Tokens : userToken'[t] = userToken[t] \/ TokenMoves(t),
         DOMAIN accountCall' = Calls,
         \A c \in Calls : accountCall'[c] = accountCall[c] \/ CallMoves(c),
         ProvisionedKeepsLink'
  PROVE  AInv'
<1>1. Account!Existing \subseteq Account!Existing'
  BY UsersStay DEF AInv
<1> DEFINE old == Account!Existing
           new == Account!Existing'
<1>2. ATypes'
  <2>1. verified' \subseteq new
    BY <1>1 DEF AInv, ATypes
  <2>2. \A i \in Identities : link'[i] \in new \cup {Account!NoUser}
    BY <1>1 DEF AInv, ATypes
  <2>3. \A t \in Tokens : TokenHolds(userToken'[t], new)
    <3> HIDE DEF old, new
    <3>1. \A t \in Tokens : TokenHolds(userToken[t], old)
      BY DEF AInv, ATypes, old
    <3>2. \A t \in Tokens : TokenHolds(userToken[t], new)
      BY <1>1, <3>1, HoldsMore DEF old, new
    <3>3. QED
      BY <3>2 DEF TokenMoves, new
  <2>4. \A c \in Calls : CallHolds(accountCall'[c], new)
    <3> HIDE DEF old, new
    <3>1. \A c \in Calls : CallHolds(accountCall[c], old)
      BY DEF AInv, ATypes, old
    <3>2. \A c \in Calls : CallHolds(accountCall[c], new)
      BY <1>1, <3>1, HoldsMore DEF old, new
    <3>3. QED
      BY <3>2 DEF CallMoves, new
  <2>5. \A t \in Tokens : TokenHolds(userToken[t], Account!Existing)'
    BY <2>3 DEF TokenHolds, Stored
  <2>6. \A c \in Calls : CallHolds(accountCall[c], Account!Existing)'
    BY <2>4 DEF CallHolds, AccountCall
  <2>7. QED
    BY <2>1, <2>2, <2>5, <2>6 DEF ATypes
\* What was backed or current stays so, unless the address changes.
<1>3. ASSUME NEW u \in Account!Existing, email'[u] = email[u]
      PROVE  /\ Backed(u) => BackedNext(u)
             /\ \A a : Current(u, a) => CurrentNext(u, a)
  <2>1. u \in Users
    BY DEF Account!Existing
  <2>2. QED
    BY <1>3, <2>1 DEF Backed, BackedNext, Current, CurrentNext
<1>4. VerifiedWasProven'
  <2> SUFFICES ASSUME NEW u \in verified' PROVE BackedNext(u)
    BY DEF VerifiedWasProven, Account!VerifiedWasProven, BackedNext
  <2>1. CASE u \in verified
    <3>1. u \in Account!Existing /\ Backed(u)
      BY <2>1 DEF AInv, ATypes, VerifiedWasProven, Account!VerifiedWasProven, Backed
    <3>2. email'[u] = email[u]
      BY <3>1 DEF AddressChanges
    <3>3. QED
      BY <1>3, <3>1, <3>2
  <2>2. QED
    BY <2>1
<1>5. CallsBacked'
  <2> SUFFICES ASSUME NEW c \in Calls, accountCall'[c].pc \in {"mark", "link"}
               PROVE  BackedNext(accountCall'[c].user)
    BY DEF CallsBacked, Backed, BackedNext
  <2>1. CASE CallMoves(c)
    BY <2>1 DEF CallMoves
  <2>2. CASE accountCall'[c] = accountCall[c]
    <3> DEFINE u == accountCall[c].user
    <3>1. u \in Account!Existing /\ Backed(u)
      BY <2>2 DEF AInv, ATypes, CallHolds, CallsBacked
    <3>2. CASE email'[u] = email[u]
      BY <1>3, <2>2, <3>1, <3>2
    <3>3. CASE AddressChanges(u)
      BY <2>2, <3>3 DEF AddressChanges, BackedNext
    <3>4. QED
      BY <3>1, <3>2, <3>3
  <2>3. QED
    BY <2>1, <2>2
<1>6. CallsCurrent'
  <2> SUFFICES ASSUME NEW c \in Calls, accountCall'[c].pc = "create token",
                      accountCall'[c].kind = "verification"
               PROVE  CurrentNext(accountCall'[c].user, accountCall'[c].addr)
    BY DEF CallsCurrent, Current, CurrentNext
  <2>1. CASE CallMoves(c)
    BY <2>1 DEF CallMoves
  <2>2. CASE accountCall'[c] = accountCall[c]
    <3> DEFINE u == accountCall[c].user
    <3>1. u \in Account!Existing /\ Current(u, accountCall[c].addr)
      BY <2>2 DEF AInv, ATypes, CallHolds, CallsCurrent
    <3>2. CASE email'[u] = email[u]
      BY <1>3, <2>2, <3>1, <3>2
    <3>3. CASE AddressChanges(u)
      BY <2>2, <3>3 DEF AddressChanges, CurrentNext
    <3>4. QED
      BY <3>1, <3>2, <3>3
  <2>3. QED
    BY <2>1, <2>2
<1>7. TokensCurrent'
  <2> SUFFICES ASSUME NEW t \in Tokens, Account!Usable(t)', userToken'[t].kind = "verification"
               PROVE  \/ CurrentNext(userToken'[t].user, userToken'[t].sentTo)
                      \/ Account!Replacing(t)'
    BY DEF TokensCurrent, Current, CurrentNext
  <2> DEFINE u == userToken[t].user
  <2>1. \/ CurrentNext(userToken'[t].user, userToken'[t].sentTo)
        \/ /\ Account!Usable(t)
           /\ userToken'[t].user = u /\ userToken'[t].kind = userToken[t].kind
           /\ userToken'[t].sentTo = userToken[t].sentTo
    BY DEF TokenMoves, Account!Usable
  <2>2. ASSUME /\ Account!Usable(t)
               /\ userToken'[t].user = u /\ userToken'[t].kind = userToken[t].kind
               /\ userToken'[t].sentTo = userToken[t].sentTo
        PROVE  \/ CurrentNext(userToken'[t].user, userToken'[t].sentTo)
               \/ Account!Replacing(t)'
    <3>1. u \in Account!Existing
      BY <2>2 DEF AInv, ATypes, TokenHolds, Stored, Account!Usable, Account!Unissued
    <3>2. Current(u, userToken[t].sentTo) \/ Account!Replacing(t)
      BY <2>2 DEF AInv, TokensCurrent
    <3>3. CASE AddressChanges(u)
      BY <2>2, <3>3 DEF AddressChanges, CurrentNext
    <3>4. CASE email'[u] = email[u] /\ Current(u, userToken[t].sentTo)
      BY <1>3, <2>2, <3>1, <3>4
    <3>5. CASE Account!Replacing(t)
      <4>1. PICK d \in Calls : /\ accountCall[d].pc = "create token"
                               /\ accountCall[d].user = u /\ accountCall[d].kind = userToken[t].kind
                               /\ accountCall[d].addr # userToken[t].sentTo
        BY <3>5 DEF Account!Replacing
      <4>2. CASE accountCall'[d] = accountCall[d]
        BY <2>2, <4>1, <4>2 DEF Account!Replacing
      <4>3. CASE CallMoves(d)
        <5>1. u \in overtaken'
          BY <2>2, <4>1, <4>3 DEF CallMoves
        <5>2. QED
          BY <2>2, <5>1 DEF CurrentNext
      <4>4. QED
        BY <4>2, <4>3
    <3>6. QED
      BY <3>1, <3>2, <3>3, <3>4, <3>5
  <2>3. QED
    BY <2>1, <2>2
<1>8. QED
  BY <1>2, <1>4, <1>5, <1>6, <1>7 DEF AInv

LEMMA LinksKept ==
  ASSUME AInv, link' = link, provisioned' = provisioned, halfMade \subseteq halfMade',
         \A c \in Calls : accountCall[c].pc = "link" =>
           \/ accountCall'[c] = accountCall[c]
           \/ accountCall[c].user \in halfMade'
  PROVE  ProvisionedKeepsLink'
<1> SUFFICES ASSUME NEW u \in provisioned
             PROVE  \/ \E i \in Identities : link[i] = u
                    \/ \E c \in Calls : accountCall'[c].user = u /\ accountCall'[c].pc = "link"
                    \/ u \in halfMade'
  BY DEF ProvisionedKeepsLink, Account!ProvisionedKeepsLink
<1>1. \/ \E i \in Identities : link[i] = u
      \/ \E c \in Calls : accountCall[c].user = u /\ accountCall[c].pc = "link"
      \/ u \in halfMade
  BY DEF AInv, ProvisionedKeepsLink, Account!ProvisionedKeepsLink
<1>2. QED
  BY <1>1

\* An action that leaves the addresses and the links alone.
LEMMA AddressesStay ==
  ASSUME AInv, email' = email, link' = link, provisioned' = provisioned,
         overtaken \subseteq overtaken', overtaken' \subseteq Account!Existing,
         halfMade \subseteq halfMade', halfMade' \subseteq Account!Existing,
         proven' \in [Users -> SUBSET Addresses], \A u \in Users : proven[u] \subseteq proven'[u],
         accountCalls' \in 0 .. MaxAccountCalls,
         \A u \in verified' : u \in verified \/ (u \in Account!Existing /\ BackedNext(u)),
         userToken' = [x \in Tokens |-> userToken'[x]],
         \A t \in Tokens : userToken'[t] = userToken[t] \/ TokenMoves(t),
         DOMAIN accountCall' = Calls,
         \A c \in Calls : accountCall'[c] = accountCall[c] \/ CallMoves(c),
         \A c \in Calls : accountCall[c].pc = "link" =>
           \/ accountCall'[c] = accountCall[c]
           \/ accountCall[c].user \in halfMade'
  PROVE  AInv'
<1>1. Account!Existing' = Account!Existing
  BY DEF Account!Existing
<1>2. email' \in [Users -> Addresses \cup {Account!NoAddress}] /\ OneUserEach'
      /\ link' = [x \in Identities |-> link'[x]] /\ provisioned' \subseteq Account!Existing
  BY <1>1 DEF AInv, ATypes, OneUserEach
<1>3. ProvisionedKeepsLink'
  BY LinksKept
<1>4. \A u \in verified' : u \in verified \/ (u \in Account!Existing' /\ BackedNext(u))
  BY <1>1
<1>5. overtaken' \cup provisioned' \cup halfMade' \subseteq Account!Existing'
  BY <1>1, <1>2
<1>6. \A u \in Account!Existing : email'[u] = email[u] \/ AddressChanges(u)
  OBVIOUS
<1>7. \A i \in Identities : link'[i] = link[i] \/ link'[i] \in Account!Existing' \cup {Account!NoUser}
  OBVIOUS
<1>8. QED
  BY <1>2, <1>3, <1>4, <1>5, <1>6, <1>7, AccountKeeps

LEMMA CallWritten ==
  ASSUME ATypes, NEW c \in Calls, NEW new, accountCall' = [accountCall EXCEPT ![c] = new]
  PROVE  /\ DOMAIN accountCall' = Calls /\ accountCall'[c] = new
         /\ \A d \in Calls : d # c => accountCall'[d] = accountCall[d]
  BY DEF ATypes

LEMMA TokenWritten ==
  ASSUME ATypes, NEW t \in Tokens, NEW new, userToken' = [userToken EXCEPT ![t] = new]
  PROVE  /\ userToken' = [x \in Tokens |-> userToken'[x]] /\ userToken'[t] = new
         /\ \A n \in Tokens : n # t => userToken'[n] = userToken[n]
  BY DEF ATypes

LEMMA CallsCounted ==
  accountCalls \in 0 .. MaxAccountCalls /\ accountCalls < MaxAccountCalls
    => accountCalls + 1 \in 0 .. MaxAccountCalls
  BY AccountsAssumption

LEMMA IdleCall ==
  /\ Account!Idle.pc = "idle"
  /\ \A users : CallHolds(Account!Idle, users)
  BY DEF Account!Idle, CallHolds, AccountCall, AccountPcs

LEMMA UserFacts ==
  ASSUME AInv
  PROVE  /\ Account!Existing \subseteq Users /\ verified \subseteq Account!Existing
         /\ overtaken \subseteq Account!Existing /\ provisioned \subseteq Account!Existing
         /\ halfMade \subseteq Account!Existing
         /\ proven \in [Users -> SUBSET Addresses]
         /\ userToken = [x \in Tokens |-> userToken[x]] /\ DOMAIN accountCall = Calls /\ link = [x \in Identities |-> link[x]]
         /\ accountCalls \in 0 .. MaxAccountCalls
         /\ \A a \in Addresses : Account!UserOf(a) \subseteq Account!Existing
  BY AccountsAssumption DEF AInv, ATypes, Account!Existing, Account!UserOf

\* A call that begins with a record of its own.
LEMMA CallStarts ==
  ASSUME AInv, NEW c \in Calls, NEW new, Account!Start(c, new), CallHolds(new, Account!Existing'),
         new.pc \in {"mark", "link"} => BackedNext(new.user),
         new.pc = "create token" /\ new.kind = "verification" => CurrentNext(new.user, new.addr)
  PROVE  /\ DOMAIN accountCall' = Calls /\ accountCall'[c] = new
         /\ \A d \in Calls : accountCall'[d] = accountCall[d] \/ CallMoves(d)
         /\ \A d \in Calls : accountCall[d].pc = "link" => accountCall'[d] = accountCall[d]
         /\ \A d \in Calls : accountCall[d].pc # "idle" => accountCall'[d] = accountCall[d]
         /\ accountCalls' \in 0 .. MaxAccountCalls
<1>1. /\ accountCall[c] = Account!Idle /\ accountCall' = [accountCall EXCEPT ![c] = new]
      /\ accountCalls < MaxAccountCalls /\ accountCalls' = accountCalls + 1
  BY DEF Account!Start
<1>2. /\ DOMAIN accountCall' = Calls /\ accountCall'[c] = new
      /\ \A d \in Calls : d # c => accountCall'[d] = accountCall[d]
  BY <1>1, CallWritten DEF AInv
<1>3. accountCall[c].pc = "idle"
  BY <1>1, IdleCall
<1>4. CallMoves(c)
  BY <1>2, <1>3 DEF CallMoves
<1>5. accountCalls' \in 0 .. MaxAccountCalls
  BY <1>1, UserFacts, CallsCounted
<1>6. QED
  BY <1>2, <1>3, <1>4, <1>5

\* A call that ends and had no token to create.
LEMMA CallEnds ==
  ASSUME AInv, NEW c \in Calls, Account!End(c), accountCall[c].pc # "create token"
  PROVE  /\ DOMAIN accountCall' = Calls
         /\ \A d \in Calls : accountCall'[d] = accountCall[d] \/ CallMoves(d)
         /\ \A d \in Calls : d # c => accountCall'[d] = accountCall[d]
<1>1. accountCall' = [accountCall EXCEPT ![c] = Account!Idle]
  BY DEF Account!End
<1>2. /\ DOMAIN accountCall' = Calls /\ accountCall'[c] = Account!Idle
      /\ \A d \in Calls : d # c => accountCall'[d] = accountCall[d]
  BY <1>1, CallWritten DEF AInv
<1>3. CallMoves(c)
  BY <1>2, IdleCall DEF CallMoves
<1>4. QED
  BY <1>2, <1>3

\* What is sent to an address that u has.
LEMMA SendingHolds ==
  ASSUME NEW users, NEW u \in Users, u \in users, NEW a \in Addresses, NEW kind \in Account!Kinds
  PROVE  CallHolds(Account!Sending(u, a, kind), users)
  BY DEF Account!Sending, Account!Idle, CallHolds, AccountCall, AccountPcs

LEMMA SendsKeep ==
  ASSUME AInv, NEW c \in Calls, NEW a \in Addresses,
         Account!ResendVerification(c, a) \/ Account!RequestPasswordReset(c, a)
  PROVE  AInv'
<1>1. PICK u \in Account!UserOf(a), kind \in Account!Kinds :
        Account!Start(c, Account!Sending(u, a, kind))
  BY DEF Account!ResendVerification, Account!RequestPasswordReset, Account!SendVerification,
         Account!Kinds
<1>2. /\ email' = email /\ verified' = verified /\ link' = link /\ userToken' = userToken
      /\ proven' = proven /\ overtaken' = overtaken /\ provisioned' = provisioned
      /\ halfMade' = halfMade
  BY DEF Account!ResendVerification, Account!RequestPasswordReset, Account!history
<1> DEFINE new == Account!Sending(u, a, kind)
<1>3. u \in Account!Existing /\ email[u] = a
  BY <1>1, UserFacts DEF Account!UserOf
<1>4. Account!Existing' = Account!Existing
  BY <1>2 DEF Account!Existing
<1>5. /\ CallHolds(new, Account!Existing) /\ new.pc = "create token"
      /\ new.user = u /\ new.addr = a
  <2>1. u \in Users
    BY <1>3, UserFacts
  <2>2. u \in Account!Existing
    BY <1>3
  <2>3. CallHolds(Account!Sending(u, a, kind), Account!Existing)
    BY <2>1, <2>2, SendingHolds
  <2>4. new.pc = "create token" /\ new.user = u /\ new.addr = a
    BY DEF Account!Sending, Account!Idle
  <2>5. QED
    BY <2>3, <2>4
<1>6. CurrentNext(new.user, new.addr)
  BY <1>2, <1>3, <1>5 DEF CurrentNext
<1> HIDE DEF new
<1>7. /\ DOMAIN accountCall' = Calls
      /\ \A d \in Calls : accountCall'[d] = accountCall[d] \/ CallMoves(d)
      /\ \A d \in Calls : accountCall[d].pc = "link" => accountCall'[d] = accountCall[d]
      /\ accountCalls' \in 0 .. MaxAccountCalls
  BY <1>1, <1>4, <1>5, <1>6, CallStarts DEF new
<1>8. QED
  BY <1>2, <1>7, UserFacts, AddressesStay

LEMMA AddressWritten ==
  ASSUME ATypes, NEW u \in Users, NEW a \in Addresses, Account!UserOf(a) = {},
         email' = [email EXCEPT ![u] = a]
  PROVE  /\ email' \in [Users -> Addresses \cup {Account!NoAddress}] /\ OneUserEach'
         /\ email'[u] = a /\ u \in Account!Existing'
         /\ \A v \in Users : v # u => email'[v] = email[v]
         /\ Account!Existing \subseteq Account!Existing'
<1>1. email \in [Users -> Addresses \cup {Account!NoAddress}] /\ OneUserEach
  BY DEF ATypes
<1>2. /\ email' \in [Users -> Addresses \cup {Account!NoAddress}]
      /\ email'[u] = a /\ \A v \in Users : v # u => email'[v] = email[v]
  BY <1>1
<1>3. a # Account!NoAddress
  BY AccountsAssumption
<1>4. u \in Account!Existing' /\ Account!Existing \subseteq Account!Existing'
  BY <1>2, <1>3 DEF Account!Existing
<1>5. \A v \in Users : email[v] # a
  BY DEF Account!UserOf
<1>6. OneUserEach'
  BY <1>1, <1>2, <1>5 DEF OneUserEach, Account!Existing
<1>7. QED
  BY <1>2, <1>4, <1>6

LEMMA ProvenWritten ==
  ASSUME AInv, NEW u \in Users, NEW a \in Addresses, Account!Prove(u, a)
  PROVE  /\ proven' \in [Users -> SUBSET Addresses] /\ a \in proven'[u]
         /\ \A v \in Users : proven[v] \subseteq proven'[v]
<1>1. proven \in [Users -> SUBSET Addresses]
  BY UserFacts
<1>2. proven' = [proven EXCEPT ![u] = @ \cup {a}]
  BY DEF Account!Prove
<1>3. QED
  BY <1>1, <1>2

LEMMA RegisterKeeps ==
  ASSUME AInv, NEW c \in Calls, NEW u \in Users, NEW a \in Addresses, Account!Register(c, u, a)
  PROVE  AInv'
<1>1. /\ email[u] = Account!NoAddress /\ Account!UserOf(a) = {}
      /\ email' = [email EXCEPT ![u] = a]
      /\ Account!Start(c, Account!Sending(u, a, "verification"))
      /\ verified' = verified /\ link' = link /\ userToken' = userToken
      /\ proven' = proven /\ overtaken' = overtaken /\ provisioned' = provisioned
      /\ halfMade' = halfMade
  BY DEF Account!Register, Account!Insert, Account!SendVerification, Account!history
<1>2. /\ email' \in [Users -> Addresses \cup {Account!NoAddress}] /\ OneUserEach'
      /\ email'[u] = a /\ u \in Account!Existing'
      /\ \A v \in Users : v # u => email'[v] = email[v]
      /\ Account!Existing \subseteq Account!Existing'
  BY <1>1, AddressWritten DEF AInv
<1>3. \A v \in Account!Existing : email'[v] = email[v]
  BY <1>1, <1>2 DEF Account!Existing
<1> DEFINE new == Account!Sending(u, a, "verification")
<1>4. CallHolds(new, Account!Existing')
  BY <1>2, SendingHolds DEF Account!Kinds
<1>5. new.pc = "create token" /\ new.user = u /\ new.addr = a
  BY DEF Account!Sending, Account!Idle
<1>6. CurrentNext(new.user, new.addr)
  BY <1>2, <1>5 DEF CurrentNext
<1> HIDE DEF new
<1>7. /\ DOMAIN accountCall' = Calls
      /\ \A d \in Calls : accountCall'[d] = accountCall[d] \/ CallMoves(d)
      /\ \A d \in Calls : accountCall[d].pc = "link" => accountCall'[d] = accountCall[d]
      /\ accountCalls' \in 0 .. MaxAccountCalls
  BY <1>1, <1>4, <1>5, <1>6, CallStarts DEF new
<1>8. ProvisionedKeepsLink'
  BY <1>1, <1>7, LinksKept
<1>9. overtaken' \cup provisioned' \cup halfMade' \subseteq Account!Existing'
  BY <1>1, <1>2, UserFacts
<1>10. QED
  BY <1>1, <1>2, <1>3, <1>7, <1>8, <1>9, UserFacts, AccountKeeps

LEMMA ChangeEmailKeeps ==
  ASSUME AInv, NEW c \in Calls, NEW u \in Users, NEW a \in Addresses, Account!ChangeEmail(c, u, a)
  PROVE  AInv'
<1>1. /\ u \in Account!Existing /\ Account!UserOf(a) = {}
      /\ email' = [email EXCEPT ![u] = a] /\ verified' = verified \ {u}
      /\ Account!Start(c, Account!Sending(u, a, "verification"))
      /\ overtaken' = IF Account!HaveRead(u) # {} THEN overtaken \cup {u} ELSE overtaken
      /\ link' = link /\ userToken' = userToken
      /\ proven' = proven /\ provisioned' = provisioned /\ halfMade' = halfMade
  BY DEF Account!ChangeEmail, Account!UpdateEmail, Account!SendVerification
<1>2. /\ email' \in [Users -> Addresses \cup {Account!NoAddress}] /\ OneUserEach'
      /\ email'[u] = a /\ u \in Account!Existing'
      /\ \A v \in Users : v # u => email'[v] = email[v]
      /\ Account!Existing \subseteq Account!Existing'
  BY <1>1, AddressWritten DEF AInv
<1> DEFINE new == Account!Sending(u, a, "verification")
<1>3. CallHolds(new, Account!Existing')
  BY <1>2, SendingHolds DEF Account!Kinds
<1>4. new.pc = "create token" /\ new.user = u /\ new.addr = a /\ new.kind = "verification"
  BY DEF Account!Sending, Account!Idle
<1>5. CurrentNext(new.user, new.addr)
  BY <1>2, <1>4 DEF CurrentNext
<1> HIDE DEF new
<1>6. /\ DOMAIN accountCall' = Calls /\ accountCall'[c] = new
      /\ \A d \in Calls : accountCall'[d] = accountCall[d] \/ CallMoves(d)
      /\ \A d \in Calls : accountCall[d].pc = "link" => accountCall'[d] = accountCall[d]
      /\ accountCalls' \in 0 .. MaxAccountCalls
  BY <1>1, <1>3, <1>4, <1>5, CallStarts DEF new
<1>7. AddressChanges(u)
  <2>1. \A d \in Calls : accountCall[d].user = u /\ accountCall[d].pc \in {"create token", "link", "mark"}
          => u \in overtaken'
    BY <1>1 DEF Account!HaveRead
  <2>2. ASSUME NEW t \in Tokens, userToken'[t].user = u, userToken'[t].kind = "verification",
               userToken'[t].sentTo # email'[u]
        PROVE  Account!Replacing(t)'
    BY <1>2, <1>4, <1>6, <2>2 DEF Account!Replacing
  <2>3. email'[u] \in Addresses /\ u \notin verified'
    BY <1>1, <1>2
  <2>4. \A t \in Tokens :
          (/\ userToken'[t].user = u /\ userToken'[t].kind = "verification"
           /\ Account!Usable(t)' /\ userToken'[t].sentTo # email'[u])
            => Account!Replacing(t)'
    BY <2>2
  <2>5. QED
    BY <2>1, <2>3, <2>4 DEF AddressChanges
<1>8. \A v \in Account!Existing : email'[v] = email[v] \/ AddressChanges(v)
  BY <1>2, <1>7, UserFacts
<1>9. ProvisionedKeepsLink'
  BY <1>1, <1>6, LinksKept
<1>10. /\ overtaken' \cup provisioned' \cup halfMade' \subseteq Account!Existing'
       /\ overtaken \subseteq overtaken'
  BY <1>1, <1>2, UserFacts
<1>11. \A v \in verified' : v \in verified
  BY <1>1
<1>12. QED
  BY <1>1, <1>2, <1>6, <1>8, <1>9, <1>10, <1>11, UserFacts, AccountKeeps

LEMMA CreateTokenKeeps ==
  ASSUME AInv, NEW c \in Calls, Account!CreateUserToken(c)
  PROVE  AInv'
<1> DEFINE r == accountCall[c]
           stored == [state |-> "stored", user |-> r.user, kind |-> r.kind, sentTo |-> r.addr]
<1>1. PICK n \in Tokens :
        /\ r.pc = "create token" /\ userToken[n] = Account!Unissued
        /\ userToken' = [t \in Tokens |->
             CASE t = n -> stored
               [] t # n /\ t \in Account!Replaced(r.user, r.kind) -> [userToken[t] EXCEPT !.state = "used"]
               [] OTHER -> userToken[t]]
        /\ accountCall' = [accountCall EXCEPT ![c].pc = "enqueue", ![c].token = n]
  BY DEF Account!CreateUserToken
<1>2. /\ email' = email /\ verified' = verified /\ link' = link /\ accountCalls' = accountCalls
      /\ proven' = proven /\ overtaken' = overtaken /\ provisioned' = provisioned
      /\ halfMade' = halfMade
  BY DEF Account!CreateUserToken, Account!history
<1>3. Account!Existing' = Account!Existing
  BY <1>2 DEF Account!Existing
<1>4. /\ CallHolds(r, Account!Existing) /\ r.user \in Account!Existing
      /\ r.addr \in Addresses /\ r.kind \in Account!Kinds /\ r \in AccountCall
  BY <1>1 DEF AInv, ATypes, CallHolds
<1>5. r.kind = "verification" => CurrentNext(r.user, r.addr)
  BY <1>1, <1>2 DEF AInv, CallsCurrent, Current, CurrentNext
<1> DEFINE new == [r EXCEPT !.pc = "enqueue", !.token = n]
<1>6. accountCall' = [accountCall EXCEPT ![c] = new]
  BY <1>1 DEF AInv, ATypes
<1> HIDE DEF r
<1>7. new.pc = "enqueue" /\ CallHolds(new, Account!Existing)
  <2>1. /\ new.pc = "enqueue" /\ new.token = n /\ new.user = r.user /\ new.addr = r.addr
        /\ new.kind = r.kind /\ new.subject = r.subject
    BY <1>4 DEF AccountCall
  <2>2. new \in AccountCall
    BY <1>4, <2>1 DEF AccountCall, AccountPcs
  <2> HIDE DEF new
  <2>3. QED
    BY <1>4, <2>1, <2>2 DEF CallHolds
<1> HIDE DEF new
<1> USE DEF r
<1>8. /\ DOMAIN accountCall' = Calls /\ accountCall'[c] = new
      /\ \A d \in Calls : d # c => accountCall'[d] = accountCall[d]
  BY <1>6, CallWritten DEF AInv
<1>9. /\ userToken'[n] = stored
      /\ \A t \in Tokens : t # n /\ t \in Account!Replaced(r.user, r.kind) =>
           Account!Usable(t) /\ userToken'[t] = [userToken[t] EXCEPT !.state = "used"]
      /\ \A t \in Tokens : t # n /\ t \notin Account!Replaced(r.user, r.kind) =>
           userToken'[t] = userToken[t]
      /\ userToken' = [x \in Tokens |-> userToken'[x]]
  BY <1>1 DEF Account!Replaced
<1>10. ASSUME NEW t \in Tokens, Account!Usable(t)
       PROVE  userToken[t] \in Stored(Account!Existing)
  BY <1>10 DEF AInv, ATypes, TokenHolds, Account!Usable, Account!Unissued
<1>11. ASSUME NEW t \in Tokens, t # n, t \in Account!Replaced(r.user, r.kind)
       PROVE  userToken'[t].state = "used" /\ TokenHolds(userToken'[t], Account!Existing)
  <2> DEFINE old == userToken[t]
             used == [old EXCEPT !.state = "used"]
  <2>1. old \in Stored(Account!Existing) /\ userToken'[t] = used
    BY <1>9, <1>10, <1>11
  <2> HIDE DEF old
  <2>2. used \in Stored(Account!Existing) /\ used.state = "used"
    BY <2>1 DEF Stored
  <2> HIDE DEF used
  <2>3. QED
    BY <2>1, <2>2 DEF TokenHolds
<1>12. \A t \in Tokens : userToken'[t] = userToken[t] \/ TokenMoves(t)
  <2>1. TokenMoves(n)
    <3>1. stored \in Stored(Account!Existing)
      BY <1>4 DEF Stored
    <3>2. stored.kind = r.kind /\ stored.user = r.user /\ stored.sentTo = r.addr
      OBVIOUS
    <3> HIDE DEF stored
    <3>3. QED
      BY <1>3, <1>5, <1>9, <3>1, <3>2 DEF TokenMoves, TokenHolds
  <2>2. ASSUME NEW t \in Tokens, t # n, t \in Account!Replaced(r.user, r.kind)
        PROVE  TokenMoves(t)
    <3>1. ~Account!Usable(t)'
      BY <1>11, <2>2 DEF Account!Usable
    <3>2. QED
      BY <1>3, <1>11, <2>2, <3>1 DEF TokenMoves
  <2>3. QED
    BY <1>9, <2>1, <2>2
<1>13. CallMoves(c)
  <2>1. ASSUME NEW t \in Tokens, userToken[t].user = r.user, userToken[t].kind = r.kind,
               Account!Usable(t), Account!Usable(t)'
        PROVE  FALSE
    <3>1. t # n
      <4>1. userToken[n] = Account!Unissued
        BY <1>1
      <4>2. ~Account!Usable(n)
        BY <4>1 DEF Account!Usable, Account!Unissued
      <4>3. QED
        BY <2>1, <4>2
    <3>2. t \in Account!Replaced(r.user, r.kind)
      BY <2>1 DEF Account!Replaced
    <3>3. QED
      BY <1>11, <2>1, <3>1, <3>2 DEF Account!Usable
  <2>2. /\ CallHolds(accountCall'[c], Account!Existing')
        /\ accountCall'[c].pc = "enqueue"
    BY <1>3, <1>7, <1>8
  <2>3. \A t \in Tokens :
          (/\ userToken[t].user = accountCall[c].user /\ userToken[t].kind = accountCall[c].kind
           /\ userToken[t].sentTo # accountCall[c].addr
           /\ Account!Usable(t) /\ Account!Usable(t)')
            => userToken[t].user \in overtaken'
    BY <2>1
  <2>4. QED
    BY <2>2, <2>3 DEF CallMoves
<1>14. \A d \in Calls : accountCall'[d] = accountCall[d] \/ CallMoves(d)
  BY <1>8, <1>13
<1>15. \A d \in Calls : accountCall[d].pc = "link" => accountCall'[d] = accountCall[d]
  BY <1>1, <1>8
<1>16. QED
  BY <1>2, <1>8, <1>9, <1>12, <1>14, <1>15, UserFacts, AddressesStay

\* A token whose state alone is written.
LEMMA TokenMarked ==
  ASSUME AInv, email' = email, NEW t \in Tokens, NEW state \in {"sent", "used"},
         Account!Usable(t), userToken' = [userToken EXCEPT ![t].state = state]
  PROVE  /\ userToken' = [x \in Tokens |-> userToken'[x]]
         /\ \A n \in Tokens : userToken'[n] = userToken[n] \/ TokenMoves(n)
         /\ userToken[t] \in Stored(Account!Existing)
<1> DEFINE old == userToken[t]
           new == [old EXCEPT !.state = state]
<1>1. old \in Stored(Account!Existing)
  BY DEF AInv, ATypes, TokenHolds, Account!Usable, Account!Unissued
<1>2. userToken' = [userToken EXCEPT ![t] = new]
  BY DEF AInv, ATypes
<1> HIDE DEF old
<1>3. new.user = old.user /\ new.kind = old.kind /\ new.sentTo = old.sentTo
  BY <1>1 DEF Stored
<1>4. new \in Stored(Account!Existing)
  BY <1>1 DEF Stored
<1> HIDE DEF new
<1> USE DEF old
<1>5. /\ userToken' = [x \in Tokens |-> userToken'[x]] /\ userToken'[t] = new
      /\ \A n \in Tokens : n # t => userToken'[n] = userToken[n]
  BY <1>2, TokenWritten DEF AInv
<1>6. Account!Existing' = Account!Existing
  BY DEF Account!Existing
<1>7. TokenMoves(t)
  BY <1>3, <1>4, <1>5, <1>6 DEF TokenMoves, TokenHolds
<1>8. QED
  BY <1>1, <1>5, <1>7

LEMMA EnqueueKeeps ==
  ASSUME AInv, NEW c \in Calls, Account!EnqueueEmail(c)
  PROVE  AInv'
<1> DEFINE t == accountCall[c].token
<1>1. /\ accountCall[c].pc = "enqueue" /\ Account!End(c)
      /\ userToken' = [userToken EXCEPT ![t].state = IF @ = "stored" THEN "sent" ELSE @]
      /\ email' = email /\ verified' = verified /\ link' = link /\ accountCalls' = accountCalls
      /\ proven' = proven /\ overtaken' = overtaken /\ provisioned' = provisioned
      /\ halfMade' = halfMade
  BY DEF Account!EnqueueEmail, Account!history
<1> HIDE DEF t
<1>2. /\ userToken' = [x \in Tokens |-> userToken'[x]]
      /\ \A n \in Tokens : userToken'[n] = userToken[n] \/ TokenMoves(n)
  <2>1. CASE t \in Tokens /\ userToken[t].state = "stored"
    <3>1. userToken' = [userToken EXCEPT ![t].state = "sent"]
      BY <1>1, <2>1
    <3>2. Account!Usable(t)
      BY <2>1 DEF Account!Usable
    <3>3. QED
      BY <1>1, <2>1, <3>1, <3>2, TokenMarked
  <2>2. CASE t \in Tokens /\ userToken[t].state # "stored"
    <3> DEFINE old == userToken[t]
               new == [old EXCEPT !.state = old.state]
    <3>1. old \in Stored(Account!Existing) \cup {Account!Unissued}
      BY <2>2 DEF AInv, ATypes, TokenHolds
    <3>2. userToken' = [userToken EXCEPT ![t] = new]
      BY <1>1, <2>2
    <3> HIDE DEF old
    <3>3. new = old
      BY <3>1 DEF Stored, Account!Unissued
    <3> USE DEF old
    <3>4. QED
      BY <2>2, <3>2, <3>3, UserFacts
  <2>3. CASE t \notin Tokens
    BY <1>1, <2>3, UserFacts
  <2>4. QED
    BY <2>1, <2>2, <2>3
<1>3. /\ DOMAIN accountCall' = Calls
      /\ \A d \in Calls : accountCall'[d] = accountCall[d] \/ CallMoves(d)
      /\ \A d \in Calls : d # c => accountCall'[d] = accountCall[d]
  BY <1>1, CallEnds
<1>4. \A d \in Calls : accountCall[d].pc = "link" => accountCall'[d] = accountCall[d]
  BY <1>1, <1>3
<1>5. QED
  BY <1>1, <1>2, <1>3, <1>4, UserFacts, AddressesStay

\* A call begun by the token that it uses up.
LEMMA ConsumeKeeps ==
  ASSUME AInv, NEW c \in Calls, NEW t \in Tokens, email' = email,
         NEW pc \in {"mark", "store password"}, Account!Consume(c, t, pc),
         pc = "mark" => BackedNext(userToken[t].user)
  PROVE  /\ userToken' = [x \in Tokens |-> userToken'[x]]
         /\ \A n \in Tokens : userToken'[n] = userToken[n] \/ TokenMoves(n)
         /\ userToken[t] \in Stored(Account!Existing)
         /\ DOMAIN accountCall' = Calls
         /\ \A d \in Calls : accountCall'[d] = accountCall[d] \/ CallMoves(d)
         /\ \A d \in Calls : accountCall[d].pc = "link" => accountCall'[d] = accountCall[d]
         /\ accountCalls' \in 0 .. MaxAccountCalls
<1> DEFINE u == userToken[t].user
           new == [Account!Idle EXCEPT !.pc = pc, !.user = u]
<1>1. /\ userToken[t].state = "sent" /\ userToken' = [userToken EXCEPT ![t].state = "used"]
      /\ Account!Start(c, new)
  BY DEF Account!Consume
<1>2. Account!Usable(t)
  BY <1>1 DEF Account!Usable
<1>3. /\ userToken' = [x \in Tokens |-> userToken'[x]]
      /\ \A n \in Tokens : userToken'[n] = userToken[n] \/ TokenMoves(n)
      /\ userToken[t] \in Stored(Account!Existing)
  BY <1>1, <1>2, TokenMarked
<1>4. u \in Account!Existing /\ Account!Existing \subseteq Users
  BY <1>3, UserFacts DEF Stored
<1>5. Account!Existing' = Account!Existing
  BY DEF Account!Existing
<1> HIDE DEF u
<1>6. new.pc = pc /\ new.user = u /\ CallHolds(new, Account!Existing)
  BY <1>4 DEF Account!Idle, CallHolds, AccountCall, AccountPcs
<1> HIDE DEF new
<1>7. /\ CallHolds(new, Account!Existing')
      /\ new.pc \in {"mark", "link"} => BackedNext(new.user)
      /\ new.pc = "create token" /\ new.kind = "verification" => CurrentNext(new.user, new.addr)
  BY <1>5, <1>6 DEF u
<1>8. QED
  BY <1>1, <1>3, <1>7, CallStarts

LEMMA VerifyKeeps ==
  ASSUME AInv, NEW c \in Calls, NEW t \in Tokens, Account!VerifyEmail(c, t)
  PROVE  AInv'
<1> DEFINE u == userToken[t].user
           a == userToken[t].sentTo
<1>1. /\ userToken[t].kind = "verification" /\ Account!Consume(c, t, "mark")
      /\ Account!Prove(u, a)
      /\ overtaken' = IF Account!Replacing(t) THEN overtaken \cup {u} ELSE overtaken
      /\ email' = email /\ verified' = verified /\ link' = link
      /\ provisioned' = provisioned /\ halfMade' = halfMade
  BY DEF Account!VerifyEmail
<1>2. Account!Usable(t)
  BY <1>1 DEF Account!Consume, Account!Usable
<1>3. u \in Account!Existing /\ u \in Users /\ a \in Addresses
  <2>1. userToken[t] \in Stored(Account!Existing)
    BY <1>2 DEF AInv, ATypes, TokenHolds, Account!Usable, Account!Unissued
  <2>2. QED
    BY <2>1, UserFacts DEF Stored
<1>4. Current(u, a) \/ Account!Replacing(t)
  BY <1>1, <1>2 DEF AInv, TokensCurrent
<1> HIDE DEF u, a
<1>5. /\ proven' \in [Users -> SUBSET Addresses] /\ a \in proven'[u]
      /\ \A v \in Users : proven[v] \subseteq proven'[v]
  BY <1>1, <1>3, ProvenWritten
<1>6. BackedNext(u)
  BY <1>1, <1>4, <1>5 DEF Current, BackedNext
<1>7. overtaken \subseteq overtaken' /\ overtaken' \subseteq Account!Existing
  BY <1>1, <1>3, UserFacts
<1>8. /\ userToken' = [x \in Tokens |-> userToken'[x]]
      /\ \A n \in Tokens : userToken'[n] = userToken[n] \/ TokenMoves(n)
      /\ DOMAIN accountCall' = Calls
      /\ \A d \in Calls : accountCall'[d] = accountCall[d] \/ CallMoves(d)
      /\ \A d \in Calls : accountCall[d].pc = "link" => accountCall'[d] = accountCall[d]
      /\ accountCalls' \in 0 .. MaxAccountCalls
  BY <1>1, <1>6, ConsumeKeeps DEF u
<1>9. QED
  BY <1>1, <1>5, <1>7, <1>8, UserFacts, AddressesStay

LEMMA ResetKeeps ==
  ASSUME AInv, NEW c \in Calls, NEW t \in Tokens, Account!ConfirmPasswordReset(c, t)
  PROVE  AInv'
<1>1. /\ Account!Consume(c, t, "store password")
      /\ email' = email /\ verified' = verified /\ link' = link
      /\ proven' = proven /\ overtaken' = overtaken /\ provisioned' = provisioned
      /\ halfMade' = halfMade
  BY DEF Account!ConfirmPasswordReset, Account!history
<1>2. /\ userToken' = [x \in Tokens |-> userToken'[x]]
      /\ \A n \in Tokens : userToken'[n] = userToken[n] \/ TokenMoves(n)
      /\ DOMAIN accountCall' = Calls
      /\ \A d \in Calls : accountCall'[d] = accountCall[d] \/ CallMoves(d)
      /\ \A d \in Calls : accountCall[d].pc = "link" => accountCall'[d] = accountCall[d]
      /\ accountCalls' \in 0 .. MaxAccountCalls
  BY <1>1, ConsumeKeeps
<1>3. QED
  BY <1>1, <1>2, UserFacts, AddressesStay

LEMMA LastStatementKeeps ==
  ASSUME AInv, NEW c \in Calls,
         Account!StorePassword(c) \/ Account!MarkUserEmailVerified(c)
  PROVE  AInv'
<1> DEFINE u == accountCall[c].user
<1>1. /\ accountCall[c].pc \in {"store password", "mark"} /\ Account!End(c)
      /\ \/ verified' = verified
         \/ accountCall[c].pc = "mark" /\ verified' = verified \cup {u}
      /\ email' = email /\ link' = link /\ userToken' = userToken /\ accountCalls' = accountCalls
      /\ proven' = proven /\ overtaken' = overtaken /\ provisioned' = provisioned
      /\ halfMade' = halfMade
  BY DEF Account!StorePassword, Account!MarkUserEmailVerified, Account!history
<1>2. accountCall[c].pc = "mark" => u \in Account!Existing /\ BackedNext(u)
  BY <1>1 DEF AInv, ATypes, CallHolds, CallsBacked, Backed, BackedNext
<1> HIDE DEF u
<1>3. \A v \in verified' : v \in verified \/ (v \in Account!Existing /\ BackedNext(v))
  BY <1>1, <1>2
<1>4. /\ DOMAIN accountCall' = Calls
      /\ \A d \in Calls : accountCall'[d] = accountCall[d] \/ CallMoves(d)
      /\ \A d \in Calls : d # c => accountCall'[d] = accountCall[d]
  BY <1>1, CallEnds
<1>5. \A d \in Calls : accountCall[d].pc = "link" => accountCall'[d] = accountCall[d]
  BY <1>1, <1>4
<1>6. QED
  BY <1>1, <1>3, <1>4, <1>5, UserFacts, AddressesStay

LEMMA ExpiryKeeps ==
  ASSUME AInv, NEW t \in Tokens, Account!TokenExpires(t)
  PROVE  AInv'
<1>1. /\ Account!Usable(t) /\ userToken' = [userToken EXCEPT ![t].state = "used"]
      /\ email' = email /\ verified' = verified /\ link' = link
      /\ accountCall' = accountCall /\ accountCalls' = accountCalls
      /\ proven' = proven /\ overtaken' = overtaken /\ provisioned' = provisioned
      /\ halfMade' = halfMade
  BY DEF Account!TokenExpires, Account!history
<1>2. /\ userToken' = [x \in Tokens |-> userToken'[x]]
      /\ \A n \in Tokens : userToken'[n] = userToken[n] \/ TokenMoves(n)
  BY <1>1, TokenMarked
<1>3. QED
  BY <1>1, <1>2, UserFacts, AddressesStay

LEMMA SignInKeeps ==
  ASSUME AInv, NEW c \in Calls, NEW i \in Identities, NEW claim \in Account!Claims,
         Account!SignIn(c, i, claim)
  PROVE  AInv'
<1>1. claim.addr \in Addresses
  BY DEF Account!Claims
<1>2. ASSUME Account!SignInLinked(c, i, claim) PROVE AInv'
  <2> DEFINE u == link[i]
             new == [Account!Idle EXCEPT !.pc = "mark", !.user = u]
  <2>1. /\ u # Account!NoUser /\ email[u] = claim.addr /\ Account!Start(c, new)
        /\ Account!Prove(u, claim.addr)
        /\ email' = email /\ verified' = verified /\ link' = link /\ userToken' = userToken
        /\ overtaken' = overtaken /\ provisioned' = provisioned /\ halfMade' = halfMade
    BY <1>2 DEF Account!SignInLinked, Account!Vouches
  <2>2. u \in Account!Existing /\ u \in Users
    BY <2>1, UserFacts DEF AInv, ATypes
  <2>3. Account!Existing' = Account!Existing
    BY <2>1 DEF Account!Existing
  <2> HIDE DEF u
  <2>4. /\ proven' \in [Users -> SUBSET Addresses] /\ claim.addr \in proven'[u]
        /\ \A v \in Users : proven[v] \subseteq proven'[v]
    BY <1>1, <2>1, <2>2, ProvenWritten
  <2>5. new.pc = "mark" /\ new.user = u /\ CallHolds(new, Account!Existing)
    BY <2>2 DEF Account!Idle, CallHolds, AccountCall, AccountPcs
  <2>6. BackedNext(u)
    BY <2>1, <2>4 DEF BackedNext
  <2> HIDE DEF new
  <2>7. /\ CallHolds(new, Account!Existing')
        /\ new.pc \in {"mark", "link"} => BackedNext(new.user)
        /\ new.pc = "create token" /\ new.kind = "verification" => CurrentNext(new.user, new.addr)
    BY <2>3, <2>5, <2>6
  <2>8. /\ DOMAIN accountCall' = Calls
        /\ \A d \in Calls : accountCall'[d] = accountCall[d] \/ CallMoves(d)
        /\ \A d \in Calls : accountCall[d].pc = "link" => accountCall'[d] = accountCall[d]
        /\ accountCalls' \in 0 .. MaxAccountCalls
    BY <2>1, <2>7, CallStarts
  <2>9. QED
    BY <2>1, <2>4, <2>8, UserFacts, AddressesStay
<1>3. ASSUME Account!SignInUnlinked(c, i, claim) PROVE AInv'
  <2> DEFINE new == [Account!Idle EXCEPT !.pc = "look up", !.addr = claim.addr, !.subject = i]
  <2>1. /\ Account!Start(c, new)
        /\ email' = email /\ verified' = verified /\ link' = link /\ userToken' = userToken
        /\ proven' = proven /\ overtaken' = overtaken /\ provisioned' = provisioned
        /\ halfMade' = halfMade
    BY <1>3 DEF Account!SignInUnlinked, Account!history
  <2>2. new.pc = "look up" /\ CallHolds(new, Account!Existing')
    BY <1>1 DEF Account!Idle, CallHolds, AccountCall, AccountPcs
  <2> HIDE DEF new
  <2>3. /\ DOMAIN accountCall' = Calls
        /\ \A d \in Calls : accountCall'[d] = accountCall[d] \/ CallMoves(d)
        /\ \A d \in Calls : accountCall[d].pc = "link" => accountCall'[d] = accountCall[d]
        /\ accountCalls' \in 0 .. MaxAccountCalls
    BY <2>1, <2>2, CallStarts
  <2>4. QED
    BY <2>1, <2>3, UserFacts, AddressesStay
<1>4. QED
  BY <1>2, <1>3 DEF Account!SignIn

\* A sign-in that has found or made its user goes on to the link.
LEMMA GoesToLink ==
  ASSUME AInv, NEW c \in Calls, accountCall[c].pc \in {"look up", "provision"},
         NEW u \in Users, u \in Account!Existing', BackedNext(u),
         accountCall' = [accountCall EXCEPT ![c].pc = "link", ![c].user = u]
  PROVE  /\ DOMAIN accountCall' = Calls
         /\ \A d \in Calls : accountCall'[d] = accountCall[d] \/ CallMoves(d)
         /\ \A d \in Calls : d # c => accountCall'[d] = accountCall[d]
         /\ accountCall'[c].pc = "link" /\ accountCall'[c].user = u
<1> DEFINE r == accountCall[c]
           new == [r EXCEPT !.pc = "link", !.user = u]
<1>1. r \in AccountCall /\ r.subject \in Identities
  BY DEF AInv, ATypes, CallHolds
<1>2. accountCall' = [accountCall EXCEPT ![c] = new]
  BY DEF AInv, ATypes
<1> HIDE DEF r
<1>3. new.pc = "link" /\ new.user = u /\ new.subject = r.subject
  BY <1>1 DEF AccountCall
<1>4. new \in AccountCall
  BY <1>1, <1>3 DEF AccountCall, AccountPcs
<1> HIDE DEF new
<1> USE DEF r
<1>5. /\ DOMAIN accountCall' = Calls /\ accountCall'[c] = new
      /\ \A d \in Calls : d # c => accountCall'[d] = accountCall[d]
  BY <1>2, CallWritten DEF AInv
<1>6. CallHolds(new, Account!Existing')
  BY <1>1, <1>3, <1>4 DEF CallHolds
<1>7. CallMoves(c)
  BY <1>3, <1>5, <1>6 DEF CallMoves
<1>8. QED
  BY <1>3, <1>5, <1>7

LEMMA LookUpKeeps ==
  ASSUME AInv, NEW c \in Calls, Account!LookUpEmail(c)
  PROVE  AInv'
<1> DEFINE a == accountCall[c].addr
<1>1. /\ accountCall[c].pc = "look up"
      /\ email' = email /\ verified' = verified /\ link' = link /\ userToken' = userToken
      /\ accountCalls' = accountCalls /\ overtaken' = overtaken
      /\ provisioned' = provisioned /\ halfMade' = halfMade
  BY DEF Account!LookUpEmail
<1>2. a \in Addresses
  BY <1>1 DEF AInv, ATypes, CallHolds
<1>3. Account!Existing' = Account!Existing
  BY <1>1 DEF Account!Existing
<1>4. ASSUME NEW u \in Account!UserOf(a), Account!Prove(u, a),
             accountCall' = [accountCall EXCEPT ![c].pc = "link", ![c].user = u]
      PROVE  AInv'
  <2>1. u \in Users /\ u \in Account!Existing /\ email[u] = a
    BY <1>2, <1>4, UserFacts DEF Account!UserOf
  <2> HIDE DEF a
  <2>2. /\ proven' \in [Users -> SUBSET Addresses] /\ a \in proven'[u]
        /\ \A v \in Users : proven[v] \subseteq proven'[v]
    BY <1>2, <1>4, <2>1, ProvenWritten
  <2>3. BackedNext(u)
    BY <1>1, <2>1, <2>2 DEF BackedNext
  <2>4. /\ DOMAIN accountCall' = Calls
        /\ \A d \in Calls : accountCall'[d] = accountCall[d] \/ CallMoves(d)
        /\ \A d \in Calls : d # c => accountCall'[d] = accountCall[d]
    BY <1>1, <1>3, <1>4, <2>1, <2>3, GoesToLink
  <2>5. \A d \in Calls : accountCall[d].pc = "link" => accountCall'[d] = accountCall[d]
    BY <1>1, <2>4
  <2>6. QED
    BY <1>1, <2>2, <2>4, <2>5, UserFacts, AddressesStay
<1>5. ASSUME proven' = proven, accountCall' = [accountCall EXCEPT ![c].pc = "provision"]
      PROVE  AInv'
  <2> DEFINE r == accountCall[c]
             new == [r EXCEPT !.pc = "provision"]
  <2>1. /\ r \in AccountCall /\ r.subject \in Identities /\ r.addr \in Addresses
        /\ r.user \in Account!Existing \cup {Account!NoUser}
    BY <1>1 DEF AInv, ATypes, CallHolds
  <2>2. accountCall' = [accountCall EXCEPT ![c] = new]
    BY <1>5 DEF AInv, ATypes
  <2> HIDE DEF r
  <2>3. /\ new.pc = "provision" /\ new.user = r.user /\ new.subject = r.subject
        /\ new.addr = r.addr
    BY <2>1 DEF AccountCall
  <2>4. new \in AccountCall
    BY <2>1, <2>3 DEF AccountCall, AccountPcs
  <2> HIDE DEF new
  <2>5. CallHolds(new, Account!Existing)
    BY <2>1, <2>3, <2>4 DEF CallHolds
  <2> USE DEF r
  <2>6. /\ DOMAIN accountCall' = Calls /\ accountCall'[c] = new
        /\ \A d \in Calls : d # c => accountCall'[d] = accountCall[d]
    BY <2>2, CallWritten DEF AInv
  <2>7. CallMoves(c)
    BY <1>1, <1>3, <2>3, <2>5, <2>6 DEF CallMoves
  <2>8. /\ \A d \in Calls : accountCall'[d] = accountCall[d] \/ CallMoves(d)
        /\ \A d \in Calls : accountCall[d].pc = "link" => accountCall'[d] = accountCall[d]
    BY <1>1, <2>6, <2>7
  <2>9. QED
    BY <1>1, <1>5, <2>6, <2>8, UserFacts, AddressesStay
<1>6. QED
  BY <1>4, <1>5 DEF Account!LookUpEmail

LEMMA ProvisionKeeps ==
  ASSUME AInv, NEW c \in Calls, Account!Provision(c)
  PROVE  AInv'
<1> DEFINE a == accountCall[c].addr
<1>1. /\ accountCall[c].pc = "provision"
      /\ verified' = verified /\ link' = link /\ userToken' = userToken
      /\ accountCalls' = accountCalls /\ overtaken' = overtaken /\ halfMade' = halfMade
  BY DEF Account!Provision
<1>2. a \in Addresses
  BY <1>1 DEF AInv, ATypes, CallHolds
<1>3. ASSUME NEW u \in Users, Account!Insert(u, a), Account!Prove(u, a),
             accountCall' = [accountCall EXCEPT ![c].pc = "link", ![c].user = u],
             provisioned' = provisioned \cup {u}
      PROVE  AInv'
  <2> HIDE DEF a
  <2>1. /\ email[u] = Account!NoAddress /\ Account!UserOf(a) = {}
        /\ email' = [email EXCEPT ![u] = a]
    BY <1>3 DEF Account!Insert
  <2>2. /\ email' \in [Users -> Addresses \cup {Account!NoAddress}] /\ OneUserEach'
        /\ email'[u] = a /\ u \in Account!Existing'
        /\ \A v \in Users : v # u => email'[v] = email[v]
        /\ Account!Existing \subseteq Account!Existing'
    BY <1>2, <2>1, AddressWritten DEF AInv
  <2>3. \A v \in Account!Existing : email'[v] = email[v]
    BY <2>1, <2>2 DEF Account!Existing
  <2>4. /\ proven' \in [Users -> SUBSET Addresses] /\ a \in proven'[u]
        /\ \A v \in Users : proven[v] \subseteq proven'[v]
    BY <1>2, <1>3, ProvenWritten
  <2>5. BackedNext(u)
    BY <2>2, <2>4 DEF BackedNext
  <2>6. /\ DOMAIN accountCall' = Calls
        /\ \A d \in Calls : accountCall'[d] = accountCall[d] \/ CallMoves(d)
        /\ \A d \in Calls : d # c => accountCall'[d] = accountCall[d]
        /\ accountCall'[c].pc = "link" /\ accountCall'[c].user = u
    BY <1>1, <1>3, <2>2, <2>5, GoesToLink
  <2>7. ProvisionedKeepsLink'
    <3> SUFFICES ASSUME NEW v \in provisioned'
                 PROVE  \/ \E i \in Identities : link[i] = v
                        \/ \E d \in Calls : accountCall'[d].user = v /\ accountCall'[d].pc = "link"
                        \/ v \in halfMade
      BY <1>1 DEF ProvisionedKeepsLink, Account!ProvisionedKeepsLink
    <3>1. CASE v = u
      BY <2>6, <3>1
    <3>2. CASE v \in provisioned
      <4>1. \/ \E i \in Identities : link[i] = v
            \/ \E d \in Calls : accountCall[d].user = v /\ accountCall[d].pc = "link"
            \/ v \in halfMade
        BY <3>2 DEF AInv, ProvisionedKeepsLink, Account!ProvisionedKeepsLink
      <4>2. \A d \in Calls : accountCall[d].pc = "link" => accountCall'[d] = accountCall[d]
        BY <1>1, <2>6
      <4>3. QED
        BY <4>1, <4>2
    <3>3. QED
      BY <1>3, <3>1, <3>2
  <2>8. overtaken' \cup provisioned' \cup halfMade' \subseteq Account!Existing'
    BY <1>1, <1>3, <2>2, UserFacts
  <2>9. QED
    BY <1>1, <2>2, <2>3, <2>4, <2>6, <2>7, <2>8, UserFacts, AccountKeeps
<1>4. ASSUME Account!End(c), email' = email, proven' = proven, provisioned' = provisioned
      PROVE  AInv'
  <2>1. /\ DOMAIN accountCall' = Calls
        /\ \A d \in Calls : accountCall'[d] = accountCall[d] \/ CallMoves(d)
        /\ \A d \in Calls : d # c => accountCall'[d] = accountCall[d]
    BY <1>1, <1>4, CallEnds
  <2>2. \A d \in Calls : accountCall[d].pc = "link" => accountCall'[d] = accountCall[d]
    BY <1>1, <2>1
  <2>3. QED
    BY <1>1, <1>4, <2>1, <2>2, UserFacts, AddressesStay
<1>5. QED
  BY <1>3, <1>4 DEF Account!Provision

LEMMA LinkKeeps ==
  ASSUME AInv, NEW c \in Calls, Account!LinkOAuthAccount(c)
  PROVE  AInv'
<1> DEFINE r == accountCall[c]
           i == r.subject
           u == r.user
<1>1. /\ r.pc = "link" /\ link' = [link EXCEPT ![i] = Account!LinkedTo(i, u)]
      /\ email' = email /\ verified' = verified /\ userToken' = userToken
      /\ accountCalls' = accountCalls
      /\ proven' = proven /\ overtaken' = overtaken /\ provisioned' = provisioned
  BY DEF Account!LinkOAuthAccount
<1>2. /\ r \in AccountCall /\ i \in Identities /\ u \in Account!Existing /\ u \in Users
  BY <1>1, UserFacts DEF AInv, ATypes, CallHolds
<1>3. Account!Existing' = Account!Existing
  BY <1>1 DEF Account!Existing
<1>4. ASSUME link'[i] # link[i], halfMade' = halfMade,
             accountCall' = [accountCall EXCEPT ![c].pc = "mark", ![c].subject = Account!NoIdentity]
      PROVE  AInv'
  <2>1. /\ link[i] = Account!NoUser /\ link'[i] = u /\ link' = [x \in Identities |-> link'[x]]
        /\ \A j \in Identities : j # i => link'[j] = link[j]
    BY <1>1, <1>2, <1>4, UserFacts DEF Account!LinkedTo
  <2> DEFINE new == [r EXCEPT !.pc = "mark", !.subject = Account!NoIdentity]
  <2>2. accountCall' = [accountCall EXCEPT ![c] = new]
    BY <1>4 DEF AInv, ATypes
  <2>3. Backed(u)
    BY <1>1 DEF AInv, CallsBacked
  <2> HIDE DEF r
  <2>4. new.pc = "mark" /\ new.user = u /\ new.subject = Account!NoIdentity
    BY <1>2 DEF AccountCall
  <2>5. new \in AccountCall
    BY <1>2, <2>4 DEF AccountCall, AccountPcs
  <2> HIDE DEF new, i, u
  <2>6. CallHolds(new, Account!Existing)
    BY <1>2, <2>4, <2>5 DEF CallHolds
  <2>7. /\ DOMAIN accountCall' = Calls /\ accountCall'[c] = new
        /\ \A d \in Calls : d # c => accountCall'[d] = accountCall[d]
    BY <2>2, CallWritten DEF AInv
  <2>8. BackedNext(u)
    BY <1>1, <2>3 DEF Backed, BackedNext
  <2>9. CallMoves(c)
    BY <1>1, <1>3, <2>4, <2>6, <2>7, <2>8 DEF CallMoves, r
  <2>10. \A d \in Calls : accountCall'[d] = accountCall[d] \/ CallMoves(d)
    BY <2>7, <2>9
  <2>11. ProvisionedKeepsLink'
    <3> SUFFICES ASSUME NEW v \in provisioned
                 PROVE  \/ \E j \in Identities : link'[j] = v
                        \/ \E d \in Calls : accountCall'[d].user = v /\ accountCall'[d].pc = "link"
                        \/ v \in halfMade
      BY <1>1, <1>4 DEF ProvisionedKeepsLink, Account!ProvisionedKeepsLink
    <3>1. \/ \E j \in Identities : link[j] = v
          \/ \E d \in Calls : accountCall[d].user = v /\ accountCall[d].pc = "link"
          \/ v \in halfMade
      BY DEF AInv, ProvisionedKeepsLink, Account!ProvisionedKeepsLink
    <3>2. v # Account!NoUser
      BY UserFacts, AccountsAssumption
    <3>3. ASSUME NEW j \in Identities, link[j] = v PROVE link'[j] = v
      BY <2>1, <3>2, <3>3
    <3>4. ASSUME NEW d \in Calls, accountCall[d].user = v, accountCall[d].pc = "link"
          PROVE  \/ link'[i] = v
                 \/ accountCall'[d].user = v /\ accountCall'[d].pc = "link"
      <4>1. CASE d = c
        BY <2>1, <3>4, <4>1 DEF u, r
      <4>2. CASE d # c
        BY <2>7, <3>4, <4>2
      <4>3. QED
        BY <4>1, <4>2
    <3>5. QED
      BY <1>2, <3>1, <3>3, <3>4
  <2>12. \A j \in Identities : link'[j] = link[j] \/ link'[j] \in Account!Existing' \cup {Account!NoUser}
    BY <1>2, <1>3, <2>1
  <2>13. /\ email' \in [Users -> Addresses \cup {Account!NoAddress}] /\ OneUserEach'
    BY <1>1, <1>3 DEF AInv, ATypes, OneUserEach
  <2>14. overtaken' \cup provisioned' \cup halfMade' \subseteq Account!Existing'
    BY <1>1, <1>3, <1>4, UserFacts
  <2>15. \A v \in Account!Existing : email'[v] = email[v]
    BY <1>1
  <2>16. QED
    BY <1>1, <2>1, <2>7, <2>10, <2>11, <2>12, <2>13, <2>14, <2>15, UserFacts, AccountKeeps
<1>5. ASSUME link'[i] = link[i], Account!End(c), halfMade' = halfMade \cup {u}
      PROVE  AInv'
  <2>1. link' = link
    <3>1. link' = [link EXCEPT ![i] = link[i]] /\ link = [x \in Identities |-> link[x]]
      BY <1>1, <1>2, <1>5, UserFacts
    <3> HIDE DEF i
    <3>2. QED
      BY <3>1
  <2>2. /\ DOMAIN accountCall' = Calls
        /\ \A d \in Calls : accountCall'[d] = accountCall[d] \/ CallMoves(d)
        /\ \A d \in Calls : d # c => accountCall'[d] = accountCall[d]
    BY <1>1, <1>5, CallEnds
  <2>3. \A d \in Calls : accountCall[d].pc = "link" =>
          accountCall'[d] = accountCall[d] \/ accountCall[d].user \in halfMade'
    BY <1>5, <2>2
  <2>4. halfMade' \subseteq Account!Existing
    BY <1>2, <1>5, UserFacts
  <2>5. QED
    BY <1>1, <1>5, <2>1, <2>2, <2>3, <2>4, UserFacts, AddressesStay
<1>6. QED
  BY <1>4, <1>5 DEF Account!LinkOAuthAccount

LEMMA UnlinkKeeps ==
  ASSUME AInv, NEW u \in Users, Account!UnlinkOAuthAccount(u)
  PROVE  AInv'
<1>1. /\ link' = [i \in Identities |-> IF link[i] = u THEN Account!NoUser ELSE link[i]]
      /\ provisioned' = provisioned \ {u}
      /\ email' = email /\ verified' = verified /\ userToken' = userToken
      /\ accountCall' = accountCall /\ accountCalls' = accountCalls
      /\ proven' = proven /\ overtaken' = overtaken /\ halfMade' = halfMade
  BY DEF Account!UnlinkOAuthAccount
<1>2. Account!Existing' = Account!Existing
  BY <1>1 DEF Account!Existing
<1>3. /\ link' = [x \in Identities |-> link'[x]]
      /\ \A i \in Identities : link'[i] = link[i] \/ link'[i] \in Account!Existing' \cup {Account!NoUser}
      /\ \A i \in Identities : link[i] # u => link'[i] = link[i]
  BY <1>1
<1>4. ProvisionedKeepsLink'
  <2> SUFFICES ASSUME NEW v \in provisioned, v # u
               PROVE  \/ \E i \in Identities : link'[i] = v
                      \/ \E d \in Calls : accountCall[d].user = v /\ accountCall[d].pc = "link"
                      \/ v \in halfMade
    BY <1>1 DEF ProvisionedKeepsLink, Account!ProvisionedKeepsLink
  <2>1. \/ \E i \in Identities : link[i] = v
        \/ \E d \in Calls : accountCall[d].user = v /\ accountCall[d].pc = "link"
        \/ v \in halfMade
    BY DEF AInv, ProvisionedKeepsLink, Account!ProvisionedKeepsLink
  <2>2. QED
    BY <1>3, <2>1
<1>5. /\ email' \in [Users -> Addresses \cup {Account!NoAddress}] /\ OneUserEach'
  BY <1>1, <1>2 DEF AInv, ATypes, OneUserEach
<1>6. overtaken' \cup provisioned' \cup halfMade' \subseteq Account!Existing'
  BY <1>1, <1>2, UserFacts
<1>7. QED
  BY <1>1, <1>3, <1>4, <1>5, <1>6, UserFacts, AccountKeeps

LEMMA AbandonKeeps ==
  ASSUME AInv, NEW c \in Calls, Account!AbandonCall(c)
  PROVE  AInv'
<1> DEFINE u == accountCall[c].user
           stranded == \E t \in Tokens : /\ Account!Usable(t) /\ accountCall[c].pc = "create token"
                                         /\ userToken[t].user = u
                                         /\ userToken[t].sentTo # accountCall[c].addr
<1>1. /\ Account!End(c)
      /\ overtaken' = IF stranded THEN overtaken \cup {u} ELSE overtaken
      /\ halfMade' = IF accountCall[c].pc = "link" THEN halfMade \cup {u} ELSE halfMade
      /\ email' = email /\ verified' = verified /\ link' = link /\ userToken' = userToken
      /\ accountCalls' = accountCalls /\ proven' = proven /\ provisioned' = provisioned
  BY DEF Account!AbandonCall
<1>2. accountCall[c].pc \in {"create token", "link"} => u \in Account!Existing
  BY DEF AInv, ATypes, CallHolds
<1>3. /\ overtaken \subseteq overtaken' /\ overtaken' \subseteq Account!Existing
      /\ halfMade \subseteq halfMade' /\ halfMade' \subseteq Account!Existing
  BY <1>1, <1>2, UserFacts
<1>4. /\ DOMAIN accountCall' = Calls /\ accountCall'[c] = Account!Idle
      /\ \A d \in Calls : d # c => accountCall'[d] = accountCall[d]
  <2>1. accountCall' = [accountCall EXCEPT ![c] = Account!Idle]
    BY <1>1 DEF Account!End
  <2>2. QED
    BY <2>1, CallWritten DEF AInv
<1>5. CallMoves(c)
  <2>1. ASSUME NEW t \in Tokens, accountCall[c].pc = "create token",
               userToken[t].user = accountCall[c].user,
               userToken[t].sentTo # accountCall[c].addr, Account!Usable(t)
        PROVE  userToken[t].user \in overtaken'
    BY <1>1, <2>1
  <2>2. CallHolds(accountCall'[c], Account!Existing') /\ accountCall'[c].pc = "idle"
    BY <1>4, IdleCall
  <2> HIDE DEF u, stranded
  <2>3. QED
    BY <2>1, <2>2 DEF CallMoves
<1>6. \A d \in Calls : accountCall'[d] = accountCall[d] \/ CallMoves(d)
  BY <1>4, <1>5
<1>7. \A d \in Calls : accountCall[d].pc = "link" =>
        accountCall'[d] = accountCall[d] \/ accountCall[d].user \in halfMade'
  BY <1>1, <1>4
<1> HIDE DEF u, stranded
<1>8. QED
  BY <1>1, <1>3, <1>4, <1>6, <1>7, UserFacts, AddressesStay

LEMMA AccountsInit == Account!Init => AInv
<1> SUFFICES ASSUME Account!Init PROVE AInv
  OBVIOUS
<1>1. /\ email = [u \in Users |-> Account!NoAddress] /\ verified = {}
      /\ link = [i \in Identities |-> Account!NoUser]
      /\ userToken = [t \in Tokens |-> Account!Unissued]
      /\ accountCall = [c \in Calls |-> Account!Idle] /\ accountCalls = 0
      /\ proven = [u \in Users |-> {}] /\ overtaken = {} /\ provisioned = {} /\ halfMade = {}
  BY DEF Account!Init
<1>2. Account!Existing = {}
  BY <1>1 DEF Account!Existing
<1>3. \A c \in Calls : accountCall[c].pc = "idle" /\ CallHolds(accountCall[c], Account!Existing)
  BY <1>1, IdleCall
<1>4. \A t \in Tokens : TokenHolds(userToken[t], Account!Existing) /\ ~Account!Usable(t)
  BY <1>1 DEF TokenHolds, Account!Usable, Account!Unissued
<1>5. accountCalls \in 0 .. MaxAccountCalls
  BY <1>1, AccountsAssumption
<1>6. ATypes
  <2>1. OneUserEach
    BY <1>2 DEF OneUserEach
  <2>2. email \in [Users -> Addresses \cup {Account!NoAddress}] /\ proven \in [Users -> SUBSET Addresses]
    BY <1>1
  <2>3. link = [x \in Identities |-> link[x]] /\ \A i \in Identities : link[i] \in Account!Existing \cup {Account!NoUser}
    BY <1>1
  <2>4. userToken = [x \in Tokens |-> userToken[x]] /\ DOMAIN accountCall = Calls
    BY <1>1
  <2>5. verified \subseteq Account!Existing /\ overtaken \cup provisioned \cup halfMade \subseteq Account!Existing
    BY <1>1
  <2>6. QED
    BY <1>3, <1>4, <1>5, <2>1, <2>2, <2>3, <2>4, <2>5 DEF ATypes
<1>7. VerifiedWasProven /\ ProvisionedKeepsLink
  BY <1>1 DEF VerifiedWasProven, Account!VerifiedWasProven, ProvisionedKeepsLink,
              Account!ProvisionedKeepsLink
<1>8. CallsBacked /\ CallsCurrent /\ TokensCurrent
  BY <1>3, <1>4 DEF CallsBacked, CallsCurrent, TokensCurrent
<1>9. QED
  BY <1>6, <1>7, <1>8 DEF AInv

LEMMA AccountsStep == AInv /\ [Account!Next]_Account!vars => AInv'
<1> SUFFICES ASSUME AInv, [Account!Next]_Account!vars PROVE AInv'
  OBVIOUS
<1>1. ASSUME NEW c \in Calls,
             \/ Account!CreateUserToken(c) \/ Account!EnqueueEmail(c) \/ Account!StorePassword(c)
             \/ Account!MarkUserEmailVerified(c) \/ Account!LookUpEmail(c) \/ Account!Provision(c)
             \/ Account!LinkOAuthAccount(c) \/ Account!AbandonCall(c)
      PROVE  AInv'
  BY <1>1, CreateTokenKeeps, EnqueueKeeps, LastStatementKeeps, LookUpKeeps, ProvisionKeeps,
     LinkKeeps, AbandonKeeps
<1>2. ASSUME NEW c \in Calls, NEW a \in Addresses,
             \/ Account!ResendVerification(c, a) \/ Account!RequestPasswordReset(c, a)
             \/ \E u \in Users : Account!Register(c, u, a) \/ Account!ChangeEmail(c, u, a)
      PROVE  AInv'
  BY <1>2, SendsKeep, RegisterKeeps, ChangeEmailKeeps
<1>3. ASSUME NEW c \in Calls, NEW i \in Identities, NEW claim \in Account!Claims,
             Account!SignIn(c, i, claim)
      PROVE  AInv'
  BY <1>3, SignInKeeps
<1>4. ASSUME NEW c \in Calls, NEW t \in Tokens,
             Account!VerifyEmail(c, t) \/ Account!ConfirmPasswordReset(c, t)
      PROVE  AInv'
  BY <1>4, VerifyKeeps, ResetKeeps
<1>5. ASSUME NEW u \in Users, Account!UnlinkOAuthAccount(u) PROVE AInv'
  BY <1>5, UnlinkKeeps
<1>6. ASSUME NEW t \in Tokens, Account!TokenExpires(t) PROVE AInv'
  BY <1>6, ExpiryKeeps
<1>7. CASE UNCHANGED Account!vars
  <2>1. /\ email' = email /\ verified' = verified /\ link' = link /\ userToken' = userToken
        /\ accountCall' = accountCall /\ accountCalls' = accountCalls
        /\ proven' = proven /\ overtaken' = overtaken /\ provisioned' = provisioned
        /\ halfMade' = halfMade
    BY <1>7 DEF Account!vars, Account!history
  <2>2. QED
    BY <2>1, UserFacts, AddressesStay
<1>8. QED
  BY <1>1, <1>2, <1>3, <1>4, <1>5, <1>6, <1>7 DEF Account!Next

LEMMA AccountsInvariant == Account!Spec => []AInv
  BY AccountsInit, AccountsStep, PTL DEF Account!Spec

\* A verified address was proven to be the user's: a link sent there was
\* followed, or a provider vouched for it (MarkUserEmailVerified against
\* ChangeEmail, for any number of users, addresses, tokens and calls).
THEOREM VerifiedIsProven == Account!Spec => []VerifiedWasProven
  BY AccountsInvariant, PTL DEF AInv

\* A user made by a provider sign-in keeps a link, whatever other sign-ins take
\* the identity between Provision and LinkOAuthAccount, unless it was unlinked
\* or one of those calls ended half way.
THEOREM ProvisionedStayLinked == Account!Spec => []ProvisionedKeepsLink
  BY AccountsInvariant, PTL DEF AInv

\* The rows and calls of Accounts have their types, and an address its one user.
LEMMA AccountTypes == AInv => Account!TypeOK
<1> SUFFICES ASSUME ATypes PROVE Account!TypeOK
  BY DEF AInv
<1>1. \A u, v \in Account!Existing : email[u] = email[v] => u = v
  BY DEF ATypes, OneUserEach
<1>2. link \in [Identities -> Account!Existing \cup {Account!NoUser}]
  BY DEF ATypes
<1>3. userToken \in [Tokens -> [state : {"stored", "sent", "used"}, user : Account!Existing,
                               kind : Account!Kinds, sentTo : Addresses] \cup {Account!Unissued}]
  BY DEF ATypes, TokenHolds, Stored
<1>4. \A c \in Calls : accountCall[c] = Account!Idle
                         \/ accountCall[c].user \in Account!Existing \cup {Account!NoUser}
  BY DEF ATypes, CallHolds
<1>5. QED
  BY <1>1, <1>2, <1>3, <1>4 DEF ATypes, Account!TypeOK

-----------------------------------------------------------------------------
(* Sessions and Accounts as they are run.                                  *)

LEMMA PartsRun == PartsSpec => Spec /\ Account!Spec
<1>1. PartsInit => Init /\ Account!Init
  BY DEF PartsInit
<1>2. [PartsNext]_<<vars, accountVars, part>> => [Next]_vars /\ [Account!Next]_Account!vars
  <2> USE DEF vars, accountVars, Account!vars, Account!history
  <2>1. CASE part = "sessions" /\ Next /\ UNCHANGED <<accountVars, part>>
    BY <2>1
  <2>2. CASE part = "accounts" /\ Account!Next /\ UNCHANGED <<vars, part>>
    BY <2>2
  <2>3. CASE UNCHANGED <<vars, accountVars, part>>
    BY <2>3
  <2>4. QED
    BY <2>1, <2>2, <2>3 DEF PartsNext
<1>3. QED
  BY <1>1, <1>2, PTL DEF PartsSpec, Spec, Account!Spec

\* The rows, calls and tokens of both modules keep their types, and no address
\* gets a second user, as they are run: for any number of each.
THEOREM UserAccessKeepsTypes == PartsSpec => []PartsTypeOK
  BY PartsRun, TypeCorrect, AccountsInvariant, AccountTypes, PTL DEF PartsTypeOK

\* What the two modules promise holds as they are run.
THEOREM UserAccessHolds ==
  PartsSpec => [](/\ OneSessionPerProof /\ SurvivorsRacedRevocation /\ StraySessionsCostFaults
                  /\ VerifiedWasProven /\ ProvisionedKeepsLink)
  BY PartsRun, RotationIsExclusive, RevocationIsComplete, RemovalIsComplete, VerifiedIsProven,
     ProvisionedStayLinked, PTL
=============================================================================
