---------------------------- MODULE SignOnProofs ----------------------------
(***************************************************************************)
(* Proofs about SignOn and the accounts it ends in, for any number of      *)
(* users, tries, sign-ins, requests and provisioning calls.                *)
(***************************************************************************)
EXTENDS SignOn, FiniteSetTheorems, WellFoundedInduction, TLAPS

-----------------------------------------------------------------------------
(* Passwords                                                               *)

\* A row is written once, by the try it belongs to, with the time it has then.
Rows ==
    /\ IsFiniteSet({t \in Tries : attempt[t].reason # "none"})
    /\ \A t \in Tries : attempt[t].reason # "none" =>
        /\ try[t].pc \in {"store", "in", "out"}
        /\ attempt[t].at <= clock
        /\ attempt[t].until <= clock + Lockout
    /\ \A t \in Tries :
        /\ try[t].began <= clock
        /\ try[t].until <= clock + Lockout

\* A lockout of u until then is the work of a wrong password.
Explains(u, until) ==
    \E s \in Recorded(u) :
        attempt[s].reason = "bad_password" /\ until <= attempt[s].at + Lockout

\* What a try has found out when it is at each place, and why it was refused.
Grounds(t) ==
    /\ try[t].pc \in {"user", "count"} => try[t].until = 0
    /\ try[t].pc = "user" => try[t].reason = "none"
    /\ try[t].pc = "count" => try[t].reason = "bad_password"
    /\ try[t].pc = "record" =>
        CASE try[t].reason = "locked" -> Explains(try[t].user, try[t].until)
          [] try[t].reason = "bad_password" -> TRUE
          [] OTHER -> try[t].until = 0
    /\ try[t].reason = "locked" =>
        \E s \in Recorded(try[t].user) :
            attempt[s].reason = "bad_password" /\ attempt[s].at + Lockout > try[t].began

Lockouts ==
    /\ \A t \in Tries :
        attempt[t].reason # "none" /\ attempt[t].until > 0
            => Explains(attempt[t].user, attempt[t].until)
    /\ \A t \in Tries : Grounds(t)

\* The wrong passwords of a window, and whether the account is locked to its end.
InWindow(u, from) ==
    {t \in Recorded(u) : /\ attempt[t].reason = "bad_password"
                         /\ attempt[t].at \in from..(from + Window - 1)}

LockedTo(u, time) == \E s \in Recorded(u) : attempt[s].until >= time

Judging(t) == try[t].pc \in {"user", "count", "record"} /\ try[t].reason # "locked"

WindowHolds(u, from) ==
    /\ Cardinality(InWindow(u, from)) <= MaxFailures
    /\ Cardinality(InWindow(u, from)) = MaxFailures => LockedTo(u, from + Lockout)

BeganUnlocked(t) ==
    Judging(t) => \A s \in Recorded(try[t].user) : attempt[s].until <= try[t].began

FillsKnowingly(t, from) ==
    try[t].pc = "record" /\ try[t].reason = "bad_password"
        /\ Cardinality(InWindow(try[t].user, from)) + 1 >= MaxFailures
        /\ from <= clock /\ clock < from + Window
            => try[t].until >= from + Lockout

\* One try at a time: a window that is full has locked the account past its end; a
\* try that is at work began when no lock was left, and one about to record a wrong
\* password knows whether that fills a window.
Windows ==
    ~setting.overlap =>
        /\ \A s, t \in Trying : s = t
        /\ \A t \in Tries : BeganUnlocked(t)
        /\ \A u \in Users, from \in Nat : WindowHolds(u, from)
        /\ \A t \in Tries, from \in Nat : FillsKnowingly(t, from)

-----------------------------------------------------------------------------
(* Sessions, requests and provisioning calls                               *)

\* A session is stored once; what has been logged out stays revoked.
Sessions ==
    /\ \A t \in Tries : session[t].held => try[t].pc = "in"
    /\ \A c \in Callbacks : session[c].held => callback[c].pc = "in"
    /\ \A q \in Requests :
        /\ request[q].pc \in {"user", "revoke", "loggedout"} => session[request[q].token].held
        /\ request[q].pc = "loggedout" => session[request[q].token].revoked
        /\ request[q].pc # "refused" => "logout" \notin request[q].barred

\* One call at a time: the record that a PATCH read is the row that it writes.
Standing ==
    ~setting.overlap =>
        /\ \A j, k \in Patching : j = k
        /\ \A u \in Users : user[u].known =>
            user[u].disabled = asked[u].disabled /\ user[u].role = asked[u].role
        /\ \A k \in Patching :
            LET want == asked[call[k].user] IN
            /\ "disabled" \notin call[k].named => call[k].merged.disabled = want.disabled
            /\ "role" \notin call[k].named => call[k].merged.role = want.role

\* A request that must not be served meets an account that is disabled.
Unwelcome ==
    ~setting.overlap =>
        \A q \in Requests :
            LET account == user[session[request[q].token].user] IN
            "account" \in request[q].barred =>
                \/ request[q].pc \in {"idle", "refused"}
                \/ request[q].pc = "user" /\ (account.known => account.disabled)

-----------------------------------------------------------------------------
(* Sign-ins                                                                *)

Redeemed == {"verify", "store", "in"}

\* The life of a code, and who may have taken it.
CodeHolds(l) ==
    /\ login[l].code # "none" => login[l].begun
    /\ login[l].code = "none" => login[l].expires = 0
    /\ login[l].code = "pruned" => login[l].expires = 0 \/ login[l].expires < clock
    /\ login[l].code = "used" =>
        \E c \in Callbacks : callback[c].login = l /\ callback[c].pc \in Redeemed \cup {"refused"}

\* A callback answers a sign-in whose code was issued, and has taken it or not.
CallbackHolds(c) ==
    /\ callback[c].pc = "idle" => callback[c].login = NoLogin
    /\ callback[c].pc # "idle" => login[callback[c].login].expires > 0
    /\ callback[c].pc = "verify" => callback[c].expires > 0
    /\ callback[c].pc \in Redeemed => login[callback[c].login].code = "used"

Codes ==
    /\ \A l \in Logins : CodeHolds(l)
    /\ \A c \in Callbacks : CallbackHolds(c)
    /\ \A c, d \in Callbacks :
        callback[c].pc \in Redeemed /\ callback[d].pc \in Redeemed
            /\ callback[c].login = callback[d].login => c = d

\* A sign-in that can still be answered has lost the cookie to somebody else only.
Cookies ==
    \A l \in Logins :
        login[l].begun /\ cookie # l =>
            \/ \E m \in Logins : m # l /\ login[m].begun
            \/ \E d \in Callbacks : callback[d].login = l
            \/ login[l].code = "pruned" /\ login[l].expires = 0

-----------------------------------------------------------------------------
(* The types                                                               *)

\* A callback carries the sign-in that it answers.
Arrived == \A c \in Callbacks : callback[c].pc # "idle" => callback[c].login \in Logins

Inv1 == TypeOKSignOn /\ Rows /\ Arrived

\* A bounded set of numbers that is not empty has a largest member.
LEMMA LargestBelow ==
    ASSUME NEW B \in Nat, NEW S, NEW f \in [S -> Nat], S # {}, \A x \in S : f[x] <= B
    PROVE  \E x \in S : \A y \in S : f[y] <= f[x]
<1> DEFINE Gaps == {B - f[x] : x \in S}
<1>1. Gaps \subseteq Nat /\ Gaps # {}
    OBVIOUS
<1>2. PICK g \in Gaps : \A h \in Gaps : ~ (<<h, g>> \in OpToRel(<, Nat))
    BY <1>1, NatLessThanWellFounded, WFMin
<1>3. \A h \in Gaps : ~ (h < g)
    BY <1>1, <1>2 DEF OpToRel
<1>4. PICK x \in S : g = B - f[x]
    OBVIOUS
<1>5. ASSUME NEW y \in S PROVE f[y] <= f[x]
    BY <1>3, <1>4
<1>6. QED
    BY <1>5

\* current_lockout_until answers with a row that locks the account.
LEMMA LatestLock ==
    ASSUME Inv1, NEW u \in Users, Locks(u) # {}
    PROVE  LockedUntil(u) \in Locks(u)
<1>1. Locks(u) \subseteq Tries
    BY DEF Locks, Recorded
<1> DEFINE until == [t \in Locks(u) |-> attempt[t].until]
<1>2. until \in [Locks(u) -> Nat]
    BY <1>1 DEF Inv1, TypeOKSignOn, TypeOK, Attempt
<1>3. clock + Lockout \in Nat
    BY AccountsAssumption DEF Inv1, TypeOKSignOn, TypeOK
<1>4. \A t \in Locks(u) : until[t] <= clock + Lockout
    BY <1>1 DEF Inv1, Rows, Locks, Recorded
<1>5. \E t \in Locks(u) : \A s \in Locks(u) : until[s] <= until[t]
    <2> HIDE DEF until
    <2> QED
        BY <1>2, <1>3, <1>4, LargestBelow
<1>6. \E t \in Locks(u) : \A s \in Locks(u) : attempt[s].until <= attempt[t].until
    BY <1>5
<1>7. QED
    BY <1>6 DEF LockedUntil

\* Putting new values into some of a record's fields keeps its type.
LEMMA FieldTypes ==
    /\ \A r \in Try, pc \in {"count", "record", "store", "in", "out"}, reason \in Reasons,
          until \in Nat :
        /\ [r EXCEPT !.pc = pc] \in Try
        /\ [r EXCEPT !.pc = pc, !.reason = reason] \in Try
        /\ [r EXCEPT !.pc = pc, !.until = until] \in Try
    /\ \A r \in Session : [r EXCEPT !.revoked = TRUE] \in Session
    /\ \A r \in Request, pc \in {"user", "revoke", "served", "refused", "loggedout"} :
        [r EXCEPT !.pc = pc] \in Request
    /\ \A r \in Account, disabled \in BOOLEAN, role \in Roles :
        [r EXCEPT !.disabled = disabled, !.role = role] \in Account
<1>1. ASSUME NEW r \in Try, NEW pc \in {"count", "record", "store", "in", "out"},
             NEW reason \in Reasons, NEW until \in Nat
      PROVE  /\ [r EXCEPT !.pc = pc] \in Try
             /\ [r EXCEPT !.pc = pc, !.reason = reason] \in Try
             /\ [r EXCEPT !.pc = pc, !.until = until] \in Try
    BY DEF Try
<1>2. ASSUME NEW r \in Session PROVE [r EXCEPT !.revoked = TRUE] \in Session
    BY DEF Session
<1>3. ASSUME NEW r \in Request, NEW pc \in {"user", "revoke", "served", "refused", "loggedout"}
      PROVE  [r EXCEPT !.pc = pc] \in Request
    BY DEF Request
<1>4. ASSUME NEW r \in Account, NEW disabled \in BOOLEAN, NEW role \in Roles
      PROVE  [r EXCEPT !.disabled = disabled, !.role = role] \in Account
    BY DEF Account
<1>5. QED
    BY <1>1, <1>2, <1>3, <1>4

LEMMA RolesFromClaims ==
    ASSUME NEW u \in Users
    PROVE  RoleOf(Claims[u]) \in Roles
BY SignOnAssumption DEF RoleOf, Roles

\* What the calls write into an account and into the requests has the right type.
LEMMA AskingTypes ==
    ASSUME TypeOK, NEW u \in Users
    PROVE  /\ \A disabled \in BOOLEAN, role \in Roles :
                Upsert(u, disabled, role) => user' \in [Users -> Account]
           /\ \A disabled : Readmitted(u, disabled) \in [Requests -> Request]
           /\ \A want \in [disabled : BOOLEAN, role : Roles] :
                [asked EXCEPT ![u] = want] \in [Users -> [disabled : BOOLEAN, role : Roles]]
<1>1. ASSUME NEW disabled \in BOOLEAN, NEW role \in Roles, Upsert(u, disabled, role)
      PROVE  user' \in [Users -> Account]
    BY <1>1 DEF TypeOK, Upsert, Account
<1>2. ASSUME NEW q \in Requests
      PROVE  [request[q] EXCEPT !.barred = @ \ {"account"}] \in Request /\ request[q] \in Request
    BY DEF TypeOK, Request
<1>3. ASSUME NEW disabled PROVE Readmitted(u, disabled) \in [Requests -> Request]
    BY <1>2 DEF Readmitted
<1>4. ASSUME NEW want \in [disabled : BOOLEAN, role : Roles]
      PROVE  [asked EXCEPT ![u] = want] \in [Users -> [disabled : BOOLEAN, role : Roles]]
    BY DEF TypeOK
<1>5. QED
    BY <1>1, <1>3, <1>4

LEMMA Inv1Init == InitSignOn => Inv1
<1> SUFFICES ASSUME InitSignOn PROVE Inv1
    OBVIOUS
<1> USE DEF InitSignOn, Init
<1>1. /\ (CHOOSE u \in Users : TRUE) \in Users
      /\ (CHOOSE t \in Tokens : TRUE) \in Tokens
    OBVIOUS
<1>2. clock \in 0..MaxTime /\ setting \in Settings
    BY AccountsAssumption
<1>3. user \in [Users -> Account]
    BY DEF Account, Roles
<1>4. attempt \in [Tries -> Attempt]
    BY <1>1 DEF Attempt, Reasons
<1>5. try \in [Tries -> Try]
    BY <1>1 DEF Try, Reasons
<1>6. session \in [Tokens -> Session]
    BY <1>1 DEF Session
<1>7. request \in [Requests -> Request]
    BY <1>1 DEF Request
<1>8. call \in [Calls -> Call]
    BY <1>1 DEF Call, NobodyYet, Account, Roles
<1>9. asked \in [Users -> [disabled : BOOLEAN, role : Roles]]
    BY DEF Roles
<1>10. TypeOK
    BY <1>2, <1>3, <1>4, <1>5, <1>6, <1>7, <1>8, <1>9 DEF TypeOK
<1>11. cookie \in Logins \cup {NoLogin} /\ login \in [Logins -> Login]
    BY <1>1 DEF Login
<1>12. callback \in [Callbacks -> Callback]
    BY <1>1 DEF Callback
<1>13. TypeOKSignOn
    BY <1>10, <1>11, <1>12 DEF TypeOKSignOn
<1>14. {t \in Tries : attempt[t].reason # "none"} = {}
    OBVIOUS
<1>15. \A t \in Tries : attempt[t].reason = "none" /\ try[t].began = 0 /\ try[t].until = 0
    OBVIOUS
<1>17. clock = 0 /\ Lockout \in Nat
    BY AccountsAssumption
<1>18. Rows
    <2> HIDE DEF InitSignOn, Init
    <2> QED
        BY <1>14, <1>15, <1>17, FS_EmptySet DEF Rows
<1>19. Arrived
    BY DEF Arrived
<1>16. QED
    BY <1>13, <1>18, <1>19 DEF Inv1

-----------------------------------------------------------------------------
(* The types are kept by each operation.                                   *)

LEMMA LoginTypes ==
    ASSUME Inv1, NEW t \in Tries, LoginStep(t), UNCHANGED signOn
    PROVE  TypeOKSignOn'
<1> USE DEF Inv1, TypeOKSignOn, TypeOK, signOn
<1>1. CASE \E u \in Users, good \in BOOLEAN : CheckLockout(t, u, good)
    <2>1. PICK u \in Users, good \in BOOLEAN : CheckLockout(t, u, good)
        BY <1>1
    <2>2. Locks(u) # {} => attempt[LockedUntil(u)] \in Attempt
        BY LatestLock DEF Locks, Recorded
    <2>3. /\ clock \in Nat
          /\ Locks(u) # {} => attempt[LockedUntil(u)].until \in Nat
        BY <2>2, AccountsAssumption DEF Attempt
    <2>4. try' \in [Tries -> Try]
        BY <2>1, <2>3 DEF CheckLockout, Try, Reasons
    <2>5. QED
        BY <2>1, <2>4 DEF CheckLockout
<1>2. CASE CheckPassword(t)
    <2>1. PICK pc \in {"count", "record"}, reason \in Reasons :
              try' = [try EXCEPT ![t] = [try[t] EXCEPT !.pc = pc, !.reason = reason]]
        <3> DEFINE u == try[t].user
                   pc == IF user[u].known /\ ~user[u].disabled /\ ~(try[t].good /\ user[u].password)
                         THEN "count" ELSE "record"
                   reason == IF ~user[u].known \/ user[u].disabled THEN "invalid_user"
                             ELSE IF try[t].good /\ user[u].password THEN "success"
                             ELSE "bad_password"
        <3>1. try' = [try EXCEPT ![t].pc = pc, ![t].reason = reason]
            BY <1>2, Zenon DEF CheckPassword
        <3>2. pc \in {"count", "record"} /\ reason \in Reasons
            BY DEF Reasons
        <3> HIDE DEF pc, reason
        <3>3. QED
            BY <3>1, <3>2
    <2>2. try' \in [Tries -> Try]
        BY <2>1, FieldTypes
    <2>3. QED
        BY <1>2, <2>2 DEF CheckPassword
<1>3. CASE CountFailures(t)
    <2>1. clock + Lockout \in Nat
        BY AccountsAssumption
    <2>2. PICK until \in Nat :
              try' = [try EXCEPT ![t] = [try[t] EXCEPT !.pc = "record", !.until = until]]
        BY <1>3, <2>1 DEF CountFailures
    <2>3. "none" \in Reasons
        BY DEF Reasons
    <2>5. try' \in [Tries -> Try]
        BY <2>2, <2>3, FieldTypes
    <2>4. QED
        BY <1>3, <2>5 DEF CountFailures
<1>4. CASE RecordAttempt(t)
    <2>1. PICK pc \in {"store", "out"} : try' = [try EXCEPT ![t].pc = pc]
        BY <1>4 DEF RecordAttempt
    <2>2. try' \in [Tries -> Try]
        BY <2>1 DEF Try
    <2>3. attempt' \in [Tries -> Attempt]
        BY <1>4, AccountsAssumption DEF RecordAttempt, Try, Attempt
    <2>4. QED
        BY <1>4, <2>2, <2>3 DEF RecordAttempt
<1>5. CASE StoreSession(t)
    <2>1. NewSession(try[t].user) \in Session
        BY AccountsAssumption DEF NewSession, Session, Try
    <2>2. session' \in [Tokens -> Session]
        BY <1>5, <2>1 DEF StoreSession
    <2>3. try' \in [Tries -> Try]
        BY <1>5 DEF StoreSession, Try
    <2>4. QED
        BY <1>5, <2>2, <2>3 DEF StoreSession
<1>6. QED
    BY <1>1, <1>2, <1>3, <1>4, <1>5 DEF LoginStep

LEMMA RequestTypes ==
    ASSUME Inv1, NEW q \in Requests, RequestStep(q), UNCHANGED signOn
    PROVE  TypeOKSignOn'
<1> USE DEF Inv1, TypeOKSignOn, TypeOK, signOn
<1>1. CASE \E t \in Tokens, logout \in BOOLEAN : PresentToken(q, t, logout)
    <2>1. PICK t \in Tokens, logout \in BOOLEAN : PresentToken(q, t, logout)
        BY <1>1
    <2>2. Barred(t) \in SUBSET {"logout", "account"}
        BY DEF Barred
    <2>3. request' \in [Requests -> Request]
        BY <2>1, <2>2 DEF PresentToken, Request
    <2>4. QED
        BY <2>1, <2>3 DEF PresentToken
<1>2. CASE CheckAccount(q)
    <2>1. PICK pc \in {"refused", "revoke", "served"} :
              request' = [request EXCEPT ![q] = [request[q] EXCEPT !.pc = pc]]
        <3> DEFINE account == user[session[request[q].token].user]
                   pc == IF ~account.known \/ account.disabled THEN "refused"
                         ELSE IF request[q].logout THEN "revoke"
                         ELSE "served"
        <3>1. request' = [request EXCEPT ![q] = [request[q] EXCEPT !.pc = pc]]
            BY <1>2, Zenon DEF CheckAccount
        <3>2. pc \in {"refused", "revoke", "served"}
            OBVIOUS
        <3> HIDE DEF pc
        <3>3. QED
            BY <3>1, <3>2
    <2>2. request' \in [Requests -> Request]
        BY <2>1, FieldTypes
    <2>3. QED
        BY <1>2, <2>2 DEF CheckAccount
<1>3. CASE Revoke(q)
    <2>1. PICK pc \in {"loggedout", "refused"} :
              request' = [request EXCEPT ![q] = [request[q] EXCEPT !.pc = pc]]
        BY <1>3 DEF Revoke
    <2>2. request' \in [Requests -> Request]
        BY <2>1, FieldTypes
    <2> DEFINE s == request[q].token
    <2>3. \/ session' = session
          \/ session' = [session EXCEPT ![s] = [session[s] EXCEPT !.revoked = TRUE]]
        BY <1>3 DEF Revoke
    <2>6. s \in Tokens
        BY DEF Request
    <2>7. session \in [Tokens -> Session]
        OBVIOUS
    <2>4. session' \in [Tokens -> Session]
        <3> HIDE DEF Inv1, TypeOKSignOn, TypeOK, s
        <3> QED
            BY <2>3, <2>6, <2>7, FieldTypes
    <2>5. QED
        BY <1>3, <2>2, <2>4 DEF Revoke
<1>4. QED
    BY <1>1, <1>2, <1>3 DEF RequestStep

LEMMA ProvisioningTypes ==
    ASSUME Inv1, NEW k \in Calls, ProvisioningStep(k), UNCHANGED signOn
    PROVE  TypeOKSignOn'
<1> USE DEF Inv1, TypeOKSignOn, TypeOK, signOn
<1>1. ASSUME NEW u \in Users, NEW role \in GivenRoles, CreateUser(k, u, role)
      PROVE  TypeOKSignOn'
    <2>1. role \in Roles
        BY AccountsAssumption
    <2>2. user' \in [Users -> Account]
        BY <1>1, <2>1 DEF CreateUser, Account
    <2>5. call' \in [Calls -> Call]
        BY <1>1 DEF CreateUser, Call
    <2>3. request' \in [Requests -> Request] /\ asked' \in [Users -> [disabled : BOOLEAN, role : Roles]]
        BY <1>1, <2>1, AskingTypes DEF CreateUser, Ask
    <2>4. QED
        BY <1>1, <2>2, <2>3, <2>5 DEF CreateUser
<1>2. ASSUME NEW u \in Users, NEW role \in GivenRoles, NEW disabled \in BOOLEAN,
             PutUser(k, u, disabled, role)
      PROVE  TypeOKSignOn'
    <2>1. role \in Roles
        BY AccountsAssumption
    <2>2. call' \in [Calls -> Call]
        BY <1>2 DEF PutUser, Call
    <2>3. /\ user' \in [Users -> Account] /\ request' \in [Requests -> Request]
          /\ asked' \in [Users -> [disabled : BOOLEAN, role : Roles]]
        BY <1>2, <2>1, AskingTypes DEF PutUser, Ask
    <2>4. QED
        BY <1>2, <2>2, <2>3 DEF PutUser
<1>3. ASSUME NEW u \in Users, NEW role \in GivenRoles, NEW disabled \in BOOLEAN,
             NEW named \in SUBSET {"disabled", "role"}, PatchRead(k, u, named, disabled, role)
      PROVE  TypeOKSignOn'
    <2>1. role \in Roles
        BY AccountsAssumption
    <2>2. PICK d \in BOOLEAN, r \in Roles :
              Merge(u, named, disabled, role) = [user[u] EXCEPT !.disabled = d, !.role = r]
        <3>1. user[u].disabled \in BOOLEAN /\ user[u].role \in Roles
            BY DEF Account
        <3>2. QED
            BY <2>1, <3>1 DEF Merge
    <2>6. user[u] \in Account
        OBVIOUS
    <2>7. [user[u] EXCEPT !.disabled = d, !.role = r] \in Account
        BY <2>6, FieldTypes
    <2>5. Merge(u, named, disabled, role) \in Account
        BY <2>2, <2>7
    <2>3. call' \in [Calls -> Call]
        BY <1>3, <2>5 DEF PatchRead, Call
    <2>4. QED
        BY <1>3, <2>3 DEF PatchRead
<1>4. ASSUME NEW u \in Users, DeleteUser(k, u)
      PROVE  TypeOKSignOn'
    <2>1. user' \in [Users -> Account]
        BY <1>4 DEF DeleteUser, Account
    <2>5. call' \in [Calls -> Call]
        BY <1>4 DEF DeleteUser, Call
    <2> DEFINE want == [asked[u] EXCEPT !.disabled = TRUE]
    <2>6. asked[u] \in [disabled : BOOLEAN, role : Roles]
        OBVIOUS
    <2>2. want \in [disabled : BOOLEAN, role : Roles]
        <3> HIDE DEF Inv1, TypeOKSignOn, TypeOK
        <3> QED
            BY <2>6
    <2>3. request' \in [Requests -> Request] /\ asked' \in [Users -> [disabled : BOOLEAN, role : Roles]]
        BY <1>4, <2>2, AskingTypes DEF DeleteUser, Ask
    <2>4. QED
        BY <1>4, <2>1, <2>3, <2>5 DEF DeleteUser
<1>5. CASE PatchWrite(k)
    <2> DEFINE u == call[k].user  new == call[k].merged  named == call[k].named
               disabled == IF "disabled" \in named THEN new.disabled ELSE asked[u].disabled
               role == IF "role" \in named THEN new.role ELSE asked[u].role
    <2>1. u \in Users /\ new \in Account /\ named \subseteq {"disabled", "role"}
        BY DEF Call
    <2>2. /\ new.disabled \in BOOLEAN /\ new.role \in Roles
          /\ disabled \in BOOLEAN /\ role \in Roles
        BY <2>1 DEF Account
    <2>3. call' \in [Calls -> Call]
        <3>1. NobodyYet \in Account
            BY DEF NobodyYet, Account, Roles
        <3>2. ASSUME NEW r \in Call
              PROVE  [r EXCEPT !.pc = "done", !.named = {}, !.merged = NobodyYet] \in Call
            <4> HIDE DEF Inv1, TypeOKSignOn, TypeOK
            <4> QED
                BY <3>1 DEF Call
        <3>3. call' = [call EXCEPT ![k] = [call[k] EXCEPT !.pc = "done", !.named = {},
                                                          !.merged = NobodyYet]]
            BY <1>5 DEF PatchWrite
        <3>4. QED
            BY <3>2, <3>3
    <2>4. Upsert(u, new.disabled, new.role) /\ Ask(u, [disabled |-> disabled, role |-> role])
        BY <1>5 DEF PatchWrite
    <2> HIDE DEF u, new, named, disabled, role
    <2>5. /\ user' \in [Users -> Account] /\ request' \in [Requests -> Request]
          /\ asked' \in [Users -> [disabled : BOOLEAN, role : Roles]]
        BY <2>1, <2>2, <2>4, AskingTypes DEF Ask
    <2>6. QED
        BY <1>5, <2>3, <2>5 DEF PatchWrite
<1>6. QED
    BY <1>1, <1>2, <1>3, <1>4, <1>5 DEF ProvisioningStep

\* The same of the records of the sign-ins.
LEMMA SignOnFieldTypes ==
    /\ \A r \in Login, at \in Nat :
        /\ [r EXCEPT !.begun = TRUE, !.at = at] \in Login
        /\ [r EXCEPT !.code = "pruned"] \in Login
        /\ [r EXCEPT !.code = "used"] \in Login
    /\ \A r \in Login, u \in Users, expires \in Nat :
        [r EXCEPT !.code = "issued", !.subject = u, !.expires = expires] \in Login
    /\ \A r \in Callback, at \in Nat, pc \in {"exchange", "verify", "store", "in", "refused"} :
        /\ [r EXCEPT !.pc = pc] \in Callback
        /\ [r EXCEPT !.pc = pc, !.at = at] \in Callback
        /\ \A l \in Logins : [r EXCEPT !.login = l, !.at = at, !.pc = pc] \in Callback
    /\ \A r \in Callback, u \in Users, at \in Nat, expires \in Nat :
        [r EXCEPT !.pc = "verify", !.at = at, !.subject = u, !.expires = expires] \in Callback
<1>1. ASSUME NEW r \in Login, NEW at \in Nat
      PROVE  /\ [r EXCEPT !.begun = TRUE, !.at = at] \in Login
             /\ [r EXCEPT !.code = "pruned"] \in Login
             /\ [r EXCEPT !.code = "used"] \in Login
    BY DEF Login
<1>2. ASSUME NEW r \in Login, NEW u \in Users, NEW expires \in Nat
      PROVE  [r EXCEPT !.code = "issued", !.subject = u, !.expires = expires] \in Login
    BY DEF Login
<1>3. ASSUME NEW r \in Callback, NEW at \in Nat,
             NEW pc \in {"exchange", "verify", "store", "in", "refused"}
      PROVE  /\ [r EXCEPT !.pc = pc] \in Callback
             /\ [r EXCEPT !.pc = pc, !.at = at] \in Callback
             /\ \A l \in Logins : [r EXCEPT !.login = l, !.at = at, !.pc = pc] \in Callback
    BY DEF Callback
<1>4. ASSUME NEW r \in Callback, NEW u \in Users, NEW at \in Nat, NEW expires \in Nat
      PROVE  [r EXCEPT !.pc = "verify", !.at = at, !.subject = u, !.expires = expires] \in Callback
    BY DEF Callback
<1>5. QED
    BY <1>1, <1>2, <1>3, <1>4

LEMMA RefusalTypes ==
    ASSUME TypeOKSignOn, NEW c \in Callbacks, Refuse(c)
    PROVE  callback' \in [Callbacks -> Callback] /\ cookie' \in Logins \cup {NoLogin}
<1>1. clock \in Nat /\ callback \in [Callbacks -> Callback]
    BY AccountsAssumption DEF TypeOKSignOn, TypeOK
<1>2. callback' = [callback EXCEPT ![c].pc = "refused", ![c].at = clock]
    BY DEF Refuse
<1>3. callback' = [callback EXCEPT ![c] = [callback[c] EXCEPT !.pc = "refused", !.at = clock]]
    BY <1>1, <1>2
<1>4. [callback[c] EXCEPT !.pc = "refused", !.at = clock] \in Callback
    BY <1>1, SignOnFieldTypes
<1>5. QED
    BY <1>1, <1>3, <1>4 DEF Refuse

LEMMA BrowserTypes ==
    ASSUME TypeOKSignOn, NEW l \in Logins, BrowserStep(l)
    PROVE  TypeOKSignOn'
<1>1. clock \in Nat /\ login \in [Logins -> Login]
    BY AccountsAssumption DEF TypeOKSignOn, TypeOK
<1>2. TypeOK /\ UNCHANGED <<clock, accounts, setting>> => TypeOK'
    BY DEF TypeOK, accounts
<1>3. CASE StartLogin(l)
    <2>1. login' = [login EXCEPT ![l] = [login[l] EXCEPT !.begun = TRUE, !.at = clock]]
        BY <1>1, <1>3 DEF StartLogin
    <2>2. login' \in [Logins -> Login]
        BY <1>1, <2>1, SignOnFieldTypes
    <2>3. QED
        BY <1>2, <1>3, <2>2 DEF StartLogin, TypeOKSignOn
<1>4. CASE Decline(l)
    <2>1. login' = [login EXCEPT ![l] = [login[l] EXCEPT !.code = "pruned"]]
        BY <1>1, <1>4 DEF Decline
    <2>2. login' \in [Logins -> Login]
        BY <1>1, <2>1, SignOnFieldTypes
    <2>3. QED
        BY <1>2, <1>4, <2>2 DEF Decline, TypeOKSignOn
<1>5. ASSUME NEW u \in Users, Authorize(l, u)
      PROVE  TypeOKSignOn'
    <2>1. clock + CodeTime \in Nat
        BY <1>1, SignOnAssumption
    <2>2. ASSUME NEW m \in Logins
          PROVE  /\ login[m] \in Login
                 /\ [login[m] EXCEPT !.code = "pruned"] \in Login
                 /\ [login[m] EXCEPT !.code = "issued", !.subject = u, !.expires = clock + CodeTime]
                        \in Login
        BY <1>1, <2>1, SignOnFieldTypes
    <2>3. login' \in [Logins -> Login]
        BY <1>5, <2>2 DEF Authorize
    <2>4. QED
        BY <1>2, <1>5, <2>3 DEF Authorize, TypeOKSignOn
<1>6. QED
    BY <1>3, <1>4, <1>5 DEF BrowserStep

\* sync_oidc_user and a request with an id token write what has the right type.
LEMMA SyncTypes ==
    ASSUME TypeOK, NEW u \in Users
    PROVE  /\ Upsert(u, FALSE, RoleOf(Claims[u])) => user' \in [Users -> Account]
           /\ [asked EXCEPT ![u] = [disabled |-> FALSE, role |-> RoleOf(Claims[u])]]
                  \in [Users -> [disabled : BOOLEAN, role : Roles]]
           /\ Readmitted(u, FALSE) \in [Requests -> Request]
<1>1. RoleOf(Claims[u]) \in Roles
    BY RolesFromClaims
<1>2. [disabled |-> FALSE, role |-> RoleOf(Claims[u])] \in [disabled : BOOLEAN, role : Roles]
    BY <1>1
<1>3. QED
    BY <1>1, <1>2, AskingTypes

LEMMA CallbackTypes ==
    ASSUME Inv1, NEW c \in Callbacks, CallbackStep(c)
    PROVE  TypeOKSignOn'
<1> USE DEF Inv1
<1>1. /\ clock \in Nat /\ login \in [Logins -> Login]
      /\ callback \in [Callbacks -> Callback] /\ callback[c] \in Callback
      /\ callback[c].subject \in Users
    BY AccountsAssumption DEF TypeOKSignOn, TypeOK, Callback
<1>2. TypeOK /\ UNCHANGED <<clock, accounts, setting>> => TypeOK'
    BY DEF TypeOK, accounts
<1>3. CASE \E l \in Logins : Arrive(c, l)
    <2>1. PICK l \in Logins : Arrive(c, l)
        BY <1>3
    <2>2. PICK pc \in {"exchange", "refused"} :
              callback' = [callback EXCEPT ![c].login = l, ![c].at = clock, ![c].pc = pc]
        BY <2>1 DEF Arrive
    <2>3. callback' = [callback EXCEPT ![c] = [callback[c] EXCEPT !.login = l, !.at = clock, !.pc = pc]]
        BY <1>1, <2>2
    <2>4. callback' \in [Callbacks -> Callback]
        BY <1>1, <2>3, SignOnFieldTypes
    <2>5. QED
        BY <1>2, <2>1, <2>4 DEF Arrive, TypeOKSignOn
<1>4. CASE Exchange(c)
    <2> DEFINE l == callback[c].login
    <2>1. login' \in [Logins -> Login]
        <3>1. l \in Logins =>
                  [login EXCEPT ![l] = [login[l] EXCEPT !.code = "used"]] \in [Logins -> Login]
            BY <1>1, SignOnFieldTypes
        <3>2. l \notin Logins => login' = login
            BY <1>1, <1>4 DEF Exchange, Redeem
        <3>3. \/ login' = login
              \/ login' = [login EXCEPT ![l] = [login[l] EXCEPT !.code = "used"]]
            BY <1>1, <1>4 DEF Exchange, Redeem, Login
        <3>4. QED
            BY <1>1, <3>1, <3>2, <3>3
    <2>2. CASE Refuse(c)
        BY <1>2, <1>4, <2>1, <2>2, RefusalTypes DEF Exchange, TypeOKSignOn
    <2>3. CASE ~Refuse(c)
        <3>1. login[l].code = "issued" /\ l \in Logins
            BY <1>4, <2>3 DEF Exchange, Inv1, Arrived
        <3>2. login[l].subject \in Users /\ clock + IdTokenTime \in Nat
            BY <1>1, <3>1, SignOnAssumption DEF Login
        <3> DEFINE u == login[l].subject  expires == clock + IdTokenTime
        <3>3. callback' = [callback EXCEPT ![c].pc = "verify", ![c].at = clock,
                             ![c].subject = u, ![c].expires = expires]
            BY <1>4, <2>3 DEF Exchange
        <3>4. UNCHANGED <<cookie, clock, accounts, setting>>
            BY <1>4, <2>3 DEF Exchange
        <3> HIDE DEF u, expires
        <3>5. callback' = [callback EXCEPT ![c] = [callback[c] EXCEPT !.pc = "verify",
                             !.at = clock, !.subject = u, !.expires = expires]]
            BY <1>1, <3>3
        <3>6. callback' \in [Callbacks -> Callback]
            BY <1>1, <3>2, <3>5, SignOnFieldTypes DEF u, expires
        <3>7. QED
            BY <1>2, <2>1, <3>4, <3>6 DEF TypeOKSignOn
    <2>4. QED
        BY <2>2, <2>3
<1>5. CASE VerifyIdToken(c)
    <2> DEFINE u == callback[c].subject
    <2>1. CASE clock < callback[c].expires
        <3>1. /\ user' \in [Users -> Account] /\ request' \in [Requests -> Request]
              /\ asked' \in [Users -> [disabled : BOOLEAN, role : Roles]]
            BY <1>1, <1>5, <2>1, SyncTypes DEF VerifyIdToken, SyncUser, Ask, TypeOKSignOn
        <3>2. callback' = [callback EXCEPT ![c] = [callback[c] EXCEPT !.pc = "store"]]
            BY <1>1, <1>5, <2>1 DEF VerifyIdToken
        <3>3. callback' \in [Callbacks -> Callback]
            BY <1>1, <3>2, SignOnFieldTypes
        <3>4. QED
            BY <1>5, <2>1, <3>1, <3>3 DEF VerifyIdToken, TypeOKSignOn, TypeOK
    <2>2. CASE ~(clock < callback[c].expires)
        BY <1>5, <2>2, RefusalTypes DEF VerifyIdToken, TypeOKSignOn, TypeOK
    <2>3. QED
        BY <2>1, <2>2
<1>6. CASE FinishLogin(c)
    <2>1. NewSession(callback[c].subject) \in Session
        BY <1>1, AccountsAssumption DEF NewSession, Session
    <2>2. session' \in [Tokens -> Session]
        BY <1>6, <2>1 DEF FinishLogin, TypeOKSignOn, TypeOK
    <2>3. callback' = [callback EXCEPT ![c] = [callback[c] EXCEPT !.pc = "in"]]
        BY <1>1, <1>6 DEF FinishLogin
    <2>4. callback' \in [Callbacks -> Callback]
        BY <1>1, <2>3, SignOnFieldTypes
    <2>5. QED
        BY <1>6, <2>2, <2>4 DEF FinishLogin, TypeOKSignOn, TypeOK
<1>7. CASE \E q \in Requests : UseIdToken(q, c)
    <2>1. PICK q \in Requests : UseIdToken(q, c)
        BY <1>7
    <2> DEFINE u == callback[c].subject
    <2>2. /\ user' \in [Users -> Account]
          /\ asked' \in [Users -> [disabled : BOOLEAN, role : Roles]]
          /\ Readmitted(u, FALSE) \in [Requests -> Request]
        BY <1>1, <2>1, SyncTypes DEF UseIdToken, TypeOKSignOn
    <2>3. [pc |-> "served", token |-> c, logout |-> FALSE, barred |-> {}] \in Request
        BY DEF Request, Tokens
    <2>4. request' \in [Requests -> Request]
        BY <2>1, <2>2, <2>3 DEF UseIdToken
    <2>5. QED
        BY <2>1, <2>2, <2>4 DEF UseIdToken, TypeOKSignOn, TypeOK, signOn
<1>8. QED
    BY <1>3, <1>4, <1>5, <1>6, <1>7 DEF CallbackStep

LEMMA TypesKept == Inv1 /\ [Next]_vars => TypeOKSignOn'
<1> SUFFICES ASSUME Inv1, [Next]_vars PROVE TypeOKSignOn'
    OBVIOUS
<1>1. CASE AccountsNext /\ UNCHANGED signOn
    <2>1. CASE Tick
        BY <1>1, <2>1, AccountsAssumption
        DEF Tick, Inv1, TypeOKSignOn, TypeOK, accounts, signOn
    <2>2. QED
        BY <1>1, <2>1, LoginTypes, RequestTypes, ProvisioningTypes DEF AccountsNext
<1>2. CASE \E c \in Callbacks : CallbackStep(c)
    BY <1>2, CallbackTypes
<1>3. CASE \E l \in Logins : BrowserStep(l)
    BY <1>3, BrowserTypes DEF Inv1
<1>4. CASE UNCHANGED vars
    BY <1>4 DEF vars, accounts, signOn, Inv1, TypeOKSignOn, TypeOK
<1>5. QED
    BY <1>1, <1>2, <1>3, <1>4 DEF Next

-----------------------------------------------------------------------------
(* Which steps touch what                                                  *)

LEMMA TryFrame ==
    ASSUME [Next]_vars
    PROVE  \/ \E t \in Tries : LoginStep(t) /\ UNCHANGED signOn
           \/ Tick /\ UNCHANGED signOn
           \/ UNCHANGED <<clock, attempt, try, setting>>
<1>1. ASSUME NEW q \in Requests, RequestStep(q) PROVE UNCHANGED <<clock, attempt, try, setting>>
    BY <1>1 DEF RequestStep, PresentToken, CheckAccount, Revoke
<1>2. ASSUME NEW k \in Calls, ProvisioningStep(k)
      PROVE  UNCHANGED <<clock, attempt, try, setting>>
    BY <1>2 DEF ProvisioningStep, CreateUser, PutUser, DeleteUser, PatchRead, PatchWrite
<1>3. ASSUME NEW c \in Callbacks, CallbackStep(c) PROVE UNCHANGED <<clock, attempt, try, setting>>
    BY <1>3
    DEF CallbackStep, Arrive, Exchange, VerifyIdToken, FinishLogin, UseIdToken, accounts
<1>4. ASSUME NEW l \in Logins, BrowserStep(l) PROVE UNCHANGED <<clock, attempt, try, setting>>
    BY <1>4 DEF BrowserStep, StartLogin, Decline, Authorize, accounts
<1>5. QED
    BY <1>1, <1>2, <1>3, <1>4 DEF Next, AccountsNext, vars, accounts

LEMMA CallbackFrame ==
    ASSUME [Next]_vars
    PROVE  \/ \E c \in Callbacks : CallbackStep(c) /\ clock' = clock
           \/ \E l \in Logins : BrowserStep(l) /\ clock' = clock
           \/ UNCHANGED signOn /\ (clock' = clock \/ Tick)
<1>1. ASSUME NEW q \in Requests, RequestStep(q) PROVE clock' = clock
    BY <1>1 DEF RequestStep, PresentToken, CheckAccount, Revoke
<1>2. ASSUME NEW k \in Calls, ProvisioningStep(k) PROVE clock' = clock
    BY <1>2 DEF ProvisioningStep, CreateUser, PutUser, DeleteUser, PatchRead, PatchWrite
<1>3. ASSUME NEW c \in Callbacks, CallbackStep(c) PROVE clock' = clock
    BY <1>3 DEF CallbackStep, Arrive, Exchange, VerifyIdToken, FinishLogin, UseIdToken
<1>4. ASSUME NEW l \in Logins, BrowserStep(l) PROVE clock' = clock
    BY <1>4 DEF BrowserStep, StartLogin, Decline, Authorize
<1>5. ASSUME NEW t \in Tries, LoginStep(t) PROVE clock' = clock
    BY <1>5
    DEF LoginStep, CheckLockout, CheckPassword, CountFailures, RecordAttempt, StoreSession
<1>6. QED
    BY <1>1, <1>2, <1>3, <1>4, <1>5 DEF Next, AccountsNext, vars

\* What a try does to its place and to its row.
LEMMA TryMoves ==
    ASSUME Inv1, NEW t \in Tries, LoginStep(t)
    PROVE  /\ UNCHANGED <<clock, setting>>
           /\ \A s \in Tries \ {t} : try'[s] = try[s] /\ attempt'[s] = attempt[s]
           /\ \/ /\ attempt' = attempt /\ try[t].pc \in {"idle", "user", "count", "store"}
                 /\ try'[t].pc # "idle"
                 /\ try[t].pc \in {"store", "in", "out"} => try'[t].pc \in {"store", "in", "out"}
              \/ /\ try[t].pc = "record" /\ try'[t].pc \in {"store", "out"}
                 /\ attempt'[t] = [user |-> try[t].user, reason |-> try[t].reason, at |-> clock,
                                   until |-> try[t].until]
                 /\ try'[t] = [try[t] EXCEPT !.pc = try'[t].pc]
<1>1. try \in [Tries -> Try] /\ attempt \in [Tries -> Attempt]
    BY DEF Inv1, TypeOKSignOn, TypeOK
<1>2. ASSUME NEW u \in Users, NEW good \in BOOLEAN, CheckLockout(t, u, good)
      PROVE  /\ UNCHANGED <<clock, setting, attempt>>
             /\ \A s \in Tries \ {t} : try'[s] = try[s]
             /\ try[t].pc = "idle" /\ try'[t].pc \in {"record", "user"}
    BY <1>1, <1>2 DEF CheckLockout
<1>3. ASSUME CheckPassword(t)
      PROVE  /\ UNCHANGED <<clock, setting, attempt>>
             /\ \A s \in Tries \ {t} : try'[s] = try[s]
             /\ try[t].pc = "user" /\ try'[t].pc \in {"record", "count"}
    BY <1>1, <1>3 DEF CheckPassword
<1>4. ASSUME CountFailures(t)
      PROVE  /\ UNCHANGED <<clock, setting, attempt>>
             /\ \A s \in Tries \ {t} : try'[s] = try[s]
             /\ try[t].pc = "count" /\ try'[t].pc = "record"
    BY <1>1, <1>4 DEF CountFailures
<1>5. ASSUME StoreSession(t)
      PROVE  /\ UNCHANGED <<clock, setting, attempt>>
             /\ \A s \in Tries \ {t} : try'[s] = try[s]
             /\ try[t].pc = "store" /\ try'[t].pc = "in"
    BY <1>1, <1>5 DEF StoreSession
<1>6. ASSUME RecordAttempt(t)
      PROVE  /\ UNCHANGED <<clock, setting>>
             /\ \A s \in Tries \ {t} : try'[s] = try[s] /\ attempt'[s] = attempt[s]
             /\ try[t].pc = "record" /\ try'[t].pc \in {"store", "out"}
             /\ attempt'[t] = [user |-> try[t].user, reason |-> try[t].reason, at |-> clock,
                               until |-> try[t].until]
             /\ try'[t] = [try[t] EXCEPT !.pc = try'[t].pc]
    BY <1>1, <1>6 DEF RecordAttempt
<1>7. QED
    BY <1>2, <1>3, <1>4, <1>5, <1>6 DEF LoginStep

\* What a try knows stays within the time.
LEMMA TryTimes ==
    ASSUME Inv1, NEW t \in Tries, LoginStep(t)
    PROVE  /\ try'[t].pc # "idle"
           /\ try'[t].began <= clock
           /\ try'[t].until <= clock + Lockout
<1>1. /\ try \in [Tries -> Try] /\ attempt \in [Tries -> Attempt]
      /\ clock \in Nat /\ Lockout \in Nat
      /\ try[t].began <= clock /\ try[t].until <= clock + Lockout
    BY AccountsAssumption DEF Inv1, TypeOKSignOn, TypeOK, Rows
<1>2. ASSUME NEW u \in Users, NEW good \in BOOLEAN, CheckLockout(t, u, good)
      PROVE  try'[t].pc # "idle" /\ try'[t].began = clock /\ try'[t].until <= clock + Lockout
    <2>1. CASE Locks(u) = {}
        BY <1>1, <1>2, <2>1 DEF CheckLockout
    <2>2. CASE Locks(u) # {}
        <3>1. LockedUntil(u) \in Locks(u)
            BY <2>2, LatestLock
        <3>2. attempt[LockedUntil(u)].until <= clock + Lockout
            BY <3>1 DEF Locks, Recorded, Inv1, Rows
        <3>3. try'[t] = [pc |-> "record", user |-> u, good |-> good, reason |-> "locked",
                         until |-> attempt[LockedUntil(u)].until, began |-> clock]
            BY <1>1, <1>2, <2>2 DEF CheckLockout
        <3>4. QED
            BY <3>2, <3>3
    <2>3. QED
        BY <2>1, <2>2
<1>3. ASSUME CheckPassword(t)
      PROVE  try'[t].pc # "idle" /\ try'[t].began = try[t].began /\ try'[t].until = try[t].until
    BY <1>1, <1>3 DEF CheckPassword
<1>4. ASSUME CountFailures(t)
      PROVE  /\ try'[t].pc # "idle" /\ try'[t].began = try[t].began
             /\ try'[t].until \in {0, clock + Lockout}
    BY <1>1, <1>4 DEF CountFailures
<1>5. ASSUME RecordAttempt(t) \/ StoreSession(t)
      PROVE  try'[t].pc # "idle" /\ try'[t].began = try[t].began /\ try'[t].until = try[t].until
    <2>1. \E pc \in {"store", "in", "out"} : try' = [try EXCEPT ![t].pc = pc]
        BY <1>5 DEF RecordAttempt, StoreSession
    <2>2. QED
        BY <1>1, <2>1 DEF Try
<1>6. QED
    BY <1>1, <1>2, <1>3, <1>4, <1>5 DEF LoginStep

LEMMA RowsKept == Inv1 /\ [Next]_vars => Rows'
<1> SUFFICES ASSUME Inv1, [Next]_vars PROVE Rows'
    OBVIOUS
<1> DEFINE Written == {t \in Tries : attempt[t].reason # "none"}
<1>0. /\ clock \in Nat /\ Lockout \in Nat /\ IsFiniteSet(Written) /\ Rows
      /\ \A t \in Tries : try[t] \in Try /\ attempt[t] \in Attempt
    BY AccountsAssumption DEF Inv1, TypeOKSignOn, TypeOK, Rows
<1>1. ASSUME NEW t \in Tries, LoginStep(t) PROVE Rows'
    <2>1. clock' = clock
        BY <1>1, TryMoves
    <2>2. IsFiniteSet(Written')
        <3>1. Written' \subseteq Written \cup {t}
            BY <1>1, TryMoves
        <3>2. IsFiniteSet(Written \cup {t})
            BY <1>0, FS_AddElement
        <3>3. QED
            BY <3>1, <3>2, FS_Subset
    <2>3. ASSUME NEW s \in Tries, attempt'[s].reason # "none"
          PROVE  /\ try'[s].pc \in {"store", "in", "out"}
                 /\ attempt'[s].at <= clock
                 /\ attempt'[s].until <= clock + Lockout
        <3>1. CASE s # t
            BY <1>0, <1>1, <2>3, <3>1, TryMoves DEF Rows
        <3>2. CASE s = t /\ attempt' = attempt
            BY <1>0, <1>1, <2>3, <3>2, TryMoves DEF Rows
        <3>3. CASE s = t /\ attempt' # attempt
            <4>3. /\ try'[t].pc \in {"store", "out"}
                  /\ attempt'[t] = [user |-> try[t].user, reason |-> try[t].reason,
                                    at |-> clock, until |-> try[t].until]
                BY <1>1, <3>3, TryMoves
            <4>1. /\ try'[t].pc \in {"store", "out"}
                  /\ attempt'[t].at = clock /\ attempt'[t].until = try[t].until
                BY <4>3
            <4>2. QED
                BY <1>0, <3>3, <4>1 DEF Rows
        <3>4. QED
            BY <3>1, <3>2, <3>3
    <2>4. ASSUME NEW s \in Tries
          PROVE  try'[s].began <= clock /\ try'[s].until <= clock + Lockout
        BY <1>0, <1>1, TryMoves, TryTimes DEF Rows
    <2>5. QED
        BY <2>1, <2>2, <2>3, <2>4 DEF Rows
<1>2. CASE Tick
    <2>1. clock' = clock + 1 /\ UNCHANGED <<attempt, try>>
        BY <1>2 DEF Tick, accounts
    <2>2. ASSUME NEW s \in Tries
          PROVE  /\ attempt[s].at <= clock => attempt[s].at <= clock + 1
                 /\ attempt[s].until <= clock + Lockout => attempt[s].until <= clock + 1 + Lockout
                 /\ try[s].began <= clock => try[s].began <= clock + 1
                 /\ try[s].until <= clock + Lockout => try[s].until <= clock + 1 + Lockout
        BY <1>0 DEF Try, Attempt
    <2>3. QED
        BY <1>0, <2>1, <2>2 DEF Rows
<1>3. CASE UNCHANGED <<clock, attempt, try, setting>>
    BY <1>0, <1>3 DEF Rows
<1>4. QED
    BY <1>1, <1>2, <1>3, TryFrame

\* What a step of a callback does to it: it may arrive, be redeemed, verified,
\* finished or refused.
LEMMA CallbackMoves ==
    ASSUME callback \in [Callbacks -> Callback], NEW c \in Callbacks, CallbackStep(c)
    PROVE  /\ \A d \in Callbacks \ {c} : callback'[d] = callback[d]
           /\ \/ UNCHANGED signOn
              \/ \E l \in Logins : Arrive(c, l) /\ callback'[c].login = l
                                   /\ callback'[c].pc \in {"exchange", "refused"}
                                   /\ callback'[c].at = clock
                                   /\ callback'[c].expires = callback[c].expires
              \/ /\ callback[c].pc \in {"exchange", "verify", "store"}
                 /\ callback'[c].login = callback[c].login
                 /\ \/ /\ Exchange(c) /\ ~Refuse(c) /\ callback'[c].pc = "verify"
                       /\ callback'[c].expires = clock + IdTokenTime
                    \/ VerifyIdToken(c) /\ ~Refuse(c) /\ callback'[c].pc = "store"
                    \/ FinishLogin(c) /\ ~Refuse(c) /\ callback'[c].pc = "in"
                    \/ /\ Exchange(c) \/ VerifyIdToken(c)
                       /\ Refuse(c) /\ callback'[c].pc = "refused"
                       /\ callback'[c].at = clock /\ callback'[c].expires = callback[c].expires
<1>1. ASSUME NEW l \in Logins, Arrive(c, l)
      PROVE  /\ \A d \in Callbacks \ {c} : callback'[d] = callback[d]
             /\ callback'[c].login = l /\ callback'[c].at = clock
             /\ callback'[c].pc \in {"exchange", "refused"}
             /\ callback'[c].expires = callback[c].expires
    BY <1>1 DEF Arrive, Callback
<1>2. ASSUME Refuse(c)
      PROVE  /\ \A d \in Callbacks \ {c} : callback'[d] = callback[d]
             /\ callback'[c].pc = "refused" /\ callback'[c].at = clock
             /\ callback'[c].expires = callback[c].expires
             /\ callback'[c].login = callback[c].login
    BY <1>2 DEF Refuse, Callback
<1>3. ASSUME Exchange(c), ~Refuse(c)
      PROVE  /\ \A d \in Callbacks \ {c} : callback'[d] = callback[d]
             /\ callback'[c].pc = "verify" /\ callback'[c].login = callback[c].login
             /\ callback'[c].expires = clock + IdTokenTime
             /\ callback[c].pc = "exchange"
    <2> DEFINE u == login[callback[c].login].subject  expires == clock + IdTokenTime
    <2>1. /\ callback[c].pc = "exchange"
          /\ callback' = [callback EXCEPT ![c].pc = "verify", ![c].at = clock,
                                          ![c].subject = u, ![c].expires = expires]
        BY <1>3 DEF Exchange
    <2> HIDE DEF u, expires
    <2>2. /\ \A d \in Callbacks \ {c} : callback'[d] = callback[d]
          /\ callback'[c].pc = "verify" /\ callback'[c].login = callback[c].login
          /\ callback'[c].expires = expires
        BY <2>1 DEF Callback
    <2>3. QED
        BY <2>1, <2>2 DEF expires
<1>4. ASSUME VerifyIdToken(c), ~Refuse(c)
      PROVE  /\ \A d \in Callbacks \ {c} : callback'[d] = callback[d]
             /\ callback'[c].pc = "store" /\ callback'[c].login = callback[c].login
             /\ callback[c].pc = "verify"
    BY <1>4 DEF VerifyIdToken, Callback
<1>5. ASSUME FinishLogin(c)
      PROVE  /\ \A d \in Callbacks \ {c} : callback'[d] = callback[d]
             /\ callback'[c].pc = "in" /\ callback'[c].login = callback[c].login
             /\ callback[c].pc = "store"
    BY <1>5 DEF FinishLogin, Callback
<1>6. ASSUME NEW q \in Requests, UseIdToken(q, c)
      PROVE  UNCHANGED signOn /\ \A d \in Callbacks \ {c} : callback'[d] = callback[d]
    BY <1>6 DEF UseIdToken, signOn
<1>7. /\ Exchange(c) => callback[c].pc = "exchange"
      /\ VerifyIdToken(c) => callback[c].pc = "verify"
    BY DEF Exchange, VerifyIdToken
<1>8. QED
    BY <1>1, <1>2, <1>3, <1>4, <1>5, <1>6, <1>7 DEF CallbackStep

LEMMA ArrivedKept == Inv1 /\ [Next]_vars => Arrived'
<1> SUFFICES ASSUME Inv1, [Next]_vars PROVE Arrived'
    OBVIOUS
<1>1. callback \in [Callbacks -> Callback] /\ Arrived
    BY DEF Inv1, TypeOKSignOn
<1>2. ASSUME NEW c \in Callbacks, CallbackStep(c) PROVE Arrived'
    <2>1. ASSUME NEW d \in Callbacks, callback'[d].pc # "idle"
          PROVE  callback'[d].login \in Logins
        <3>1. d # c => callback'[d] = callback[d]
            BY <1>1, <1>2, CallbackMoves
        <3>2. callback' = callback \/ callback'[c].login \in Logins
            BY <1>1, <1>2, CallbackMoves DEF signOn, Arrived
        <3>3. QED
            BY <1>1, <2>1, <3>1, <3>2 DEF Arrived
    <2>2. QED
        BY <2>1 DEF Arrived
<1>3. ASSUME NEW l \in Logins, BrowserStep(l) PROVE Arrived'
    BY <1>1, <1>3 DEF BrowserStep, StartLogin, Decline, Authorize, Arrived
<1>4. QED
    BY <1>1, <1>2, <1>3, CallbackFrame DEF signOn, Arrived

LEMMA Inv1Kept == Inv1 /\ [Next]_vars => Inv1'
BY TypesKept, RowsKept, ArrivedKept DEF Inv1

-----------------------------------------------------------------------------
(* Lockouts are explained by wrong passwords.                              *)

\* The rows are never changed.
LEMMA RowsStay ==
    ASSUME Inv1, [Next]_vars, NEW s \in Tries, attempt[s].reason # "none"
    PROVE  attempt'[s] = attempt[s] /\ (\A u : s \in Recorded(u) => s \in Recorded(u)')
<1>1. try[s].pc \in {"store", "in", "out"}
    BY DEF Inv1, Rows
<1>2. ASSUME NEW t \in Tries, LoginStep(t) PROVE attempt'[s] = attempt[s]
    BY <1>1, <1>2, TryMoves
<1>3. attempt'[s] = attempt[s]
    BY <1>2, TryFrame DEF Tick, accounts
<1>4. QED
    BY <1>3 DEF Recorded

LEMMA StillExplained ==
    ASSUME Inv1, [Next]_vars, NEW u, NEW until, Explains(u, until)
    PROVE  Explains(u, until)'
<1>1. PICK s \in Recorded(u) :
          attempt[s].reason = "bad_password" /\ until <= attempt[s].at + Lockout
    BY DEF Explains
<1>2. s \in Tries /\ attempt[s].reason # "none"
    BY <1>1 DEF Recorded
<1>3. attempt'[s] = attempt[s] /\ s \in Recorded(u)'
    BY <1>1, <1>2, RowsStay
<1>4. QED
    BY <1>1, <1>3 DEF Explains

\* A lock that CheckLockout finds is explained.
LEMMA LocksExplained ==
    ASSUME Inv1, Lockouts, NEW u \in Users, Locks(u) # {}
    PROVE  Explains(u, attempt[LockedUntil(u)].until) /\ attempt[LockedUntil(u)].until > clock
<1>1. LockedUntil(u) \in Locks(u)
    BY LatestLock
<1> DEFINE s == LockedUntil(u)
<1>2. /\ s \in Tries /\ attempt[s].reason # "none" /\ attempt[s].user = u
      /\ attempt[s].until > clock
    BY <1>1 DEF Locks, Recorded
<1>3. clock \in Nat /\ attempt[s].until \in Nat
    BY <1>2, AccountsAssumption DEF Inv1, TypeOKSignOn, TypeOK, Attempt
<1>4. attempt[s].until > 0
    BY <1>2, <1>3
<1> HIDE DEF s
<1>5. QED
    BY <1>2, <1>4 DEF Lockouts, s

LEMMA GroundsStay ==
    ASSUME Inv1, [Next]_vars, NEW t \in Tries, Grounds(t), try'[t] = try[t]
    PROVE  Grounds(t)'
<1>1. try[t].pc = "record" /\ try[t].reason = "locked" => Explains(try[t].user, try[t].until)'
    BY StillExplained DEF Grounds
<1>2. ASSUME try[t].reason = "locked"
      PROVE  \E s \in Recorded(try[t].user)' :
                 attempt'[s].reason = "bad_password" /\ attempt'[s].at + Lockout > try[t].began
    <2>1. PICK s \in Recorded(try[t].user) :
              attempt[s].reason = "bad_password" /\ attempt[s].at + Lockout > try[t].began
        BY <1>2 DEF Grounds
    <2>2. s \in Tries /\ attempt[s].reason # "none"
        BY <2>1 DEF Recorded
    <2>3. attempt'[s] = attempt[s] /\ s \in Recorded(try[t].user)'
        BY <2>1, <2>2, RowsStay
    <2>4. QED
        BY <2>1, <2>3
<1>3. QED
    BY <1>1, <1>2 DEF Grounds, Recorded, Explains

\* The step that a try takes leaves it with grounds for what it does next.
LEMMA GroundsMade ==
    ASSUME Inv1, Lockouts, NEW t \in Tries, LoginStep(t), Next
    PROVE  Grounds(t)'
<1>1. /\ try \in [Tries -> Try] /\ Grounds(t) /\ clock \in Nat /\ Lockout \in Nat
      /\ \A s \in Tries : attempt[s].at \in Nat
    BY AccountsAssumption DEF Inv1, TypeOKSignOn, TypeOK, Lockouts, Attempt
<1>2. ASSUME NEW u \in Users, NEW good \in BOOLEAN, CheckLockout(t, u, good)
      PROVE  Grounds(t)'
    <2>1. CASE Locks(u) = {}
        <3>1. try'[t] = [pc |-> "user", user |-> u, good |-> good, reason |-> "none",
                         until |-> 0, began |-> clock]
            BY <1>1, <1>2, <2>1 DEF CheckLockout
        <3>2. QED
            BY <3>1 DEF Grounds
    <2>2. CASE Locks(u) # {}
        <3> DEFINE until == attempt[LockedUntil(u)].until
        <3>1. try'[t] = [pc |-> "record", user |-> u, good |-> good, reason |-> "locked",
                         until |-> until, began |-> clock]
            BY <1>1, <1>2, <2>2 DEF CheckLockout
        <3>2. Explains(u, until) /\ until > clock
            BY <2>2, LocksExplained
        <3>3. UNCHANGED <<attempt>>
            BY <1>2 DEF CheckLockout
        <3>4. LockedUntil(u) \in Tries
            BY <2>2, LatestLock DEF Locks, Recorded
        <3>5. until \in Nat
            BY <3>4 DEF Inv1, TypeOKSignOn, TypeOK, Attempt
        <3> HIDE DEF until
        <3>6. PICK s \in Recorded(u) :
                  attempt[s].reason = "bad_password" /\ until <= attempt[s].at + Lockout
            BY <3>2 DEF Explains
        <3>7. s \in Tries /\ attempt[s].at + Lockout > clock
            BY <1>1, <3>2, <3>5, <3>6 DEF Recorded
        <3>8. /\ try'[t].pc = "record" /\ try'[t].reason = "locked" /\ try'[t].user = u
              /\ try'[t].until = until /\ try'[t].began = clock
            BY <3>1
        <3>9. s \in Recorded(u)' /\ attempt'[s] = attempt[s]
            BY <3>3, <3>6 DEF Recorded
        <3>10. Explains(try[t].user, try[t].until)'
            BY <3>6, <3>8, <3>9 DEF Explains
        <3>11. QED
            BY <3>6, <3>7, <3>8, <3>9, <3>10 DEF Grounds
    <2>3. QED
        BY <2>1, <2>2
<1>3. CASE CheckPassword(t)
    <2>1. /\ try[t].reason = "none" /\ try[t].until = 0
          /\ try'[t].until = try[t].until
          /\ try'[t].pc \in {"count", "record"}
          /\ try'[t].reason \in {"invalid_user", "success", "bad_password"}
          /\ try'[t].pc = "count" => try'[t].reason = "bad_password"
        BY <1>1, <1>3 DEF CheckPassword, Grounds
    <2>2. QED
        BY <2>1 DEF Grounds
<1>4. CASE CountFailures(t)
    <2>1. try'[t].pc = "record" /\ try'[t].reason = "bad_password"
        BY <1>1, <1>4 DEF CountFailures, Grounds
    <2>2. QED
        BY <2>1 DEF Grounds
<1>5. CASE RecordAttempt(t) \/ StoreSession(t)
    <2>1. \E pc \in {"store", "in", "out"} : try' = [try EXCEPT ![t].pc = pc]
        BY <1>5 DEF RecordAttempt, StoreSession
    <2>2. /\ try'[t].pc \in {"store", "in", "out"} /\ try'[t].reason = try[t].reason
          /\ try'[t].user = try[t].user /\ try'[t].began = try[t].began
        BY <1>1, <2>1 DEF Try
    <2>3. ASSUME try[t].reason = "locked"
          PROVE  \E s \in Recorded(try[t].user)' :
                     attempt'[s].reason = "bad_password" /\ attempt'[s].at + Lockout > try[t].began
        <3>1. PICK s \in Recorded(try[t].user) :
                  attempt[s].reason = "bad_password" /\ attempt[s].at + Lockout > try[t].began
            BY <1>1, <2>3 DEF Grounds
        <3>2. s \in Tries /\ attempt[s].reason # "none"
            BY <3>1 DEF Recorded
        <3>3. attempt'[s] = attempt[s] /\ s \in Recorded(try[t].user)'
            BY <3>1, <3>2, RowsStay, <2>2 DEF Recorded
        <3>4. QED
            BY <3>1, <3>3
    <2>4. QED
        BY <2>2, <2>3 DEF Grounds, Recorded
<1>6. QED
    BY <1>2, <1>3, <1>4, <1>5 DEF LoginStep

LEMMA LockoutsKept == Inv1 /\ Lockouts /\ [Next]_vars => Lockouts'
<1> SUFFICES ASSUME Inv1, Lockouts, [Next]_vars PROVE Lockouts'
    OBVIOUS
<1>1. ASSUME NEW t \in Tries, attempt[t].reason # "none", attempt'[t].until > 0
      PROVE  Explains(attempt[t].user, attempt[t].until)'
    <2>1. attempt'[t] = attempt[t]
        BY <1>1, RowsStay
    <2>2. Explains(attempt[t].user, attempt[t].until)
        BY <1>1, <2>1 DEF Lockouts
    <2>3. QED
        BY <2>1, <2>2, StillExplained
<1>2. ASSUME NEW t \in Tries, attempt[t].reason = "none", attempt'[t].reason # "none",
             attempt'[t].until > 0
      PROVE  Explains(attempt[t].user, attempt[t].until)'
    <2>1. LoginStep(t) /\ UNCHANGED signOn
        <3>1. attempt'[t] # attempt[t]
            BY <1>2
        <3>2. QED
            BY <3>1, TryFrame, TryMoves DEF Tick, accounts
    <2>2. attempt'[t] = [user |-> try[t].user, reason |-> try[t].reason, at |-> clock,
                         until |-> try[t].until] /\ try[t].pc = "record"
        BY <1>2, <2>1, TryMoves
    <2>3. /\ attempt'[t].user = try[t].user /\ attempt'[t].reason = try[t].reason
          /\ attempt'[t].at = clock /\ attempt'[t].until = try[t].until
        BY <2>2
    <2>4. Grounds(t) /\ try[t].until <= clock + Lockout
        BY DEF Lockouts, Inv1, Rows
    <2>5. CASE try[t].reason = "locked"
        <3>1. Explains(try[t].user, try[t].until)
            BY <2>2, <2>4, <2>5 DEF Grounds
        <3>2. QED
            BY <2>3, <3>1, StillExplained
    <2>6. CASE try[t].reason = "bad_password"
        BY <1>2, <2>3, <2>4, <2>6 DEF Explains, Recorded
    <2>7. CASE try[t].reason \notin {"locked", "bad_password"}
        BY <1>2, <2>2, <2>3, <2>4, <2>7 DEF Grounds
    <2>8. QED
        BY <2>5, <2>6, <2>7
<1>3. ASSUME NEW t \in Tries PROVE Grounds(t)'
    <2>1. Grounds(t)
        BY DEF Lockouts
    <2>2. CASE try'[t] = try[t]
        BY <2>1, <2>2, GroundsStay
    <2>3. CASE try'[t] # try[t]
        <3>1. LoginStep(t) /\ UNCHANGED signOn
            BY <2>3, TryFrame, TryMoves DEF Tick, accounts
        <3>2. QED
            BY <3>1, GroundsMade, TryFrame, <2>3 DEF vars, accounts
    <2>4. QED
        BY <2>2, <2>3
<1>4. QED
    BY <1>1, <1>2, <1>3 DEF Lockouts

-----------------------------------------------------------------------------
(* Windows of wrong passwords                                              *)

LEMMA WindowsAreFinite ==
    ASSUME Inv1, NEW u, NEW from
    PROVE  /\ IsFiniteSet(InWindow(u, from)) /\ Cardinality(InWindow(u, from)) \in Nat
           /\ IsFiniteSet(RecentFailures(u)) /\ Cardinality(RecentFailures(u)) \in Nat
<1> DEFINE Written == {t \in Tries : attempt[t].reason # "none"}
<1>1. IsFiniteSet(Written)
    BY DEF Inv1, Rows
<1>2. InWindow(u, from) \subseteq Written /\ RecentFailures(u) \subseteq Written
    BY DEF InWindow, RecentFailures, Recorded
<1>3. QED
    BY <1>1, <1>2, FS_Subset, FS_CardinalityType

\* As long as no row is written, a window and a try that stand still keep their word.
LEMMA WindowsStand ==
    ASSUME attempt' = attempt
    PROVE  /\ \A u : Recorded(u)' = Recorded(u)
           /\ \A u, from : InWindow(u, from)' = InWindow(u, from)
           /\ \A u, from : WindowHolds(u, from) => WindowHolds(u, from)'
           /\ \A t : BeganUnlocked(t) /\ try'[t] = try[t] => BeganUnlocked(t)'
           /\ \A t, from : FillsKnowingly(t, from) /\ try'[t] = try[t] /\ clock' = clock
                    => FillsKnowingly(t, from)'
<1>1. ASSUME NEW u PROVE Recorded(u)' = Recorded(u)
    BY DEF Recorded
<1>2. ASSUME NEW u, NEW from PROVE InWindow(u, from)' = InWindow(u, from)
    BY DEF InWindow, Recorded
<1>3. ASSUME NEW u, NEW from, WindowHolds(u, from) PROVE WindowHolds(u, from)'
    BY <1>2, <1>3 DEF WindowHolds, LockedTo, Recorded
<1>4. ASSUME NEW t, BeganUnlocked(t), try'[t] = try[t] PROVE BeganUnlocked(t)'
    BY <1>4 DEF BeganUnlocked, Judging, Recorded
<1>5. ASSUME NEW t, NEW from, FillsKnowingly(t, from), try'[t] = try[t], clock' = clock
      PROVE  FillsKnowingly(t, from)'
    BY <1>5 DEF FillsKnowingly, InWindow, Recorded
<1>6. QED
    BY <1>1, <1>2, <1>3, <1>4, <1>5

\* A try that judges a password while nobody else writes
LEMMA JudgingKnowingly ==
    ASSUME Inv1, Lockouts, NEW t \in Tries, LoginStep(t), attempt' = attempt,
           BeganUnlocked(t), NEW from \in Nat
    PROVE  BeganUnlocked(t)' /\ FillsKnowingly(t, from)'
<1>1. /\ try \in [Tries -> Try] /\ clock \in Nat /\ Lockout \in Nat /\ Window \in Nat
      /\ MaxFailures \in Nat /\ Grounds(t)
      /\ \A s \in Tries : attempt[s].at \in Nat /\ attempt[s].until \in Nat
    BY AccountsAssumption DEF Inv1, TypeOKSignOn, TypeOK, Lockouts, Attempt
<1>2. clock' = clock
    BY TryMoves
<1>3. ASSUME NEW u \in Users, NEW good \in BOOLEAN, CheckLockout(t, u, good)
      PROVE  BeganUnlocked(t)' /\ FillsKnowingly(t, from)'
    <2>1. CASE Locks(u) = {}
        <3>1. /\ try'[t].pc = "user" /\ try'[t].user = u /\ try'[t].began = clock
            BY <1>1, <1>3, <2>1 DEF CheckLockout
        <3>2. \A s \in Recorded(u) : attempt[s].until <= clock
            BY <1>1, <2>1 DEF Locks, Recorded
        <3>3. QED
            BY <3>1, <3>2 DEF BeganUnlocked, FillsKnowingly, Recorded
    <2>2. CASE Locks(u) # {}
        <3>1. try'[t].pc = "record" /\ try'[t].reason = "locked"
            BY <1>1, <1>3, <2>2 DEF CheckLockout
        <3>2. QED
            BY <3>1 DEF BeganUnlocked, Judging, FillsKnowingly
    <2>3. QED
        BY <2>1, <2>2
<1>4. CASE CheckPassword(t)
    <2>1. /\ try[t].pc = "user" /\ try[t].reason = "none"
          /\ try'[t].user = try[t].user /\ try'[t].began = try[t].began
          /\ try'[t].pc = "record" => try'[t].reason # "bad_password"
        BY <1>1, <1>4 DEF CheckPassword, Grounds
    <2>2. QED
        BY <2>1 DEF BeganUnlocked, Judging, FillsKnowingly, Recorded
<1>5. CASE CountFailures(t)
    <2> DEFINE u == try[t].user
    <2>1. /\ try[t].pc = "count" /\ try[t].reason = "bad_password"
          /\ try'[t].user = u /\ try'[t].began = try[t].began
          /\ Cardinality(RecentFailures(u)) + 1 >= MaxFailures => try'[t].until = clock + Lockout
        BY <1>1, <1>5 DEF CountFailures, Grounds
    <2>2. BeganUnlocked(t)'
        BY <2>1 DEF BeganUnlocked, Judging, Recorded
    <2>3. ASSUME Cardinality(InWindow(u, from)) + 1 >= MaxFailures,
                 from <= clock, clock < from + Window
          PROVE  try'[t].until >= from + Lockout
        <3>1. InWindow(u, from) \subseteq RecentFailures(u)
            <4>1. ASSUME NEW s \in InWindow(u, from) PROVE s \in RecentFailures(u)
                <5>1. /\ s \in Recorded(u) /\ s \in Tries /\ attempt[s].reason = "bad_password"
                      /\ attempt[s].at \in from..(from + Window - 1)
                    BY <4>1 DEF InWindow, Recorded
                <5>2. attempt[s].at + Window >= clock
                    BY <1>1, <2>3, <5>1
                <5>3. QED
                    BY <5>1, <5>2 DEF RecentFailures
            <4>2. QED
                BY <4>1
        <3>2. Cardinality(InWindow(u, from)) <= Cardinality(RecentFailures(u))
            BY <3>1, WindowsAreFinite, FS_Subset
        <3>3. try'[t].until = clock + Lockout
            BY <1>1, <2>1, <2>3, <3>2, WindowsAreFinite
        <3>4. QED
            BY <1>1, <2>3, <3>3
    <2>4. InWindow(u, from)' = InWindow(u, from) /\ InWindow(try[t].user, from)' = InWindow(u, from)
        BY <2>1 DEF InWindow, Recorded
    <2>5. FillsKnowingly(t, from)'
        BY <1>2, <2>1, <2>3, <2>4 DEF FillsKnowingly
    <2>6. QED
        BY <2>2, <2>5
<1>6. CASE RecordAttempt(t) \/ StoreSession(t)
    <2>1. try'[t].pc \in {"store", "out", "in"}
        <3>1. \E pc \in {"store", "in", "out"} : try' = [try EXCEPT ![t].pc = pc]
            BY <1>6 DEF RecordAttempt, StoreSession
        <3>2. QED
            BY <1>1, <3>1 DEF Try
    <2>2. QED
        BY <2>1 DEF BeganUnlocked, Judging, FillsKnowingly
<1>7. QED
    BY <1>3, <1>4, <1>5, <1>6 DEF LoginStep

\* The wrong password that t records fits into every window.
LEMMA RecordingFits ==
    ASSUME MaxFailures >= 2, Lockout >= Window, Inv1, Lockouts, Windows, ~setting.overlap,
           NEW t \in Tries, RecordAttempt(t), [Next]_vars, NEW u \in Users, NEW from \in Nat
    PROVE  WindowHolds(u, from)'
<1>1. /\ try \in [Tries -> Try] /\ attempt \in [Tries -> Attempt]
      /\ clock \in Nat /\ Lockout \in Nat /\ Window \in Nat
      /\ Lockout >= Window /\ MaxFailures \in Nat
      /\ WindowHolds(u, from) /\ BeganUnlocked(t) /\ FillsKnowingly(t, from)
    BY AccountsAssumption DEF Inv1, TypeOKSignOn, TypeOK, Windows
<1>2. /\ try[t].pc = "record"
      /\ \A s \in Tries \ {t} : attempt'[s] = attempt[s]
      /\ attempt'[t] = [user |-> try[t].user, reason |-> try[t].reason, at |-> clock,
                        until |-> try[t].until]
    BY <1>1 DEF RecordAttempt
<1>3. /\ attempt'[t].user = try[t].user /\ attempt'[t].reason = try[t].reason
      /\ attempt'[t].at = clock /\ attempt'[t].until = try[t].until
    BY <1>2
<1>4. attempt[t].reason = "none"
    BY <1>2 DEF Inv1, Rows
<1> DEFINE fits == /\ try[t].user = u /\ try[t].reason = "bad_password"
                   /\ from <= clock /\ clock < from + Window
<1>5. ASSUME LockedTo(u, from + Lockout) PROVE LockedTo(u, from + Lockout)'
    <2>1. PICK s \in Recorded(u) : attempt[s].until >= from + Lockout
        BY <1>5 DEF LockedTo
    <2>2. s \in Tries /\ attempt[s].reason # "none"
        BY <2>1 DEF Recorded
    <2>3. attempt'[s] = attempt[s] /\ s \in Recorded(u)'
        BY <2>1, <2>2, RowsStay
    <2>4. QED
        BY <2>1, <2>3 DEF LockedTo
<1>6. CASE ~fits
    <2>1. t \notin InWindow(u, from)'
        BY <1>1, <1>3, <1>6 DEF InWindow, Recorded
    <2>2. t \notin InWindow(u, from)
        BY <1>4 DEF InWindow, Recorded
    <2>3. \A s \in Tries \ {t} : s \in InWindow(u, from)' <=> s \in InWindow(u, from)
        BY <1>2 DEF InWindow, Recorded
    <2>4. InWindow(u, from) \subseteq Tries /\ InWindow(u, from)' \subseteq Tries
        BY DEF InWindow, Recorded
    <2>5. InWindow(u, from)' = InWindow(u, from)
        BY <2>1, <2>2, <2>3, <2>4
    <2>6. QED
        BY <1>1, <1>5, <2>5 DEF WindowHolds
<1>7. CASE fits
    <2>1. t \in InWindow(u, from)'
        BY <1>1, <1>3, <1>7 DEF InWindow, Recorded
    <2>2. t \notin InWindow(u, from)
        BY <1>4 DEF InWindow, Recorded
    <2>3. \A s \in Tries \ {t} : s \in InWindow(u, from)' <=> s \in InWindow(u, from)
        BY <1>2 DEF InWindow, Recorded
    <2>4. InWindow(u, from) \subseteq Tries /\ InWindow(u, from)' \subseteq Tries
        BY DEF InWindow, Recorded
    <2>5. InWindow(u, from)' = InWindow(u, from) \cup {t}
        BY <2>1, <2>2, <2>3, <2>4
    <2>6. /\ Cardinality(InWindow(u, from)) \in Nat
          /\ Cardinality(InWindow(u, from)') = Cardinality(InWindow(u, from)) + 1
        BY <2>2, <2>5, WindowsAreFinite, FS_AddElement
    <2>7. Cardinality(InWindow(u, from)) # MaxFailures
        <3>1. SUFFICES ASSUME LockedTo(u, from + Lockout) PROVE FALSE
            BY <1>1 DEF WindowHolds
        <3>2. PICK s \in Recorded(u) : attempt[s].until >= from + Lockout
            BY <3>1 DEF LockedTo
        <3>3. attempt[s].until <= try[t].began /\ attempt[s].until \in Nat /\ try[t].began \in Nat
            BY <1>1, <1>2, <1>7, <3>2 DEF BeganUnlocked, Judging, Recorded, Attempt, Try
        <3>4. try[t].began <= clock
            BY DEF Inv1, Rows
        <3>5. QED
            BY <1>1, <1>7, <3>2, <3>3, <3>4
    <2>8. Cardinality(InWindow(u, from)') <= MaxFailures
        BY <1>1, <2>6, <2>7 DEF WindowHolds
    <2>9. ASSUME Cardinality(InWindow(u, from)') = MaxFailures
          PROVE  LockedTo(u, from + Lockout)'
        <3>1. try[t].until >= from + Lockout
            BY <1>1, <1>2, <1>7, <2>6, <2>9 DEF FillsKnowingly
        <3>2. t \in Recorded(u)'
            BY <2>1 DEF InWindow
        <3>3. QED
            BY <1>3, <3>1, <3>2 DEF LockedTo
    <2>10. QED
        BY <2>8, <2>9 DEF WindowHolds
<1>8. QED
    BY <1>6, <1>7

LEMMA WindowsKept ==
    ASSUME MaxFailures >= 2, Lockout >= Window
    PROVE  Inv1 /\ Lockouts /\ Windows /\ [Next]_vars => Windows'
<1> SUFFICES ASSUME Inv1, Lockouts, Windows, [Next]_vars, ~setting'.overlap
             PROVE  Windows'
    BY DEF Windows
<1>1. setting' = setting
    BY TryFrame, TryMoves DEF Tick
<1>2. /\ ~setting.overlap
      /\ \A s, t \in Trying : s = t
      /\ \A t \in Tries : BeganUnlocked(t)
      /\ \A u \in Users, from \in Nat : WindowHolds(u, from)
      /\ \A t \in Tries, from \in Nat : FillsKnowingly(t, from)
    BY <1>1 DEF Windows
<1>3. ASSUME NEW t \in Tries, LoginStep(t) PROVE Windows'
    <2>1. try \in [Tries -> Try] /\ \A s \in Tries \ {t} : try'[s] = try[s]
        BY <1>3, TryMoves DEF Inv1, TypeOKSignOn, TypeOK
    <2>2. \A s \in Trying' : \A r \in Trying' : s = r
        <3>1. CASE t \in Trying
            <4>1. Trying' \subseteq Trying
                BY <2>1, <3>1 DEF Trying
            <4>2. QED
                BY <1>2, <4>1
        <3>2. CASE t \notin Trying
            <4>1. \E u \in Users, good \in BOOLEAN : CheckLockout(t, u, good)
                BY <1>3, <3>2
                DEF LoginStep, CheckPassword, CountFailures, RecordAttempt, StoreSession, Trying
            <4>2. Trying = {}
                BY <1>2, <4>1 DEF CheckLockout
            <4>3. Trying' \subseteq {t}
                BY <2>1, <4>2 DEF Trying
            <4>4. QED
                BY <4>3
        <3>3. QED
            BY <3>1, <3>2
    <2>3. CASE attempt' = attempt
        <3>1. clock' = clock
            BY <1>3, TryMoves
        <3>2. ASSUME NEW s \in Tries, NEW from \in Nat
              PROVE  BeganUnlocked(s)' /\ FillsKnowingly(s, from)'
            <4>1. CASE s = t
                BY <1>2, <1>3, <2>3, <4>1, JudgingKnowingly
            <4>2. CASE s # t
                BY <1>2, <2>1, <2>3, <3>1, <4>2, WindowsStand
            <4>3. QED
                BY <4>1, <4>2
        <3>3. ASSUME NEW u \in Users, NEW from \in Nat PROVE WindowHolds(u, from)'
            BY <1>2, <2>3, WindowsStand
        <3>4. 0 \in Nat
            OBVIOUS
        <3>5. \A s \in Tries : BeganUnlocked(s)'
            BY <3>2, <3>4
        <3>6. QED
            BY <2>2, <3>2, <3>3, <3>5 DEF Windows
    <2>4. CASE attempt' # attempt
        <3>1. RecordAttempt(t)
            BY <1>3, <2>4
            DEF LoginStep, CheckLockout, CheckPassword, CountFailures, StoreSession
        <3>2. try[t].pc = "record" /\ try'[t].pc \in {"store", "out"}
            BY <2>1, <3>1 DEF RecordAttempt
        <3>3. \A s \in Tries : try'[s].pc \notin {"user", "count", "record"}
            BY <1>2, <2>1, <3>2 DEF Trying
        <3>4. \A s \in Tries : BeganUnlocked(s)'
            BY <3>3 DEF BeganUnlocked, Judging
        <3>5. \A s \in Tries, from \in Nat : FillsKnowingly(s, from)'
            BY <3>3 DEF FillsKnowingly
        <3>6. \A u \in Users, from \in Nat : WindowHolds(u, from)'
            BY <1>2, <3>1, RecordingFits
        <3>7. QED
            BY <2>2, <3>4, <3>5, <3>6 DEF Windows
    <2>5. QED
        BY <2>3, <2>4
<1>4. CASE Tick
    <2>1. clock' = clock + 1 /\ UNCHANGED <<attempt, try>>
        BY <1>4 DEF Tick, accounts
    <2>2. \A s \in Tries : try'[s] = try[s] /\ BeganUnlocked(s)'
        BY <1>2, <2>1, WindowsStand
    <2>3. \A u \in Users, from \in Nat : WindowHolds(u, from)'
        BY <1>2, <2>1, WindowsStand
    <2>4. ASSUME NEW t \in Tries, NEW from \in Nat PROVE FillsKnowingly(t, from)'
        <3> DEFINE u == try[t].user
        <3>1. /\ clock \in Nat /\ Window \in Nat /\ MaxFailures \in Nat
              /\ \A s \in Tries : attempt[s].at \in Nat
            BY AccountsAssumption DEF Inv1, TypeOKSignOn, TypeOK, Attempt
        <3>2. from = clock + 1 => InWindow(u, from) = {}
            BY <3>1 DEF InWindow, Recorded, Inv1, Rows
        <3>3. InWindow(try[t].user, from)' = InWindow(u, from)
            BY <2>1 DEF InWindow, Recorded
        <3>4. from = clock + 1 => ~ (Cardinality(InWindow(u, from)) + 1 >= MaxFailures)
            BY <3>1, <3>2, FS_EmptySet
        <3>5. FillsKnowingly(t, from)
            BY <1>2
        <3>6. QED
            BY <2>1, <3>1, <3>3, <3>4, <3>5 DEF FillsKnowingly
    <2>5. Trying' = Trying
        BY <2>1 DEF Trying
    <2>6. QED
        BY <1>2, <2>2, <2>3, <2>4, <2>5 DEF Windows
<1>5. CASE UNCHANGED <<clock, attempt, try, setting>>
    <2>1. \A s \in Tries : try'[s] = try[s]
        BY <1>5
    <2>2. Trying' = Trying
        BY <1>5 DEF Trying
    <2>3. QED
        BY <1>2, <1>5, <2>1, <2>2, WindowsStand DEF Windows
<1>6. QED
    BY <1>3, <1>4, <1>5, TryFrame

-----------------------------------------------------------------------------
(* Sessions                                                                *)

\* A request is what it was, with less against it at the most, or it is served.
Milder(q) ==
    \/ /\ request'[q].pc = request[q].pc /\ request'[q].token = request[q].token
       /\ request'[q].barred \subseteq request[q].barred
    \/ request'[q].pc = "served" /\ request'[q].barred = {}

LEMMA ReadmittedIsMilder ==
    ASSUME Inv1, NEW u, NEW disabled, NEW q \in Requests
    PROVE  /\ Readmitted(u, disabled)[q].pc = request[q].pc
           /\ Readmitted(u, disabled)[q].token = request[q].token
           /\ Readmitted(u, disabled)[q].barred \subseteq request[q].barred
<1>1. request[q] \in Request
    BY DEF Inv1, TypeOKSignOn, TypeOK
<1>2. Readmitted(u, disabled)[q] \in {request[q], [request[q] EXCEPT !.barred = @ \ {"account"}]}
    BY DEF Readmitted
<1>3. QED
    BY <1>1, <1>2 DEF Request

\* Which steps touch the sessions, and what the others do to the requests
LEMMA SessionMoves ==
    ASSUME Inv1, [Next]_vars
    PROVE  \/ \E t \in Tries : StoreSession(t) /\ UNCHANGED signOn
           \/ \E c \in Callbacks : FinishLogin(c)
           \/ \E q \in Requests : RequestStep(q) /\ UNCHANGED signOn
           \/ UNCHANGED session /\ \A q \in Requests : Milder(q)
<1>1. ASSUME UNCHANGED request PROVE \A q \in Requests : Milder(q)
    BY <1>1 DEF Milder
<1>2. ASSUME NEW u, NEW disabled, request' = Readmitted(u, disabled)
      PROVE  \A q \in Requests : Milder(q)
    BY <1>2, ReadmittedIsMilder DEF Milder
<1>3. ASSUME NEW t \in Tries, LoginStep(t)
      PROVE  StoreSession(t) \/ (UNCHANGED session /\ \A q \in Requests : Milder(q))
    BY <1>1, <1>3 DEF LoginStep, CheckLockout, CheckPassword, CountFailures, RecordAttempt
<1>4. ASSUME NEW k \in Calls, ProvisioningStep(k)
      PROVE  UNCHANGED session /\ \A q \in Requests : Milder(q)
    BY <1>1, <1>2, <1>4
    DEF ProvisioningStep, CreateUser, PutUser, DeleteUser, PatchRead, PatchWrite, Ask
<1>5. ASSUME NEW c \in Callbacks, NEW q \in Requests, UseIdToken(q, c)
      PROVE  UNCHANGED session /\ \A p \in Requests : Milder(p)
    <2> DEFINE u == callback[c].subject
    <2>1. request' = [Readmitted(u, FALSE) EXCEPT
              ![q] = [pc |-> "served", token |-> c, logout |-> FALSE, barred |-> {}]]
        BY <1>5 DEF UseIdToken
    <2>2. ASSUME NEW p \in Requests PROVE Milder(p)
        <3>1. CASE p = q
            BY <2>1, <3>1 DEF Milder, Readmitted
        <3>2. CASE p # q
            <4>1. request'[p] = Readmitted(u, FALSE)[p]
                BY <2>1, <3>2 DEF Readmitted
            <4>2. /\ Readmitted(u, FALSE)[p].pc = request[p].pc
                  /\ Readmitted(u, FALSE)[p].token = request[p].token
                  /\ Readmitted(u, FALSE)[p].barred \subseteq request[p].barred
                BY ReadmittedIsMilder
            <4> HIDE DEF u
            <4>3. QED
                BY <4>1, <4>2 DEF Milder
        <3>3. QED
            BY <3>1, <3>2
    <2>3. QED
        BY <1>5, <2>2 DEF UseIdToken
<1>6. ASSUME NEW c \in Callbacks, VerifyIdToken(c)
      PROVE  UNCHANGED session /\ \A q \in Requests : Milder(q)
    BY <1>1, <1>2, <1>6 DEF VerifyIdToken, SyncUser, Ask
<1>7. ASSUME NEW c \in Callbacks, CallbackStep(c)
      PROVE  FinishLogin(c) \/ (UNCHANGED session /\ \A q \in Requests : Milder(q))
    BY <1>1, <1>5, <1>6, <1>7 DEF CallbackStep, Arrive, Exchange, accounts
<1>8. ASSUME NEW l \in Logins, BrowserStep(l)
      PROVE  UNCHANGED session /\ \A q \in Requests : Milder(q)
    BY <1>1, <1>8 DEF BrowserStep, StartLogin, Decline, Authorize, accounts
<1>9. QED
    BY <1>1, <1>3, <1>4, <1>7, <1>8 DEF Next, AccountsNext, Tick, vars, accounts

\* A session that is stored was not held before, by whatever request.
LEMMA StoringKeepsSessions ==
    ASSUME Inv1, Sessions, NEW t \in Tokens, NEW u, ~session[t].held,
           session' = [session EXCEPT ![t] = NewSession(u)], UNCHANGED request
    PROVE  \A q \in Requests :
               /\ request'[q].pc \in {"user", "revoke", "loggedout"} =>
                    /\ session'[request'[q].token] = session[request[q].token]
                    /\ session'[request'[q].token].held
               /\ request'[q].pc = "loggedout" => session'[request'[q].token].revoked
               /\ request'[q].pc # "refused" => "logout" \notin request'[q].barred
<1>1. session \in [Tokens -> Session] /\ \A q \in Requests : request[q].token \in Tokens
    BY DEF Inv1, TypeOKSignOn, TypeOK, Request
<1>2. QED
    BY <1>1 DEF Sessions

LEMMA SessionsKept == Inv1 /\ Sessions /\ [Next]_vars => Sessions'
<1> SUFFICES ASSUME Inv1, Sessions, [Next]_vars PROVE Sessions'
    OBVIOUS
<1>1. /\ session \in [Tokens -> Session] /\ try \in [Tries -> Try]
      /\ callback \in [Callbacks -> Callback] /\ request \in [Requests -> Request]
      /\ \A q \in Requests : request[q].token \in Tokens
      /\ Tries \subseteq Tokens /\ Callbacks \subseteq Tokens /\ Tries \cap Callbacks = {}
    BY AccountsAssumption DEF Inv1, TypeOKSignOn, TypeOK, Request, Tokens
\* The places of the tries and of the callbacks that have a session stay.
<1>2. ASSUME NEW t \in Tries, try[t].pc = "in" PROVE try'[t].pc = "in"
    <2>1. ASSUME NEW s \in Tries, LoginStep(s) PROVE try'[t] = try[t]
        BY <1>2, <2>1, TryMoves
    <2>2. QED
        BY <1>2, <2>1, TryFrame DEF Tick, accounts
<1>3. ASSUME NEW c \in Callbacks, callback[c].pc = "in" PROVE callback'[c].pc = "in"
    <2>1. ASSUME NEW d \in Callbacks, CallbackStep(d) PROVE callback'[c] = callback[c]
        <3>1. CASE d # c
            BY <1>1, <2>1, <3>1, CallbackMoves
        <3>2. CASE d = c
            <4>1. \A l \in Logins : ~Arrive(c, l)
                BY <1>3 DEF Arrive
            <4>2. QED
                BY <1>1, <1>3, <2>1, <3>2, <4>1, CallbackMoves DEF signOn
        <3>3. QED
            BY <3>1, <3>2
    <2>2. ASSUME NEW l \in Logins, BrowserStep(l) PROVE callback' = callback
        BY <2>2 DEF BrowserStep, StartLogin, Decline, Authorize
    <2>3. QED
        BY <1>3, <2>1, <2>2, CallbackFrame DEF signOn
<1>4. ASSUME NEW t \in Tries, StoreSession(t), UNCHANGED signOn PROVE Sessions'
    <2>1. ~session[t].held /\ t \in Tokens
        BY <1>1, <1>4 DEF StoreSession, Sessions
    <2>2. session' = [session EXCEPT ![t] = NewSession(try[t].user)] /\ UNCHANGED request
        BY <1>4 DEF StoreSession
    <2>3. try'[t].pc = "in" /\ \A s \in Tokens \ {t} : session'[s] = session[s]
        BY <1>1, <1>4, <2>2 DEF StoreSession
    <2>4. (\A s \in Tries : session'[s].held => try'[s].pc = "in")
        BY <1>1, <1>2, <2>3 DEF Sessions
    <2>5. (\A c \in Callbacks : session'[c].held => callback'[c].pc = "in")
        BY <1>1, <1>3, <2>3 DEF Sessions
    <2>6. QED
        BY <2>1, <2>2, <2>4, <2>5, StoringKeepsSessions DEF Sessions
<1>5. ASSUME NEW c \in Callbacks, FinishLogin(c) PROVE Sessions'
    <2>1. ~session[c].held /\ c \in Tokens
        BY <1>1, <1>5 DEF FinishLogin, Sessions
    <2>2. session' = [session EXCEPT ![c] = NewSession(callback[c].subject)] /\ UNCHANGED request
        BY <1>5 DEF FinishLogin
    <2>3. callback'[c].pc = "in" /\ \A s \in Tokens \ {c} : session'[s] = session[s]
        BY <1>1, <1>5, <2>2 DEF FinishLogin
    <2>4. (\A s \in Tries : session'[s].held => try'[s].pc = "in")
        BY <1>1, <1>2, <2>3 DEF Sessions
    <2>5. (\A d \in Callbacks : session'[d].held => callback'[d].pc = "in")
        BY <1>1, <1>3, <2>3 DEF Sessions
    <2>6. QED
        BY <2>1, <2>2, <2>4, <2>5, StoringKeepsSessions DEF Sessions
<1>6. ASSUME NEW q \in Requests, RequestStep(q) PROVE Sessions'
    <2>1. ASSUME NEW t \in Tokens, NEW logout \in BOOLEAN, PresentToken(q, t, logout)
          PROVE  Sessions'
        <3>1. /\ UNCHANGED <<try, session>> /\ session[t].held
              /\ \A r \in Requests \ {q} : request'[r] = request[r]
              /\ request'[q] = [pc |-> IF clock <= session[t].expires /\ ~session[t].revoked
                                       THEN "user" ELSE "refused",
                                token |-> t, logout |-> logout, barred |-> Barred(t)]
            BY <1>1, <2>1 DEF PresentToken
        <3>2. "logout" \in Barred(t) => session[t].revoked
            BY DEF Barred, LoggedOut, Sessions
        <3>3. /\ request'[q].pc \in {"user", "refused"} /\ request'[q].token = t
              /\ request'[q].pc # "refused" => "logout" \notin request'[q].barred
            BY <3>1, <3>2
        <3>4. QED
            BY <1>2, <1>3, <3>1, <3>3 DEF Sessions
    <2>2. CASE CheckAccount(q)
        <3>1. /\ UNCHANGED <<try, session>> /\ request[q].pc = "user"
              /\ \A r \in Requests \ {q} : request'[r] = request[r]
              /\ request'[q].pc \in {"refused", "revoke", "served"}
              /\ request'[q].token = request[q].token /\ request'[q].barred = request[q].barred
            BY <1>1, <2>2 DEF CheckAccount, Request
        <3>2. QED
            BY <1>2, <1>3, <3>1 DEF Sessions
    <2>3. CASE Revoke(q)
        <3> DEFINE t == request[q].token
        <3>1. /\ UNCHANGED try /\ request[q].pc = "revoke"
              /\ \A r \in Requests \ {q} : request'[r] = request[r]
              /\ request'[q].pc \in {"refused", "loggedout"}
              /\ request'[q].token = t /\ request'[q].barred = request[q].barred
            BY <1>1, <2>3 DEF Revoke, Request
        <3>2. /\ \A s \in Tokens \ {t} : session'[s] = session[s]
              /\ session'[t].held = session[t].held
              /\ session[t].revoked => session'[t].revoked
              /\ request'[q].pc = "loggedout" => session'[t].revoked
            BY <1>1, <2>3 DEF Revoke, Request, Session
        <3>3. \A s \in Tokens : /\ session'[s].held = session[s].held
                                /\ session[s].revoked => session'[s].revoked
            BY <3>2
        <3> HIDE DEF t
        <3>4. QED
            BY <1>1, <1>2, <1>3, <3>1, <3>2, <3>3 DEF Sessions, t
    <2>4. QED
        BY <1>6, <2>1, <2>2, <2>3 DEF RequestStep
<1>7. ASSUME UNCHANGED session, \A q \in Requests : Milder(q) PROVE Sessions'
    BY <1>2, <1>3, <1>7 DEF Sessions, Milder
<1>8. QED
    BY <1>4, <1>5, <1>6, <1>7, SessionMoves

-----------------------------------------------------------------------------
(* Accounts are what was asked of them.                                    *)

\* An account gets a new row, and what was asked of it is what the row says.
Settles(u, new, want) ==
    /\ user' = [user EXCEPT ![u] = new]
    /\ asked' = [asked EXCEPT ![u] = want]
    /\ new.disabled = want.disabled /\ new.role = want.role

Wants == [disabled : BOOLEAN, role : Roles]

LEMMA UpsertSettles ==
    ASSUME Inv1, NEW u \in Users, NEW disabled \in BOOLEAN, NEW role \in Roles,
           Upsert(u, disabled, role), NEW want \in Wants,
           asked' = [asked EXCEPT ![u] = want], want.disabled = disabled, want.role = role
    PROVE  \E new \in Account : Settles(u, new, want)
<1>1. user[u].password \in BOOLEAN
    BY DEF Inv1, TypeOKSignOn, TypeOK, Account
<1> DEFINE new == [known |-> TRUE, disabled |-> disabled, role |-> role,
                   password |-> user[u].password]
<1>2. new \in Account
    BY <1>1 DEF Account
<1>3. user' = [user EXCEPT ![u] = new]
    BY DEF Upsert
<1>4. new.disabled = want.disabled /\ new.role = want.role
    OBVIOUS
<1>5. QED
    BY <1>2, <1>3, <1>4 DEF Settles

\* A call that is done is no PATCH about to write.
LEMMA PatchingEnds ==
    ASSUME call \in [Calls -> Call], NEW k \in Calls, Patching \subseteq {k},
           call'[k].pc = "done", \A j \in Calls \ {k} : call'[j] = call[j]
    PROVE  Patching' = {}
BY DEF Patching

\* While calls do not overlap, the rows change by steps that settle an account.
LEMMA AccountMoves ==
    ASSUME Inv1, Standing, ~setting.overlap, [Next]_vars
    PROVE  \/ UNCHANGED <<user, asked, call>>
           \/ /\ UNCHANGED <<user, asked, session, request>> /\ Patching = {}
              /\ \E k \in Calls, u \in Users, named \in SUBSET {"disabled", "role"},
                    disabled \in BOOLEAN, role \in Roles :
                    user[u].known /\ PatchRead(k, u, named, disabled, role)
           \/ /\ Patching' = {} /\ UNCHANGED session
              /\ \E u \in Users, new \in Account, want \in Wants :
                    /\ Settles(u, new, want)
                    /\ \A q \in Requests :
                        \/ request'[q] = Readmitted(u, want.disabled)[q]
                        \/ request'[q].pc = "served" /\ request'[q].barred = {}
<1>1. /\ call \in [Calls -> Call] /\ user \in [Users -> Account] /\ asked \in [Users -> Wants]
      /\ callback \in [Callbacks -> Callback]
      /\ \A j, k \in Patching : j = k
      /\ \A u \in Users : user[u].known =>
            user[u].disabled = asked[u].disabled /\ user[u].role = asked[u].role
    BY DEF Inv1, TypeOKSignOn, TypeOK, Standing, Wants
<1> DEFINE Settled ==
        /\ Patching' = {} /\ UNCHANGED session
        /\ \E u \in Users, new \in Account, want \in Wants :
              /\ Settles(u, new, want)
              /\ \A q \in Requests :
                  \/ request'[q] = Readmitted(u, want.disabled)[q]
                  \/ request'[q].pc = "served" /\ request'[q].barred = {}
<1>2. ASSUME NEW k \in Calls, ProvisioningStep(k)
      PROVE  \/ Settled
             \/ /\ UNCHANGED <<user, asked, session, request>> /\ Patching = {}
                /\ \E j \in Calls, u \in Users, named \in SUBSET {"disabled", "role"},
                      disabled \in BOOLEAN, role \in Roles :
                      user[u].known /\ PatchRead(j, u, named, disabled, role)
    <2>1. ASSUME NEW u \in Users, NEW role \in GivenRoles, CreateUser(k, u, role)
          PROVE  Settled
        <3> DEFINE new == [known |-> TRUE, disabled |-> FALSE, role |-> role, password |-> TRUE]
                   want == [disabled |-> FALSE, role |-> role]
        <3>1. role \in Roles /\ new \in Account /\ want \in Wants
            BY AccountsAssumption DEF Account, Wants
        <3>2. Settles(u, new, want) /\ request' = Readmitted(u, want.disabled) /\ UNCHANGED session
            BY <2>1 DEF CreateUser, Ask, Settles
        <3>3. Patching = {} /\ call'[k].pc = "done" /\ \A j \in Calls \ {k} : call'[j] = call[j]
            BY <1>1, <2>1 DEF CreateUser, MayBegin, Undisturbed, Call
        <3>4. Patching' = {}
            BY <1>1, <3>3, PatchingEnds
        <3> HIDE DEF new, want
        <3>5. QED
            BY <3>1, <3>2, <3>4
    <2>2. ASSUME NEW u \in Users, NEW role \in GivenRoles, NEW disabled \in BOOLEAN,
                 PutUser(k, u, disabled, role)
          PROVE  Settled
        <3> DEFINE want == [disabled |-> disabled, role |-> role]
        <3>1. role \in Roles /\ want \in Wants /\ want.disabled = disabled /\ want.role = role
            BY AccountsAssumption DEF Wants
        <3>2. /\ Upsert(u, disabled, role) /\ asked' = [asked EXCEPT ![u] = want]
              /\ request' = Readmitted(u, want.disabled) /\ UNCHANGED session
            BY <2>2 DEF PutUser, Ask
        <3>3. Patching = {} /\ call'[k].pc = "done" /\ \A j \in Calls \ {k} : call'[j] = call[j]
            BY <1>1, <2>2 DEF PutUser, MayBegin, Undisturbed, Call
        <3>4. Patching' = {}
            BY <1>1, <3>3, PatchingEnds
        <3> HIDE DEF want
        <3>5. \E new \in Account : Settles(u, new, want)
            BY <3>1, <3>2, UpsertSettles
        <3>6. QED
            BY <3>1, <3>2, <3>4, <3>5
    <2>3. ASSUME NEW u \in Users, DeleteUser(k, u)
          PROVE  Settled
        <3> DEFINE new == [user[u] EXCEPT !.disabled = TRUE]
                   want == [asked[u] EXCEPT !.disabled = TRUE]
        <3>1. ASSUME NEW r \in Account
              PROVE  LET n == [r EXCEPT !.disabled = TRUE] IN
                     n \in Account /\ n.disabled = TRUE /\ n.role = r.role
            BY DEF Account
        <3>2. ASSUME NEW r \in Wants
              PROVE  LET n == [r EXCEPT !.disabled = TRUE] IN
                     n \in Wants /\ n.disabled = TRUE /\ n.role = r.role
            BY DEF Wants
        <3>3. /\ new \in Account /\ new.disabled = TRUE /\ new.role = user[u].role
              /\ want \in Wants /\ want.disabled = TRUE /\ want.role = asked[u].role
            BY <1>1, <3>1, <3>2
        <3>4. user[u].role = asked[u].role
            BY <1>1, <2>3 DEF DeleteUser
        <3>5. user' = [user EXCEPT ![u] = new]
            BY <1>1, <2>3 DEF DeleteUser
        <3>6. asked' = [asked EXCEPT ![u] = want]
            BY <2>3 DEF DeleteUser, Ask
        <3>7. request' = Readmitted(u, want.disabled) /\ UNCHANGED session
            BY <2>3 DEF DeleteUser, Ask
        <3>10. Patching = {} /\ call'[k].pc = "done" /\ \A j \in Calls \ {k} : call'[j] = call[j]
            BY <1>1, <2>3 DEF DeleteUser, MayBegin, Undisturbed, Call
        <3>11. Patching' = {}
            BY <1>1, <3>10, PatchingEnds
        <3> HIDE DEF new, want
        <3>12. QED
            BY <3>3, <3>4, <3>5, <3>6, <3>7, <3>11 DEF Settles
    <2>4. ASSUME NEW u \in Users, NEW role \in GivenRoles, NEW disabled \in BOOLEAN,
                 NEW named \in SUBSET {"disabled", "role"}, PatchRead(k, u, named, disabled, role)
          PROVE  /\ UNCHANGED <<user, asked, session, request>> /\ Patching = {}
                 /\ role \in Roles /\ user[u].known
        BY <2>4, AccountsAssumption DEF PatchRead, MayBegin, Undisturbed
    <2>5. CASE PatchWrite(k)
        <3> DEFINE u == call[k].user  merged == call[k].merged  named == call[k].named
                   disabled == IF "disabled" \in named THEN merged.disabled ELSE asked[u].disabled
                   role == IF "role" \in named THEN merged.role ELSE asked[u].role
                   want == [disabled |-> disabled, role |-> role]
        <3>1. k \in Patching /\ u \in Users /\ merged \in Account
            BY <1>1, <2>5 DEF PatchWrite, Patching, Call
        <3>2. disabled = merged.disabled /\ role = merged.role
            BY <3>1 DEF Standing
        <3>3. merged.disabled \in BOOLEAN /\ merged.role \in Roles
            BY <3>1 DEF Account
        <3>4. want \in Wants /\ want.disabled = merged.disabled /\ want.role = merged.role
            BY <3>2, <3>3 DEF Wants
        <3>5. /\ Upsert(u, merged.disabled, merged.role) /\ asked' = [asked EXCEPT ![u] = want]
              /\ request' = Readmitted(u, want.disabled) /\ UNCHANGED session
            BY <2>5 DEF PatchWrite, Ask
        <3>6. call'[k].pc = "done" /\ \A j \in Calls \ {k} : call'[j] = call[j]
            BY <1>1, <2>5 DEF PatchWrite, Call
        <3>7. Patching' = {}
            BY <1>1, <3>1, <3>6, PatchingEnds
        <3> HIDE DEF u, merged, want
        <3>8. \E new \in Account : Settles(u, new, want)
            BY <3>1, <3>3, <3>4, <3>5, UpsertSettles
        <3>9. QED
            BY <3>1, <3>4, <3>5, <3>7, <3>8
    <2> HIDE DEF Settled
    <2>6. QED
        BY <1>2, <2>1, <2>2, <2>3, <2>4, <2>5 DEF ProvisioningStep
\* sync_oidc_user, in a sign-in or for a request
<1>3. ASSUME NEW c \in Callbacks, Patching = {}, UNCHANGED <<session, call>>,
             LET u == callback[c].subject IN
             /\ Upsert(u, FALSE, RoleOf(Claims[u]))
             /\ asked' = [asked EXCEPT ![u] = [disabled |-> FALSE, role |-> RoleOf(Claims[u])]]
             /\ \A q \in Requests :
                    \/ request'[q] = Readmitted(u, FALSE)[q]
                    \/ request'[q].pc = "served" /\ request'[q].barred = {}
      PROVE  Settled
    <2> DEFINE u == callback[c].subject  role == RoleOf(Claims[u])
               want == [disabled |-> FALSE, role |-> role]
    <2>1. u \in Users
        BY <1>1 DEF Callback
    <2>2. role \in Roles
        BY <2>1, RolesFromClaims
    <2>3. want \in Wants /\ want.disabled = FALSE /\ want.role = role
        BY <2>2 DEF Wants
    <2>4. /\ Upsert(u, FALSE, role) /\ asked' = [asked EXCEPT ![u] = want]
          /\ \A q \in Requests :
                \/ request'[q] = Readmitted(u, want.disabled)[q]
                \/ request'[q].pc = "served" /\ request'[q].barred = {}
        BY <1>3
    <2>5. Patching' = {}
        BY <1>3 DEF Patching
    <2> HIDE DEF u, role, want
    <2>6. \E new \in Account : Settles(u, new, want)
        BY <2>1, <2>2, <2>3, <2>4, UpsertSettles
    <2>7. QED
        BY <1>3, <2>1, <2>3, <2>4, <2>5, <2>6
<1>4. ASSUME NEW c \in Callbacks, VerifyIdToken(c)
      PROVE  Settled \/ UNCHANGED <<user, asked, call>>
    BY <1>3, <1>4 DEF VerifyIdToken, SyncUser, Ask, Undisturbed
<1>5. ASSUME NEW c \in Callbacks, NEW q \in Requests, UseIdToken(q, c)
      PROVE  Settled
    <2> DEFINE u == callback[c].subject
    <2>1. request' = [Readmitted(u, FALSE) EXCEPT
              ![q] = [pc |-> "served", token |-> c, logout |-> FALSE, barred |-> {}]]
        BY <1>5 DEF UseIdToken
    <2>2. \A p \in Requests : \/ request'[p] = Readmitted(u, FALSE)[p]
                              \/ request'[p].pc = "served" /\ request'[p].barred = {}
        BY <2>1 DEF Readmitted
    <2>3. QED
        BY <1>3, <1>5, <2>2 DEF UseIdToken, Undisturbed
<1> HIDE DEF Settled
<1>6. ASSUME NEW c \in Callbacks, CallbackStep(c)
      PROVE  Settled \/ UNCHANGED <<user, asked, call>>
    BY <1>4, <1>5, <1>6 DEF CallbackStep, Arrive, Exchange, FinishLogin, accounts
<1>7. ASSUME NEW t \in Tries, LoginStep(t) PROVE UNCHANGED <<user, asked, call>>
    BY <1>7
    DEF LoginStep, CheckLockout, CheckPassword, CountFailures, RecordAttempt, StoreSession
<1>8. ASSUME NEW q \in Requests, RequestStep(q) PROVE UNCHANGED <<user, asked, call>>
    BY <1>8 DEF RequestStep, PresentToken, CheckAccount, Revoke
<1>9. ASSUME NEW l \in Logins, BrowserStep(l) PROVE UNCHANGED <<user, asked, call>>
    BY <1>9 DEF BrowserStep, StartLogin, Decline, Authorize, accounts
<1>10. QED
    BY <1>2, <1>6, <1>7, <1>8, <1>9 DEF Next, AccountsNext, Tick, vars, accounts, Settled

LEMMA SettingStays == ASSUME Inv1, [Next]_vars PROVE setting' = setting
BY TryFrame, TryMoves DEF Tick

LEMMA StandingKept == Inv1 /\ Standing /\ [Next]_vars => Standing'
<1> SUFFICES ASSUME Inv1, Standing, [Next]_vars, ~setting.overlap PROVE Standing'
    BY SettingStays DEF Standing
<1>1. /\ call \in [Calls -> Call] /\ user \in [Users -> Account] /\ asked \in [Users -> Wants]
      /\ \A j, k \in Patching : j = k
      /\ \A u \in Users : user[u].known =>
            user[u].disabled = asked[u].disabled /\ user[u].role = asked[u].role
    BY DEF Inv1, TypeOKSignOn, TypeOK, Standing, Wants
<1>2. CASE UNCHANGED <<user, asked, call>>
    <2>1. Patching' = Patching
        BY <1>2 DEF Patching
    <2>2. QED
        BY <1>2, <2>1 DEF Standing
<1>3. ASSUME UNCHANGED <<user, asked>>, Patching = {},
             NEW k \in Calls, NEW u \in Users, NEW named \in SUBSET {"disabled", "role"},
             NEW disabled \in BOOLEAN, NEW role \in Roles,
             user[u].known, PatchRead(k, u, named, disabled, role)
      PROVE  Standing'
    <2> DEFINE merged == Merge(u, named, disabled, role)
    <2>1. call' = [call EXCEPT ![k] = [pc |-> "write", user |-> u, named |-> named,
                                      merged |-> merged]]
        BY <1>3 DEF PatchRead
    <2>2. Patching' \subseteq {k}
        BY <1>1, <1>3, <2>1 DEF Patching
    <2>3. ASSUME NEW r \in Account, NEW d, NEW x
          PROVE  LET n == [r EXCEPT !.disabled = d, !.role = x] IN n.disabled = d /\ n.role = x
        BY DEF Account
    <2>4. /\ "disabled" \notin named => merged.disabled = user[u].disabled
          /\ "role" \notin named => merged.role = user[u].role
        <3>1. user[u] \in Account
            BY <1>1
        <3>2. QED
            BY <2>3, <3>1 DEF Merge
    <2> HIDE DEF merged
    <2>5. /\ call'[k].user = u /\ call'[k].named = named /\ call'[k].merged = merged
        BY <1>1, <2>1
    <2>6. QED
        BY <1>1, <1>3, <2>2, <2>4, <2>5 DEF Standing
<1>4. ASSUME Patching' = {}, NEW u \in Users, NEW new, NEW want, Settles(u, new, want)
      PROVE  Standing'
    BY <1>1, <1>4 DEF Settles, Standing
<1>5. QED
    BY <1>2, <1>3, <1>4, AccountMoves

\* Nobody gets past what was said against the account.
Refused(q) ==
    LET account == user[session[request[q].token].user] IN
    "account" \in request[q].barred =>
        \/ request[q].pc \in {"idle", "refused"}
        \/ request[q].pc = "user" /\ (account.known => account.disabled)

LEMMA UnwelcomeKept == Inv1 /\ Sessions /\ Standing /\ Unwelcome /\ [Next]_vars => Unwelcome'
<1> SUFFICES ASSUME Inv1, Sessions, Standing, Unwelcome, [Next]_vars, ~setting.overlap,
                    NEW q \in Requests
             PROVE  Refused(q)'
    BY SettingStays DEF Unwelcome, Refused
<1>1. /\ session \in [Tokens -> Session] /\ request \in [Requests -> Request]
      /\ user \in [Users -> Account] /\ asked \in [Users -> Wants]
      /\ \A p \in Requests : request[p].token \in Tokens
      /\ \A t \in Tokens : session[t].user \in Users
      /\ \A p \in Requests : Refused(p)
      /\ \A u \in Users : user[u].known => user[u].disabled = asked[u].disabled
    BY DEF Inv1, TypeOKSignOn, TypeOK, Request, Session, Unwelcome, Refused, Standing, Wants
<1>2. ASSUME NEW u \in Users, NEW new \in Account, NEW want \in Wants, Settles(u, new, want),
             UNCHANGED session,
             \/ request'[q] = Readmitted(u, want.disabled)[q]
             \/ request'[q].pc = "served" /\ request'[q].barred = {}
      PROVE  Refused(q)'
    <2> DEFINE t == request[q].token  s == session[t].user
    <2>1. CASE request'[q].barred = {}
        BY <2>1 DEF Refused
    <2>2. CASE request'[q] = Readmitted(u, want.disabled)[q]
        <3>1. /\ request'[q].pc = request[q].pc /\ request'[q].token = t
              /\ request'[q].barred \subseteq request[q].barred
            BY <2>2, ReadmittedIsMilder
        <3>2. s = u /\ ~want.disabled => "account" \notin request'[q].barred
            <4>1. ASSUME NEW r \in Request
                  PROVE  "account" \notin [r EXCEPT !.barred = @ \ {"account"}].barred
                BY DEF Request
            <4>2. s = u /\ ~want.disabled =>
                      request'[q] = [request[q] EXCEPT !.barred = @ \ {"account"}]
                BY <2>2 DEF Readmitted
            <4>3. QED
                BY <1>1, <4>1, <4>2
        <3>3. s # u => user'[s] = user[s]
            BY <1>1, <1>2 DEF Settles
        <3>4. s = u => user'[s].disabled = want.disabled
            BY <1>1, <1>2 DEF Settles
        <3>5. session'[request'[q].token].user = s /\ Refused(q)
            BY <1>1, <1>2, <3>1
        <3>6. want.disabled \in BOOLEAN
            BY DEF Wants
        <3>7. CASE s # u
            BY <3>1, <3>3, <3>5, <3>7 DEF Refused
        <3>8. CASE s = u
            BY <3>1, <3>2, <3>4, <3>5, <3>6, <3>8 DEF Refused
        <3>9. QED
            BY <3>7, <3>8
    <2>3. QED
        BY <1>2, <2>1, <2>2
<1>3. ASSUME UNCHANGED user PROVE Refused(q)'
    <2>1. ASSUME NEW t \in Tokens, NEW u, ~session[t].held,
                 session' = [session EXCEPT ![t] = NewSession(u)], UNCHANGED request
          PROVE  Refused(q)'
        <3>1. request[q].pc = "user" => session'[request[q].token] = session[request[q].token]
            BY <1>1, <2>1 DEF Sessions
        <3>2. QED
            BY <1>1, <1>3, <2>1, <3>1 DEF Refused
    <2>2. ASSUME NEW t \in Tries, StoreSession(t) PROVE Refused(q)'
        <3>1. /\ session' = [session EXCEPT ![t] = NewSession(try[t].user)] /\ UNCHANGED request
              /\ ~session[t].held /\ t \in Tokens
            BY <2>2 DEF StoreSession, Sessions, Tokens
        <3>2. QED
            BY <2>1, <3>1
    <2>3. ASSUME NEW c \in Callbacks, FinishLogin(c) PROVE Refused(q)'
        <3>1. /\ session' = [session EXCEPT ![c] = NewSession(callback[c].subject)]
              /\ UNCHANGED request /\ ~session[c].held /\ c \in Tokens
            BY <2>3 DEF FinishLogin, Sessions, Tokens
        <3>2. QED
            BY <2>1, <3>1
    <2>4. ASSUME NEW p \in Requests, NEW t \in Tokens, NEW logout \in BOOLEAN,
                 PresentToken(p, t, logout)
          PROVE  Refused(q)'
        <3>1. CASE q # p
            <4>1. request'[q] = request[q] /\ UNCHANGED session
                BY <1>1, <2>4, <3>1 DEF PresentToken
            <4>2. QED
                BY <1>1, <1>3, <4>1 DEF Refused
        <3>2. CASE q = p
            <4>1. /\ request'[q] = [pc |-> IF clock <= session[t].expires /\ ~session[t].revoked
                                           THEN "user" ELSE "refused",
                                    token |-> t, logout |-> logout, barred |-> Barred(t)]
                  /\ UNCHANGED session
                BY <1>1, <2>4, <3>2 DEF PresentToken
            <4>2. /\ request'[q].pc \in {"user", "refused"} /\ request'[q].token = t
                  /\ request'[q].barred = Barred(t)
                BY <4>1
            <4>3. "account" \in Barred(t) => asked[session[t].user].disabled
                BY DEF Barred
            <4>4. QED
                BY <1>1, <1>3, <4>1, <4>2, <4>3 DEF Refused
        <3>3. QED
            BY <3>1, <3>2
    <2>5. ASSUME NEW p \in Requests, CheckAccount(p) PROVE Refused(q)'
        <3>1. CASE q # p
            <4>1. request'[q] = request[q] /\ UNCHANGED session
                BY <1>1, <2>5, <3>1 DEF CheckAccount
            <4>2. QED
                BY <1>1, <1>3, <4>1 DEF Refused
        <3>2. CASE q = p
            <4> DEFINE account == user[session[request[q].token].user]
            <4>1. /\ request[q].pc = "user" /\ request'[q].barred = request[q].barred
                  /\ ~account.known \/ account.disabled => request'[q].pc = "refused"
                BY <1>1, <2>5, <3>2 DEF CheckAccount, Request
            <4>2. "account" \in request[q].barred => ~account.known \/ account.disabled
                BY <1>1, <4>1 DEF Refused
            <4>3. QED
                BY <4>1, <4>2 DEF Refused
        <3>3. QED
            BY <3>1, <3>2
    <2>6. ASSUME NEW p \in Requests, Revoke(p) PROVE Refused(q)'
        <3>1. \A t \in Tokens : session'[t].user = session[t].user
            BY <1>1, <2>6 DEF Revoke, Session
        <3>2. CASE q # p
            <4>1. request'[q] = request[q]
                BY <1>1, <2>6, <3>2 DEF Revoke
            <4>2. QED
                BY <1>1, <1>3, <3>1, <4>1 DEF Refused
        <3>3. CASE q = p
            <4>1. request[q].pc = "revoke" /\ request'[q].barred = request[q].barred
                BY <1>1, <2>6, <3>3 DEF Revoke, Request
            <4>2. QED
                BY <1>1, <4>1 DEF Refused
        <3>4. QED
            BY <3>2, <3>3
    <2>7. ASSUME UNCHANGED session, Milder(q) PROVE Refused(q)'
        BY <1>1, <1>3, <2>7 DEF Refused, Milder
    <2>8. QED
        BY <2>2, <2>3, <2>4, <2>5, <2>6, <2>7, SessionMoves DEF RequestStep
<1>4. QED
    BY <1>2, <1>3, AccountMoves

-----------------------------------------------------------------------------
(* Codes and cookies                                                       *)

\* What the browser and the provider do to the sign-ins, and a redemption too
LoginsMove(m) ==
    /\ login[m].begun => login'[m].begun /\ login'[m].at = login[m].at
    /\ login[m].code # "none" => login'[m].code # "none" /\ login'[m].expires = login[m].expires
    /\ login'[m].code # "none" => login'[m].begun
    /\ login'[m].code = "none" => login'[m].expires = 0
    /\ login[m].code = "used" => login'[m].code = "used"
    /\ login'[m].code = "pruned" => login'[m].expires = 0 \/ login'[m].expires < clock
    /\ login[m].code = "pruned" => login'[m].code = "pruned"

LEMMA BrowserMoves ==
    ASSUME Inv1, Codes, NEW l \in Logins, BrowserStep(l), NEW m \in Logins
    PROVE  /\ LoginsMove(m) /\ (login'[m].code = "used" => login[m].code = "used")
           /\ UNCHANGED <<callback, clock, setting>>
<1>1. login \in [Logins -> Login] /\ clock \in Nat /\ CodeHolds(m) /\ CodeHolds(l)
    BY AccountsAssumption DEF Inv1, TypeOKSignOn, TypeOK, Codes
<1>2. CASE StartLogin(l)
    <2>1. /\ m # l => login'[m] = login[m]
          /\ m = l => /\ ~login[m].begun /\ login'[m].begun /\ login'[m].code = login[m].code
                      /\ login'[m].expires = login[m].expires
        BY <1>1, <1>2 DEF StartLogin, Login
    <2>2. CASE m = l
        BY <1>1, <2>1, <2>2, <1>2 DEF LoginsMove, CodeHolds, StartLogin
    <2>3. CASE m # l
        BY <1>1, <2>1, <2>3, <1>2 DEF LoginsMove, CodeHolds, StartLogin
    <2>4. QED
        BY <2>2, <2>3
<1>3. CASE Decline(l)
    <2>1. /\ m # l => login'[m] = login[m]
          /\ m = l => /\ login[m].begun /\ login'[m].begun /\ login'[m].code = "pruned"
                      /\ login[m].code = "none"
                      /\ login'[m].at = login[m].at /\ login'[m].expires = login[m].expires
        BY <1>1, <1>3 DEF Decline, Login
    <2>2. CASE m = l
        BY <1>1, <2>1, <2>2, <1>3 DEF LoginsMove, CodeHolds, Decline
    <2>3. CASE m # l
        BY <1>1, <2>1, <2>3, <1>3 DEF LoginsMove, CodeHolds, Decline
    <2>4. QED
        BY <2>2, <2>3
<1>4. ASSUME NEW u \in Users, Authorize(l, u)
      PROVE  /\ LoginsMove(m) /\ (login'[m].code = "used" => login[m].code = "used")
             /\ UNCHANGED <<callback, clock, setting>>
    <2>1. CASE m = l
        <3>1. /\ login[m].begun /\ login'[m].begun /\ login'[m].code = "issued"
              /\ login[m].code = "none" /\ login'[m].at = login[m].at
            BY <1>1, <1>4, <2>1 DEF Authorize, Login
        <3>2. QED
            BY <1>4, <3>1 DEF LoginsMove, Authorize
    <2>2. CASE m # l /\ login[m].code = "issued" /\ login[m].expires < clock
        <3>1. /\ login'[m].begun = login[m].begun /\ login'[m].code = "pruned"
              /\ login'[m].at = login[m].at /\ login'[m].expires = login[m].expires
            BY <1>1, <1>4, <2>2 DEF Authorize, Login
        <3>2. QED
            BY <1>1, <1>4, <2>2, <3>1 DEF LoginsMove, CodeHolds, Authorize
    <2>3. CASE m # l /\ ~(login[m].code = "issued" /\ login[m].expires < clock)
        <3>1. login'[m] = login[m]
            BY <1>4, <2>3 DEF Authorize
        <3>2. QED
            BY <1>1, <1>4, <3>1 DEF LoginsMove, CodeHolds, Authorize
    <2>4. QED
        BY <2>1, <2>2, <2>3
<1>5. QED
    BY <1>2, <1>3, <1>4 DEF BrowserStep

LEMMA RedeemMoves ==
    ASSUME Inv1, Codes, NEW c \in Callbacks, Exchange(c)
    PROVE  LET l == callback[c].login IN
           /\ l \in Logins /\ login[l].expires > 0
           /\ \A m \in Logins \ {l} : login'[m] = login[m]
           /\ login'[l].begun = login[l].begun /\ login'[l].at = login[l].at
           /\ login'[l].expires = login[l].expires
           /\ login'[l].code = IF login[l].code = "issued" THEN "used" ELSE login[l].code
           /\ \A m \in Logins : LoginsMove(m)
           /\ ~Refuse(c) => login[l].code = "issued"
<1> DEFINE l == callback[c].login
<1>1. /\ login \in [Logins -> Login] /\ l \in Logins /\ \A m \in Logins : CodeHolds(m)
      /\ login[l].expires > 0
    BY DEF Exchange, Inv1, Arrived, TypeOKSignOn, Codes, CallbackHolds
<1>2. /\ \A m \in Logins \ {l} : login'[m] = login[m]
      /\ login'[l].begun = login[l].begun /\ login'[l].at = login[l].at
      /\ login'[l].expires = login[l].expires
      /\ login'[l].code = IF login[l].code = "issued" THEN "used" ELSE login[l].code
    BY <1>1 DEF Exchange, Redeem, Login
<1>3. ~Refuse(c) => login[l].code = "issued"
    BY DEF Exchange
<1>4. ASSUME NEW m \in Logins PROVE LoginsMove(m)
    <2>1. CASE m = l
        BY <1>1, <1>2, <2>1 DEF LoginsMove, CodeHolds
    <2>2. CASE m # l
        BY <1>1, <1>2, <2>2 DEF LoginsMove, CodeHolds
    <2>3. QED
        BY <2>1, <2>2
<1>5. QED
    BY <1>1, <1>2, <1>3, <1>4

\* Over every step: sign-ins and callbacks keep what they have, refusals are final.
LEMMA SignOnStays ==
    ASSUME Inv1, Codes, [Next]_vars
    PROVE  /\ \A m \in Logins : LoginsMove(m)
           /\ \A d \in Callbacks : callback[d].pc # "idle" =>
                callback'[d].pc # "idle" /\ callback'[d].login = callback[d].login
           /\ \A d \in Callbacks : callback[d].pc = "refused" => callback'[d] = callback[d]
           /\ \A d \in Callbacks : callback[d].pc \in Redeemed =>
                callback'[d].pc \in Redeemed \cup {"refused"}
           /\ clock \in Nat /\ clock' \in {clock, clock + 1}
<1>1. /\ callback \in [Callbacks -> Callback] /\ login \in [Logins -> Login] /\ clock \in Nat
      /\ \A m \in Logins : CodeHolds(m)
    BY AccountsAssumption DEF Inv1, TypeOKSignOn, TypeOK, Codes
<1>2. ASSUME UNCHANGED login PROVE \A m \in Logins : LoginsMove(m)
    BY <1>1, <1>2 DEF LoginsMove, CodeHolds
<1>3. ASSUME NEW c \in Callbacks, CallbackStep(c)
      PROVE  \A m \in Logins : LoginsMove(m)
    <2>1. Exchange(c) \/ UNCHANGED login
        BY <1>3 DEF CallbackStep, Arrive, VerifyIdToken, FinishLogin, UseIdToken, signOn
    <2>2. QED
        BY <1>2, <2>1, RedeemMoves
<1>4. ASSUME NEW c \in Callbacks, CallbackStep(c), NEW d \in Callbacks
      PROVE  /\ callback[d].pc # "idle" =>
                  callback'[d].pc # "idle" /\ callback'[d].login = callback[d].login
             /\ callback[d].pc = "refused" => callback'[d] = callback[d]
             /\ callback[d].pc \in Redeemed => callback'[d].pc \in Redeemed \cup {"refused"}
    <2>1. CASE d # c
        BY <1>1, <1>4, <2>1, CallbackMoves
    <2>2. CASE d = c
        <3>1. \A l \in Logins : Arrive(c, l) => callback[c].pc = "idle"
            BY DEF Arrive
        <3>2. QED
            BY <1>1, <1>4, <2>2, <3>1, CallbackMoves DEF signOn, Redeemed
    <2>3. QED
        BY <2>1, <2>2
<1>5. ASSUME NEW l \in Logins, BrowserStep(l)
      PROVE  UNCHANGED callback /\ \A m \in Logins : LoginsMove(m)
    BY <1>5, BrowserMoves
<1>6. clock' \in {clock, clock + 1}
    BY CallbackFrame DEF Tick
<1>7. QED
    BY <1>1, <1>2, <1>3, <1>4, <1>5, <1>6, CallbackFrame DEF signOn

\* Who has taken a code still shows it.
LEMMA TakersStay ==
    ASSUME Inv1, Codes, [Next]_vars, NEW l,
           \E c \in Callbacks : callback[c].login = l /\ callback[c].pc \in Redeemed \cup {"refused"}
    PROVE  \E c \in Callbacks : callback'[c].login = l /\ callback'[c].pc \in Redeemed \cup {"refused"}
<1>1. PICK c \in Callbacks :
          callback[c].login = l /\ callback[c].pc \in Redeemed \cup {"refused"}
    OBVIOUS
<1>2. callback[c].pc # "idle"
    BY <1>1 DEF Redeemed
<1>3. callback'[c].login = l /\ callback'[c].pc \in Redeemed \cup {"refused"}
    BY <1>1, <1>2, SignOnStays
<1>4. QED
    BY <1>3

LEMMA CodesKept == Inv1 /\ Codes /\ [Next]_vars => Codes'
<1> SUFFICES ASSUME Inv1, Codes, [Next]_vars PROVE Codes'
    OBVIOUS
<1>1. /\ callback \in [Callbacks -> Callback] /\ login \in [Logins -> Login]
      /\ clock \in Nat /\ clock' \in {clock, clock + 1}
      /\ \A m \in Logins : CodeHolds(m) /\ login[m].expires \in Nat /\ login'[m].expires \in Nat
      /\ \A c \in Callbacks : CallbackHolds(c)
      /\ \A c \in Callbacks : callback[c].pc # "idle" => callback[c].login \in Logins
      /\ \A c, d \in Callbacks :
            callback[c].pc \in Redeemed /\ callback[d].pc \in Redeemed
                /\ callback[c].login = callback[d].login => c = d
    BY SignOnStays, TypesKept DEF Inv1, Arrived, TypeOKSignOn, TypeOK, Codes, Login
<1>2. ASSUME NEW m \in Logins, login'[m].code = "used" => login[m].code = "used"
      PROVE  CodeHolds(m)'
    <2>1. LoginsMove(m) /\ CodeHolds(m)
        BY <1>1, SignOnStays
    <2>2. login'[m].code = "used" =>
              \E c \in Callbacks : callback'[c].login = m /\ callback'[c].pc \in Redeemed \cup {"refused"}
        BY <1>2, <2>1, TakersStay DEF CodeHolds
    <2>3. login'[m].code = "pruned" => login'[m].expires = 0 \/ login'[m].expires < clock'
        BY <1>1, <2>1 DEF LoginsMove
    <2>4. QED
        BY <2>1, <2>2, <2>3 DEF CodeHolds, LoginsMove
<1>3. ASSUME NEW d \in Callbacks, callback'[d] = callback[d] PROVE CallbackHolds(d)'
    <2>1. CASE callback[d].pc = "idle"
        BY <1>1, <1>3, <2>1 DEF CallbackHolds, Redeemed
    <2>2. CASE callback[d].pc # "idle"
        <3> DEFINE l == callback[d].login
        <3>1. LoginsMove(l) /\ CodeHolds(l) /\ login[l].expires > 0 /\ l \in Logins
            BY <1>1, <2>2, SignOnStays DEF CallbackHolds
        <3>2. login'[l].expires = login[l].expires
              /\ (login[l].code = "used" => login'[l].code = "used")
            BY <3>1 DEF LoginsMove, CodeHolds
        <3>3. QED
            BY <1>1, <1>3, <2>2, <3>1, <3>2 DEF CallbackHolds
    <2>3. QED
        BY <2>1, <2>2
<1>4. CASE UNCHANGED callback /\ \A m \in Logins : login'[m].code = "used" => login[m].code = "used"
    <2>1. \A d \in Callbacks : callback'[d] = callback[d]
        BY <1>4
    <2>2. QED
        BY <1>1, <1>2, <1>3, <1>4, <2>1 DEF Codes
<1>5. ASSUME NEW c \in Callbacks, CallbackStep(c) PROVE Codes'
    <2>1. \A d \in Callbacks \ {c} : callback'[d] = callback[d]
        BY <1>1, <1>5, CallbackMoves
    <2>2. CASE UNCHANGED signOn
        BY <1>4, <2>2 DEF signOn
    <2>3. ASSUME NEW l \in Logins, Arrive(c, l) PROVE Codes'
        <3>1. /\ UNCHANGED login /\ login[l].expires > 0 /\ callback[c].pc = "idle"
              /\ callback'[c].login = l /\ callback'[c].pc \in {"exchange", "refused"}
            BY <1>1, <2>3 DEF Arrive, Callback
        <3>2. CallbackHolds(c)'
            BY <3>1 DEF CallbackHolds, Redeemed
        <3>3. \A d \in Callbacks : callback'[d].pc \in Redeemed =>
                  callback[d].pc \in Redeemed /\ callback'[d].login = callback[d].login
            BY <2>1, <3>1 DEF Redeemed
        <3>4. QED
            BY <1>1, <1>2, <1>3, <2>1, <3>1, <3>2, <3>3 DEF Codes
    <2>4. CASE Exchange(c)
        <3> DEFINE l == callback[c].login
        <3>1. /\ l \in Logins /\ login[l].expires > 0
              /\ \A m \in Logins \ {l} : login'[m] = login[m]
              /\ login'[l].begun = login[l].begun /\ login'[l].expires = login[l].expires
              /\ login'[l].code = IF login[l].code = "issued" THEN "used" ELSE login[l].code
              /\ ~Refuse(c) => login[l].code = "issued"
              /\ callback[c].pc = "exchange"
            BY <2>4, RedeemMoves DEF Exchange
        <3>2. /\ callback'[c].login = l
              /\ \/ callback'[c].pc = "refused"
                 \/ /\ ~Refuse(c) /\ callback'[c].pc = "verify"
                    /\ callback'[c].expires = clock + IdTokenTime
            <4>1. CASE Refuse(c)
                BY <1>1, <4>1 DEF Refuse, Callback
            <4>2. CASE ~Refuse(c)
                <5>1. callback'[c].pc = "verify"
                    BY <1>1, <2>4, <4>2 DEF Exchange, Callback
                <5>2. /\ \A k \in Logins : ~Arrive(c, k)
                      /\ ~UNCHANGED signOn
                    BY <3>1, <5>1 DEF Arrive, signOn
                <5>3. QED
                    BY <1>1, <1>5, <4>2, <5>1, <5>2, CallbackMoves
            <4>3. QED
                BY <4>1, <4>2
        <3>3. \A m \in Logins : CodeHolds(m)'
            <4>1. CASE login[l].code = "issued"
                <5>1. /\ login'[l].code = "used" /\ login'[l].begun
                      /\ callback'[c].pc \in Redeemed \cup {"refused"}
                    BY <1>1, <3>1, <3>2, <4>1 DEF CodeHolds, Redeemed
                <5>2. CodeHolds(l)'
                    BY <3>2, <5>1 DEF CodeHolds
                <5>3. ASSUME NEW m \in Logins, m # l PROVE CodeHolds(m)'
                    <6>1. login'[m] = login[m]
                        BY <3>1, <5>3
                    <6>2. QED
                        BY <1>2, <6>1
                <5>4. QED
                    BY <3>1, <3>2, <5>2, <5>3
            <4>2. CASE login[l].code # "issued"
                BY <1>2, <3>1, <4>2
            <4>3. QED
                BY <4>1, <4>2
        <3>4. CallbackHolds(c)'
            <4>1. clock + IdTokenTime > 0
                BY <1>1, SignOnAssumption
            <4>2. callback'[c].pc = "verify" => login'[l].code = "used"
                BY <3>1, <3>2
            <4>3. login'[l].expires > 0
                BY <3>1
            <4>4. QED
                BY <3>2, <4>1, <4>2, <4>3 DEF CallbackHolds, Redeemed
        <3>5. ASSUME NEW a \in Callbacks, NEW b \in Callbacks,
                     callback'[a].pc \in Redeemed, callback'[b].pc \in Redeemed,
                     callback'[a].login = callback'[b].login
              PROVE  a = b
            <4>1. ASSUME NEW d \in Callbacks, d # c, callback'[c].pc \in Redeemed,
                         callback'[d].pc \in Redeemed, callback'[d].login = callback'[c].login
                  PROVE  FALSE
                <5>1. login[l].code = "issued"
                    BY <3>1, <3>2, <4>1 DEF Redeemed
                <5>2. callback[d].pc \in Redeemed /\ callback[d].login = l
                    BY <2>1, <3>2, <4>1
                <5>3. login[l].code = "used"
                    BY <1>1, <5>2 DEF CallbackHolds
                <5>4. QED
                    BY <5>1, <5>3
            <4>2. CASE a = c \/ b = c
                BY <3>5, <4>1, <4>2
            <4>3. CASE a # c /\ b # c
                BY <1>1, <2>1, <3>5, <4>3
            <4>4. QED
                BY <4>2, <4>3
        <3>6. QED
            BY <1>3, <2>1, <3>3, <3>4, <3>5 DEF Codes
    <2>5. CASE /\ callback[c].pc \in {"verify", "store"} /\ UNCHANGED login
               /\ callback'[c].login = callback[c].login
               /\ callback'[c].pc \in {"store", "in", "refused"}
        <3>1. \A m \in Logins : CodeHolds(m)'
            BY <1>2, <2>5
        <3>2. CallbackHolds(c)'
            BY <1>1, <2>5 DEF CallbackHolds, Redeemed
        <3>3. \A d \in Callbacks : callback'[d].pc \in Redeemed =>
                  callback[d].pc \in Redeemed /\ callback'[d].login = callback[d].login
            BY <2>1, <2>5 DEF Redeemed
        <3>4. QED
            BY <1>1, <1>3, <2>1, <3>1, <3>2, <3>3 DEF Codes
    <2>6. VerifyIdToken(c) => UNCHANGED login /\ callback[c].pc = "verify"
        BY DEF VerifyIdToken
    <2>7. FinishLogin(c) => UNCHANGED login /\ callback[c].pc = "store"
        BY DEF FinishLogin
    <2>8. QED
        BY <1>1, <1>5, <2>2, <2>3, <2>4, <2>5, <2>6, <2>7, CallbackMoves
<1>6. ASSUME NEW l \in Logins, BrowserStep(l) PROVE Codes'
    BY <1>4, <1>6, BrowserMoves
<1>7. CASE UNCHANGED signOn
    BY <1>4, <1>7 DEF signOn
<1>8. QED
    BY <1>5, <1>6, <1>7, CallbackFrame

LEMMA CookiesKept == Inv1 /\ Codes /\ Cookies /\ [Next]_vars => Cookies'
<1> SUFFICES ASSUME Inv1, Codes, Cookies, [Next]_vars PROVE Cookies'
    OBVIOUS
<1> DEFINE Lost(l) == \/ \E m \in Logins : m # l /\ login[m].begun
                      \/ \E d \in Callbacks : callback[d].login = l
                      \/ login[l].code = "pruned" /\ login[l].expires = 0
<1>1. /\ callback \in [Callbacks -> Callback] /\ login \in [Logins -> Login]
      /\ \A m \in Logins : CodeHolds(m) /\ LoginsMove(m)
      /\ \A c \in Callbacks : CallbackHolds(c)
      /\ \A c \in Callbacks : callback[c].pc # "idle" => callback[c].login \in Logins
      /\ NoLogin \notin Logins
    BY SignOnStays, SignOnAssumption DEF Inv1, Arrived, TypeOKSignOn, Codes
\* What has taken the cookie away once is a reason for ever.
<1>2. ASSUME NEW l \in Logins, Lost(l) PROVE Lost(l)'
    <2>1. ASSUME NEW d \in Callbacks, callback[d].login = l PROVE callback'[d].login = l
        BY <1>1, <2>1, SignOnStays DEF CallbackHolds
    <2>2. ASSUME NEW m \in Logins, login[m].begun PROVE login'[m].begun
        BY <1>1, <2>2 DEF LoginsMove
    <2>3. login[l].code = "pruned" => login'[l].code = "pruned" /\ login'[l].expires = login[l].expires
        BY <1>1 DEF LoginsMove
    <2>4. QED
        BY <1>2, <2>1, <2>2, <2>3
<1>3. ASSUME UNCHANGED cookie, \A m \in Logins : login'[m].begun => login[m].begun
      PROVE  Cookies'
    BY <1>2, <1>3 DEF Cookies
<1>4. ASSUME NEW k \in Logins, login'[k].begun, \A m \in Logins : login'[m].begun /\ m # k => Lost(m)',
             cookie' = k \/ Lost(k)'
      PROVE  Cookies'
    BY <1>4 DEF Cookies
<1>5. ASSUME NEW c \in Callbacks, CallbackStep(c) PROVE Cookies'
    <2>1. ASSUME NEW l \in Logins, Arrive(c, l) PROVE Cookies'
        <3>1. UNCHANGED login /\ callback'[c].login = l /\ login[l].begun
            BY <1>1, <2>1 DEF Arrive, CodeHolds, Callback
        <3>2. \A m \in Logins : m # l => Lost(m)'
            BY <3>1
        <3>3. Lost(l)'
            BY <3>1
        <3>4. QED
            BY <1>4, <3>1, <3>2, <3>3
    <2>2. CASE callback[c].pc # "idle"
        <3> DEFINE l == callback[c].login
        <3>1. l \in Logins /\ callback'[c].login = l
            BY <1>1, <2>2, SignOnStays
        <3>2. login[l].begun
            BY <1>1, <2>2, <3>1 DEF CallbackHolds, CodeHolds
        <3>3. login'[l].begun
            BY <1>1, <3>1, <3>2 DEF LoginsMove
        <3>4. \A m \in Logins : m # l => Lost(m)'
            BY <3>1, <3>3
        <3>5. Lost(l)'
            BY <3>1
        <3> HIDE DEF l
        <3>6. QED
            BY <1>4, <3>1, <3>3, <3>4, <3>5
    <2>3. CASE UNCHANGED signOn
        BY <1>3, <2>3 DEF signOn
    <2>4. QED
        BY <1>1, <1>5, <2>1, <2>2, <2>3, CallbackMoves
<1>6. ASSUME NEW l \in Logins, BrowserStep(l) PROVE Cookies'
    <2>1. CASE StartLogin(l)
        <3>1. cookie' = l /\ login'[l].begun
            BY <1>1, <2>1 DEF StartLogin, Login
        <3>2. QED
            BY <1>4, <3>1
    <2>2. CASE Decline(l)
        <3>1. login'[l].begun /\ login'[l].code = "pruned" /\ login'[l].expires = 0
            BY <1>1, <2>2 DEF Decline, Login, CodeHolds
        <3>2. QED
            BY <1>4, <3>1
    <2>3. ASSUME NEW u \in Users, Authorize(l, u) PROVE Cookies'
        <3>1. UNCHANGED cookie /\ login[l].begun
            BY <2>3 DEF Authorize
        <3>2. \A m \in Logins : login'[m].begun => login[m].begun
            <4>1. ASSUME NEW m \in Logins
                  PROVE  login'[m].begun = login[m].begun
                BY <1>1, <2>3 DEF Authorize, Login
            <4>2. QED
                BY <4>1
        <3>3. QED
            BY <1>3, <3>1, <3>2
    <2>4. QED
        BY <1>6, <2>1, <2>2, <2>3 DEF BrowserStep
<1>7. CASE UNCHANGED signOn
    BY <1>3, <1>7 DEF signOn
<1>8. QED
    BY <1>5, <1>6, <1>7, CallbackFrame

\* A callback that is refused has one of the reasons that LoneSignInSucceeds lists.
Excused(c) ==
    LET l == callback[c].login IN
    \/ \E m \in Logins : m # l /\ login[m].begun
    \/ \E d \in Callbacks : d # c /\ callback[d].login = l
    \/ callback[c].at > login[l].at + StateTime \/ callback[c].at > login[l].expires
    \/ callback[c].expires > 0 /\ callback[c].at >= callback[c].expires

LEMMA LoneKept ==
    Inv1 /\ Codes /\ Cookies /\ LoneSignInSucceeds /\ [Next]_vars => LoneSignInSucceeds'
<1> SUFFICES ASSUME Inv1, Codes, Cookies, LoneSignInSucceeds, [Next]_vars, ~setting.lost,
                    NEW c \in Callbacks, callback'[c].pc = "refused"
             PROVE  Excused(c)'
    BY SettingStays DEF LoneSignInSucceeds, Excused
<1>1. /\ callback \in [Callbacks -> Callback] /\ login \in [Logins -> Login]
      /\ login' \in [Logins -> Login] /\ clock \in Nat /\ StateTime \in Nat
      /\ \A m \in Logins : CodeHolds(m) /\ LoginsMove(m)
      /\ \A d \in Callbacks : CallbackHolds(d)
      /\ \A d \in Callbacks : callback[d].pc # "idle" => callback[d].login \in Logins
      /\ \A d \in Callbacks : callback[d].pc # "idle" => callback'[d].login = callback[d].login
      /\ NoLogin \notin Logins
    BY SignOnStays, SignOnAssumption, TypesKept, AccountsAssumption
    DEF Inv1, Arrived, TypeOKSignOn, TypeOK, Codes
<1> DEFINE l == callback[c].login
\* A refusal is final and its reasons last.
<1>2. CASE callback[c].pc = "refused"
    <2>1. callback'[c] = callback[c] /\ l \in Logins /\ login[l].expires > 0
        BY <1>1, <1>2, SignOnStays DEF CallbackHolds
    <2>2. Excused(c)
        BY <1>2 DEF LoneSignInSucceeds, Excused
    <2>3. \A m \in Logins : login[m].begun => login'[m].begun
        BY <1>1 DEF LoginsMove
    <2>4. \A d \in Callbacks : callback[d].login = l => callback'[d].login = l
        BY <1>1, <2>1 DEF CallbackHolds
    <2>5. login'[l].at = login[l].at /\ login'[l].expires = login[l].expires
        BY <1>1, <2>1 DEF LoginsMove, CodeHolds
    <2> HIDE DEF l
    <2>6. QED
        BY <2>1, <2>2, <2>3, <2>4, <2>5 DEF Excused, l
<1>3. CASE callback[c].pc # "refused"
    <2>1. CallbackStep(c)
        <3>1. ASSUME NEW d \in Callbacks, CallbackStep(d) PROVE d = c
            BY <1>1, <1>3, <3>1, CallbackMoves
        <3>2. ASSUME NEW k \in Logins, BrowserStep(k) PROVE FALSE
            BY <1>3, <3>2, BrowserMoves
        <3>3. ~UNCHANGED signOn
            BY <1>3 DEF signOn
        <3>4. QED
            BY <3>1, <3>2, <3>3, CallbackFrame
    <2>2. ASSUME NEW k \in Logins, Arrive(c, k) PROVE Excused(c)'
        <3>1. /\ callback[c].pc = "idle" /\ login[k].expires > 0 /\ UNCHANGED login
              /\ callback'[c].login = k /\ callback'[c].at = clock
              /\ ~CookieOf(k)
            BY <1>1, <2>2 DEF Arrive, Callback
        <3>2. \A d \in Callbacks \ {c} : callback'[d] = callback[d]
            BY <1>1, <2>2 DEF Arrive
        <3>3. callback[c].login # k
            BY <1>1, <3>1 DEF CallbackHolds
        <3>4. login[k].begun
            BY <1>1, <3>1 DEF CodeHolds
        <3>5. CASE clock > login[k].at + StateTime
            BY <3>1, <3>5 DEF Excused
        <3>6. CASE cookie # k
            <4>1. \/ \E m \in Logins : m # k /\ login[m].begun
                  \/ \E d \in Callbacks : d # c /\ callback[d].login = k
                BY <3>1, <3>3, <3>4, <3>6 DEF Cookies
            <4>2. QED
                BY <3>1, <3>2, <4>1 DEF Excused
        <3>7. login[k].at \in Nat
            BY <1>1 DEF Login
        <3>8. QED
            BY <1>1, <3>1, <3>5, <3>6, <3>7 DEF CookieOf
    <2>3. CASE Exchange(c)
        <3>1. /\ l \in Logins /\ login[l].expires > 0 /\ login'[l].expires = login[l].expires
              /\ callback[c].pc = "exchange" /\ callback'[c].login = l
            BY <1>1, <2>3, RedeemMoves DEF Exchange
        <3>2. Refuse(c)
            BY <1>1, <2>3 DEF Exchange, Callback
        <3>3. callback'[c].at = clock
            BY <1>1, <3>2 DEF Refuse, Callback
        <3>4. ~(login[l].code = "issued" /\ clock <= login[l].expires)
            BY <1>1, <2>3 DEF Exchange, Callback
        <3>5. login[l].expires \in Nat
            BY <1>1, <3>1 DEF Login
        <3> HIDE DEF l
        <3>6. CASE clock > login[l].expires
            BY <3>1, <3>3, <3>6 DEF Excused
        <3>7. CASE login[l].code = "used"
            <4>1. PICK d \in Callbacks :
                      callback[d].login = l /\ callback[d].pc \in Redeemed \cup {"refused"}
                BY <1>1, <3>1, <3>7 DEF CodeHolds
            <4>2. d # c /\ callback'[d].login = l
                BY <1>1, <3>1, <4>1 DEF Redeemed
            <4>3. QED
                BY <3>1, <4>2 DEF Excused
        <3>8. CASE login[l].code = "pruned"
            BY <1>1, <3>1, <3>3, <3>5, <3>8 DEF Excused, CodeHolds
        <3>9. login[l].code # "none"
            BY <1>1, <3>1 DEF CodeHolds
        <3>10. login[l].code \in {"none", "issued", "used", "pruned"}
            BY <1>1, <3>1 DEF Login
        <3>11. QED
            BY <1>1, <3>4, <3>5, <3>6, <3>7, <3>8, <3>9, <3>10
    <2>4. CASE VerifyIdToken(c)
        <3>1. callback[c].pc = "verify" /\ callback[c].expires > 0 /\ callback[c].expires \in Nat
            BY <1>1, <2>4 DEF VerifyIdToken, CallbackHolds, Callback
        <3>2. Refuse(c) /\ ~(clock < callback[c].expires)
            BY <1>1, <2>4 DEF VerifyIdToken, Callback
        <3>3. callback'[c].at = clock /\ callback'[c].expires = callback[c].expires
            BY <1>1, <3>2 DEF Refuse, Callback
        <3>4. QED
            BY <1>1, <3>1, <3>2, <3>3 DEF Excused
    <2>5. ~FinishLogin(c)
        BY <1>1 DEF FinishLogin, Callback
    <2>6. ASSUME NEW q \in Requests, UseIdToken(q, c) PROVE FALSE
        BY <1>3, <2>6 DEF UseIdToken, signOn
    <2>7. QED
        BY <2>1, <2>2, <2>3, <2>4, <2>5, <2>6 DEF CallbackStep
<1>4. QED
    BY <1>2, <1>3

-----------------------------------------------------------------------------
(* What holds of every behaviour                                           *)

IInv ==
    /\ Inv1 /\ Lockouts /\ Sessions /\ Standing /\ Unwelcome
    /\ Codes /\ Cookies /\ LoneSignInSucceeds

LEMMA IInvInit == InitSignOn => IInv
<1> SUFFICES ASSUME InitSignOn PROVE IInv
    OBVIOUS
<1>1. Inv1
    BY Inv1Init
<1>2. Lockouts
    BY DEF InitSignOn, Init, Lockouts, Grounds
<1>3. Sessions
    <2>1. \A t \in Tokens : ~session[t].held
        BY DEF InitSignOn, Init
    <2>2. \A q \in Requests : request[q].pc = "idle" /\ request[q].barred = {}
        BY DEF InitSignOn, Init
    <2>3. QED
        BY <2>1, <2>2 DEF Sessions, Tokens
<1>4. Standing
    <2>1. Patching = {}
        BY DEF InitSignOn, Init, Patching
    <2>2. \A u \in Users : user[u].disabled = FALSE /\ asked[u].disabled = FALSE
        BY DEF InitSignOn, Init
    <2>3. \A u \in Users : user[u].role = "employee" /\ asked[u].role = "employee"
        BY DEF InitSignOn, Init
    <2>4. QED
        BY <2>1, <2>2, <2>3 DEF Standing
<1>5. Unwelcome
    <2>1. \A q \in Requests : request[q].barred = {}
        BY DEF InitSignOn, Init
    <2>2. QED
        BY <2>1 DEF Unwelcome
<1>6. /\ \A l \in Logins : ~login[l].begun /\ login[l].code = "none" /\ login[l].expires = 0
      /\ \A c \in Callbacks : callback[c].pc = "idle" /\ callback[c].login = NoLogin
    BY DEF InitSignOn
<1>7. Codes
    BY <1>6 DEF Codes, CodeHolds, CallbackHolds, Redeemed
<1>8. Cookies /\ LoneSignInSucceeds
    BY <1>6 DEF Cookies, LoneSignInSucceeds
<1>9. QED
    BY <1>1, <1>2, <1>3, <1>4, <1>5, <1>7, <1>8 DEF IInv

LEMMA IInvKept == IInv /\ [Next]_vars => IInv'
BY Inv1Kept, LockoutsKept, SessionsKept, StandingKept, UnwelcomeKept, CodesKept, CookiesKept,
   LoneKept
DEF IInv

LEMMA IInvHolds == Spec => []IInv
<1>1. InitSignOn => IInv
    BY IInvInit
<1>2. IInv /\ [Next]_vars => IInv'
    BY IInvKept
<1>3. QED
    BY <1>1, <1>2, PTL DEF Spec

\* A sign-in ends in one session at most, however often its callback is sent, and a
\* sign-in that meets nobody and no delay is not refused: for any number of tabs,
\* callbacks and reloads (complete_authorization_code_login).
THEOREM OneSessionPerSignIn == Spec => []SignInsMakeSessions
<1>1. IInv => SignInsMakeSessions
    <2> SUFFICES ASSUME IInv PROVE SignInsMakeSessions
        OBVIOUS
    <2>1. OneSessionPerCode
        BY DEF IInv, Codes, OneSessionPerCode, Redeemed
    <2>2. QED
        BY <2>1 DEF IInv, Inv1, SignInsMakeSessions
<1>2. QED
    BY <1>1, IInvHolds, PTL

\* Whoever knows the password is refused only because of a wrong password that is not a
\* lockout old, however many tries overlap (authenticate_user, current_lockout_until).
THEOREM LockoutsEnd == Spec => []HonestTryGetsIn
<1>1. IInv => HonestTryGetsIn
    BY DEF IInv, Lockouts, Grounds, HonestTryGetsIn
<1>2. QED
    BY <1>1, IInvHolds, PTL

\* While calls do not overlap, an account is what was asked of it last, field by field:
\* a PATCH writes back a whole record and yet undoes nothing (patch_scim_user).
THEOREM PatchesUndoNothing == Spec => []StandingAsAsked
<1>1. IInv => StandingAsAsked
    BY DEF IInv, Standing, StandingAsAsked
<1>2. QED
    BY <1>1, IInvHolds, PTL

\* While calls do not overlap, no request is served that came after its session was
\* logged out or its account disabled (verify_access_token, auth_context_from_authorization).
THEOREM OldTokensAreRefused == Spec => []ServedAreWelcome
<1>1. IInv => ServedAreWelcome
    <2> SUFFICES ASSUME IInv, ~setting.overlap, NEW q \in Requests, request[q].pc = "served"
                 PROVE  request[q].barred = {}
        BY DEF ServedAreWelcome
    <2>1. "logout" \notin request[q].barred
        BY DEF IInv, Sessions
    <2>2. "account" \notin request[q].barred
        BY DEF IInv, Unwelcome
    <2>3. request[q].barred \subseteq {"logout", "account"}
        BY DEF IInv, Inv1, TypeOKSignOn, TypeOK, Request
    <2>4. QED
        BY <2>1, <2>2, <2>3
<1>2. QED
    BY <1>1, IInvHolds, PTL

LEMMA WindowsInit ==
    ASSUME InitSignOn
    PROVE  Windows
<1>1. /\ \A t \in Tries : attempt[t].reason = "none" /\ try[t].pc = "idle"
      /\ MaxFailures \in Nat \ {0}
    BY AccountsAssumption DEF InitSignOn, Init
<1>2. \A u, from : InWindow(u, from) = {}
    BY <1>1 DEF InWindow, Recorded
<1>3. Trying = {} /\ \A t \in Tries : BeganUnlocked(t) /\ \A from : FillsKnowingly(t, from)
    BY <1>1 DEF Trying, BeganUnlocked, Judging, FillsKnowingly
<1>4. \A u, from : WindowHolds(u, from)
    BY <1>1, <1>2, FS_EmptySet DEF WindowHolds
<1>5. QED
    BY <1>3, <1>4 DEF Windows

\* While tries do not overlap, no more than MaxFailures wrong passwords of an account are
\* tried within any window (_record_failed_password_attempt), where the lockout is as long
\* as the window (LockoutHolds says so) and the limit is above one: with a limit of one,
\* the moment that the lockout starts from may lie before the window of the row it is
\* kept in.  Neither is enforced by the configuration; both are so by default.
THEOREM LockoutIsKept ==
    ASSUME MaxFailures >= 2
    PROVE  Spec => []LockoutHolds
<1>1. InitSignOn => Windows
    BY WindowsInit
<1>2. CASE Lockout >= Window
    <2>1. IInv /\ Windows /\ [Next]_vars => Windows'
        BY <1>2, WindowsKept DEF IInv
    <2>2. Windows => LockoutHolds
        BY AccountsAssumption DEF Windows, WindowHolds, InWindow, LockoutHolds
    <2>3. QED
        BY <1>1, <2>1, <2>2, IInvHolds, PTL DEF Spec
<1>3. CASE ~(Lockout >= Window)
    <2>1. IInv => LockoutHolds
        BY <1>3 DEF LockoutHolds
    <2>2. QED
        BY <2>1, IInvHolds, PTL DEF Spec
<1>4. QED
    BY <1>2, <1>3

=============================================================================
