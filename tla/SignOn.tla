------------------------------- MODULE SignOn -------------------------------
(***************************************************************************)
(* Single sign-on: a browser's sign-ins, the identity provider with its    *)
(* one-time codes, the callback that ends in a session of Accounts, and    *)
(* requests that carry the provider's id token itself.                     *)
(*                                                                         *)
(* The sign-ins run in tabs of one browser and share its one state cookie; *)
(* a callback may be repeated (a reload) and the provider's answer lost.   *)
(***************************************************************************)
EXTENDS Accounts

CONSTANTS
    NoLogin,        \* no state cookie
    Claims,         \* what the provider says of a user: explicit role, groups
    DefaultRole,
    StateTime, CodeTime, IdTokenTime

ASSUME SignOnAssumption ==
    /\ NoLogin \notin Logins
    /\ Claims \in [Users -> [role : Roles \cup {"none"}, groups : SUBSET {"admins", "managers"}]]
    /\ DefaultRole \in Roles
    /\ StateTime \in Nat /\ CodeTime \in Nat /\ IdTokenTime \in Nat \ {0}

VARIABLES
    cookie,     \* the browser's state cookie: the nonce of a sign-in
    login,      \* each sign-in: when it began, and the provider's code for it
    callback    \* where each callback stands

signOn == <<cookie, login, callback>>
vars == <<clock, accounts, setting, signOn>>

Login ==
    [begun : BOOLEAN, at : Nat, code : {"none", "issued", "used", "pruned"}, subject : Users,
     expires : Nat]
Callback ==
    [pc : {"idle", "exchange", "verify", "store", "in", "refused"}, login : Logins \cup {NoLogin},
     at : Nat, subject : Users, expires : Nat]

TypeOKSignOn ==
    /\ TypeOK
    /\ cookie \in Logins \cup {NoLogin}
    /\ login \in [Logins -> Login]
    /\ callback \in [Callbacks -> Callback]

InitSignOn ==
    /\ Init
    /\ cookie = NoLogin
    /\ login = [l \in Logins |-> [begun |-> FALSE, at |-> 0, code |-> "none", expires |-> 0,
                                  subject |-> CHOOSE u \in Users : TRUE]]
    /\ callback = [c \in Callbacks |-> [pc |-> "idle", login |-> NoLogin, at |-> 0, expires |-> 0,
                                        subject |-> CHOOSE u \in Users : TRUE]]

-----------------------------------------------------------------------------
(* The browser and the identity provider                                   *)

\* oidc_login_start: the cookie holds the nonce of the newest sign-in only.
StartLogin(l) ==
    /\ ~login[l].begun /\ l \in setting.logins
    /\ login' = [login EXCEPT ![l].begun = TRUE, ![l].at = clock]
    /\ cookie' = l
    /\ UNCHANGED <<clock, accounts, setting, callback>>

\* _issue_code_redirect, after _prune_codes
Authorize(l, u) ==
    /\ login[l].begun /\ login[l].code = "none"
    /\ login' = [m \in Logins |->
           IF m = l THEN [login[m] EXCEPT !.code = "issued", !.subject = u,
                                          !.expires = clock + CodeTime]
           ELSE IF login[m].code = "issued" /\ login[m].expires < clock
                THEN [login[m] EXCEPT !.code = "pruned"] ELSE login[m]]
    /\ UNCHANGED <<clock, accounts, setting, cookie, callback>>

\* The user declines at the provider: the callback with an error drops the cookie.
Decline(l) ==
    /\ login[l].begun /\ login[l].code = "none"
    /\ login' = [login EXCEPT ![l].code = "pruned"]
    /\ cookie' = NoLogin
    /\ UNCHANGED <<clock, accounts, setting, callback>>

\* The browser keeps the cookie for as long as the state is good.
CookieOf(l) == cookie = l /\ clock <= login[l].at + StateTime

-----------------------------------------------------------------------------
(* complete_authorization_code_login                                       *)

Refuse(c) ==
    /\ callback' = [callback EXCEPT ![c].pc = "refused", ![c].at = clock]
    /\ cookie' = NoLogin

\* The redirect with a code reaches the application: state, cookie, age.
Arrive(c, l) ==
    /\ callback[c].pc = "idle" /\ c \in setting.callbacks
    /\ login[l].expires > 0
    /\ callback' = [callback EXCEPT
          ![c].login = l, ![c].at = clock,
          ![c].pc = IF CookieOf(l) THEN "exchange" ELSE "refused"]
    /\ cookie' = IF CookieOf(l) THEN cookie ELSE NoLogin
    /\ UNCHANGED <<clock, accounts, setting, login>>

\* Faulty variant: the provider looks its code up and leaves it there.
RedeemKeeping(l) == UNCHANGED login

\* The token endpoint takes the code out of its table, whatever it answers.
Redeem(l) ==
    login' = [login EXCEPT ![l].code = IF @ = "issued" THEN "used" ELSE @]

\* exchange_authorization_code
Exchange(c) ==
    LET l == callback[c].login IN
    /\ callback[c].pc = "exchange"
    /\ Redeem(l)
    /\ IF login[l].code = "issued" /\ clock <= login[l].expires
       THEN \/ /\ callback' = [callback EXCEPT ![c].pc = "verify", ![c].at = clock,
                                 ![c].subject = login[l].subject,
                                 ![c].expires = clock + IdTokenTime]
               /\ UNCHANGED cookie
            \/ setting.lost /\ Refuse(c)
       ELSE Refuse(c)
    /\ UNCHANGED <<clock, accounts, setting>>

\* _role_from_claims
RoleOf(claims) ==
    CASE claims.role \in Roles -> claims.role
      [] claims.role = "none" /\ "admins" \in claims.groups -> "admin"
      [] claims.role = "none" /\ claims.groups = {"managers"} -> "manager"
      [] OTHER -> DefaultRole

\* sync_oidc_user: the row is made, or brought up to date and enabled (between
\* the two halves of a PATCH only where calls may overlap).
SyncUser(u) ==
    /\ Undisturbed
    /\ Upsert(u, FALSE, RoleOf(Claims[u]))
    /\ Ask(u, [disabled |-> FALSE, role |-> RoleOf(Claims[u])])

\* verify_oidc_token, then sync_oidc_user
VerifyIdToken(c) ==
    /\ callback[c].pc = "verify"
    /\ IF clock < callback[c].expires
       THEN /\ SyncUser(callback[c].subject)
            /\ callback' = [callback EXCEPT ![c].pc = "store"]
            /\ UNCHANGED cookie
       ELSE Refuse(c) /\ UNCHANGED <<user, request, asked>>
    /\ UNCHANGED <<clock, attempt, try, session, call, setting, login>>

\* The session is stored; the answer drops the browser's cookie, whosever it is.
FinishLogin(c) ==
    /\ callback[c].pc = "store"
    /\ session' = [session EXCEPT ![c] = NewSession(callback[c].subject)]
    /\ callback' = [callback EXCEPT ![c].pc = "in"]
    /\ cookie' = NoLogin
    /\ UNCHANGED <<clock, user, attempt, try, request, call, asked, setting, login>>

-----------------------------------------------------------------------------

\* auth_context_from_oidc_token: every request with an id token syncs the account.
UseIdToken(q, c) ==
    /\ request[q].pc = "idle" /\ q \in setting.requests
    /\ callback[c].pc \in {"store", "in"} /\ clock < callback[c].expires
    /\ Undisturbed
    /\ LET u == callback[c].subject  role == RoleOf(Claims[u]) IN
       /\ Upsert(u, FALSE, role)
       /\ asked' = [asked EXCEPT ![u] = [disabled |-> FALSE, role |-> role]]
       /\ request' = [Readmitted(u, FALSE) EXCEPT
              ![q] = [pc |-> "served", token |-> c, logout |-> FALSE, barred |-> {}]]
    /\ UNCHANGED <<clock, attempt, try, session, call, setting, signOn>>

-----------------------------------------------------------------------------

CallbackStep(c) ==
    \/ \E l \in Logins : Arrive(c, l)
    \/ Exchange(c) \/ VerifyIdToken(c) \/ FinishLogin(c)
    \/ \E q \in Requests : UseIdToken(q, c)

BrowserStep(l) == StartLogin(l) \/ Decline(l) \/ \E u \in Users : Authorize(l, u)

Next ==
    \/ AccountsNext /\ UNCHANGED signOn
    \/ \E c \in Callbacks : CallbackStep(c)
    \/ \E l \in Logins : BrowserStep(l)

Spec == InitSignOn /\ [][Next]_vars

-----------------------------------------------------------------------------
(* Properties.                                                             *)

\* A sign-in ends in one session at most, however often its callback is sent: the
\* provider's code is redeemed once ("one-time authorization codes").
OneSessionPerCode ==
    \A c, d \in Callbacks :
        callback[c].login = callback[d].login /\ callback[c].pc = "in" /\ callback[d].pc = "in"
            => c = d

\* A sign-in in the browser's only tab, answered once and in time by a provider
\* that can be reached, is not refused.  With a second tab it may be: the newer
\* sign-in replaces the cookie, and every answer deletes it.
LoneSignInSucceeds ==
    \A c \in Callbacks :
        LET l == callback[c].login IN
        callback[c].pc = "refused" /\ ~setting.lost =>
            \/ \E m \in Logins : m # l /\ login[m].begun
            \/ \E d \in Callbacks : d # c /\ callback[d].login = l
            \/ callback[c].at > login[l].at + StateTime \/ callback[c].at > login[l].expires
            \/ callback[c].expires > 0 /\ callback[c].at >= callback[c].expires

\* A sign-in comes to one session: not to two, and, alone, not to none.
SignInsMakeSessions == TypeOKSignOn /\ OneSessionPerCode /\ LoneSignInSucceeds

=============================================================================
