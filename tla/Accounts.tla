------------------------------ MODULE Accounts ------------------------------
(***************************************************************************)
(* The user accounts: the password login with its lockout, the sessions    *)
(* its tokens name, the requests that carry a token, and the provisioning  *)
(* calls that create, change and disable accounts.                         *)
(*                                                                         *)
(* Each handler is split at its transactions, so that logins may overlap,  *)
(* an account may be disabled in the middle of a login, and two PATCH      *)
(* calls may read the same row.                                            *)
(***************************************************************************)
EXTENDS Naturals, FiniteSets

CONSTANTS
    Users,
    Tries,          \* calls of authenticate_user
    Logins,         \* sign-ins begun in the browser
    Callbacks,      \* answers to them: they get tokens as well
    Requests,       \* requests that carry a token
    Calls,          \* provisioning calls
    MaxTime,        \* bound on the clock
    GivenRoles,     \* roles that provisioning calls give
    SessionTime, Window, Lockout, MaxFailures,
    Settings        \* the circumstances a behaviour may be in

Roles == {"employee", "manager", "admin"}

\* A token is named after the login that it was made for.
Tokens == Tries \cup Callbacks

\* What is given and never changes: who takes part, may calls of one kind
\* overlap, is the identity provider's answer lost at times.
Circumstances ==
    [tries : SUBSET Tries, requests : SUBSET Requests, calls : SUBSET Calls,
     logins : SUBSET Logins, callbacks : SUBSET Callbacks, overlap : BOOLEAN, lost : BOOLEAN]

ASSUME AccountsAssumption ==
    /\ GivenRoles \subseteq Roles
    /\ MaxTime \in Nat /\ SessionTime \in Nat
    /\ Window \in Nat /\ Lockout \in Nat /\ MaxFailures \in Nat \ {0}
    /\ Tries \cap Callbacks = {}
    /\ Settings \subseteq Circumstances

VARIABLES
    clock,
    user,       \* users
    attempt,    \* auth_login_attempts: the row each try inserts
    try,        \* where each try stands
    session,    \* auth_sessions
    request,    \* where each request stands
    call,       \* where each provisioning call stands
    asked,      \* what the last call, create or sign-in asked an account to be
    setting

accounts == <<user, attempt, try, session, request, call, asked>>

Account == [known : BOOLEAN, disabled : BOOLEAN, role : Roles, password : BOOLEAN]
Reasons == {"none", "success", "bad_password", "locked", "invalid_user"}
Attempt == [user : Users, reason : Reasons, at : Nat, until : Nat]
Try ==
    [pc : {"idle", "user", "count", "record", "store", "in", "out"}, user : Users,
     good : BOOLEAN, reason : Reasons, until : Nat, began : Nat]
Session == [held : BOOLEAN, user : Users, expires : Nat, revoked : BOOLEAN]
Request ==
    [pc : {"idle", "user", "revoke", "served", "refused", "loggedout"}, token : Tokens,
     logout : BOOLEAN, barred : SUBSET {"logout", "account"}]
Call ==
    [pc : {"idle", "write", "done"}, user : Users, named : SUBSET {"disabled", "role"},
     merged : Account]

TypeOK ==
    /\ clock \in 0..MaxTime
    /\ user \in [Users -> Account]
    /\ attempt \in [Tries -> Attempt]
    /\ try \in [Tries -> Try]
    /\ session \in [Tokens -> Session]
    /\ request \in [Requests -> Request]
    /\ call \in [Calls -> Call]
    /\ asked \in [Users -> [disabled : BOOLEAN, role : Roles]]
    /\ setting \in Settings

NobodyYet == [known |-> FALSE, disabled |-> FALSE, role |-> "employee", password |-> FALSE]

\* ensure_demo_users has made some accounts with a password; the others come
\* from the directory or the identity provider.
Init ==
    \E local \in SUBSET Users, u0 \in Users, t0 \in Tokens :
        /\ u0 = CHOOSE u \in Users : TRUE
        /\ t0 = CHOOSE t \in Tokens : TRUE
        /\ clock = 0
        /\ user = [u \in Users |-> [known |-> u \in local, disabled |-> FALSE,
                                    role |-> "employee", password |-> u \in local]]
        /\ attempt = [t \in Tries |-> [user |-> u0, reason |-> "none", at |-> 0, until |-> 0]]
        /\ try = [t \in Tries |-> [pc |-> "idle", user |-> u0, good |-> FALSE,
                                   reason |-> "none", until |-> 0, began |-> 0]]
        /\ session = [t \in Tokens |-> [held |-> FALSE, user |-> u0, expires |-> 0,
                                        revoked |-> FALSE]]
        /\ request = [q \in Requests |-> [pc |-> "idle", token |-> t0, logout |-> FALSE,
                                          barred |-> {}]]
        /\ call = [k \in Calls |-> [pc |-> "idle", user |-> u0, named |-> {},
                                    merged |-> NobodyYet]]
        /\ asked = [u \in Users |-> [disabled |-> FALSE, role |-> "employee"]]
        /\ setting \in Settings

Tick ==
    /\ clock < MaxTime
    /\ clock' = clock + 1
    /\ UNCHANGED <<accounts, setting>>

-----------------------------------------------------------------------------
(* authenticate_user                                                       *)

Recorded(u) == {t \in Tries : attempt[t].reason # "none" /\ attempt[t].user = u}

\* current_lockout_until: the rows that lock the account at this moment
Locks(u) == {t \in Recorded(u) : attempt[t].until > clock}
LockedUntil(u) ==
    (CHOOSE t \in Locks(u) : \A s \in Locks(u) : attempt[s].until <= attempt[t].until)

Trying == {t \in Tries : try[t].pc \in {"user", "count", "record", "store"}}

CheckLockout(t, u, good) ==
    /\ try[t].pc = "idle" /\ t \in setting.tries
    /\ setting.overlap \/ Trying = {}
    /\ try' = [try EXCEPT ![t] =
           IF Locks(u) # {}
           THEN [pc |-> "record", user |-> u, good |-> good, reason |-> "locked",
                 until |-> attempt[LockedUntil(u)].until, began |-> clock]
           ELSE [pc |-> "user", user |-> u, good |-> good, reason |-> "none",
                 until |-> 0, began |-> clock]]
    /\ UNCHANGED <<clock, user, attempt, session, request, call, asked, setting>>

\* An account without a password of its own is never signed in by one.
CheckPassword(t) ==
    LET u == try[t].user IN
    /\ try[t].pc = "user"
    /\ try' = [try EXCEPT
          ![t].pc = IF user[u].known /\ ~user[u].disabled /\ ~(try[t].good /\ user[u].password)
                    THEN "count" ELSE "record",
          ![t].reason = IF ~user[u].known \/ user[u].disabled THEN "invalid_user"
                        ELSE IF try[t].good /\ user[u].password THEN "success"
                        ELSE "bad_password"]
    /\ UNCHANGED <<clock, user, attempt, session, request, call, asked, setting>>

\* The wrong passwords of the window that ends now
RecentFailures(u) ==
    {t \in Recorded(u) : attempt[t].reason = "bad_password" /\ attempt[t].at + Window >= clock}

\* Faulty variant: the failure being recorded is not counted.
CountEarlierFailures(t) ==
    /\ try[t].pc = "count"
    /\ try' = [try EXCEPT
          ![t].pc = "record",
          ![t].until = IF Cardinality(RecentFailures(try[t].user)) >= MaxFailures
                       THEN clock + Lockout ELSE 0]
    /\ UNCHANGED <<clock, user, attempt, session, request, call, asked, setting>>

CountFailures(t) ==
    /\ try[t].pc = "count"
    /\ try' = [try EXCEPT
          ![t].pc = "record",
          ![t].until = IF Cardinality(RecentFailures(try[t].user)) + 1 >= MaxFailures
                       THEN clock + Lockout ELSE 0]
    /\ UNCHANGED <<clock, user, attempt, session, request, call, asked, setting>>

\* Faulty variant: a try at a locked account starts the lockout anew.
RecordProlonging(t) ==
    /\ try[t].pc = "record"
    /\ attempt' = [attempt EXCEPT ![t] =
           [user |-> try[t].user, reason |-> try[t].reason, at |-> clock,
            until |-> IF try[t].until > 0 THEN clock + Lockout ELSE 0]]
    /\ try' = [try EXCEPT ![t].pc = IF try[t].reason = "success" THEN "store" ELSE "out"]
    /\ UNCHANGED <<clock, user, session, request, call, asked, setting>>

RecordAttempt(t) ==
    /\ try[t].pc = "record"
    /\ attempt' = [attempt EXCEPT ![t] =
           [user |-> try[t].user, reason |-> try[t].reason, at |-> clock, until |-> try[t].until]]
    /\ try' = [try EXCEPT ![t].pc = IF try[t].reason = "success" THEN "store" ELSE "out"]
    /\ UNCHANGED <<clock, user, session, request, call, asked, setting>>

\* create_access_token
NewSession(u) == [held |-> TRUE, user |-> u, expires |-> clock + SessionTime, revoked |-> FALSE]

StoreSession(t) ==
    /\ try[t].pc = "store"
    /\ session' = [session EXCEPT ![t] = NewSession(try[t].user)]
    /\ try' = [try EXCEPT ![t].pc = "in"]
    /\ UNCHANGED <<clock, user, attempt, request, call, asked, setting>>

-----------------------------------------------------------------------------
(* A request with a token: auth_context_from_authorization, logout         *)

LoggedOut(t) == \E q \in Requests : request[q].token = t /\ request[q].pc = "loggedout"

\* What has been said against serving a request that comes now
Barred(t) ==
    {why \in {"logout", "account"} :
        IF why = "logout" THEN LoggedOut(t) ELSE asked[session[t].user].disabled}

\* verify_access_token: signature, expiry, and the session's row
PresentToken(q, t, logout) ==
    /\ request[q].pc = "idle" /\ q \in setting.requests
    /\ session[t].held
    /\ request' = [request EXCEPT ![q] =
           [pc |-> IF clock <= session[t].expires /\ ~session[t].revoked THEN "user" ELSE "refused",
            token |-> t, logout |-> logout, barred |-> Barred(t)]]
    /\ UNCHANGED <<clock, user, attempt, try, session, call, asked, setting>>

\* Faulty variant: the account is looked up, but not whether it is disabled.
CheckAccountExists(q) ==
    LET account == user[session[request[q].token].user] IN
    /\ request[q].pc = "user"
    /\ request' = [request EXCEPT
          ![q].pc = IF ~account.known THEN "refused"
                    ELSE IF request[q].logout THEN "revoke"
                    ELSE "served"]
    /\ UNCHANGED <<clock, user, attempt, try, session, call, asked, setting>>

CheckAccount(q) ==
    LET account == user[session[request[q].token].user] IN
    /\ request[q].pc = "user"
    /\ request' = [request EXCEPT
          ![q].pc = IF ~account.known \/ account.disabled THEN "refused"
                    ELSE IF request[q].logout THEN "revoke"
                    ELSE "served"]
    /\ UNCHANGED <<clock, user, attempt, try, session, call, asked, setting>>

\* revoke_access_token checks the expiry once more.
Revoke(q) ==
    LET t == request[q].token IN
    /\ request[q].pc = "revoke"
    /\ IF clock <= session[t].expires
       THEN /\ session' = [session EXCEPT ![t].revoked = TRUE]
            /\ request' = [request EXCEPT ![q].pc = "loggedout"]
       ELSE /\ request' = [request EXCEPT ![q].pc = "refused"]
            /\ UNCHANGED session
    /\ UNCHANGED <<clock, user, attempt, try, call, asked, setting>>

-----------------------------------------------------------------------------
(* Provisioning                                                            *)

Patching == {k \in Calls : call[k].pc = "write"}

Undisturbed == setting.overlap \/ Patching = {}

MayBegin(k) == call[k].pc = "idle" /\ k \in setting.calls /\ Undisturbed

\* Nothing is said against the requests of an account any more that is enabled.
Readmitted(u, disabled) ==
    [q \in Requests |->
        IF session[request[q].token].user = u /\ ~disabled
        THEN [request[q] EXCEPT !.barred = @ \ {"account"}] ELSE request[q]]

\* What an account was asked to be, and whom that lets in again
Ask(u, want) ==
    /\ asked' = [asked EXCEPT ![u] = want]
    /\ request' = Readmitted(u, want.disabled)

\* upsert_external_user: a row that exists keeps its password.
Upsert(u, disabled, role) ==
    user' = [user EXCEPT ![u] = [known |-> TRUE, disabled |-> disabled, role |-> role,
                                 password |-> @.password]]

\* create_user by an administrator: sets a password and enables.
CreateUser(k, u, role) ==
    /\ MayBegin(k)
    /\ user' = [user EXCEPT ![u] = [known |-> TRUE, disabled |-> FALSE, role |-> role,
                                    password |-> TRUE]]
    /\ Ask(u, [disabled |-> FALSE, role |-> role])
    /\ call' = [call EXCEPT ![k].pc = "done"]
    /\ UNCHANGED <<clock, attempt, try, session, setting>>

\* POST and PUT of the directory; an unknown role is refused before any write.
PutUser(k, u, disabled, role) ==
    /\ MayBegin(k)
    /\ Upsert(u, disabled, role)
    /\ Ask(u, [disabled |-> disabled, role |-> role])
    /\ call' = [call EXCEPT ![k].pc = "done"]
    /\ UNCHANGED <<clock, attempt, try, session, setting>>

\* DELETE disables the row, if there is one.
DeleteUser(k, u) ==
    /\ MayBegin(k) /\ user[u].known
    /\ user' = [user EXCEPT ![u].disabled = TRUE]
    /\ Ask(u, [asked[u] EXCEPT !.disabled = TRUE])
    /\ call' = [call EXCEPT ![k].pc = "done"]
    /\ UNCHANGED <<clock, attempt, try, session, setting>>

\* Faulty variant: what a PATCH does not name gets its default.
MergeDefaults(u, named, disabled, role) ==
    [user[u] EXCEPT !.disabled = IF "disabled" \in named THEN disabled ELSE FALSE,
                    !.role = IF "role" \in named THEN role ELSE @]

\* The PATCH operations put their values over the record that was read.
Merge(u, named, disabled, role) ==
    [user[u] EXCEPT !.disabled = IF "disabled" \in named THEN disabled ELSE @,
                    !.role = IF "role" \in named THEN role ELSE @]

PatchRead(k, u, named, disabled, role) ==
    /\ MayBegin(k) /\ user[u].known
    /\ call' = [call EXCEPT ![k] = [pc |-> "write", user |-> u, named |-> named,
                                    merged |-> Merge(u, named, disabled, role)]]
    /\ UNCHANGED <<clock, user, attempt, try, session, request, asked, setting>>

PatchWrite(k) ==
    LET u == call[k].user  new == call[k].merged  named == call[k].named IN
    /\ call[k].pc = "write"
    /\ Upsert(u, new.disabled, new.role)
    /\ Ask(u, [disabled |-> IF "disabled" \in named THEN new.disabled ELSE asked[u].disabled,
               role |-> IF "role" \in named THEN new.role ELSE asked[u].role])
    /\ call' = [call EXCEPT ![k].pc = "done", ![k].named = {}, ![k].merged = NobodyYet]
    /\ UNCHANGED <<clock, attempt, try, session, setting>>

-----------------------------------------------------------------------------

LoginStep(t) ==
    \/ \E u \in Users, good \in BOOLEAN : CheckLockout(t, u, good)
    \/ CheckPassword(t) \/ CountFailures(t) \/ RecordAttempt(t) \/ StoreSession(t)

RequestStep(q) ==
    \/ \E t \in Tokens, logout \in BOOLEAN : PresentToken(q, t, logout)
    \/ CheckAccount(q) \/ Revoke(q)

ProvisioningStep(k) ==
    \/ \E u \in Users, role \in GivenRoles :
          \/ CreateUser(k, u, role)
          \/ \E disabled \in BOOLEAN :
                \/ PutUser(k, u, disabled, role)
                \/ \E named \in SUBSET {"disabled", "role"} : PatchRead(k, u, named, disabled, role)
    \/ \E u \in Users : DeleteUser(k, u)
    \/ PatchWrite(k)

AccountsNext ==
    \/ \E t \in Tries : LoginStep(t)
    \/ \E q \in Requests : RequestStep(q)
    \/ \E k \in Calls : ProvisioningStep(k)
    \/ Tick

-----------------------------------------------------------------------------
(* Properties.                                                             *)

\* However logins follow each other, no more than MaxFailures wrong passwords of
\* one account are tried within a window, while tries do not overlap: each reads
\* the rows of those before it (_record_failed_password_attempt).  A lockout shorter
\* than the window, which the configuration allows, ends while the rows that caused
\* it still count, and lets one more through each time.
LockoutHolds ==
    ~setting.overlap /\ Lockout >= Window =>
        \A u \in Users, from \in 0..MaxTime :
            Cardinality({t \in Recorded(u) : /\ attempt[t].reason = "bad_password"
                                             /\ attempt[t].at \in from..(from + Window - 1)})
                <= MaxFailures

\* Somebody with the right password is refused only if the account is disabled or
\* unknown, or if a wrong password less than a lockout old was being tried: tries
\* at a locked account, however many overlap, do not prolong the lockout.
HonestTryGetsIn ==
    \A t \in Tries :
        try[t].reason = "locked" =>
            \E s \in Recorded(try[t].user) :
                attempt[s].reason = "bad_password" /\ attempt[s].at + Lockout > try[t].began

\* An account is what was last asked of it, field by field, when calls do not
\* overlap: a PATCH leaves what it does not name (patch_scim_user writing back the
\* whole record that it read).
StandingAsAsked ==
    ~setting.overlap =>
        \A u \in Users : user[u].known =>
            user[u].disabled = asked[u].disabled /\ user[u].role = asked[u].role

\* No request that began after its session was logged out is served, nor one that
\* began after its account was disabled, unless it was enabled in the meantime:
\* "prevents old tokens from continuing to authorize requests".
ServedAreWelcome ==
    ~setting.overlap => \A q \in Requests : request[q].pc = "served" => request[q].barred = {}

=============================================================================
