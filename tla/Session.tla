------------------------------- MODULE Session -------------------------------
(* The browser session of the frontend: the store of authStore.ts, what it  *)
(* keeps in sessionStorage and localStorage, the guard of the shell routes, *)
(* the sign-in pages, and the requests of api.ts with their renewal after a *)
(* 401.  oidc-client-ts and the identity provider are external.             *)
(* Leaving the page loses what JavaScript holds and keeps both storages.    *)
EXTENDS Naturals, Workbench

CONSTANTS
  Users, Admins,       \* who may sign in; those with the role PLATFORM_ADMIN
  Pages, AdminPages,   \* routes of the shell; those behind AdminRoute
  Home,                \* the index route
  Requests,            \* requests that may be under way at the same time
  Nobody, NoPage,
  Sandbox,             \* a development build, with the route /sandbox
  MaxLoads             \* bound: page loads and sign-ins by the user

ASSUME SessionAssumption ==
  /\ Admins \subseteq Users /\ AdminPages \subseteq Pages
  /\ Home \in Pages \ AdminPages
  /\ Nobody \notin Users \cup [who : Users, mock : BOOLEAN, fresh : BOOLEAN]
  /\ NoPage \notin Pages
  /\ Pages \cap {"login", "callback", "idp", "sandbox"} = {}
  /\ Sandbox \in BOOLEAN /\ MaxLoads \in Nat

VARIABLES
  store,      \* the zustand store: user, auth, loading, error
  saved,      \* sessionStorage: the OIDC session
  target,     \* sessionStorage: post_login_redirect
  kept,       \* localStorage: the access token
  files,      \* localStorage: whose local_ingested_files there are
  route, entered,  \* where the router is; whether the effects of it have run
  inFlight,   \* checkUserInFlight
  calls,      \* the checkUser calls of the guard and of LoginPage
  intended,   \* the redirect LoginPage read when it was mounted
  leaving,    \* a redirect to the identity provider that has been asked for
  req,        \* requests: how far each is, and for whom it renews
  notices,    \* "Session Expired" toasts since the user was last signed in
  wanted,     \* history: the page the guard refused
  loads       \* history: page loads so far

sessionVars == <<store, saved, target, kept, files, route, entered, inFlight,
                 calls, intended, leaving, req, notices, wanted, loads>>
storageVars == <<saved, target, kept, files>>

Token == [who : Users, mock : BOOLEAN, fresh : BOOLEAN]
TokenOf(u, m) == [who |-> u, mock |-> m, fresh |-> TRUE]
Callers == {"guard", "login"}
Routes == Pages \cup {"login", "callback", "idp", "sandbox"}
Path == Pages \cup {"callback", "sandbox"}
SignedOut == [user |-> Nobody, auth |-> FALSE, loading |-> FALSE, error |-> FALSE]
SignedIn(t) == [user |-> t, auth |-> t.fresh, loading |-> FALSE, error |-> FALSE]
NoCalls == [c \in Callers |-> "none"]
IdleRequest == [pc |-> "idle", who |-> Nobody]
NoRequests == [r \in Requests |-> IdleRequest]
Valid(t) == IF t = Nobody THEN FALSE ELSE t.fresh
Live == store.auth /\ Valid(store.user)

\* ProtectedRoute shows its children, rather than the spinner or nothing.
Shown == route \in Pages /\ entered /\ ~store.loading /\ store.auth

SessionInit ==
  /\ store = SignedOut /\ saved = Nobody /\ target = NoPage
  /\ kept = Nobody /\ files = Nobody
  /\ route \in Pages /\ entered = FALSE
  /\ inFlight = FALSE /\ calls = NoCalls /\ intended = NoPage
  /\ leaving = "no" /\ req = NoRequests /\ notices = 0
  /\ wanted = NoPage /\ loads = 0

(* ------------------------------ the store ------------------------------- *)
(* Every set() runs the subscribers: a caller that waits for the check of   *)
(* another wakes up as soon as the store is not loading.                    *)
Wake(cs, s) ==
  [c \in Callers |-> IF cs[c] = "waiting" /\ ~s.loading THEN "woken" ELSE cs[c]]

Set(s, cs) ==
  /\ store' = s /\ calls' = Wake(cs, s)
  /\ notices' = IF s.auth /\ ~store.auth THEN 0 ELSE notices

ClearPersisted == kept' = Nobody /\ files' = Nobody

\* clearAuthSession: also what the userUnloaded event runs.
ClearSession ==
  /\ store' = SignedOut /\ calls' = Wake(calls, SignedOut)
  /\ saved' = Nobody /\ target' = NoPage /\ wanted' = NoPage /\ ClearPersisted

\* The document is unloaded and another route loaded.
Unload(r) ==
  /\ store' = SignedOut /\ calls' = NoCalls /\ inFlight' = FALSE
  /\ req' = NoRequests /\ leaving' = "no" /\ notices' = 0
  /\ intended' = NoPage
  /\ route' = r /\ entered' = FALSE

GoTo(r) ==
  /\ route' = r
  /\ entered' = (entered /\ (r = route \/ {r, route} \subseteq Pages))

(* The synchronous part of checkUser, for caller c.                         *)
CheckUser(c) ==
  CASE Live -> /\ store' = store
               /\ calls' = [calls EXCEPT ![c] = "user"]
               /\ inFlight' = inFlight
    [] ~Live /\ inFlight -> /\ store' = store
                            /\ calls' = [calls EXCEPT ![c] = "waiting"]
                            /\ inFlight' = inFlight
    [] OTHER -> /\ store' = [store EXCEPT !.loading = TRUE, !.error = FALSE]
                /\ calls' = [calls EXCEPT ![c] = "probing"]
                /\ inFlight' = TRUE

BugProbed ==
  \E c \in Callers :
    /\ calls[c] = "probing" /\ inFlight' = FALSE
    /\ calls' = [calls EXCEPT ![c] = "nobody"]
    /\ UNCHANGED <<store, notices, storageVars, route, entered, intended, leaving,
                   req, wanted, loads>>

(* getUser() answers with what sessionStorage holds, or throws.             *)
Probed ==
  \E c \in Callers :
    /\ calls[c] = "probing" /\ inFlight' = FALSE
    /\ \/ /\ saved # Nobody /\ saved.fresh
          /\ kept' = saved
          /\ Set(SignedIn(saved), [calls EXCEPT ![c] = "user"])
       \/ /\ ~Valid(saved)
          /\ kept' = kept
          /\ Set(SignedOut, [calls EXCEPT ![c] = "nobody"])
       \/ /\ kept' = kept
          /\ Set([SignedOut EXCEPT !.error = TRUE], [calls EXCEPT ![c] = "nobody"])
    /\ UNCHANGED <<saved, target, files, route, entered, intended, leaving, req,
                   wanted, loads>>

(* ------------------------------ the guard ------------------------------- *)
BugBounce ==
  /\ target' = route
  /\ wanted' = IF route = "login" THEN wanted ELSE route
  /\ GoTo("login")

\* saveRedirectPath, then the navigation to /login.
Bounce ==
  /\ target' = IF route = "login" THEN target ELSE route
  /\ wanted' = IF route = "login" THEN wanted ELSE route
  /\ GoTo("login")

(* ProtectedRoute is mounted.  Its second effect sees the store as it was   *)
(* rendered, before checkUser has set isLoading.                            *)
EnterShell ==
  /\ route \in Pages /\ ~entered /\ calls["guard"] = "none"
  /\ CheckUser("guard")
  /\ IF ~store.loading /\ ~store.auth
       THEN /\ target' = route /\ wanted' = route
            /\ route' = "login" /\ entered' = FALSE
       ELSE entered' = TRUE /\ UNCHANGED <<target, wanted, route>>
  /\ UNCHANGED <<saved, kept, files, intended, leaving, req, notices, loads>>

GuardReacts ==
  /\ route \in Pages /\ entered /\ ~store.loading /\ ~store.auth
  /\ Bounce
  /\ UNCHANGED <<store, saved, kept, files, inFlight, calls, intended, leaving,
                 req, notices, loads>>

\* AdminRoute sends everybody else to the index.
AdminReacts ==
  /\ route \in AdminPages /\ Shown
  /\ store.user # Nobody /\ store.user.who \notin Admins
  /\ GoTo(Home)
  /\ UNCHANGED <<store, storageVars, inFlight, calls, intended, leaving, req,
                 notices, wanted, loads>>

BugSavedPath == IF intended = NoPage THEN Home ELSE intended

\* Where a sign-in leads, and the navigation that ends it.
SavedPath == IF target = NoPage THEN Home ELSE target

Arrive(r) ==
  /\ GoTo(r)
  /\ wanted' = IF r \in Pages THEN NoPage ELSE wanted

Answer(c) == calls[c] = "user" \/ (calls[c] = "woken" /\ Live)
Refusal(c) == calls[c] = "nobody" \/ (calls[c] = "woken" /\ ~Live)

(* What ProtectedRoute does with the answer of checkUser, mounted or not.   *)
GuardAnswered ==
  /\ calls' = [calls EXCEPT !["guard"] = "none"]
  /\ \/ Answer("guard") /\ UNCHANGED <<target, wanted, route, entered>>
     \/ Refusal("guard") /\ Bounce
  /\ UNCHANGED <<store, saved, kept, files, inFlight, intended, leaving, req,
                 notices, loads>>

(* ----------------------------- signing in ------------------------------- *)
EnterLogin ==
  /\ route = "login" /\ ~entered /\ calls["login"] = "none"
  /\ intended' = target /\ CheckUser("login")
  /\ entered' = TRUE
  /\ UNCHANGED <<storageVars, route, leaving, req, notices, wanted, loads>>

LoginAnswered ==
  /\ calls' = [calls EXCEPT !["login"] = "none"]
  /\ \/ /\ Answer("login")
        /\ target' = NoPage /\ Arrive(IF intended = NoPage THEN Home ELSE intended)
     \/ Refusal("login") /\ UNCHANGED <<target, wanted, route, entered>>
  /\ UNCHANGED <<store, saved, kept, files, inFlight, intended, leaving, req,
                 notices, loads>>

\* The button of LoginPage is disabled while the store loads.
Login ==
  /\ route = "login" /\ entered /\ ~store.loading /\ leaving = "no"
  /\ Set([store EXCEPT !.loading = TRUE, !.error = FALSE], calls)
  /\ leaving' = "signin"
  /\ UNCHANGED <<storageVars, route, entered, inFlight, intended, req, wanted, loads>>

RedirectFails ==
  /\ leaving # "no" /\ leaving' = "no"
  /\ Set([store EXCEPT !.loading = FALSE, !.error = TRUE], calls)
  /\ UNCHANGED <<storageVars, route, entered, inFlight, intended, req, wanted, loads>>

LeaveToSignIn ==
  /\ leaving = "signin" /\ Unload("idp")
  /\ UNCHANGED <<storageVars, wanted, loads>>

\* The provider comes back with a code, or the user presses Back.
IdpReturns ==
  /\ route = "idp"
  /\ \/ Unload("callback") /\ wanted' = wanted
     \/ Unload(Home) /\ wanted' = NoPage
  /\ UNCHANGED <<storageVars, loads>>

EnterCallback ==
  /\ route = "callback" /\ ~entered /\ entered' = TRUE
  /\ Set([store EXCEPT !.loading = TRUE, !.error = FALSE], calls)
  /\ UNCHANGED <<storageVars, route, inFlight, intended, leaving, req, wanted, loads>>

BugHandled(t) == saved' = t /\ kept' = t /\ files' = files

(* handleCallback: files of whoever used the browser before are removed.    *)
Handled(t) == saved' = t /\ kept' = t /\ files' = Nobody

CallbackSucceeds ==
  /\ route = "callback" /\ entered /\ store.loading
  /\ \E u \in Users : Handled(TokenOf(u, FALSE)) /\ Set(SignedIn(TokenOf(u, FALSE)), calls)
  /\ target' = NoPage /\ Arrive(SavedPath)
  /\ UNCHANGED <<inFlight, intended, leaving, req, loads>>

CallbackFails ==
  /\ route = "callback" /\ entered /\ store.loading
  /\ Set([store EXCEPT !.loading = FALSE, !.error = TRUE], calls)
  /\ UNCHANGED <<storageVars, route, entered, inFlight, intended, leaving, req,
                 wanted, loads>>

\* "Return to Login", shown when the store has an error.
ReturnToLogin ==
  /\ route = "callback" /\ entered /\ store.error
  /\ Set([store EXCEPT !.error = FALSE], calls)
  /\ GoTo("login")
  /\ UNCHANGED <<storageVars, inFlight, intended, leaving, req, wanted, loads>>

\* SandboxLoginPage and loginMock; nothing in it waits.
LoginMock ==
  /\ Sandbox /\ route = "sandbox" /\ ~store.loading
  /\ \E u \in Users :
       /\ saved' = TokenOf(u, TRUE) /\ kept' = TokenOf(u, TRUE)
       /\ Set(SignedIn(TokenOf(u, TRUE)), calls)
  /\ target' = NoPage /\ Arrive(SavedPath)
  /\ UNCHANGED <<files, inFlight, intended, leaving, req, loads>>

(* ------------------------------ signing out ----------------------------- *)
\* The button of TopBar.
Logout ==
  /\ Shown /\ store.user # Nobody
  /\ LET mock == saved # Nobody /\ saved.mock IN
     /\ Set([SignedOut EXCEPT !.loading = ~mock], calls)
     /\ leaving' = IF mock THEN leaving ELSE "signout"
  /\ saved' = Nobody /\ target' = NoPage /\ ClearPersisted
  /\ UNCHANGED <<route, entered, inFlight, intended, req, wanted, loads>>

\* signoutRedirect removes the user first, which raises userUnloaded.
SignoutUnloads ==
  /\ leaving = "signout" /\ leaving' = "signedout"
  /\ ClearSession
  /\ UNCHANGED <<route, entered, inFlight, intended, req, notices, loads>>

LeaveSignedOut ==
  /\ leaving = "signedout" /\ Unload(Home)
  /\ wanted' = NoPage
  /\ UNCHANGED <<storageVars, loads>>

(* ------------------------------- requests ------------------------------- *)
\* A page is rendered, and calls apiFetch.
Send(r) ==
  /\ Shown
  /\ req[r].pc = "idle"
  /\ req' = [req EXCEPT ![r].pc = "sent"]
  /\ UNCHANGED <<store, storageVars, route, entered, inFlight, calls, intended,
                 leaving, notices, wanted, loads>>

Answered(r) ==
  /\ req[r].pc \in {"sent", "retried"}
  /\ req' = [req EXCEPT ![r] = IdleRequest]
  /\ UNCHANGED <<store, storageVars, route, entered, inFlight, calls, intended,
                 leaving, notices, wanted, loads>>

BugExpire ==
  ClearSession /\ notices' = notices + 1

\* The end of the 401 branch: clear the session, and say so once.
Expire ==
  IF store.auth THEN ClearSession /\ notices' = notices + 1
                ELSE UNCHANGED <<store, calls, storageVars, notices, wanted>>

(* A 401.  While the store is authenticated the token is renewed first;     *)
(* signinSilent uses the refresh token it finds at that moment.             *)
Unauthorized(r) ==
  /\ req[r].pc = "sent"
  /\ IF store.auth
       THEN /\ req' = [req EXCEPT ![r] =
                         [pc |-> "renewing",
                          who |-> IF saved = Nobody \/ saved.mock THEN Nobody
                                                                  ELSE saved.who]]
            /\ UNCHANGED <<store, calls, storageVars, notices, wanted>>
       ELSE req' = [req EXCEPT ![r] = IdleRequest] /\ Expire
  /\ UNCHANGED <<route, entered, inFlight, intended, leaving, loads>>

\* The library stores the new session and raises userLoaded.
Renewed(t) == saved' = t /\ kept' = t /\ Set(SignedIn(t), calls)

RenewSucceeds(r) ==
  /\ req[r].pc = "renewing" /\ req[r].who # Nobody
  /\ Renewed(TokenOf(req[r].who, FALSE))
  /\ req' = [req EXCEPT ![r].pc = "retried"]
  /\ UNCHANGED <<target, files, route, entered, inFlight, intended, leaving,
                 wanted, loads>>

\* No renewal, or a second 401: also when another request has renewed.
RenewFails(r) ==
  /\ req[r].pc \in {"renewing", "retried"}
  /\ req' = [req EXCEPT ![r] = IdleRequest]
  /\ Expire
  /\ UNCHANGED <<route, entered, inFlight, intended, leaving, loads>>

\* automaticSilentRenew; its failure is only logged.
AutoRenew ==
  /\ saved # Nobody /\ ~saved.mock /\ ~saved.fresh /\ route # "idp"
  /\ Renewed(TokenOf(saved.who, FALSE))
  /\ UNCHANGED <<target, files, route, entered, inFlight, intended, leaving, req,
                 wanted, loads>>

(* ----------------------------- surroundings ----------------------------- *)
Stale(t) == IF t = Nobody THEN Nobody ELSE [t EXCEPT !.fresh = FALSE]

Expires ==
  /\ Valid(saved)
  /\ store' = [store EXCEPT !.user = Stale(store.user)]
  /\ saved' = Stale(saved) /\ kept' = Stale(kept)
  /\ UNCHANGED <<target, files, route, entered, inFlight, calls, intended,
                 leaving, req, notices, wanted, loads>>

FollowLink ==
  /\ Shown
  /\ \E p \in Pages \ {route} : GoTo(p)
  /\ UNCHANGED <<store, storageVars, inFlight, calls, intended, leaving, req,
                 notices, wanted, loads>>

\* A page leaves something of the user's in localStorage.
KeepFile ==
  /\ Shown /\ Live
  /\ files' = store.user.who
  /\ UNCHANGED <<store, saved, target, kept, route, entered, inFlight, calls,
                 intended, leaving, req, notices, wanted, loads>>

\* A reload, an address typed in, or a new tab, which has no sessionStorage.
Load ==
  /\ loads < MaxLoads /\ loads' = loads + 1
  /\ \E r \in Pages \cup {"login"} \cup (IF Sandbox THEN {"sandbox"} ELSE {}) : Unload(r)
  /\ wanted' = NoPage
  /\ UNCHANGED <<kept, files>>
  /\ \/ UNCHANGED <<saved, target>>
     \/ saved' = Nobody /\ target' = NoPage

Renewal ==
  \/ AutoRenew
  \/ \E r \in Requests : RenewSucceeds(r) \/ RenewFails(r)

SessionNext ==
  \/ Probed \/ EnterShell \/ GuardReacts \/ AdminReacts \/ GuardAnswered
  \/ EnterLogin \/ LoginAnswered \/ Login \/ RedirectFails \/ LeaveToSignIn
  \/ IdpReturns \/ EnterCallback \/ CallbackSucceeds \/ CallbackFails
  \/ ReturnToLogin \/ LoginMock \/ Logout \/ SignoutUnloads \/ LeaveSignedOut
  \/ \E r \in Requests : Send(r) \/ Answered(r) \/ Unauthorized(r)
  \/ Renewal \/ Expires \/ FollowLink \/ KeepFile \/ Load

SessionSpec == SessionInit /\ [][SessionNext]_sessionVars

(* React runs effects, and the promises of the library settle, while this   *)
(* part of the program is in use.      The user and the requests owe       *)
(* nothing.                                                                 *)
SessionFairness ==
  /\ WF_sessionVars(inUse = "session" /\ Probed) /\ WF_sessionVars(inUse = "session" /\ LoginAnswered)
  /\ WF_sessionVars(inUse = "session" /\ (CallbackSucceeds \/ CallbackFails))
  /\ WF_sessionVars(inUse = "session" /\ EnterCallback)
  /\ WF_sessionVars(inUse = "session" /\ (LeaveToSignIn \/ LeaveSignedOut \/ RedirectFails))
  /\ WF_sessionVars(inUse = "session" /\ SignoutUnloads)

(* --------------------- waiting, and what is shown ----------------------- *)
\* The spinner of the guard turns, or a caller of checkUser, be it the one
\* that waits for another's answer, has none.
SessionWaits == store.loading \/ \E c \in Callers : calls[c] \in {"probing", "waiting"}

(* ------------------------------ properties ------------------------------ *)
SessionTypeOK ==
  /\ store \in [user : Token \cup {Nobody}, auth : BOOLEAN, loading : BOOLEAN,
                error : BOOLEAN]
  /\ saved \in Token \cup {Nobody} /\ kept \in Token \cup {Nobody}
  /\ target \in Path \cup {NoPage} /\ intended \in Path \cup {NoPage}
  /\ wanted \in Path \cup {NoPage} /\ files \in Users \cup {Nobody}
  /\ route \in Routes /\ entered \in BOOLEAN /\ inFlight \in BOOLEAN
  /\ calls \in [Callers -> {"none", "probing", "waiting", "woken", "user", "nobody"}]
  /\ leaving \in {"no", "signin", "signout", "signedout"}
  /\ req \in [Requests -> [pc : {"idle", "sent", "renewing", "retried"},
                           who : Users \cup {Nobody}]]
  /\ notices \in Nat /\ loads \in 0..MaxLoads

(* However many requests are answered 401 when a session ends, the user is  *)
(* told once (apiFetch: only the request that still finds the store         *)
(* authenticated clears it and shows the toast).                            *)
OneNotice == notices <= 1

(* The files remembered in localStorage never belong to anybody but the     *)
(* user signed in, although localStorage outlives tabs and sessions: the    *)
(* callback removes them.  The sandbox does not, and is excepted.           *)
FilesOwned ==
  store.auth /\ ~store.user.mock /\ files # Nobody => files = store.user.who

(* Whoever was refused by the guard is led back to the page refused once    *)
(* signed in, through every detour: the login page, the provider, a check   *)
(* that answers late.  Signing out forgets the page, and so does a session  *)
(* that is cleared again before the user is back.                           *)
ReturnsToPage ==
  [][(route \notin Pages) /\ route' \in Pages /\ store'.auth /\ wanted # NoPage
       /\ leaving = "no"
     => route' = wanted]_sessionVars
=============================================================================
