------------------------------ MODULE PagesProofs ------------------------------
(***************************************************************************)
(* What TLAPS proves of the session and the pages of the frontend: of each *)
(* of them by itself, for WorkbenchProofs to put together.  A section for  *)
(* each states its inductive invariant.                                    *)
(***************************************************************************)
EXTENDS Session, PipelineMonitor, Connections, DatasetPreview, OntologyImport, MergeReview,
        EntityDetail, GraphExplorer, Administration, Dashboard, Shell, FiniteSetTheorems,
        SequenceTheorems, TLAPS

(* ------------------------------ the session ----------------------------- *)
(* For any users, pages and requests and however often the page is loaded:  *)
(* the end of a session is told once, the files remembered in localStorage  *)
(* are those of the user who is signed in, and who signs in again returns   *)
(* to the page refused.                                                     *)

StoreType == [user : Token \cup {Nobody}, auth : BOOLEAN, loading : BOOLEAN, error : BOOLEAN]
Call == {"none", "probing", "waiting", "woken", "user", "nobody"}
Progress == [pc : {"idle", "sent", "renewing", "retried"}, who : Users \cup {Nobody}]
Refused == Pages \cup {NoPage}

(* The types, in the parts that one action disturbs.                       *)
StoreTyped == store \in StoreType /\ calls \in [Callers -> Call] /\ notices \in Nat
StorageTyped ==
  /\ saved \in Token \cup {Nobody} /\ kept \in Token \cup {Nobody} /\ files \in Users \cup {Nobody}
  /\ target \in Refused
RouteTyped ==
  /\ route \in Routes /\ entered \in BOOLEAN /\ wanted \in Refused /\ intended \in Refused
RestTyped ==
  /\ inFlight \in BOOLEAN /\ leaving \in {"no", "signin", "signout", "signedout"}
  /\ req \in [Requests -> Progress] /\ loads \in 0..MaxLoads

(* Outside of the shell and the login page nothing is under way.           *)
Outside ==
  route \notin Pages \cup {"login"} => req = NoRequests /\ calls = NoCalls

Typed == StoreTyped /\ StorageTyped /\ RouteTyped /\ RestTyped /\ Outside

LEMMA TokensMade == ASSUME NEW u \in Users, NEW m \in BOOLEAN
                    PROVE  /\ TokenOf(u, m) \in Token /\ TokenOf(u, m).who = u
                           /\ TokenOf(u, m).mock = m
BY DEF TokenOf, Token

LEMMA StoresMade ==
  /\ SignedOut \in StoreType /\ ~SignedOut.auth /\ ~SignedOut.loading
  /\ \A t \in Token : /\ SignedIn(t) \in StoreType /\ SignedIn(t).user = t
                      /\ t.fresh => SignedIn(t).auth
BY DEF SignedOut, SignedIn, StoreType, Token

LEMMA RequestsMade == NoRequests \in [Requests -> Progress] /\ \A r \in Requests : NoRequests[r].who = Nobody
BY DEF NoRequests, IdleRequest, Progress

LEMMA CallsMade ==
  /\ NoCalls \in [Callers -> Call]
  /\ \A cs \in [Callers -> Call], s \in StoreType : Wake(cs, s) \in [Callers -> Call]
  /\ \A cs \in [Callers -> Call], c \in Callers, v \in Call : [cs EXCEPT ![c] = v] \in [Callers -> Call]
BY DEF NoCalls, Call, Wake

LEMMA NobodyHasNoToken == Nobody \notin Token /\ Nobody \notin Users
BY SessionAssumption DEF SessionAssumption, Token

LEMMA Aged ==
  ASSUME NEW t \in Token \cup {Nobody}
  PROVE  /\ Stale(t) \in Token \cup {Nobody} /\ (Stale(t) = Nobody <=> t = Nobody)
         /\ t # Nobody => Stale(t).who = t.who /\ Stale(t).mock = t.mock
<1>1. CASE t = Nobody
  BY <1>1 DEF Stale
<1>2. CASE t # Nobody
  <2>1. t \in Token /\ Stale(t) = [t EXCEPT !.fresh = FALSE]
    BY <1>2 DEF Stale
  <2>2. Stale(t) \in Token /\ Stale(t).who = t.who /\ Stale(t).mock = t.mock
    BY <2>1 DEF Token
  <2>. QED  BY <1>2, <2>2, NobodyHasNoToken
<1>. QED  BY <1>1, <1>2

(* What is said of sets of the store, whoever makes them.                  *)
LEMMA Setting ==
  ASSUME StoreTyped, NEW s \in StoreType, NEW cs \in [Callers -> Call], Set(s, cs)
  PROVE  StoreTyped' /\ store' = s
BY CallsMade DEF StoreTyped, Set

LEMMA Clearing ==
  ASSUME StoreTyped, StorageTyped, ClearSession
  PROVE  /\ store' \in StoreType /\ calls' \in [Callers -> Call] /\ StorageTyped' /\ wanted' \in Refused
         /\ store' = SignedOut /\ saved' = Nobody /\ files' = Nobody
BY StoresMade, CallsMade DEF ClearSession, ClearPersisted, StoreTyped, StorageTyped, Refused

LEMMA Unloading ==
  ASSUME Typed, NEW r \in Routes, Unload(r)
  PROVE  /\ StoreTyped' /\ store' = SignedOut /\ calls' = NoCalls /\ req' = NoRequests
         /\ route' = r /\ entered' = FALSE /\ intended' \in Refused /\ Outside'
         /\ inFlight' \in BOOLEAN /\ leaving' \in {"no", "signin", "signout", "signedout"}
         /\ req' \in [Requests -> Progress]
BY StoresMade, CallsMade, RequestsMade DEF Unload, Typed, StoreTyped, Refused, Outside

LEMMA Going ==
  ASSUME RouteTyped, NEW r \in Pages \cup {"login"}, GoTo(r)
  PROVE  route' \in Routes /\ entered' \in BOOLEAN /\ Outside'
BY DEF GoTo, RouteTyped, Routes, Outside

LEMMA Checking ==
  ASSUME StoreTyped, inFlight \in BOOLEAN, NEW c \in Callers, CheckUser(c)
  PROVE  /\ store' \in StoreType /\ calls' \in [Callers -> Call] /\ inFlight' \in BOOLEAN
         /\ store'.auth = store.auth /\ store'.user = store.user
<1>1. store \in StoreType /\ calls \in [Callers -> Call]
  BY DEF StoreTyped
<1>2. store' \in {store, [store EXCEPT !.loading = TRUE, !.error = FALSE]}
      /\ \E v \in Call : calls' = [calls EXCEPT ![c] = v]
      /\ inFlight' \in {inFlight, TRUE}
  BY DEF CheckUser, Call
<1>3. store' \in StoreType /\ store'.auth = store.auth /\ store'.user = store.user
  <2>1. CASE store' = [store EXCEPT !.loading = TRUE, !.error = FALSE]
    BY <1>1, <2>1 DEF StoreType
  <2>. QED  BY <1>1, <1>2, <2>1
<1>4. calls' \in [Callers -> Call]
  BY <1>1, <1>2, CallsMade
<1>. QED  BY <1>2, <1>3, <1>4

-----------------------------------------------------------------------------
(* What a step does *)

(* A session ends and the user is told; or it begins, or nothing is said.  *)
EndTold ==
  \/ notices' = 0
  \/ notices' = notices /\ (store'.auth => store.auth)
  \/ notices' = notices + 1 /\ store.auth /\ ~store'.auth

SamePerson(s, t) == s # Nobody /\ t # Nobody /\ s.who = t.who /\ s.mock = t.mock

(* Nobody new: what there is of a user is kept, aged or dropped.           *)
StoreStays == store'.auth => store.auth /\ (store'.user = store.user \/ SamePerson(store'.user, store.user))
SavedStays == saved' \in {saved, Nobody} \/ SamePerson(saved', saved)
RequestsStay == \A r \in Requests : req'[r].who \in {req[r].who, Nobody}
Quiet == StoreStays /\ SavedStays /\ RequestsStay /\ files' \in {files, Nobody}

(* The user of the stored session, or of a renewal, is in the store.       *)
Resumes(t) ==
  /\ t \in Token /\ store'.user = t /\ saved' = t /\ files' = files /\ RequestsStay
  /\ \/ saved # Nobody /\ t.who = saved.who /\ t.mock = saved.mock
     \/ \E r \in Requests : req[r].who # Nobody /\ t.who = req[r].who

(* A request takes the user of the stored session to renew it.             *)
Takes(r) ==
  /\ StoreStays /\ saved' = saved /\ files' = files /\ saved # Nobody /\ ~saved.mock
  /\ req'[r].who = saved.who /\ \A q \in Requests : q # r => req'[q].who = req[q].who

(* Somebody signs in while no request is under way.                        *)
Enters(t) ==
  /\ t \in Token /\ store'.user = t /\ saved' = t /\ (t.mock \/ files' = Nobody)
  /\ \A r \in Requests : req'[r].who = Nobody

Keeps ==
  /\ StoreStays /\ saved' = saved /\ RequestsStay
  /\ store.auth /\ store.user # Nobody /\ files' = store.user.who

SessionMoves ==
  \/ Quiet \/ Keeps \/ (\E t \in Token : Resumes(t) \/ Enters(t))
  \/ \E r \in Requests : Takes(r)
Good == Typed' /\ EndTold /\ SessionMoves

LEMMA RequestKept ==
  ASSUME Typed, req' = req \/ \E r \in Requests : \/ req' = [req EXCEPT ![r] = IdleRequest]
                                                 \/ \E p \in {"sent", "retried"} :
                                                      req' = [req EXCEPT ![r].pc = p]
  PROVE  req' \in [Requests -> Progress] /\ RequestsStay
<1>0. req \in [Requests -> Progress]
  BY DEF Typed, RestTyped
<1>1. CASE req' = req
  BY <1>0, <1>1 DEF RequestsStay
<1>2. ASSUME NEW r \in Requests, req' = [req EXCEPT ![r] = IdleRequest]
      PROVE  req' \in [Requests -> Progress] /\ RequestsStay
  BY <1>0, <1>2 DEF RequestsStay, IdleRequest, Progress
<1>3. ASSUME NEW r \in Requests, NEW p \in {"sent", "retried"}, req' = [req EXCEPT ![r].pc = p]
      PROVE  req' \in [Requests -> Progress] /\ RequestsStay
  BY <1>0, <1>3 DEF RequestsStay, Progress
<1>. QED  BY <1>1, <1>2, <1>3

(* The guard, the links and the answers of checkUser.                      *)
LEMMA Navigation ==
  ASSUME Typed,
         \/ GuardReacts \/ AdminReacts \/ GuardAnswered \/ LoginAnswered \/ FollowLink
  PROVE  Good
<1>1. UNCHANGED <<store, saved, kept, files, inFlight, intended, leaving, req, notices, loads>>
  BY DEF GuardReacts, AdminReacts, GuardAnswered, LoginAnswered, FollowLink, storageVars
<1>2. calls' \in [Callers -> Call]
  BY CallsMade DEF GuardReacts, AdminReacts, GuardAnswered, LoginAnswered, FollowLink, Typed, StoreTyped,
                   Callers, Call
<1>a. Home \in Pages /\ (intended # NoPage => intended \in Pages) /\ route \in Routes /\ entered \in BOOLEAN
      /\ target \in Refused /\ wanted \in Refused /\ RouteTyped
  BY SessionAssumption DEF SessionAssumption, Typed, RouteTyped, StorageTyped, Refused
<1>c. ASSUME Bounce, route \in Pages \cup {"login"}
      PROVE  /\ target' \in Refused /\ wanted' \in Refused
             /\ route' \in Routes /\ entered' \in BOOLEAN /\ Outside'
  <2>1. target' \in Refused /\ wanted' \in Refused
    BY <1>a, <1>c DEF Bounce, Refused
  <2>. QED  BY <1>a, <1>c, <2>1, Going DEF Bounce
<1>d. ASSUME NEW r \in Pages \cup {"login"}, GoTo(r)
      PROVE  route' \in Routes /\ entered' \in BOOLEAN /\ Outside'
  BY <1>a, <1>d, Going
<1>e. ASSUME UNCHANGED <<route, entered>>, route \in Pages \cup {"login"}
      PROVE  route' \in Routes /\ entered' \in BOOLEAN /\ Outside'
  BY <1>a, <1>e DEF Outside
<1>3. /\ target' \in Refused /\ wanted' \in Refused
      /\ route' \in Routes /\ entered' \in BOOLEAN /\ Outside'
  <2>1. CASE GuardReacts
    BY <1>c, <2>1 DEF GuardReacts
  <2>2. CASE AdminReacts
    BY <1>a, <1>d, <2>2 DEF AdminReacts, storageVars
  <2>3. CASE GuardAnswered
    <3>1. calls["guard"] # "none"
      BY <2>3 DEF GuardAnswered, Answer, Refusal
    <3>2. route \in Pages \cup {"login"}
      BY <3>1 DEF Typed, Outside, NoCalls, Callers
    <3>. QED  BY <1>a, <1>c, <1>e, <2>3, <3>2 DEF GuardAnswered
  <2>4. CASE LoginAnswered
    <3>1. calls["login"] # "none"
      BY <2>4 DEF LoginAnswered, Answer, Refusal
    <3>2. route \in Pages \cup {"login"}
      BY <3>1 DEF Typed, Outside, NoCalls, Callers
    <3>3. ASSUME NEW r \in Pages, Arrive(r), target' = NoPage
          PROVE  /\ target' \in Refused /\ wanted' \in Refused
                 /\ route' \in Routes /\ entered' \in BOOLEAN /\ Outside'
      BY <1>a, <1>d, <3>3 DEF Arrive, Refused
    <3>. QED  BY <1>a, <1>e, <2>4, <3>2, <3>3 DEF LoginAnswered
  <2>5. CASE FollowLink
    BY <1>a, <1>d, <2>5 DEF FollowLink, storageVars
  <2>. QED  BY <2>1, <2>2, <2>3, <2>4, <2>5
<1>5. Typed'
  BY <1>1, <1>2, <1>3 DEF Typed, StoreTyped, StorageTyped, RouteTyped, RestTyped
<1>6. EndTold /\ Quiet
  BY <1>1 DEF EndTold, Quiet, StoreStays, SavedStays, RequestsStay
<1>. QED  BY <1>5, <1>6 DEF Good, SessionMoves

LEMMA OutsideKept ==
  ASSUME Outside, route' = route, req' = req, NEW s, calls' \in {calls, Wake(calls, s)}
  PROVE  Outside'
<1>1. Wake(NoCalls, s) = NoCalls
  BY DEF Wake, NoCalls
<1>. QED  BY <1>1 DEF Outside

(* The mounting of the guard and of the login page. *)
LEMMA Mounting ==
  ASSUME Typed, EnterShell \/ EnterLogin
  PROVE  Good
<1>1. inFlight \in BOOLEAN /\ StoreTyped /\ RouteTyped /\ StorageTyped
  BY DEF Typed, RestTyped
<1>2. \E c \in Callers : CheckUser(c)
  BY DEF EnterShell, EnterLogin, Callers
<1>3. /\ store' \in StoreType /\ calls' \in [Callers -> Call] /\ inFlight' \in BOOLEAN
      /\ store'.auth = store.auth /\ store'.user = store.user
  BY <1>1, <1>2, Checking
<1>4. UNCHANGED <<saved, kept, files, leaving, req, notices, loads>>
  BY DEF EnterShell, EnterLogin, storageVars
<1>5. route' \in {route, "login"} /\ route \in Pages \cup {"login"} /\ entered' \in BOOLEAN
  BY DEF EnterShell, EnterLogin
<1>6. route' \in Routes /\ Outside'
  BY <1>1, <1>5 DEF RouteTyped, Routes, Outside
<1>7. target' \in Refused /\ wanted' \in Refused /\ intended' \in Refused
  BY <1>1 DEF EnterShell, EnterLogin, storageVars, RouteTyped, StorageTyped, Refused
<1>8. Typed'
  BY <1>3, <1>4, <1>5, <1>6, <1>7 DEF Typed, StoreTyped, StorageTyped, RouteTyped, RestTyped
<1>9. EndTold /\ Quiet
  BY <1>3, <1>4 DEF EndTold, Quiet, StoreStays, SavedStays, RequestsStay
<1>. QED  BY <1>8, <1>9 DEF Good, SessionMoves

(* The store in between, and where the pages are left.                     *)
LEMMA Spinning ==
  ASSUME Typed, Login \/ RedirectFails \/ EnterCallback \/ CallbackFails \/ ReturnToLogin
  PROVE  Good
<1>1. StoreTyped /\ store \in StoreType /\ calls \in [Callers -> Call] /\ Outside /\ RouteTyped
  BY DEF Typed, StoreTyped
<1>2. PICK s \in {[store EXCEPT !.loading = TRUE, !.error = FALSE], [store EXCEPT !.error = FALSE],
                  [store EXCEPT !.loading = FALSE, !.error = TRUE]} : Set(s, calls)
  BY DEF Login, RedirectFails, EnterCallback, CallbackFails, ReturnToLogin
<1>3. s \in StoreType /\ s.auth = store.auth /\ s.user = store.user
  <2>1. CASE s = [store EXCEPT !.loading = TRUE, !.error = FALSE]
    BY <1>1, <2>1 DEF StoreType
  <2>2. CASE s = [store EXCEPT !.error = FALSE]
    BY <1>1, <2>2 DEF StoreType
  <2>3. CASE s = [store EXCEPT !.loading = FALSE, !.error = TRUE]
    BY <1>1, <2>3 DEF StoreType
  <2>. QED  BY <1>2, <2>1, <2>2, <2>3
<1>4. StoreTyped' /\ store' = s /\ calls' = Wake(calls, s) /\ notices' = notices
  BY <1>1, <1>2, <1>3, Setting DEF Set
<1>5. /\ UNCHANGED <<saved, kept, files, target, inFlight, intended, req, wanted, loads>>
      /\ leaving' \in {leaving, "no", "signin"}
  BY DEF Login, RedirectFails, EnterCallback, CallbackFails, ReturnToLogin, storageVars
<1>6. route' \in Routes /\ entered' \in BOOLEAN /\ Outside'
  <2>1. CASE ReturnToLogin
    BY <1>1, <2>1, Going DEF ReturnToLogin
  <2>2. CASE route' = route /\ entered' \in {entered, TRUE}
    <3>1. Outside'
      BY <1>1, <1>4, <1>5, <2>2, OutsideKept
    <3>. QED  BY <1>1, <2>2, <3>1 DEF RouteTyped
  <2>. QED  BY <2>1, <2>2 DEF Login, RedirectFails, EnterCallback, CallbackFails
<1>7. Typed'
  BY <1>4, <1>5, <1>6 DEF Typed, StorageTyped, RouteTyped, RestTyped
<1>8. EndTold /\ Quiet
  BY <1>3, <1>4, <1>5 DEF EndTold, Quiet, StoreStays, SavedStays, RequestsStay
<1>. QED  BY <1>7, <1>8 DEF Good, SessionMoves

LEMMA Reloading ==
  ASSUME Typed, LeaveToSignIn \/ IdpReturns \/ LeaveSignedOut \/ Load
  PROVE  Good
<1>1. PICK r \in Routes : Unload(r)
  BY SessionAssumption DEF SessionAssumption, LeaveToSignIn, IdpReturns, LeaveSignedOut, Load, Routes
<1>2. /\ StoreTyped' /\ store' = SignedOut /\ calls' = NoCalls /\ req' = NoRequests
      /\ route' = r /\ entered' = FALSE /\ intended' \in Refused /\ Outside'
      /\ inFlight' \in BOOLEAN /\ leaving' \in {"no", "signin", "signout", "signedout"}
      /\ req' \in [Requests -> Progress] /\ notices' = 0
  BY <1>1, Unloading DEF Unload
<1>3. /\ UNCHANGED <<kept, files>> /\ saved' \in {saved, Nobody} /\ target' \in {target, NoPage}
      /\ wanted' \in {wanted, NoPage}
  BY DEF LeaveToSignIn, IdpReturns, LeaveSignedOut, Load, storageVars
<1>4. loads' \in 0..MaxLoads
  <2>1. loads \in 0..MaxLoads /\ MaxLoads \in Nat
    BY SessionAssumption DEF SessionAssumption, Typed, RestTyped
  <2>2. loads' = loads \/ (loads' = loads + 1 /\ loads < MaxLoads)
    BY DEF LeaveToSignIn, IdpReturns, LeaveSignedOut, Load
  <2>. QED  BY <2>1, <2>2
<1>5. Typed'
  <2>1. StorageTyped'
    BY <1>3 DEF Typed, StorageTyped, Refused
  <2>2. RouteTyped'
    BY <1>2, <1>3 DEF Typed, RouteTyped, Refused
  <2>. QED  BY <1>2, <1>4, <2>1, <2>2 DEF Typed, RestTyped
<1>6. EndTold /\ Quiet
  BY <1>2, <1>3, StoresMade, RequestsMade DEF EndTold, Quiet, StoreStays, SavedStays, RequestsStay
<1>. QED  BY <1>5, <1>6 DEF Good, SessionMoves

(* Signing in and out. *)
LEMMA SigningIn ==
  ASSUME Typed, CallbackSucceeds \/ LoginMock
  PROVE  Good
<1>1. PICK u \in Users, m \in BOOLEAN :
        /\ saved' = TokenOf(u, m) /\ kept' = TokenOf(u, m) /\ Set(SignedIn(TokenOf(u, m)), calls)
        /\ (m \/ files' = Nobody) /\ files' \in {files, Nobody}
  BY DEF CallbackSucceeds, LoginMock, Handled
<1>2. PICK t \in Token : t = TokenOf(u, m) /\ t.mock = m
  BY TokensMade
<1>3. /\ StoreTyped /\ StorageTyped /\ RouteTyped /\ RestTyped
      /\ route \in {"callback", "sandbox"} /\ calls \in [Callers -> Call]
  BY DEF Typed, StoreTyped, CallbackSucceeds, LoginMock
<1>4. SignedIn(t) \in StoreType /\ SignedIn(t).user = t
  BY StoresMade
<1>5. StoreTyped' /\ store' = SignedIn(t)
  BY <1>1, <1>2, <1>3, <1>4, Setting
<1>6. req' = req /\ req = NoRequests /\ UNCHANGED <<inFlight, intended, leaving, loads>> /\ target' = NoPage
  <2>1. route \notin Pages \cup {"login"}
    BY <1>3, SessionAssumption DEF SessionAssumption
  <2>. QED  BY <2>1 DEF Typed, Outside, CallbackSucceeds, LoginMock
<1>7. /\ wanted' \in Refused /\ route' \in Routes /\ entered' \in BOOLEAN /\ Outside'
  <2>1. PICK r \in Pages : Arrive(r)
    BY <1>3, SessionAssumption DEF SessionAssumption, CallbackSucceeds, LoginMock, SavedPath, StorageTyped, Refused
  <2>. QED  BY <1>3, <2>1, Going DEF Arrive, RouteTyped, Refused
<1>8. Typed'
  <2>1. StorageTyped'
    BY <1>1, <1>2, <1>3, <1>6 DEF StorageTyped, Refused
  <2>2. RouteTyped' /\ RestTyped'
    BY <1>3, <1>6, <1>7 DEF RouteTyped, RestTyped
  <2>. QED  BY <1>5, <1>7, <2>1, <2>2 DEF Typed
<1>9. Enters(t)
  BY <1>1, <1>2, <1>4, <1>5, <1>6, RequestsMade DEF Enters
<1>10. EndTold
  BY <1>1 DEF Set, EndTold
<1>. QED  BY <1>8, <1>9, <1>10 DEF Good, SessionMoves

LEMMA SigningOut ==
  ASSUME Typed, Logout \/ SignoutUnloads
  PROVE  Good
<1>1. StoreTyped /\ StorageTyped /\ RouteTyped /\ Outside /\ store \in StoreType
      /\ calls \in [Callers -> Call] /\ notices \in Nat
  BY DEF Typed, StoreTyped
<1>2. PICK s \in {SignedOut, [SignedOut EXCEPT !.loading = TRUE], [SignedOut EXCEPT !.loading = FALSE]} :
        /\ store' = s /\ calls' = Wake(calls, s) /\ notices' = notices
  BY DEF Logout, SignoutUnloads, Set, ClearSession, SignedOut
<1>3. s \in StoreType /\ ~s.auth
  BY <1>2, StoresMade DEF SignedOut, StoreType
<1>4. calls' \in [Callers -> Call]
  BY <1>1, <1>2, <1>3, CallsMade
<1>5. /\ saved' = Nobody /\ target' = NoPage /\ kept' = Nobody /\ files' = Nobody
      /\ UNCHANGED <<route, entered, inFlight, intended, req, loads>>
      /\ wanted' \in {wanted, NoPage} /\ leaving' \in {leaving, "signout", "signedout"}
  BY DEF Logout, SignoutUnloads, ClearSession, ClearPersisted
<1>6. Outside'
  BY <1>1, <1>2, <1>5, OutsideKept
<1>7. Typed'
  BY <1>1, <1>2, <1>3, <1>4, <1>5, <1>6 DEF Typed, StoreTyped, StorageTyped, RouteTyped, RestTyped, Refused
<1>8. EndTold /\ Quiet
  BY <1>2, <1>3, <1>5 DEF EndTold, Quiet, StoreStays, SavedStays, RequestsStay
<1>. QED  BY <1>7, <1>8 DEF Good, SessionMoves

LEMMA ProbingKeeps ==
  ASSUME Typed, Probed
  PROVE  Good
<1>1. StoreTyped /\ StorageTyped /\ RouteTyped /\ Outside /\ calls \in [Callers -> Call]
  BY DEF Typed, StoreTyped
<1>2. /\ inFlight' = FALSE
      /\ UNCHANGED <<saved, target, files, route, entered, intended, leaving, req, wanted, loads>>
  BY DEF Probed
<1>3. PICK c \in Callers, v \in {"user", "nobody"} :
        /\ calls[c] = "probing"
        /\ \/ /\ saved # Nobody /\ kept' = saved
              /\ Set(SignedIn(saved), [calls EXCEPT ![c] = v])
           \/ \E s \in {SignedOut, [SignedOut EXCEPT !.error = TRUE]} :
                Set(s, [calls EXCEPT ![c] = v]) /\ kept' = kept
  BY DEF Probed
<1>a. PICK s \in {SignedIn(saved), SignedOut, [SignedOut EXCEPT !.error = TRUE]} :
        /\ Set(s, [calls EXCEPT ![c] = v])
        /\ \/ saved # Nobody /\ s = SignedIn(saved) /\ kept' = saved
           \/ s \in {SignedOut, [SignedOut EXCEPT !.error = TRUE]} /\ kept' = kept
  BY <1>3
<1>4. s \in StoreType /\ (s.auth => saved # Nobody /\ s.user = saved /\ saved \in Token)
  <2>1. CASE saved # Nobody /\ s = SignedIn(saved)
    BY <1>1, <2>1, StoresMade DEF StorageTyped
  <2>2. CASE s = SignedOut
    BY <2>2 DEF SignedOut, StoreType
  <2>3. CASE s = [SignedOut EXCEPT !.error = TRUE]
    BY <2>3 DEF SignedOut, StoreType
  <2>. QED  BY <1>a, <2>1, <2>2, <2>3
<1>5. [calls EXCEPT ![c] = v] \in [Callers -> Call]
  BY <1>1, CallsMade DEF Call
<1>6. StoreTyped' /\ store' = s
  BY <1>1, <1>a, <1>4, <1>5, Setting
<1>7. route \in Pages \cup {"login"}
  BY <1>1, <1>3 DEF Outside, NoCalls
<1>8. Typed'
  BY <1>1, <1>2, <1>a, <1>6, <1>7 DEF Typed, StorageTyped, RouteTyped, RestTyped, Outside
<1>9. EndTold
  BY <1>a DEF Set, EndTold
<1>10. Quiet \/ Resumes(saved)
  BY <1>2, <1>4, <1>6 DEF Quiet, StoreStays, SavedStays, RequestsStay, Resumes
<1>. QED  BY <1>4, <1>6, <1>8, <1>9, <1>10 DEF Good, SessionMoves, Resumes

(* Requests, and the renewal of the session by one of them.                *)
LEMMA Asking ==
  ASSUME Typed, NEW r \in Requests, Send(r) \/ Answered(r)
  PROVE  Good
<1>1. /\ UNCHANGED <<store, saved, target, kept, files, route, entered, inFlight, calls, intended,
                     leaving, notices, wanted, loads>>
      /\ \/ req' = [req EXCEPT ![r].pc = "sent"]
         \/ req' = [req EXCEPT ![r] = IdleRequest]
  BY DEF Send, Answered, storageVars
<1>2. req' \in [Requests -> Progress] /\ RequestsStay
  BY <1>1, RequestKept
<1>3. route \in Pages \cup {"login"}
  <2>1. CASE Send(r)
    BY <2>1 DEF Send, Shown
  <2>2. CASE Answered(r)
    <3>1. req # NoRequests
      BY <2>2 DEF Answered, NoRequests, IdleRequest
    <3>. QED  BY <3>1 DEF Typed, Outside
  <2>. QED  BY <2>1, <2>2
<1>4. StoreTyped' /\ StorageTyped' /\ RouteTyped' /\ RestTyped' /\ Outside'
  BY <1>1, <1>2, <1>3 DEF Typed, StoreTyped, StorageTyped, RouteTyped, RestTyped, Outside
<1>5. EndTold /\ Quiet
  BY <1>1, <1>2 DEF EndTold, Quiet, StoreStays, SavedStays
<1>. QED  BY <1>4, <1>5 DEF Good, SessionMoves, Typed

LEMMA Ending ==
  ASSUME Typed, Expire
  PROVE  /\ StoreTyped' /\ StorageTyped' /\ wanted' \in Refused
         /\ EndTold /\ StoreStays /\ SavedStays /\ files' \in {files, Nobody}
<1>1. StoreTyped /\ StorageTyped /\ RouteTyped /\ notices \in Nat
  BY DEF Typed, StoreTyped
<1>2. CASE store.auth
  <2>1. ClearSession /\ notices' = notices + 1
    BY <1>2 DEF Expire
  <2>2. /\ store' \in StoreType /\ calls' \in [Callers -> Call] /\ StorageTyped' /\ wanted' \in Refused
        /\ store' = SignedOut /\ saved' = Nobody /\ files' = Nobody
    BY <1>1, <2>1, Clearing
  <2>3. StoreTyped'
    BY <1>1, <2>1, <2>2 DEF StoreTyped
  <2>. QED  BY <1>2, <2>1, <2>2, <2>3, StoresMade DEF EndTold, StoreStays, SavedStays
<1>3. CASE ~store.auth
  <2>1. UNCHANGED <<store, calls, saved, target, kept, files, notices, wanted>>
    BY <1>3 DEF Expire, storageVars
  <2>. QED  BY <1>1, <2>1 DEF StoreTyped, StorageTyped, RouteTyped, EndTold, StoreStays, SavedStays
<1>. QED  BY <1>2, <1>3

LEMMA Refusing ==
  ASSUME Typed, NEW r \in Requests, Unauthorized(r) \/ RenewFails(r)
  PROVE  Good
<1>1. /\ UNCHANGED <<route, entered, inFlight, intended, leaving, loads>>
      /\ req[r].pc # "idle" /\ req \in [Requests -> Progress]
      /\ RouteTyped /\ RestTyped /\ StoreTyped /\ StorageTyped
  BY DEF Typed, RestTyped, Unauthorized, RenewFails
<1>2. route \in Pages \cup {"login"}
  BY <1>1 DEF Typed, Outside, NoRequests, IdleRequest
<1>3. CASE Expire /\ req' = [req EXCEPT ![r] = IdleRequest]
  <2>1. /\ StoreTyped' /\ StorageTyped' /\ wanted' \in Refused
        /\ EndTold /\ StoreStays /\ SavedStays /\ files' \in {files, Nobody}
    BY <1>3, Ending
  <2>2. req' \in [Requests -> Progress] /\ RequestsStay
    BY <1>3, RequestKept
  <2>3. RouteTyped' /\ RestTyped' /\ Outside'
    BY <1>1, <1>2, <2>1, <2>2 DEF RouteTyped, RestTyped, Outside
  <2>. QED  BY <2>1, <2>2, <2>3 DEF Good, Typed, SessionMoves, Quiet
<1>4. CASE store.auth /\ Unauthorized(r)
  <2>1. PICK w \in Users \cup {Nobody} :
          /\ req' = [req EXCEPT ![r] = [pc |-> "renewing", who |-> w]]
          /\ w # Nobody => saved # Nobody /\ ~saved.mock /\ w = saved.who
    <3>1. saved # Nobody => saved.who \in Users
      BY <1>1 DEF StorageTyped, Token
    <3>. QED  BY <1>4, <3>1 DEF Unauthorized
  <2>2. UNCHANGED <<store, calls, saved, target, kept, files, notices, wanted>>
    BY <1>4 DEF Unauthorized, storageVars
  <2>3. /\ req' \in [Requests -> Progress] /\ req'[r].who = w
        /\ \A q \in Requests : q # r => req'[q].who = req[q].who
    BY <1>1, <2>1 DEF Progress
  <2>4. StoreTyped' /\ StorageTyped' /\ RouteTyped' /\ RestTyped' /\ Outside'
    BY <1>1, <1>2, <2>2, <2>3 DEF StoreTyped, StorageTyped, RouteTyped, RestTyped, Outside
  <2>5. EndTold /\ StoreStays /\ SavedStays
    BY <2>2 DEF EndTold, StoreStays, SavedStays
  <2>6. CASE w = Nobody
    <3>1. RequestsStay
      BY <2>3, <2>6 DEF RequestsStay
    <3>. QED  BY <2>2, <2>4, <2>5, <3>1 DEF Good, Typed, SessionMoves, Quiet
  <2>7. CASE w # Nobody
    <3>1. Takes(r)
      BY <2>1, <2>2, <2>3, <2>5, <2>7 DEF Takes
    <3>. QED  BY <2>4, <2>5, <3>1 DEF Good, Typed, SessionMoves
  <2>. QED  BY <2>6, <2>7
<1>5. (Expire /\ req' = [req EXCEPT ![r] = IdleRequest]) \/ (store.auth /\ Unauthorized(r))
  BY DEF Unauthorized, RenewFails
<1>. QED  BY <1>3, <1>4, <1>5

LEMMA Renewing ==
  ASSUME Typed, AutoRenew \/ \E r \in Requests : RenewSucceeds(r)
  PROVE  Good
<1>1. /\ StoreTyped /\ StorageTyped /\ RouteTyped /\ RestTyped /\ Outside
      /\ calls \in [Callers -> Call] /\ req \in [Requests -> Progress]
  BY DEF Typed, StoreTyped, RestTyped
<1>2. UNCHANGED <<target, files, route, entered, inFlight, intended, leaving, wanted, loads>>
  BY DEF AutoRenew, RenewSucceeds
<1>3. PICK u \in Users : /\ Renewed(TokenOf(u, FALSE))
                         /\ \/ AutoRenew /\ u = saved.who
                            \/ \E r \in Requests : RenewSucceeds(r) /\ u = req[r].who
  <2>1. CASE AutoRenew
    BY <1>1, <2>1 DEF AutoRenew, StorageTyped, Token
  <2>2. ASSUME NEW r \in Requests, RenewSucceeds(r)
        PROVE  req[r].who \in Users /\ Renewed(TokenOf(req[r].who, FALSE))
    BY <1>1, <2>2 DEF RenewSucceeds, Progress
  <2>. QED  BY <2>1, <2>2
<1>4. PICK t \in Token : t = TokenOf(u, FALSE) /\ t.who = u /\ ~t.mock
  BY TokensMade
<1>5. /\ saved' = t /\ kept' = t /\ Set(SignedIn(t), calls)
      /\ SignedIn(t) \in StoreType /\ SignedIn(t).user = t
  BY <1>3, <1>4, StoresMade DEF Renewed
<1>6. StoreTyped' /\ store' = SignedIn(t) /\ calls' = Wake(calls, SignedIn(t))
  BY <1>1, <1>5, Setting DEF Set
<1>7. /\ req' \in [Requests -> Progress] /\ RequestsStay
      /\ \/ saved # Nobody /\ t.who = saved.who /\ t.mock = saved.mock
         \/ \E r \in Requests : req[r].who # Nobody /\ t.who = req[r].who
  <2>1. CASE AutoRenew /\ u = saved.who
    <3>1. req' = req /\ saved # Nobody /\ ~saved.mock /\ saved \in Token
      BY <1>1, <2>1 DEF AutoRenew, StorageTyped
    <3>2. t.mock = saved.mock
      BY <1>4, <3>1 DEF Token
    <3>. QED  BY <1>4, <2>1, <3>1, <3>2, RequestKept
  <2>2. ASSUME NEW r \in Requests, RenewSucceeds(r), u = req[r].who
        PROVE  /\ req' \in [Requests -> Progress] /\ RequestsStay
               /\ req[r].who # Nobody /\ t.who = req[r].who
    BY <1>4, <2>2, RequestKept DEF RenewSucceeds
  <2>. QED  BY <1>3, <2>1, <2>2
<1>8. Outside'
  <2>1. CASE AutoRenew
    BY <1>1, <1>2, <1>6, <2>1, OutsideKept DEF AutoRenew
  <2>2. CASE \E r \in Requests : RenewSucceeds(r)
    <3>1. req # NoRequests
      BY <2>2 DEF RenewSucceeds, NoRequests, IdleRequest
    <3>. QED  BY <1>1, <1>2, <3>1 DEF Outside
  <2>. QED  BY <2>1, <2>2
<1>9. Typed'
  <2>1. StorageTyped'
    BY <1>1, <1>2, <1>5 DEF StorageTyped
  <2>2. RouteTyped' /\ RestTyped'
    BY <1>1, <1>2, <1>7 DEF RouteTyped, RestTyped
  <2>. QED  BY <1>6, <1>8, <2>1, <2>2 DEF Typed
<1>10. EndTold
  BY <1>5 DEF Set, EndTold
<1>11. Resumes(t)
  BY <1>2, <1>5, <1>6, <1>7 DEF Resumes
<1>. QED  BY <1>9, <1>10, <1>11 DEF Good, SessionMoves

LEMMA Aging ==
  ASSUME Typed, Expires
  PROVE  Good
<1>1. /\ StoreTyped /\ StorageTyped /\ store \in StoreType /\ store.user \in Token \cup {Nobody}
      /\ saved \in Token \cup {Nobody} /\ kept \in Token \cup {Nobody}
  BY DEF Typed, StoreTyped, StorageTyped, StoreType
<1>2. /\ store' \in StoreType /\ store'.auth = store.auth /\ store'.user = Stale(store.user)
      /\ saved' = Stale(saved) /\ kept' = Stale(kept)
  <2>1. Stale(store.user) \in Token \cup {Nobody}
    BY <1>1, Aged
  <2>. QED  BY <1>1, <2>1 DEF Expires, StoreType
<1>3. UNCHANGED <<target, files, route, entered, inFlight, calls, intended, leaving, req, notices, wanted,
                  loads>>
  BY DEF Expires
<1>4. Typed'
  <2>1. Stale(saved) \in Token \cup {Nobody} /\ Stale(kept) \in Token \cup {Nobody}
    BY <1>1, Aged
  <2>2. StoreTyped' /\ StorageTyped'
    BY <1>1, <1>2, <1>3, <2>1 DEF StoreTyped, StorageTyped
  <2>. QED  BY <1>3, <2>2 DEF Typed, RouteTyped, RestTyped, Outside
<1>5. /\ saved' = saved \/ SamePerson(saved', saved)
      /\ store'.user = store.user \/ SamePerson(store'.user, store.user)
  BY <1>1, <1>2, Aged DEF SamePerson
<1>6. EndTold /\ Quiet
  BY <1>2, <1>3, <1>5 DEF EndTold, Quiet, StoreStays, SavedStays, RequestsStay
<1>. QED  BY <1>4, <1>6 DEF Good, SessionMoves

LEMMA Keeping ==
  ASSUME Typed, KeepFile
  PROVE  Good
<1>1. /\ UNCHANGED <<store, saved, target, kept, route, entered, inFlight, calls, intended, leaving, req,
                     notices, wanted, loads>>
      /\ store.auth /\ store.user # Nobody /\ files' = store.user.who
  BY DEF KeepFile, Live, Valid
<1>2. store.user.who \in Users
  BY <1>1 DEF Typed, StoreTyped, StoreType, Token
<1>3. Typed'
  BY <1>1, <1>2 DEF Typed, StoreTyped, StorageTyped, RouteTyped, RestTyped, Outside
<1>4. EndTold /\ Keeps
  BY <1>1 DEF EndTold, Keeps, StoreStays, RequestsStay
<1>. QED  BY <1>3, <1>4 DEF Good, SessionMoves

-----------------------------------------------------------------------------
(* Every step, and the theorems *)

LEMMA EveryStep ==
  ASSUME Typed, SessionNext
  PROVE  Good
<1>1. CASE \/ GuardReacts \/ AdminReacts \/ GuardAnswered \/ LoginAnswered \/ FollowLink
  BY <1>1, Navigation
<1>2. CASE EnterShell \/ EnterLogin
  BY <1>2, Mounting
<1>3. CASE Login \/ RedirectFails \/ EnterCallback \/ CallbackFails \/ ReturnToLogin
  BY <1>3, Spinning
<1>4. CASE LeaveToSignIn \/ IdpReturns \/ LeaveSignedOut \/ Load
  BY <1>4, Reloading
<1>5. CASE CallbackSucceeds \/ LoginMock
  BY <1>5, SigningIn
<1>6. CASE Logout \/ SignoutUnloads
  BY <1>6, SigningOut
<1>7. CASE \E r \in Requests : Send(r) \/ Answered(r)
  BY <1>7, Asking
<1>8. CASE \E r \in Requests : Unauthorized(r) \/ RenewFails(r)
  BY <1>8, Refusing
<1>9. CASE AutoRenew \/ \E r \in Requests : RenewSucceeds(r)
  BY <1>9, Renewing
<1>10. CASE Probed
  BY <1>10, ProbingKeeps
<1>11. CASE Expires
  BY <1>11, Aging
<1>12. CASE KeepFile
  BY <1>12, Keeping
<1>. QED  BY <1>1, <1>2, <1>3, <1>4, <1>5, <1>6, <1>7, <1>8, <1>9, <1>10, <1>11, <1>12
             DEF SessionNext, Renewal

LEMMA Starting == SessionInit => Typed
<1>. SUFFICES ASSUME SessionInit PROVE Typed
  OBVIOUS
<1>1. StoreTyped /\ StorageTyped
  BY StoresMade, CallsMade DEF SessionInit, StoreTyped, StorageTyped, Refused
<1>2. RouteTyped /\ Outside
  BY DEF SessionInit, RouteTyped, Outside, Refused, Routes
<1>3. RestTyped
  <2>1. loads \in 0..MaxLoads
    BY SessionAssumption DEF SessionAssumption, SessionInit
  <2>. QED  BY <2>1, RequestsMade DEF SessionInit, RestTyped
<1>. QED  BY <1>1, <1>2, <1>3 DEF Typed

LEMMA TypedKept == Typed /\ [SessionNext]_sessionVars => Typed'
<1>1. ASSUME Typed, SessionNext PROVE Typed'
  BY <1>1, EveryStep DEF Good
<1>2. ASSUME Typed, UNCHANGED sessionVars PROVE Typed'
  BY <1>2 DEF sessionVars, Typed, StoreTyped, StorageTyped, RouteTyped, RestTyped, Outside
<1>. QED  BY <1>1, <1>2

(* The variables of the session keep their types, and the pages that are   *)
(* kept for the way back are pages of the shell.                           *)
THEOREM SessionTyped == SessionSpec => []SessionTypeOK
<1>1. Typed => SessionTypeOK
  BY DEF Typed, StoreTyped, StorageTyped, RouteTyped, RestTyped, SessionTypeOK, Refused, Path, StoreType,
         Call, Progress
<1>. QED  BY <1>1, Starting, TypedKept, PTL DEF SessionSpec

(* A new user has been told nothing.                                       *)
ToldAtMost == notices <= 1 /\ (store.auth => notices = 0)

(* However many requests are refused, renewed or repeated when a session   *)
(* ends, whoever was signed in is told once.                               *)
THEOREM ToldOnce == SessionSpec => []OneNotice
<1>1. SessionInit => ToldAtMost
  BY DEF SessionInit, ToldAtMost, SignedOut
<1>2. Typed /\ ToldAtMost /\ [SessionNext]_sessionVars => ToldAtMost'
  <2>1. ASSUME Typed, ToldAtMost, SessionNext PROVE ToldAtMost'
    <3>1. EndTold /\ notices \in Nat
      BY <2>1, EveryStep DEF Good, Typed, StoreTyped
    <3>. QED  BY <2>1, <3>1 DEF EndTold, ToldAtMost
  <2>2. ASSUME ToldAtMost, UNCHANGED sessionVars PROVE ToldAtMost'
    BY <2>2 DEF sessionVars, ToldAtMost
  <2>. QED  BY <2>1, <2>2
<1>3. ToldAtMost => OneNotice
  BY DEF ToldAtMost, OneNotice
<1>. QED  BY <1>1, <1>2, <1>3, Starting, TypedKept, PTL DEF SessionSpec

(* The browser belongs to one user: the store, the stored session and the  *)
(* renewals under way are all of that user, and so are the files while any *)
(* of them is of an account.  The sandbox leaves the files alone.          *)
Genuine ==
  \/ store.auth /\ ~store.user.mock
  \/ saved # Nobody /\ ~saved.mock
  \/ \E r \in Requests : req[r].who # Nobody
ThisUser(u) ==
  /\ store.auth => store.user # Nobody /\ store.user.who = u
  /\ saved # Nobody => saved.who = u
  /\ \A r \in Requests : req[r].who \in {u, Nobody}
  /\ Genuine => files \in {u, Nobody}
Owned == \E u \in Users \cup {Nobody} : ThisUser(u)

LEMMA OwnedKept ==
  ASSUME Owned, SessionMoves
  PROVE  Owned'
<1>1. PICK u \in Users \cup {Nobody} : ThisUser(u)
  BY DEF Owned
<1>2. CASE Quiet
  <2>1. /\ store'.auth => /\ store.auth /\ store'.user # Nobody /\ store'.user.who = u
                          /\ store'.user.mock = store.user.mock
        /\ saved' # Nobody => /\ saved # Nobody /\ saved'.who = u /\ saved'.mock = saved.mock
    BY <1>1, <1>2 DEF ThisUser, Quiet, StoreStays, SavedStays, SamePerson
  <2>2. \A r \in Requests : /\ req'[r].who \in {u, Nobody}
                            /\ req'[r].who # Nobody => req[r].who # Nobody
    BY <1>1, <1>2 DEF ThisUser, Quiet, RequestsStay
  <2>3. Genuine' => Genuine
    BY <2>1, <2>2 DEF Genuine
  <2>4. Genuine' => files' \in {u, Nobody}
    BY <1>1, <1>2, <2>3 DEF ThisUser, Quiet
  <2>5. ThisUser(u)'
    BY <2>1, <2>2, <2>4 DEF ThisUser
  <2>. QED  BY <2>5 DEF Owned
<1>3. CASE Keeps
  <2>1. /\ store'.auth => store'.user # Nobody /\ store'.user.who = u
        /\ saved' # Nobody => saved'.who = u
        /\ \A r \in Requests : req'[r].who \in {u, Nobody}
        /\ files' = u
    BY <1>1, <1>3 DEF ThisUser, Keeps, StoreStays, SamePerson, RequestsStay
  <2>2. ThisUser(u)'
    BY <2>1 DEF ThisUser
  <2>. QED  BY <2>2 DEF Owned
<1>4. ASSUME NEW t \in Token, Resumes(t) PROVE Owned'
  <2>1. t.who = u /\ t # Nobody
    BY <1>1, <1>4, NobodyHasNoToken DEF Resumes, ThisUser
  <2>2. store'.user = t /\ saved' = t /\ files' = files /\ \A r \in Requests : req'[r].who \in {u, Nobody}
    BY <1>1, <1>4 DEF Resumes, ThisUser, RequestsStay
  <2>3. Genuine' => files' \in {u, Nobody}
    <3>1. Genuine' => Genuine
      BY <1>4, <2>2 DEF Genuine, Resumes, RequestsStay
    <3>. QED  BY <1>1, <2>2, <3>1 DEF ThisUser
  <2>4. ThisUser(u)'
    BY <2>1, <2>2, <2>3 DEF ThisUser
  <2>. QED  BY <2>4 DEF Owned
<1>5. ASSUME NEW t \in Token, Enters(t) PROVE Owned'
  <2>1. t.who \in Users /\ t # Nobody
    BY NobodyHasNoToken DEF Token
  <2>2. Genuine' => files' = Nobody
    BY <1>5 DEF Genuine, Enters
  <2>3. ThisUser(t.who)'
    BY <1>5, <2>1, <2>2 DEF ThisUser, Enters
  <2>. QED  BY <2>1, <2>3 DEF Owned
<1>6. ASSUME NEW r \in Requests, Takes(r) PROVE Owned'
  <2>1. Genuine /\ saved' = saved /\ files' = files
    BY <1>6 DEF Genuine, Takes
  <2>2. \A q \in Requests : req'[q].who \in {u, Nobody}
    BY <1>1, <1>6 DEF ThisUser, Takes
  <2>3. store'.auth => store'.user # Nobody /\ store'.user.who = u
    BY <1>1, <1>6 DEF ThisUser, Takes, StoreStays, SamePerson
  <2>4. files' \in {u, Nobody} /\ (saved' # Nobody => saved'.who = u)
    BY <1>1, <2>1 DEF ThisUser
  <2>5. ThisUser(u)'
    BY <2>2, <2>3, <2>4 DEF ThisUser
  <2>. QED  BY <2>5 DEF Owned
<1>. QED  BY <1>2, <1>3, <1>4, <1>5, <1>6 DEF SessionMoves

(* The files remembered in localStorage are those of the user signed in,   *)
(* whoever used the browser before: through reloads, new tabs, sessions    *)
(* that end, and renewals that succeed after the session was cleared.      *)
THEOREM FilesAreTheirs == SessionSpec => []FilesOwned
<1>1. SessionInit => Owned
  <2>. SUFFICES ASSUME SessionInit PROVE ThisUser(Nobody)
    BY DEF Owned
  <2>. QED  BY RequestsMade DEF SessionInit, ThisUser, SignedOut
<1>2. Typed /\ Owned /\ [SessionNext]_sessionVars => Owned'
  <2>1. ASSUME Typed, Owned, SessionNext PROVE Owned'
    BY <2>1, EveryStep, OwnedKept DEF Good
  <2>2. ASSUME Owned, UNCHANGED sessionVars PROVE Owned'
    BY <2>2 DEF sessionVars, Owned, ThisUser, Genuine
  <2>. QED  BY <2>1, <2>2
<1>3. Owned => FilesOwned
  BY DEF Owned, ThisUser, Genuine, FilesOwned
<1>. QED  BY <1>1, <1>2, <1>3, Starting, TypedKept, PTL DEF SessionSpec

(* The page that was refused is the one a sign-in leads to, as long as the *)
(* user is not back: so the login page has read it if its check is under   *)
(* way, and no page of the shell is shown meanwhile.                       *)
WayBack ==
  /\ route \in Pages => wanted = NoPage
  /\ wanted # NoPage => target = wanted
  /\ calls["login"] # "none" => route = "login" /\ (wanted # NoPage => intended = target)

\* A step that leads from outside into the shell leads to the page refused.
LeadsBack ==
  (route \notin Pages) /\ route' \in Pages /\ store'.auth /\ wanted # NoPage /\ leaving = "no"
    => route' = wanted

LEMMA CallsGoOn ==
  ASSUME NEW cs \in [Callers -> Call], NEW s, calls' = Wake(cs, s)
  PROVE  calls'["login"] # "none" => cs["login"] # "none"
BY DEF Wake, Callers

\* Page and target stay, or are both forgotten; the caller of the login page
\* is no new one.
LEMMA Unmoved ==
  ASSUME WayBack, route' = route, intended' = intended,
         calls'["login"] # "none" => calls["login"] # "none",
         \/ wanted' = NoPage
         \/ wanted' = wanted /\ target' = target
  PROVE  WayBack' /\ LeadsBack
BY DEF WayBack, LeadsBack

LEMMA BouncedBack ==
  ASSUME Typed, WayBack, Bounce, route \in Pages \cup {"login"}, intended' = intended,
         calls'["login"] # "none" => calls["login"] # "none"
  PROVE  WayBack' /\ LeadsBack
<1>1. route' = "login" /\ route' \notin Pages
  BY SessionAssumption DEF SessionAssumption, Bounce, GoTo
<1>2. CASE route = "login"
  BY <1>1, <1>2 DEF Bounce, WayBack, LeadsBack
<1>3. CASE route \in Pages
  <2>1. calls["login"] = "none"
    BY <1>3, SessionAssumption DEF SessionAssumption, WayBack
  <2>2. route # "login" /\ wanted' = target'
    BY <1>3, SessionAssumption DEF SessionAssumption, Bounce
  <2>. QED  BY <1>1, <2>1, <2>2 DEF WayBack, LeadsBack
<1>. QED  BY <1>2, <1>3

LEMMA BackSteps ==
  ASSUME Typed, WayBack, SessionNext
  PROVE  WayBack' /\ LeadsBack
<1>0. /\ calls \in [Callers -> Call] /\ {"guard", "login"} = Callers /\ RouteTyped /\ Outside
      /\ Home \in Pages /\ NoPage \notin Pages /\ target \in Pages \cup {NoPage}
      /\ intended \in Pages \cup {NoPage}
      /\ "login" \notin Pages /\ "callback" \notin Pages /\ "idp" \notin Pages /\ "sandbox" \notin Pages
  BY SessionAssumption DEF SessionAssumption, Typed, StoreTyped, StorageTyped, RouteTyped, Refused, Callers
<1>1. CASE GuardReacts
  BY <1>1, BouncedBack DEF GuardReacts
<1>2. CASE AdminReacts \/ FollowLink
  <2>1. /\ route \in Pages /\ wanted' = wanted /\ target' = target /\ calls' = calls
    BY <1>2 DEF AdminReacts, FollowLink, Shown, storageVars
  <2>2. calls["login"] = "none" /\ wanted = NoPage
    BY <1>0, <2>1 DEF WayBack
  <2>. QED  BY <2>1, <2>2 DEF WayBack, LeadsBack
<1>3. CASE GuardAnswered
  <2>1. /\ calls["guard"] # "none" /\ intended' = intended
        /\ calls' = [calls EXCEPT !["guard"] = "none"]
    BY <1>3 DEF GuardAnswered, Answer, Refusal
  <2>2. route \in Pages \cup {"login"}
    BY <1>0, <2>1 DEF Outside, NoCalls
  <2>3. calls'["login"] = calls["login"]
    BY <1>0, <2>1
  <2>4. CASE Bounce
    BY <2>1, <2>2, <2>3, <2>4, BouncedBack
  <2>5. CASE UNCHANGED <<target, wanted, route, entered>>
    BY <2>1, <2>3, <2>5, Unmoved
  <2>. QED  BY <1>3, <2>4, <2>5 DEF GuardAnswered
<1>4. CASE LoginAnswered
  <2>1. /\ calls["login"] # "none" /\ intended' = intended
        /\ calls' = [calls EXCEPT !["login"] = "none"] /\ store' = store
    BY <1>4 DEF LoginAnswered, Answer, Refusal
  <2>2. calls'["login"] = "none"
    BY <1>0, <2>1
  <2>3. CASE UNCHANGED <<target, wanted, route, entered>>
    BY <2>1, <2>2, <2>3, Unmoved
  <2>4. CASE Arrive(IF intended = NoPage THEN Home ELSE intended) /\ target' = NoPage
    <3>1. PICK p \in Pages : p = (IF intended = NoPage THEN Home ELSE intended)
      BY <1>0
    <3>2. route' = p /\ wanted' = NoPage
      BY <2>4, <3>1 DEF Arrive, GoTo
    <3>3. wanted # NoPage => p = wanted
      BY <2>1, <3>1 DEF WayBack
    <3>. QED  BY <2>2, <3>2, <3>3 DEF WayBack, LeadsBack
  <2>. QED  BY <1>4, <2>3, <2>4 DEF LoginAnswered
<1>5. CASE EnterShell
  <2>1. /\ route \in Pages /\ CheckUser("guard") /\ intended' = intended
        /\ \/ target' = route /\ wanted' = route /\ route' = "login"
           \/ UNCHANGED <<target, wanted, route>>
    BY <1>5 DEF EnterShell
  <2>2. calls'["login"] = calls["login"]
    BY <1>0, <2>1 DEF CheckUser
  <2>3. calls["login"] = "none"
    BY <1>0, <2>1 DEF WayBack
  <2>. QED  BY <1>0, <2>1, <2>2, <2>3 DEF WayBack, LeadsBack
<1>6. CASE EnterLogin
  BY <1>0, <1>6 DEF EnterLogin, WayBack, LeadsBack, storageVars
<1>7. CASE Login \/ RedirectFails \/ EnterCallback \/ CallbackFails \/ AutoRenew \/ SignoutUnloads
           \/ Logout \/ Expires \/ KeepFile
  <2>1. route' = route /\ intended' = intended
    BY <1>7 DEF Login, RedirectFails, EnterCallback, CallbackFails, AutoRenew, SignoutUnloads, Logout,
                Expires, KeepFile
  <2>2. calls' = calls \/ \E s : calls' = Wake(calls, s)
    BY <1>7 DEF Login, RedirectFails, EnterCallback, CallbackFails, AutoRenew, SignoutUnloads, Logout,
                Expires, KeepFile, Renewed, Set, ClearSession
  <2>3. calls'["login"] # "none" => calls["login"] # "none"
    BY <1>0, <2>2, CallsGoOn
  <2>4. wanted' = NoPage \/ (wanted' = wanted /\ target' = target)
    <3>1. CASE Logout
      BY <3>1 DEF Logout, Shown, WayBack
    <3>. QED  BY <1>7, <3>1 DEF Login, RedirectFails, EnterCallback, CallbackFails, AutoRenew,
                    SignoutUnloads, Expires, KeepFile, Renewed, ClearSession, storageVars
  <2>. QED  BY <2>1, <2>3, <2>4, Unmoved
<1>8. CASE LeaveToSignIn \/ IdpReturns \/ LeaveSignedOut \/ Load
  <2>1. PICK r : Unload(r)
    BY <1>8 DEF LeaveToSignIn, IdpReturns, LeaveSignedOut, Load
  <2>2. store' = SignedOut /\ ~store'.auth
    BY <2>1 DEF Unload, SignedOut
  <2>3. calls'["login"] = "none"
    BY <1>0, <2>1 DEF Unload, NoCalls
  <2>4. wanted' = NoPage \/ (wanted' = wanted /\ target' = target /\ route' \notin Pages)
    BY <1>0, <1>8 DEF LeaveToSignIn, IdpReturns, LeaveSignedOut, Load, Unload, storageVars
  <2>. QED  BY <2>2, <2>3, <2>4 DEF WayBack, LeadsBack
<1>9. CASE CallbackSucceeds \/ LoginMock
  <2>1. /\ route \notin Pages /\ calls = NoCalls /\ Arrive(SavedPath) /\ target' = NoPage
        /\ intended' = intended /\ \E s : calls' = Wake(calls, s)
    BY <1>0, <1>9 DEF CallbackSucceeds, LoginMock, Outside, Set
  <2>2. SavedPath \in Pages /\ (wanted # NoPage => SavedPath = wanted)
    BY <1>0 DEF SavedPath, WayBack
  <2>3. route' = SavedPath /\ wanted' = NoPage
    BY <2>1, <2>2 DEF Arrive, GoTo
  <2>4. calls'["login"] = "none"
    BY <1>0, <2>1, CallsGoOn DEF NoCalls
  <2>. QED  BY <2>2, <2>3, <2>4 DEF WayBack, LeadsBack
<1>10. CASE ReturnToLogin
  <2>1. /\ route = "callback" /\ route' = "login" /\ wanted' = wanted /\ target' = target
        /\ \E s : calls' = Wake(calls, s)
    BY <1>10 DEF ReturnToLogin, GoTo, Set, storageVars
  <2>2. calls'["login"] = "none"
    BY <1>0, <2>1, CallsGoOn DEF Outside, NoCalls
  <2>. QED  BY <1>0, <2>1, <2>2 DEF WayBack, LeadsBack
<1>11. CASE Probed
  <2>1. PICK c \in Callers, v \in {"user", "nobody"} :
          calls[c] = "probing" /\ \E s : calls' = Wake([calls EXCEPT ![c] = v], s)
    BY <1>11 DEF Probed, Set
  <2>2. [calls EXCEPT ![c] = v] \in [Callers -> Call]
    BY <1>0, CallsMade DEF Call
  <2>3. calls'["login"] # "none" => calls["login"] # "none"
    BY <1>0, <2>1, <2>2, CallsGoOn
  <2>. QED  BY <1>11, <2>3, Unmoved DEF Probed
<1>12. CASE \E r \in Requests : Send(r) \/ Answered(r) \/ Unauthorized(r) \/ RenewSucceeds(r) \/ RenewFails(r)
  <2>1. route' = route /\ intended' = intended
    BY <1>12 DEF Send, Answered, Unauthorized, RenewSucceeds, RenewFails
  <2>2. calls' = calls \/ \E s : calls' = Wake(calls, s)
    BY <1>12 DEF Send, Answered, Unauthorized, RenewSucceeds, RenewFails, Expire, Renewed, Set, ClearSession
  <2>3. calls'["login"] # "none" => calls["login"] # "none"
    BY <1>0, <2>2, CallsGoOn
  <2>4. wanted' = NoPage \/ (wanted' = wanted /\ target' = target)
    BY <1>12 DEF Send, Answered, Unauthorized, RenewSucceeds, RenewFails, Expire, ClearSession, storageVars
  <2>. QED  BY <2>1, <2>3, <2>4, Unmoved
<1>. QED  BY <1>1, <1>2, <1>3, <1>4, <1>5, <1>6, <1>7, <1>8, <1>9, <1>10, <1>11, <1>12
          DEF SessionNext, Renewal

(* Whoever was refused by the guard is led back to the page refused once   *)
(* signed in, through the login page, the provider, failed checks and      *)
(* checks that answer late; signing out forgets the page.                  *)
THEOREM ReturnsToTheirPage == SessionSpec => ReturnsToPage
<1>1. SessionInit => WayBack
  BY SessionAssumption DEF SessionAssumption, SessionInit, WayBack, NoCalls, Callers
<1>2. Typed /\ WayBack /\ [SessionNext]_sessionVars => WayBack' /\ [LeadsBack]_sessionVars
  <2>1. ASSUME WayBack, UNCHANGED sessionVars PROVE WayBack'
    BY <2>1 DEF sessionVars, WayBack
  <2>. QED  BY <2>1, BackSteps
<1>. QED  BY <1>1, <1>2, Starting, TypedKept, PTL DEF SessionSpec, ReturnsToPage, LeadsBack

(* ---------------------------- administration ---------------------------- *)
ErrandType ==
  [op : {"none", "user", "tenant", "key"},
   at : {"rest", "sent", "checked", "created", "seen", "done", "failed"},
   what : Emails \cup Slugs \cup {NoName}, asked : SUBSET Nat, snap : SUBSET Nat]
SettingsType == [key : Nat, meta : Nat, metaReq : {"asked", "none"}, confirm : BOOLEAN]

(* What the services have done for a request, by how far it is.            *)
Errand(e) ==
  /\ e.op = "none" => e.at = "rest"
  /\ e.op = "user" =>
       /\ e.what \in Emails
       /\ e.at = "created" => e.what \in accounts
       /\ e.at = "done" => e.what \in userRows
  /\ e.op = "tenant" => e.what \in Slugs /\ (e.at = "done" => named[e.what] # NoName)
  /\ e.op = "key" =>
       /\ e.asked \subseteq 1..keys /\ e.snap \subseteq 1..keys
       /\ e.at = "seen" => e.asked \subseteq e.snap
       /\ e.at = "done" => \E k \in 1..keys : e.snap = {k}

KeysHold ==
  /\ keys \in Nat \ {0} /\ active1 \subseteq 1..keys /\ keys \in active1
  /\ DOMAIN prior = 1..keys /\ \A k \in 1..keys : prior[k] \subseteq 1..keys
  /\ EarlierKeysRevoked
PagesHold ==
  /\ settings \in SettingsType /\ settings.key <= keys /\ settings.meta <= keys
  /\ form1 \in [said : {"nothing", "created", "error"}, about : Emails \cup Slugs \cup {NoName}]
TablesHold ==
  /\ accounts \subseteq Emails /\ undone \subseteq Emails
  /\ named \in [Slugs -> Clerks \cup {NoName}]
AdminInv ==
  /\ errands \in [Clerks -> ErrandType] /\ \A c \in Clerks : Errand(errands[c])
  /\ KeysHold /\ PagesHold /\ TablesHold /\ RowHasAccount

(* Nothing is taken from the tables.                                       *)
TablesGrow ==
  /\ accounts \subseteq accounts' /\ userRows \subseteq userRows'
  /\ \A s \in Slugs : named[s] # NoName => named'[s] # NoName
  /\ keys \in Nat /\ keys' \in Nat /\ keys <= keys'

LEMMA ErrandKept ==
  ASSUME TablesGrow, NEW e, Errand(e)
  PROVE  Errand(e)'
<1>1. 1..keys \subseteq 1..keys'
  BY DEF TablesGrow
<1>. QED  BY <1>1 DEF TablesGrow, Errand

LEMMA ErrandGoesOn ==
  ASSUME AdminInv, TablesGrow, NEW c \in Clerks, NEW e \in ErrandType, Errand(e)',
         errands' = [errands EXCEPT ![c] = e]
  PROVE  errands' \in [Clerks -> ErrandType] /\ \A d \in Clerks : Errand(errands[d])'
<1>1. errands' \in [Clerks -> ErrandType] /\ errands'[c] = e
      /\ \A d \in Clerks \ {c} : errands'[d] = errands[d]
  BY DEF AdminInv
<1>2. ASSUME NEW d \in Clerks PROVE Errand(errands[d])'
  <2>1. PICK f \in ErrandType : f = errands'[d]
    BY <1>1
  <2>2. CASE d = c
    <3>1. f = e
      BY <1>1, <2>1, <2>2
    <3>. QED  BY <2>1, <3>1 DEF Errand
  <2>3. CASE d # c
    <3>1. Errand(f)
      BY <1>1, <2>1, <2>3 DEF AdminInv
    <3>2. Errand(f)'
      BY <3>1, ErrandKept
    <3>. QED  BY <2>1, <3>2 DEF Errand
  <2>. QED  BY <2>2, <2>3
<1>. QED  BY <1>1, <1>2

LEMMA MovesOn ==
  ASSUME AdminInv, NEW c \in Clerks, NEW at \in {"checked", "created", "done", "failed"}, Moves(c, at)
  PROVE  \E e \in ErrandType :
           /\ errands' = [errands EXCEPT ![c] = e] /\ e.at = at
           /\ e.op = errands[c].op /\ e.what = errands[c].what
           /\ e.asked = errands[c].asked /\ e.snap = errands[c].snap
<1>. DEFINE e == [errands[c] EXCEPT !.at = at]
<1>1. errands[c] \in ErrandType
  BY DEF AdminInv
<1>2. e \in ErrandType /\ e.at = at /\ e.op = errands[c].op /\ e.what = errands[c].what
      /\ e.asked = errands[c].asked /\ e.snap = errands[c].snap
  BY <1>1 DEF ErrandType
<1>3. errands' = [errands EXCEPT ![c] = e]
  BY DEF Moves
<1>. HIDE DEF e
<1>. QED  BY <1>2, <1>3

(* A step that issues no key, and tells the pages nothing.                 *)
LEMMA WorkGoesOn ==
  ASSUME AdminInv, NEW c \in Clerks, NEW at \in {"checked", "created", "done", "failed"}, Moves(c, at),
         UNCHANGED <<keyVars, pageVars>>, TablesHold', userRows' \subseteq accounts',
         accounts \subseteq accounts', userRows \subseteq userRows',
         \A s \in Slugs : named[s] # NoName => named'[s] # NoName,
         errands[c].op = "user" =>
           /\ at = "created" => errands[c].what \in accounts'
           /\ at = "done" => errands[c].what \in userRows',
         errands[c].op = "tenant" /\ at = "done" => named'[errands[c].what] # NoName,
         errands[c].op = "key" => at = "failed",
         errands[c].at # "rest"
  PROVE  AdminInv'
<1>1. PICK e \in ErrandType :
        /\ errands' = [errands EXCEPT ![c] = e] /\ e.at = at
        /\ e.op = errands[c].op /\ e.what = errands[c].what
        /\ e.asked = errands[c].asked /\ e.snap = errands[c].snap
  BY MovesOn
<1>2. TablesGrow
  BY DEF TablesGrow, AdminInv, KeysHold, keyVars
<1>3. Errand(errands[c])
  BY DEF AdminInv
<1>4. keys' = keys
  BY DEF keyVars
<1>5. Errand(e)'
  BY <1>1, <1>3, <1>4 DEF Errand
<1>6. KeysHold'
  BY DEF AdminInv, KeysHold, EarlierKeysRevoked, keyVars
<1>7. PagesHold'
  BY DEF AdminInv, PagesHold, pageVars, keyVars
<1>8. RowHasAccount'
  <2>1. form1' = form1 /\ (form1.said = "created" =>
                             form1.about \in userRows \cup {s \in Slugs : named[s] # NoName})
    BY DEF AdminInv, RowHasAccount, pageVars
  <2>. QED  BY <2>1 DEF RowHasAccount
<1>9. errands' \in [Clerks -> ErrandType] /\ \A d \in Clerks : Errand(errands[d])'
  BY <1>1, <1>2, <1>5, ErrandGoesOn
<1>. QED  BY <1>6, <1>7, <1>8, <1>9 DEF AdminInv

(* A step of the pages alone.                                              *)
LEMMA PagesGoOn ==
  ASSUME AdminInv, NEW c \in Clerks, NEW e \in ErrandType, Errand(e),
         errands' = [errands EXCEPT ![c] = e],
         UNCHANGED <<accounts, userRows, named, keyVars, undone>>,
         PagesHold',
         form1'.said = "created" =>
           form1'.about \in userRows \cup {s \in Slugs : named[s] # NoName}
  PROVE  AdminInv'
<1>1. TablesGrow
  BY DEF TablesGrow, AdminInv, KeysHold, keyVars
<1>2. errands' \in [Clerks -> ErrandType] /\ \A d \in Clerks : Errand(errands[d])'
  BY <1>1, ErrandKept, ErrandGoesOn
<1>3. KeysHold' /\ TablesHold'
  BY DEF AdminInv, KeysHold, TablesHold, EarlierKeysRevoked, keyVars
<1>4. RowHasAccount'
  BY DEF AdminInv, RowHasAccount
<1>. QED  BY <1>2, <1>3, <1>4 DEF AdminInv

LEMMA UsersWork ==
  ASSUME AdminInv, NEW c \in Clerks, UserChecked(c) \/ AccountCreated(c) \/ UserCommitted(c)
  PROVE  AdminInv'
<1>. USE DEF In
<1>1. errands[c] \in ErrandType /\ Errand(errands[c])
      /\ TablesHold /\ userRows \subseteq accounts
  BY DEF AdminInv, RowHasAccount
<1>2. CASE UserChecked(c)
  <2>1. PICK at \in {"checked", "failed"} : Moves(c, at)
    BY <1>2 DEF UserChecked
  <2>2. TablesHold' /\ userRows' = userRows /\ accounts' = accounts /\ named' = named
    BY <1>1, <1>2 DEF UserChecked, TablesHold
  <2>3. errands[c].op = "user" /\ errands[c].at = "sent" /\ UNCHANGED <<keyVars, pageVars>>
    BY <1>2 DEF UserChecked
  <2>. QED  BY <1>1, <2>1, <2>2, <2>3, WorkGoesOn
<1>3. CASE AccountCreated(c)
  <2>1. errands[c].op = "user" /\ errands[c].at = "checked" /\ UNCHANGED <<keyVars, pageVars>>
        /\ UNCHANGED <<userRows, named, undone>>
    BY <1>3 DEF AccountCreated
  <2>2. PICK reached \in BOOLEAN, answered \in BOOLEAN :
          /\ accounts' = IF reached THEN accounts \cup {errands[c].what} ELSE accounts
          /\ Moves(c, IF GoesOn(reached /\ answered /\ errands[c].what \notin accounts)
                      THEN "created" ELSE "failed")
    BY <1>3 DEF AccountCreated
  <2>3. PICK at \in {"created", "failed"} :
          /\ Moves(c, at) /\ (at = "created" => reached)
    BY <2>2 DEF GoesOn
  <2>4. errands[c].what \in Emails
    BY <1>1, <2>1 DEF Errand
  <2>5. TablesHold' /\ userRows' \subseteq accounts' /\ accounts \subseteq accounts'
        /\ (at = "created" => errands[c].what \in accounts')
    BY <1>1, <2>1, <2>2, <2>3, <2>4 DEF TablesHold
  <2>. QED  BY <2>1, <2>3, <2>5, WorkGoesOn
<1>4. CASE UserCommitted(c)
  <2>1. errands[c].op = "user" /\ errands[c].at = "created" /\ UNCHANGED <<keyVars, pageVars>>
        /\ UNCHANGED <<accounts, named>>
    BY <1>4 DEF UserCommitted
  <2>2. errands[c].what \in Emails /\ errands[c].what \in accounts
    BY <1>1, <2>1 DEF Errand
  <2>3. \/ Moves(c, "failed") /\ undone' = undone \cup {errands[c].what} /\ userRows' = userRows
        \/ Moves(c, "done") /\ userRows' = userRows \cup {errands[c].what} /\ undone' = undone
    BY <1>4 DEF UserCommitted
  <2>4. TablesHold' /\ userRows' \subseteq accounts' /\ userRows \subseteq userRows'
    BY <1>1, <2>1, <2>2, <2>3 DEF TablesHold
  <2>5. PICK at \in {"failed", "done"} :
          Moves(c, at) /\ (at = "done" => errands[c].what \in userRows')
    BY <2>3
  <2>. QED  BY <2>1, <2>4, <2>5, WorkGoesOn
<1>. QED  BY <1>2, <1>3, <1>4

LEMMA TenantsWork ==
  ASSUME AdminInv, NEW c \in Clerks, TenantChecked(c) \/ TenantCommitted(c)
  PROVE  AdminInv'
<1>. USE DEF In
<1>1. errands[c] \in ErrandType /\ Errand(errands[c])
      /\ TablesHold /\ userRows \subseteq accounts
  BY DEF AdminInv, RowHasAccount
<1>2. errands[c].op = "tenant" /\ errands[c].at \in {"sent", "checked"}
      /\ UNCHANGED <<keyVars, pageVars, accounts, userRows, undone>>
  BY DEF TenantChecked, TenantCommitted
<1>3. PICK at \in {"checked", "failed", "done"} :
        /\ Moves(c, at) /\ named' \in {named, [named EXCEPT ![errands[c].what] = c]}
        /\ at = "done" => named' = [named EXCEPT ![errands[c].what] = c]
  BY DEF TenantChecked, TenantCommitted
<1>4. errands[c].what \in Slugs /\ c # NoName
  BY <1>1, <1>2, AdminAssumption DEF Errand, AdminAssumption, Clerks
<1>5. /\ named' \in [Slugs -> Clerks \cup {NoName}]
      /\ at = "done" => named'[errands[c].what] # NoName
      /\ \A s \in Slugs : named[s] # NoName => named'[s] # NoName
  BY <1>1, <1>3, <1>4 DEF TablesHold
<1>6. TablesHold' /\ userRows' \subseteq accounts'
  BY <1>1, <1>2, <1>5 DEF TablesHold
<1>. QED  BY <1>2, <1>3, <1>5, <1>6, WorkGoesOn

LEMMA KeysWork ==
  ASSUME AdminInv, NEW c \in Clerks, KeysSeen(c) \/ KeyCommitted(c)
  PROVE  AdminInv'
<1>. USE DEF In
<1>1. errands[c] \in ErrandType /\ Errand(errands[c]) /\ errands[c].op = "key"
      /\ TablesHold /\ userRows \subseteq accounts /\ KeysHold /\ PagesHold
      /\ errands \in [Clerks -> ErrandType]
  BY DEF AdminInv, RowHasAccount, KeysSeen, KeyCommitted
<1>2. CASE KeysSeen(c)
  <2>. DEFINE e == [errands[c] EXCEPT !.at = "seen", !.snap = DOMAIN prior]
  <2>1. errands' = [errands EXCEPT ![c] = e]
    BY <1>1, <1>2 DEF KeysSeen, ErrandType
  <2>2. 1..keys \in SUBSET Nat /\ DOMAIN prior = 1..keys
    BY <1>1 DEF KeysHold
  <2>3. e \in ErrandType /\ e.op = "key" /\ e.at = "seen" /\ e.asked = errands[c].asked
        /\ e.snap = 1..keys
    BY <1>1, <2>2 DEF ErrandType
  <2>. HIDE DEF e
  <2>4. Errand(e)
    BY <1>1, <2>3 DEF Errand
  <2>5. UNCHANGED <<accounts, userRows, named, keyVars, undone, pageVars>>
    BY <1>2 DEF KeysSeen, keyVars
  <2>6. PagesHold'
    BY <1>1, <2>5 DEF PagesHold, pageVars, keyVars
  <2>7. form1' = form1
    BY <2>5 DEF pageVars
  <2>8. form1'.said = "created" =>
          form1'.about \in userRows \cup {s \in Slugs : named[s] # NoName}
    BY <2>7 DEF AdminInv, RowHasAccount
  <2>. QED  BY <2>1, <2>3, <2>4, <2>5, <2>6, <2>8, PagesGoOn
<1>3. CASE KeyCommitted(c) /\ ~Moves(c, "failed")
  <2>1. /\ errands[c].at = "seen" /\ keys' = keys + 1 /\ active1' = LeftActive(c)
        /\ prior' = [k \in 1..(keys + 1) |-> IF k = keys + 1 THEN errands[c].asked ELSE prior[k]]
        /\ errands' = [errands EXCEPT ![c].at = "done", ![c].snap = {keys + 1}]
        /\ UNCHANGED <<accounts, userRows, named, undone, pageVars>>
    BY <1>3 DEF KeyCommitted
  <2>. DEFINE done == [errands[c] EXCEPT !.at = "done", !.snap = {keys + 1}]
  <2>3. keys \in Nat /\ keys + 1 \in Nat /\ keys < keys + 1
        /\ 1..keys \subseteq 1..keys + 1 /\ keys + 1 \notin 1..keys /\ keys + 1 \in 1..keys + 1
        /\ 1..keys + 1 = 1..keys \cup {keys + 1}
    BY <1>1 DEF KeysHold
  <2>2. done \in ErrandType /\ done.op = "key" /\ done.at = "done" /\ done.asked = errands[c].asked
         /\ done.snap = {keys + 1} /\ errands' = [errands EXCEPT ![c] = done]
    BY <1>1, <2>1, <2>3 DEF ErrandType
  <2>. HIDE DEF done
  <2>4. PICK e \in ErrandType :
          /\ e.op = "key" /\ e.at = "done" /\ e.asked = errands[c].asked
          /\ e.snap = {keys + 1} /\ errands' = [errands EXCEPT ![c] = e]
    BY <2>2
  <2>5. Errand(e)'
    <3>1. e.asked \subseteq 1..keys
      BY <1>1, <2>4 DEF Errand
    <3>2. e.asked \subseteq 1..keys' /\ e.snap \subseteq 1..keys' /\ \E k \in 1..keys' : e.snap = {k}
      BY <2>1, <2>3, <2>4, <3>1
    <3>. QED  BY <2>4, <3>2 DEF Errand
  <2>6. TablesGrow
    BY <2>1, <2>3 DEF TablesGrow, pageVars
  <2>7. errands[c].asked \subseteq errands[c].snap /\ errands[c].asked \subseteq 1..keys
    BY <1>1, <2>1 DEF Errand
  <2>8. KeysHold'
    <3>1. active1' = (active1 \ errands[c].snap) \cup {keys + 1}
      BY <2>1 DEF LeftActive, Revoked
    <3>2. active1 \subseteq 1..keys /\ \A k \in 1..keys : prior[k] \subseteq 1..keys
          /\ prior[k] \cap active1 = {}
      BY <1>1 DEF KeysHold, EarlierKeysRevoked
    <3>3. active1' \subseteq 1..keys + 1 /\ keys + 1 \in active1'
      BY <2>3, <3>1, <3>2
    <3>4. DOMAIN prior' = 1..keys + 1 /\ prior'[keys + 1] = errands[c].asked
          /\ \A k \in 1..keys : prior'[k] = prior[k]
      BY <2>1, <2>3
    <3>5. ASSUME NEW k \in 1..keys + 1
          PROVE  prior'[k] \subseteq 1..keys + 1 /\ prior'[k] \cap active1' = {}
      <4>1. CASE k = keys + 1
        BY <2>3, <2>7, <3>1, <3>4, <4>1
      <4>2. CASE k \in 1..keys
        BY <2>3, <3>1, <3>2, <3>4, <4>2
      <4>. QED  BY <2>3, <4>1, <4>2
    <3>6. keys + 1 \in Nat \ {0}
      BY <2>3
    <3>. QED  BY <2>1, <3>3, <3>4, <3>5, <3>6 DEF KeysHold, EarlierKeysRevoked
  <2>9. PagesHold'
    <3>1. settings' = settings /\ form1' = form1
      BY <2>1 DEF pageVars
    <3>2. settings.key \in Nat /\ settings.meta \in Nat /\ settings.key <= keys /\ settings.meta <= keys
      BY <1>1 DEF PagesHold, SettingsType
    <3>3. settings.key <= keys + 1 /\ settings.meta <= keys + 1
      BY <2>3, <3>2
    <3>. QED  BY <1>1, <2>1, <3>1, <3>3 DEF PagesHold
  <2>10. RowHasAccount' /\ TablesHold'
    BY <2>1 DEF AdminInv, RowHasAccount, TablesHold, pageVars
  <2>11. errands' \in [Clerks -> ErrandType] /\ \A d \in Clerks : Errand(errands[d])'
    BY <2>4, <2>5, <2>6, ErrandGoesOn
  <2>. QED  BY <2>8, <2>9, <2>10, <2>11 DEF AdminInv
<1>4. CASE KeyCommitted(c) /\ Moves(c, "failed")
  <2>1. errands'[c].at = "failed"
    BY <1>1, <1>4 DEF Moves, ErrandType
  <2>2. errands' # [errands EXCEPT ![c].at = "done", ![c].snap = {keys + 1}]
    BY <1>1, <2>1 DEF ErrandType
  <2>3. UNCHANGED <<keyVars, pageVars, accounts, userRows, named, undone>> /\ errands[c].at = "seen"
    BY <1>4, <2>2 DEF KeyCommitted
  <2>4. TablesHold' /\ userRows' \subseteq accounts'
    BY <1>1, <2>3 DEF TablesHold
  <2>. QED  BY <1>1, <1>4, <2>3, <2>4, WorkGoesOn
<1>. QED  BY <1>2, <1>3, <1>4

LEMMA MaxIsIn ==
  ASSUME NEW n \in Nat, NEW S \in SUBSET (1..n), n \in S
  PROVE  Max(S) \in Nat /\ Max(S) <= n
<1>1. \A x \in S : n >= x
  OBVIOUS
<1>2. Max(S) \in S
  BY <1>1 DEF Max
<1>3. PICK m \in 1..n : m = Max(S)
  BY <1>2
<1>. QED  BY <1>3

LEMMA AnswersHeard ==
  ASSUME AdminInv, NEW c \in Clerks, Answered1(c)
  PROVE  AdminInv'
<1>1. errands[c] \in ErrandType /\ Errand(errands[c]) /\ PagesHold /\ KeysHold
  BY DEF AdminInv
<1>2. PICK heard \in BOOLEAN :
        /\ errands[c].at \in {"done", "failed"} /\ errands' = [errands EXCEPT ![c] = Idle1]
        /\ form1' = IF c = "console" /\ errands[c].op # "key"
                    THEN [said |-> Says(errands[c], heard), about |-> errands[c].what] ELSE form1
        /\ settings' = IF c = "console" /\ errands[c].op = "key"
                       THEN KeyShown(errands[c], heard) ELSE settings
        /\ UNCHANGED <<accounts, userRows, named, keyVars, undone>>
  BY DEF Answered1
<1>3. Idle1 \in ErrandType /\ Errand(Idle1)
  BY DEF Idle1, ErrandType, Errand
<1>4. form1'.said = "created" =>
        form1'.about \in userRows \cup {s \in Slugs : named[s] # NoName}
  <2>1. CASE form1' = form1
    BY <2>1 DEF AdminInv, RowHasAccount
  <2>2. CASE errands[c].op # "key" /\ form1' = [said |-> Says(errands[c], heard), about |-> errands[c].what]
    <3>1. form1'.said = "created" => errands[c].at = "done"
      BY <2>2 DEF Says
    <3>2. errands[c].at = "done" =>
            errands[c].what \in userRows \cup {s \in Slugs : named[s] # NoName}
      BY <1>1, <2>2 DEF Errand, ErrandType
    <3>3. form1'.about = errands[c].what
      BY <2>2
    <3>. QED  BY <3>1, <3>2, <3>3
  <2>. QED  BY <1>2, <2>1, <2>2
<1>5. form1' \in [said : {"nothing", "created", "error"}, about : Emails \cup Slugs \cup {NoName}]
  <2>1. Says(errands[c], heard) \in {"created", "error"}
    BY DEF Says
  <2>2. errands[c].what \in Emails \cup Slugs \cup {NoName}
    BY <1>1 DEF ErrandType
  <2>. QED  BY <1>1, <1>2, <2>1, <2>2 DEF PagesHold
<1>6. settings' \in SettingsType /\ settings'.key <= keys /\ settings'.meta <= keys
  <2>1. CASE settings' = settings
    BY <1>1, <2>1 DEF PagesHold
  <2>2. CASE errands[c].op = "key" /\ errands[c].at = "done"
             /\ settings' = [settings EXCEPT !.key = Max(errands[c].snap), !.confirm = FALSE, !.metaReq = "asked"]
    <3>1. PICK k \in 1..keys : errands[c].snap = {k}
      BY <1>1, <2>2 DEF Errand
    <3>2. Max(errands[c].snap) \in Nat /\ Max(errands[c].snap) <= k /\ k <= keys /\ k \in Nat /\ keys \in Nat
      BY <1>1, <3>1, MaxIsIn DEF KeysHold
    <3>3. Max(errands[c].snap) <= keys
      BY <3>2
    <3>. QED  BY <1>1, <2>2, <3>2, <3>3 DEF PagesHold, SettingsType
  <2>. QED  BY <1>2, <2>1, <2>2 DEF KeyShown
<1>7. PagesHold'
  BY <1>2, <1>5, <1>6 DEF PagesHold, keyVars
<1>. QED  BY <1>2, <1>3, <1>4, <1>7, PagesGoOn

LEMMA AdminSteps ==
  ASSUME AdminInv, AdminNext
  PROVE  AdminInv'
<1>1. /\ errands \in [Clerks -> ErrandType] /\ \A c \in Clerks : Errand(errands[c])
      /\ PagesHold /\ KeysHold /\ TablesHold
      /\ form1.said = "created" => form1.about \in userRows \cup {s \in Slugs : named[s] # NoName}
  BY DEF AdminInv, RowHasAccount
<1>2. CASE AskToRoll \/ MetaSettles
  <2>1. UNCHANGED <<errands, accounts, userRows, named, keyVars, undone, form1>>
    BY <1>2 DEF AskToRoll, MetaSettles
  <2>2. Max(active1) \in Nat /\ Max(active1) <= keys
    BY <1>1, MaxIsIn DEF KeysHold
  <2>3. settings' \in SettingsType /\ settings'.key <= keys /\ settings'.meta <= keys
    <3>1. settings \in SettingsType /\ settings.key <= keys /\ settings.meta <= keys
      BY <1>1 DEF PagesHold
    <3>2. settings' \in {[settings EXCEPT !.confirm = ~settings.confirm],
                         [settings EXCEPT !.metaReq = "none", !.meta = Max(active1)],
                         [settings EXCEPT !.metaReq = "none"]}
      BY <1>2 DEF AskToRoll, MetaSettles
    <3>. QED  BY <2>2, <3>1, <3>2 DEF SettingsType
  <2>4. PagesHold'
    BY <1>1, <2>1, <2>3 DEF PagesHold, keyVars
  <2>5. PICK c \in Clerks : errands' = [errands EXCEPT ![c] = errands[c]]
    BY <1>1, <2>1 DEF Clerks
  <2>. QED  BY <1>1, <2>1, <2>4, <2>5, PagesGoOn
<1>3. ASSUME NEW c \in Clerks, Stops(c) PROVE AdminInv'
  <2>1. Moves(c, "failed") /\ errands[c].at # "rest"
        /\ UNCHANGED <<accounts, userRows, named, keyVars, undone, pageVars>>
    BY <1>3 DEF Stops
  <2>2. TablesHold' /\ userRows' \subseteq accounts'
    BY <1>1, <2>1 DEF TablesHold, AdminInv, RowHasAccount
  <2>. QED  BY <2>1, <2>2, WorkGoesOn
<1>4. ASSUME NEW c \in Clerks, NEW op \in {"user", "tenant", "key"},
             NEW what \in Emails \cup Slugs \cup {NoName}, Submit1(c, op, what),
             op = "user" => what \in Emails, op = "tenant" => what \in Slugs
      PROVE  AdminInv'
  <2>. DEFINE e == [op |-> op, at |-> "sent", what |-> what, snap |-> {},
                    asked |-> IF op = "key" THEN DOMAIN prior ELSE {}]
  <2>1. errands' = [errands EXCEPT ![c] = e]
        /\ UNCHANGED <<accounts, userRows, named, keyVars, undone, settings>>
        /\ form1' \in {Unsaid, form1}
    BY <1>4 DEF Submit1
  <2>2. DOMAIN prior = 1..keys /\ 1..keys \in SUBSET Nat
    BY <1>1 DEF KeysHold
  <2>3. e \in ErrandType /\ Errand(e)
    BY <1>4, <2>2 DEF ErrandType, Errand
  <2>. HIDE DEF e
  <2>4. PagesHold'
    BY <1>1, <2>1 DEF PagesHold, keyVars, Unsaid
  <2>5. form1'.said = "created" =>
          form1'.about \in userRows \cup {s \in Slugs : named[s] # NoName}
    BY <1>1, <2>1 DEF Unsaid
  <2>. QED  BY <2>1, <2>3, <2>4, <2>5, PagesGoOn
<1>. QED
  BY <1>2, <1>3, <1>4, UsersWork, TenantsWork, KeysWork, AnswersHeard DEF AdminNext, Works

LEMMA AdminStarts == AdminInit => AdminInv
<1>. SUFFICES ASSUME AdminInit PROVE AdminInv
  OBVIOUS
<1>1. Idle1 \in ErrandType /\ Errand(Idle1)
  BY DEF Idle1, ErrandType, Errand
<1>2. errands \in [Clerks -> ErrandType] /\ \A c \in Clerks : errands[c] = Idle1
  BY <1>1 DEF AdminInit
<1>3. \A c \in Clerks : Errand(errands[c])
  BY <1>1, <1>2
<1>4. KeysHold
  <2>1. keys = 1 /\ active1 = {1} /\ prior = [k \in 1..1 |-> {}]
    BY DEF AdminInit
  <2>. QED  BY <2>1 DEF KeysHold, EarlierKeysRevoked
<1>5. PagesHold
  BY DEF AdminInit, PagesHold, SettingsType, Unsaid
<1>6. TablesHold /\ RowHasAccount
  BY DEF AdminInit, TablesHold, RowHasAccount, Unsaid
<1>. QED  BY <1>2, <1>3, <1>4, <1>5, <1>6 DEF AdminInv

LEMMA AdminHolds == AdminSpec => []AdminInv
<1>1. AdminInv /\ [AdminNext]_adminVars => AdminInv'
  <2>. SUFFICES ASSUME AdminInv, [AdminNext]_adminVars PROVE AdminInv'
    OBVIOUS
  <2>1. CASE UNCHANGED adminVars
    BY <2>1 DEF adminVars, AdminInv, Errand, KeysHold, PagesHold, TablesHold, RowHasAccount,
                EarlierKeysRevoked
  <2>. QED  BY <2>1, AdminSteps
<1>. QED  BY <1>1, AdminStarts, PTL DEF AdminSpec

LEMMA AdminTyped == AdminInv => AdminTypeOK /\ RowHasAccount /\ EarlierKeysRevoked
BY DEF AdminInv, AdminTypeOK, KeysHold, PagesHold, TablesHold, RowHasAccount, Errand

(* --------------------------- the pipeline page -------------------------- *)
(* The stream that is open is the one esRef names, so connect closes it;    *)
(* and the interval runs or not by what the effect last ran for, until a    *)
(* 401 stops it.                                                            *)
StreamHolds ==
  /\ es \in 0..3
  /\ (es = NoStream => streams = {}) /\ (es # NoStream => streams = {es})
  /\ mounted \in BOOLEAN /\ timer \in BOOLEAN
  /\ ~mounted => es = NoStream /\ ~timer
PollHolds ==
  /\ connected \in BOOLEAN /\ polling \in BOOLEAN /\ expired \in BOOLEAN
  /\ \A p, c \in BOOLEAN : mounted /\ ~expired /\ ran = <<p, c>> => interval = (p \/ ~c)
MonitorInv == StreamHolds /\ PollHolds

LEMMA StreamConnects ==
  ASSUME StreamHolds, PollHolds, mounted, Connect, UNCHANGED <<listVars, mounted, expired>>,
         timer' \in BOOLEAN
  PROVE  StreamHolds' /\ PollHolds'
<1>1. Unused \in 1..3 /\ Unused \notin streams
  <2>1. \E i \in 1..3 : i \notin streams
    <3>1. 1 \notin streams \/ 2 \notin streams
      BY DEF StreamHolds
    <3>. QED  BY <3>1
  <2>. QED  BY <2>1 DEF Unused
<1>2. es' \in 0..3 /\ (es' = NoStream => streams' = {}) /\ (es' # NoStream => streams' = {es'})
  <2>1. streams \ {es} = {}
    BY DEF StreamHolds
  <2>2. CASE streams' = Opened /\ es' = Unused
    BY <1>1, <2>1, <2>2 DEF Opened, NoStream
  <2>3. CASE streams' = streams \ {es} /\ es' = NoStream
    BY <2>1, <2>3 DEF NoStream
  <2>. QED  BY <2>2, <2>3 DEF Connect
<1>3. connected' \in BOOLEAN /\ polling' \in BOOLEAN
  BY DEF Connect, PollHolds
<1>. QED  BY <1>2, <1>3 DEF StreamHolds, PollHolds, listVars

LEMMA MonitorSteps == ASSUME MonitorInv, MonitorNext PROVE MonitorInv'
<1>. USE DEF MonitorInv
<1>1. CASE Mount
  BY <1>1, StreamConnects DEF Mount, StreamHolds
<1>2. CASE Reconnect
  BY <1>2, StreamConnects DEF Reconnect, StreamHolds
<1>3. CASE StreamOpens
  BY <1>3 DEF StreamOpens, StreamHolds, PollHolds, listVars
<1>4. CASE StreamFails
  <2>1. streams' = {} /\ es' = NoStream
    BY <1>4 DEF StreamFails, StreamHolds
  <2>2. StreamHolds'
    BY <1>4, <2>1 DEF StreamFails, StreamHolds, NoStream
  <2>. QED  BY <1>4, <2>2 DEF StreamFails, PollHolds, listVars
<1>5. CASE RunEffect
  <2>1. StreamHolds'
    BY <1>5 DEF RunEffect, StreamHolds, streamVars
  <2>2. \A p, c \in BOOLEAN : ran' = <<p, c>> => interval' = (p \/ ~c)
    BY <1>5 DEF RunEffect, ShouldPoll, PollHolds
  <2>. QED  BY <1>5, <2>1, <2>2 DEF RunEffect, PollHolds, streamVars
<1>6. CASE FetchFails
  <2>1. /\ UNCHANGED <<streamVars, ran, mounted>>
        /\ \/ UNCHANGED <<interval, expired>>
           \/ expired' = TRUE
    BY <1>6 DEF FetchFails
  <2>2. StreamHolds'
    BY <2>1 DEF StreamHolds, streamVars
  <2>3. PollHolds'
    BY <2>1 DEF PollHolds, streamVars
  <2>. QED  BY <2>2, <2>3
<1>7. CASE Unmount
  <2>1. streams' = {} /\ es' = NoStream
    BY <1>7 DEF Unmount, StreamHolds
  <2>2. StreamHolds'
    <3>1. mounted' = FALSE /\ timer' = FALSE
      BY <1>7 DEF Unmount, ClearTimer
    <3>2. es' \in 0..3
      BY <2>1 DEF NoStream
    <3>. QED  BY <2>1, <3>1, <3>2 DEF StreamHolds
  <2>. QED  BY <1>7, <2>2 DEF Unmount, PollHolds
<1>8. CASE HandleEvent \/ PollTick \/ ServeRuns \/ FetchArrives
  BY <1>8 DEF HandleEvent, PollTick, ServeRuns, FetchArrives, StreamHolds, PollHolds, streamVars
<1>9. CASE RunAppears \/ StepEnds \/ RunEnds
  <2>1. UNCHANGED <<streams, es, timer, connected, polling, ran, interval, mounted, expired>>
    BY <1>9 DEF RunAppears, StepEnds, RunEnds, streamVars, listVars
  <2>. QED  BY <2>1 DEF StreamHolds, PollHolds
<1>. QED  BY <1>1, <1>2, <1>3, <1>4, <1>5, <1>6, <1>7, <1>8, <1>9 DEF MonitorNext

LEMMA MonitorHolds == MonitorSpec => []MonitorInv
<1>1. MonitorInit => MonitorInv
  <2>. SUFFICES ASSUME MonitorInit PROVE MonitorInv
    OBVIOUS
  <2>1. StreamHolds
    <3>1. es \in 0..3
      BY DEF MonitorInit, NoStream
    <3>. QED  BY <3>1 DEF MonitorInit, StreamHolds
  <2>2. \A p, c \in BOOLEAN : ran # <<p, c>>
    <3>1. \A p, c \in BOOLEAN : Len(<<p, c>>) = 2 /\ Len(<<>>) = 0
      OBVIOUS
    <3>. QED  BY <3>1 DEF MonitorInit, NotRun
  <2>. QED  BY <2>1, <2>2 DEF MonitorInit, MonitorInv, PollHolds
<1>2. MonitorInv /\ [MonitorNext]_monitorVars => MonitorInv'
  <2>. SUFFICES ASSUME MonitorInv, [MonitorNext]_monitorVars PROVE MonitorInv'
    OBVIOUS
  <2>1. CASE UNCHANGED monitorVars
    BY <2>1 DEF monitorVars, streamVars, listVars, MonitorInv, StreamHolds, PollHolds
  <2>. QED  BY <2>1, MonitorSteps
<1>. QED  BY <1>1, <1>2, PTL DEF MonitorSpec

LEMMA MonitorKept == MonitorInv => OneStream /\ PollsWhileBlind
<1>. SUFFICES ASSUME MonitorInv PROVE OneStream /\ PollsWhileBlind
  OBVIOUS
<1>1. Cardinality({}) = 0 /\ Cardinality({es}) = 1
  BY FS_EmptySet, FS_Singleton
<1>2. OneStream
  BY <1>1 DEF MonitorInv, StreamHolds, OneStream
<1>3. PollsWhileBlind
  BY DEF MonitorInv, PollHolds, PollsWhileBlind
<1>. QED  BY <1>2, <1>3

(* What is under way names runs that there are.                             *)
EventType == [run : Runs, kind : Kinds, last : BOOLEAN]
FetchTable == [Fetches -> [pc : {"none", "asked", "served"}, rows : MonitorTables]]
MonTables == runs \in MonitorTables /\ jobs \in MonitorTables /\ fetches \in FetchTable
MonEvents == events \in Seq(EventType) /\ Len(events) <= MaxEvents
MonFlags ==
  interval \in BOOLEAN /\ fetchError \in BOOLEAN /\ ran \in {NotRun} \cup (BOOLEAN \X BOOLEAN)
MonFaults == monitorFaults \in 0..MaxFaults

LEMMA MonitorTypes ==
  ASSUME MonitorInv, MonTables, MonEvents, MonFlags, MonFaults
  PROVE  MonitorTypeOK
<1>1. \A i \in 1..Len(events) : events[i] \in EventType
  BY DEF MonEvents
<1>2. streams \subseteq 1..3 /\ es \in {NoStream} \cup streams
  <2>1. es \in 0..3 /\ (es = NoStream => streams = {}) /\ (es # NoStream => streams = {es})
    BY DEF MonitorInv, StreamHolds
  <2>. QED  BY <2>1 DEF NoStream
<1>3. {timer, connected, polling, interval, fetchError, mounted, expired} \subseteq BOOLEAN
  <2>1. /\ timer \in BOOLEAN /\ connected \in BOOLEAN /\ polling \in BOOLEAN /\ interval \in BOOLEAN
        /\ fetchError \in BOOLEAN /\ mounted \in BOOLEAN /\ expired \in BOOLEAN
    BY DEF MonitorInv, StreamHolds, PollHolds, MonFlags
  <2>. QED  BY <2>1, Zenon
<1>4. Len(events) <= MaxEvents
  BY DEF MonEvents
<1>. QED  BY <1>1, <1>2, <1>3, <1>4
          DEF MonTables, MonFlags, MonFaults, MonitorTypeOK, FetchTable, EventType

LEMMA MonTablesStep ==
  ASSUME MonTables, MonEvents, [MonitorNext]_monitorVars
  PROVE  MonTables'
<1>0. runs \in MonitorTables /\ jobs \in MonitorTables /\ fetches \in FetchTable
  BY DEF MonTables
<1>a. NoFetch \in [pc : {"none", "asked", "served"}, rows : MonitorTables]
  BY DEF NoFetch, Fetch, NoRuns, MonitorTables, Statuses
<1>b. ASSUME UNCHANGED <<runs, jobs>>, Ask PROVE MonTables'
  <2>1. PICK f \in Fetches : fetches' = [fetches EXCEPT ![f].pc = "asked"]
    BY <1>b DEF Ask
  <2>2. fetches' \in FetchTable
    BY <1>0, <2>1 DEF FetchTable
  <2>. QED  BY <1>0, <1>b, <2>2 DEF MonTables, MonitorTables, FetchTable
<1>c. ASSUME UNCHANGED <<runs, fetches, jobs>> PROVE MonTables'
  BY <1>0, <1>c DEF MonTables, MonitorTables, FetchTable
<1>1. CASE Mount \/ StreamOpens \/ StreamFails \/ Reconnect \/ Unmount \/ StepEnds \/ UNCHANGED monitorVars
  BY <1>1, <1>c DEF Mount, StreamOpens, StreamFails, Reconnect, Unmount, StepEnds, listVars,
                    monitorVars
<1>2. CASE HandleEvent
  <2>1. UNCHANGED <<runs, fetches>> /\ jobs' = Applied(Head(events)) /\ events # <<>>
    BY <1>2 DEF HandleEvent
  <2>2. Head(events) \in EventType
    BY <2>1 DEF MonEvents
  <2>3. jobs' \in MonitorTables
    BY <1>0, <2>1, <2>2 DEF Applied, EventType, MonitorTables, Statuses
  <2>. QED  BY <1>0, <2>1, <2>3 DEF MonTables, FetchTable
<1>3. CASE RunEffect \/ PollTick
  BY <1>3, <1>b DEF RunEffect, PollTick
<1>4. CASE ServeRuns
  <2>1. PICK f \in Fetches : fetches' = [fetches EXCEPT ![f] = Fetch("served", runs)]
    BY <1>4 DEF ServeRuns
  <2>2. Fetch("served", runs) \in [pc : {"none", "asked", "served"}, rows : MonitorTables]
    BY <1>0 DEF Fetch
  <2>3. fetches' \in FetchTable
    BY <1>0, <2>1, <2>2 DEF FetchTable
  <2>. QED  BY <1>0, <1>4, <2>3 DEF ServeRuns, MonTables
<1>5. ASSUME NEW f \in Fetches, fetches' = [fetches EXCEPT ![f] = NoFetch], runs' = runs,
             jobs' \in {jobs, fetches[f].rows}
      PROVE  MonTables'
  <2>1. fetches' \in FetchTable
    BY <1>0, <1>5, <1>a DEF FetchTable
  <2>2. fetches[f].rows \in MonitorTables
    BY <1>0 DEF FetchTable
  <2>. QED  BY <1>0, <1>5, <2>1, <2>2 DEF MonTables
<1>6. CASE FetchArrives
  <2>1. \E f \in Fetches : fetches' = [fetches EXCEPT ![f] = NoFetch] /\ runs' = runs
                             /\ jobs' \in {jobs, fetches[f].rows}
    BY <1>6 DEF FetchArrives, Ingested
  <2>. QED  BY <1>5, <2>1
<1>7. CASE FetchFails
  BY <1>5, <1>7 DEF FetchFails
<1>8. CASE RunAppears \/ RunEnds
  <2>1. /\ \E r \in Runs : runs' = [runs EXCEPT ![r] = "COMPLETED"]
        /\ UNCHANGED <<fetches, jobs>>
    BY <1>8 DEF RunAppears, RunEnds, listVars
  <2>2. runs' \in MonitorTables
    BY <1>0, <2>1 DEF MonitorTables, Statuses
  <2>. QED  BY <1>0, <2>1, <2>2 DEF MonTables
<1>. QED  BY <1>1, <1>2, <1>3, <1>4, <1>6, <1>7, <1>8 DEF MonitorNext

LEMMA MonEventsStep ==
  ASSUME MonEvents, MonTables, [MonitorNext]_monitorVars
  PROVE  MonEvents'
<1>0. events \in Seq(EventType) /\ Len(events) <= MaxEvents /\ MaxEvents \in Nat
  BY MonitorAssumption DEF MonEvents, MonitorAssumption
<1>a. ASSUME UNCHANGED events PROVE MonEvents'
  BY <1>0, <1>a DEF MonEvents, EventType
<1>b. ASSUME events' = <<>> PROVE MonEvents'
  <2>1. <<>> \in Seq(EventType) /\ Len(<<>>) = 0
    OBVIOUS
  <2>. QED  BY <1>0, <1>b, <2>1 DEF MonEvents
<1>c. ASSUME NEW e \in EventType, Told(<<e>>) PROVE MonEvents'
  <2>1. events' = events \/ (Len(events) + Len(<<e>>) <= MaxEvents /\ events' = events \o <<e>>)
    BY <1>c DEF Told
  <2>2. CASE Len(events) + Len(<<e>>) <= MaxEvents /\ events' = events \o <<e>>
    <3>1. events \o <<e>> \in Seq(EventType) /\ Len(events \o <<e>>) = Len(events) + Len(<<e>>)
      BY <1>0
    <3>. QED  BY <2>2, <3>1 DEF MonEvents
  <2>. QED  BY <1>a, <2>1, <2>2
<1>1. CASE Mount \/ Reconnect \/ StreamFails \/ Unmount
  BY <1>1, <1>a, <1>b DEF Mount, Reconnect, StreamFails, Unmount, Connect
<1>2. CASE HandleEvent
  <2>1. events # <<>> /\ events' = Tail(events)
    BY <1>2 DEF HandleEvent
  <2>2. Tail(events) \in Seq(EventType) /\ Len(Tail(events)) = Len(events) - 1 /\ Len(events) \in Nat
    BY <1>0, <2>1
  <2>. QED  BY <1>0, <2>1, <2>2 DEF MonEvents
<1>3. CASE StreamOpens \/ RunEffect \/ PollTick \/ ServeRuns
  BY <1>3, <1>a DEF StreamOpens, RunEffect, PollTick, ServeRuns, streamVars
<1>4. CASE FetchArrives \/ FetchFails \/ RunAppears \/ UNCHANGED monitorVars
  BY <1>4, <1>a DEF FetchArrives, FetchFails, RunAppears, streamVars, monitorVars
<1>5. CASE StepEnds
  <2>1. PICK r \in Runs, last \in BOOLEAN : Told(<<[run |-> r, kind |-> "progress", last |-> last]>>)
    BY <1>5 DEF StepEnds
  <2>2. [run |-> r, kind |-> "progress", last |-> last] \in EventType
    BY DEF EventType, Kinds
  <2>. QED  BY <1>c, <2>1, <2>2
<1>6. CASE RunEnds
  <2>1. PICK r \in Runs : Told(<<[run |-> r, kind |-> "complete", last |-> TRUE]>>)
    BY <1>6 DEF RunEnds
  <2>2. [run |-> r, kind |-> "complete", last |-> TRUE] \in EventType
    BY DEF EventType, Kinds
  <2>. QED  BY <1>c, <2>1, <2>2
<1>. QED  BY <1>1, <1>2, <1>3, <1>4, <1>5, <1>6 DEF MonitorNext

LEMMA MonFlagsStep ==
  ASSUME MonitorInv, MonFlags, [MonitorNext]_monitorVars
  PROVE  MonFlags'
<1>0. /\ interval \in BOOLEAN /\ fetchError \in BOOLEAN /\ ran \in {NotRun} \cup (BOOLEAN \X BOOLEAN)
      /\ polling \in BOOLEAN /\ connected \in BOOLEAN /\ mounted \in BOOLEAN
  BY DEF MonFlags, MonitorInv, PollHolds, StreamHolds
<1>1. CASE Mount \/ StreamOpens \/ StreamFails \/ Reconnect \/ HandleEvent
  BY <1>0, <1>1 DEF Mount, StreamOpens, StreamFails, Reconnect, HandleEvent, listVars, MonFlags
<1>2. CASE PollTick \/ ServeRuns \/ RunAppears \/ StepEnds \/ RunEnds \/ UNCHANGED monitorVars
  BY <1>0, <1>2 DEF PollTick, ServeRuns, RunAppears, StepEnds, RunEnds, listVars, monitorVars, MonFlags
<1>3. CASE RunEffect
  <2>1. ran' = <<polling, connected>> /\ interval' = (polling \/ ~connected) /\ fetchError' = fetchError
    BY <1>3 DEF RunEffect, ShouldPoll
  <2>2. ran' \in BOOLEAN \X BOOLEAN
    BY <1>0, <2>1
  <2>3. interval' \in BOOLEAN
    BY <1>0, <2>1, Zenon
  <2>. QED  BY <1>0, <2>1, <2>2, <2>3 DEF MonFlags, NotRun
<1>4. CASE FetchArrives \/ FetchFails
  <2>1. ran' = ran /\ interval' \in {interval, FALSE} /\ fetchError' \in {fetchError, FALSE, mounted}
    BY <1>4 DEF FetchArrives, FetchFails
  <2>. QED  BY <1>0, <2>1 DEF MonFlags, NotRun
<1>5. CASE Unmount
  BY <1>0, <1>5 DEF Unmount, MonFlags
<1>. QED  BY <1>1, <1>2, <1>3, <1>4, <1>5 DEF MonitorNext

LEMMA MonFaultsStep ==
  ASSUME MonFaults, [MonitorNext]_monitorVars
  PROVE  MonFaults'
<1>0. monitorFaults \in 0..MaxFaults /\ MaxFaults \in Nat
  BY MonitorAssumption DEF MonFaults, MonitorAssumption
<1>1. \/ monitorFaults' = monitorFaults
      \/ monitorFaults < MaxFaults /\ monitorFaults' = monitorFaults + 1
  <2>1. CASE Mount \/ Reconnect
    BY <2>1 DEF Mount, Reconnect, Connect
  <2>2. CASE StreamFails \/ FetchFails
    BY <2>2 DEF StreamFails, FetchFails
  <2>3. CASE StreamOpens \/ HandleEvent \/ RunEffect \/ PollTick \/ ServeRuns \/ FetchArrives
    BY <2>3 DEF StreamOpens, HandleEvent, RunEffect, PollTick, ServeRuns, FetchArrives
  <2>4. CASE Unmount \/ RunAppears \/ StepEnds \/ RunEnds \/ UNCHANGED monitorVars
    BY <2>4 DEF Unmount, RunAppears, StepEnds, RunEnds, monitorVars
  <2>. QED  BY <2>1, <2>2, <2>3, <2>4 DEF MonitorNext
<1>. QED  BY <1>0, <1>1 DEF MonFaults

LEMMA MonTypedHold == MonitorSpec => [](MonTables /\ MonEvents /\ MonFlags /\ MonFaults)
<1>1. MonitorInit => MonTables /\ MonFlags
  <2>. SUFFICES ASSUME MonitorInit PROVE MonTables /\ MonFlags
    OBVIOUS
  <2>1. NoRuns \in MonitorTables /\ runs \in MonitorTables
    BY DEF MonitorInit, NoRuns, MonitorTables, Statuses
  <2>2. NoFetch \in [pc : {"none", "asked", "served"}, rows : MonitorTables]
    BY <2>1 DEF NoFetch, Fetch
  <2>3. fetches \in FetchTable
    BY <2>2 DEF MonitorInit, FetchTable
  <2>. QED  BY <2>1, <2>3 DEF MonitorInit, MonTables, MonFlags
<1>2. MonitorInit => MonEvents /\ MonFaults
  <2>. SUFFICES ASSUME MonitorInit PROVE MonEvents /\ MonFaults
    OBVIOUS
  <2>1. events = <<>> /\ <<>> \in Seq(EventType) /\ Len(<<>>) = 0
    BY DEF MonitorInit
  <2>2. monitorFaults = 0 /\ MaxFaults \in Nat /\ MaxEvents \in Nat
    BY MonitorAssumption DEF MonitorInit, MonitorAssumption
  <2>. QED  BY <2>1, <2>2 DEF MonEvents, MonFaults
<1>3. MonTables /\ MonEvents /\ [MonitorNext]_monitorVars => MonTables' /\ MonEvents'
  BY MonTablesStep, MonEventsStep
<1>4. MonitorInv /\ MonFlags /\ [MonitorNext]_monitorVars => MonFlags'
  BY MonFlagsStep
<1>5. MonFaults /\ [MonitorNext]_monitorVars => MonFaults'
  BY MonFaultsStep
<1>. QED  BY <1>1, <1>2, <1>3, <1>4, <1>5, MonitorHolds, PTL DEF MonitorSpec

(* ----------------------------- notifications ---------------------------- *)
(* What is on the screen is in the order in which it was raised.           *)
Ascending(ts, n) ==
  /\ ts \in Seq(1..n)
  /\ \A i, j \in 1..Len(ts) : i < j => ts[i] < ts[j]

LEMMA RoomMade ==
  ASSUME NEW n \in Nat, NEW ts, Ascending(ts, n)
  PROVE  /\ Ascending(RoomFor(ts), n) /\ Len(RoomFor(ts)) <= 2
         /\ \A t \in ToSet(ts) : t + 1 >= n => t \in ToSet(RoomFor(ts))
         /\ ToSet(RoomFor(ts)) \subseteq ToSet(ts)
<1>. DEFINE k == Len(ts)
            m == IF k < 2 THEN 1 ELSE k - 1
            newer == RoomFor(ts)
<1>1. ts \in Seq(1..n) /\ k \in Nat /\ \A i, j \in 1..k : i < j => ts[i] < ts[j]
  BY DEF Ascending
<1>2. newer = SubSeq(ts, m, k)
  BY DEF RoomFor
<1>3. m \in Nat /\ m >= 1 /\ k - m + 1 <= 2 /\ k - m + 1 >= 0 /\ k - m + 1 \in Nat
      /\ (k >= 2 => m = k - 1)
  BY <1>1
<1>4. \A i \in 1..k : ts[i] \in 1..n
  BY <1>1
<1>. HIDE DEF k, m
<1>5. \A i \in m..k : ts[i] \in 1..n
  BY <1>1, <1>3, <1>4
<1>6. /\ newer \in Seq(1..n) /\ Len(newer) = k - m + 1
      /\ \A i \in 1..k - m + 1 : newer[i] = ts[m + i - 1]
  <2>1. /\ SubSeq(ts, m, k) \in Seq(1..n)
        /\ Len(SubSeq(ts, m, k)) = IF m <= k THEN k - m + 1 ELSE 0
        /\ \A i \in 1..k - m + 1 : SubSeq(ts, m, k)[i] = ts[m + i - 1]
    BY <1>1, <1>3, <1>5, SubSeqProperties
  <2>. QED  BY <1>1, <1>2, <1>3, <2>1
<1>. HIDE DEF newer
<1>7. \A i \in 1..k - m + 1 : m + i - 1 \in 1..k
  BY <1>1, <1>3
<1>8. Ascending(newer, n)
  <2>1. ASSUME NEW i \in 1..k - m + 1, NEW j \in 1..k - m + 1, i < j PROVE newer[i] < newer[j]
    <3>1. m + i - 1 \in 1..k /\ m + j - 1 \in 1..k /\ m + i - 1 < m + j - 1
      BY <1>1, <1>3, <1>7, <2>1
    <3>. QED  BY <1>1, <1>6, <3>1
  <2>. QED  BY <1>6, <2>1 DEF Ascending
<1>9. ASSUME NEW t \in ToSet(ts), t + 1 >= n PROVE t \in ToSet(newer)
  <2>1. PICK i \in 1..k : ts[i] = t
    BY <1>1 DEF ToSet, k
  <2>2. i + 1 >= k
    <3>1. SUFFICES ASSUME i + 2 <= k PROVE FALSE
      BY <1>1, <2>1
    <3>3. i + 1 \in 1..k /\ i + 2 \in 1..k
      BY <1>1, <3>1
    <3>4. ts[i] < ts[i + 1] /\ ts[i + 1] < ts[i + 2]
      BY <1>1, <3>3
    <3>5. ts[i] \in 1..n /\ ts[i + 1] \in 1..n /\ ts[i + 2] \in 1..n
      BY <1>4, <3>3
    <3>. QED  BY <1>9, <2>1, <3>4, <3>5
  <2>3. i >= m
    <3>1. CASE k >= 2
      BY <1>1, <1>3, <2>1, <2>2, <3>1
    <3>2. CASE k < 2
      <4>1. m = 1
        BY <3>2 DEF m
      <4>. QED  BY <2>1, <4>1
    <3>. QED  BY <1>1, <3>1, <3>2
  <2>4. i - m + 1 \in 1..k - m + 1 /\ m + (i - m + 1) - 1 = i
    BY <1>1, <1>3, <2>1, <2>3
  <2>5. newer[i - m + 1] = t
    BY <1>6, <2>1, <2>4
  <2>. QED  BY <1>6, <2>4, <2>5 DEF ToSet
<1>10. ToSet(newer) \subseteq ToSet(ts)
  <2>1. \A i \in 1..k - m + 1 : newer[i] = ts[m + i - 1] /\ m + i - 1 \in 1..k
    BY <1>6, <1>7
  <2>2. DOMAIN newer = 1..k - m + 1 /\ DOMAIN ts = 1..k
    BY <1>1, <1>3, <1>6 DEF k
  <2>. QED  BY <2>1, <2>2 DEF ToSet
<1>. QED  BY <1>3, <1>6, <1>8, <1>9, <1>10 DEF newer

LEMMA OthersLeft ==
  ASSUME NEW n \in Nat, NEW ts, Ascending(ts, n), NEW t
  PROVE  /\ Ascending(OtherToasts(ts, t), n) /\ Len(OtherToasts(ts, t)) <= Len(ts)
         /\ ToSet(OtherToasts(ts, t)) = ToSet(ts) \ {t}
<1>. DEFINE k == Len(ts)
            left == OtherToasts(ts, t)
<1>1. ts \in Seq(1..n) /\ k \in Nat /\ (\A i, j \in 1..k : i < j => ts[i] < ts[j])
      /\ DOMAIN ts = 1..k
  BY DEF Ascending
<1>2. \A i \in 1..k : ts[i] \in 1..n
  BY <1>1
<1>3. CASE t \notin ToSet(ts)
  <2>1. left = ts
    BY <1>3 DEF OtherToasts
  <2>. QED  BY <1>1, <1>3, <2>1
<1>4. CASE t \in ToSet(ts)
  <2>1. PICK p \in 1..k : p = (CHOOSE i \in DOMAIN ts : ts[i] = t) /\ ts[p] = t
    <3>1. \E i \in DOMAIN ts : ts[i] = t
      BY <1>4 DEF ToSet
    <3>. QED  BY <1>1, <3>1
  <2>. HIDE DEF k
  <2>. DEFINE low == SubSeq(ts, 1, p - 1)
              high == SubSeq(ts, p + 1, k)
  <2>2. left = low \o high
    BY <1>4, <2>1 DEF OtherToasts, RemoveAt, k
  <2>3. /\ low \in Seq(1..n) /\ Len(low) = p - 1 /\ \A i \in 1..p - 1 : low[i] = ts[i]
    <3>1. p - 1 \in Int /\ 1 \in Int /\ \A i \in 1..p - 1 : ts[i] \in 1..n
      BY <1>1, <1>2, <2>1
    <3>2. /\ low \in Seq(1..n) /\ Len(low) = IF 1 <= p - 1 THEN p - 1 - 1 + 1 ELSE 0
          /\ \A i \in 1..p - 1 - 1 + 1 : low[i] = ts[1 + i - 1]
      BY <3>1, SubSeqProperties
    <3>3. p - 1 - 1 + 1 = p - 1 /\ (~(1 <= p - 1) => p - 1 = 0) /\ \A i \in 1..p - 1 : 1 + i - 1 = i
      BY <2>1
    <3>. QED  BY <3>2, <3>3
  <2>4. /\ high \in Seq(1..n) /\ Len(high) = k - p /\ \A i \in 1..k - p : high[i] = ts[p + i]
    <3>1. p + 1 \in Int /\ k \in Int /\ \A i \in p + 1..k : ts[i] \in 1..n
      BY <1>1, <1>2, <2>1
    <3>2. /\ high \in Seq(1..n) /\ Len(high) = IF p + 1 <= k THEN k - (p + 1) + 1 ELSE 0
          /\ \A i \in 1..k - (p + 1) + 1 : high[i] = ts[p + 1 + i - 1]
      BY <3>1, SubSeqProperties
    <3>3. k - (p + 1) + 1 = k - p /\ (~(p + 1 <= k) => k - p = 0)
          /\ \A i \in 1..k - p : p + 1 + i - 1 = p + i
      <4>1. PICK c \in Nat : c = k
        BY <1>1
      <4>2. p \in 1..c
        BY <2>1, <4>1
      <4>3. c - (p + 1) + 1 = c - p /\ (~(p + 1 <= c) => c - p = 0)
            /\ \A i \in 1..c - p : p + 1 + i - 1 = p + i
        BY <4>2
      <4>. QED  BY <4>1, <4>3
    <3>4. \A i \in 1..k - (p + 1) + 1 : high[i] = ts[p + 1 + i - 1]
      BY <3>2
    <3>5. \A i \in 1..k - p : i \in 1..k - (p + 1) + 1 /\ p + 1 + i - 1 = p + i
      BY <3>3
    <3>. QED  BY <3>2, <3>3, <3>4, <3>5
  <2>. HIDE DEF low, high, left
  <2>5. left \in Seq(1..n) /\ Len(left) = k - 1
        /\ \A i \in 1..k - 1 : left[i] = IF i < p THEN ts[i] ELSE ts[i + 1]
    <3>1. left \in Seq(1..n) /\ Len(left) = Len(low) + Len(high)
          /\ \A i \in 1..Len(low) + Len(high) :
               left[i] = IF i <= Len(low) THEN low[i] ELSE high[i - Len(low)]
      BY <2>2, <2>3, <2>4, ConcatProperties
    <3>2. Len(low) + Len(high) = k - 1
      BY <1>1, <2>1, <2>3, <2>4
    <3>3. ASSUME NEW i \in 1..k - 1 PROVE left[i] = IF i < p THEN ts[i] ELSE ts[i + 1]
      <4>1. CASE i < p
        <5>1. i <= Len(low) /\ i \in 1..p - 1
          BY <2>1, <2>3, <4>1
        <5>. QED  BY <2>3, <3>1, <3>2, <4>1, <5>1
      <4>2. CASE ~(i < p)
        <5>1. ~(i <= Len(low)) /\ i - Len(low) \in 1..k - p /\ p + (i - Len(low)) = i + 1
          BY <1>1, <2>1, <2>3, <4>2
        <5>. QED  BY <2>4, <3>1, <3>2, <4>2, <5>1
      <4>. QED  BY <4>1, <4>2
    <3>. QED  BY <3>1, <3>2, <3>3
  <2>50. DOMAIN left = 1..k - 1 /\ ToSet(left) = {left[i] : i \in 1..k - 1}
        /\ ToSet(ts) = {ts[i] : i \in 1..k}
    <3>1. DOMAIN left = 1..Len(left)
      BY <2>5
    <3>2. DOMAIN left = 1..k - 1
      BY <2>5, <3>1
    <3>. QED  BY <1>1, <3>2 DEF ToSet
  <2>6. ASSUME NEW i \in 1..k - 1, NEW j \in 1..k - 1, i < j PROVE left[i] < left[j]
    <3>1. i \in 1..k /\ i + 1 \in 1..k /\ j \in 1..k /\ j + 1 \in 1..k /\ i + 1 < j + 1
          /\ i < j + 1
      BY <1>1, <2>6
    <3>2. ts[i] < ts[j] /\ ts[i + 1] < ts[j + 1] /\ ts[i] < ts[j + 1]
      BY <1>1, <2>6, <3>1
    <3>3. i < p \/ ~(j < p)
      BY <2>1, <2>6
    <3>. QED  BY <2>5, <3>2, <3>3
  <2>7. ToSet(left) \subseteq ToSet(ts) \ {t}
    <3>1. ASSUME NEW i \in 1..k - 1 PROVE left[i] \in ToSet(ts) /\ left[i] # t
      <4>1. CASE i < p
        <5>1. i \in 1..k /\ ts[i] < ts[p] /\ ts[i] \in 1..n /\ ts[p] \in 1..n
          BY <1>1, <1>2, <2>1, <4>1
        <5>2. left[i] = ts[i] /\ ts[i] # ts[p]
          BY <2>5, <4>1, <5>1
        <5>. QED  BY <2>1, <2>50, <5>1, <5>2
      <4>2. CASE ~(i < p)
        <5>1. i + 1 \in 1..k /\ p < i + 1
          BY <1>1, <2>1, <4>2
        <5>2. ts[p] < ts[i + 1] /\ ts[i + 1] \in 1..n /\ ts[p] \in 1..n
          BY <1>1, <1>2, <2>1, <5>1
        <5>3. left[i] = ts[i + 1] /\ ts[i + 1] # ts[p]
          BY <2>5, <4>2, <5>2
        <5>. QED  BY <2>1, <2>50, <5>1, <5>3
      <4>. QED  BY <4>1, <4>2
    <3>. QED  BY <2>50, <3>1
  <2>8. ASSUME NEW u \in ToSet(ts), u # t PROVE u \in ToSet(left)
    <3>1. PICK i \in 1..k : ts[i] = u
      BY <2>8, <2>50
    <3>2. i # p
      BY <2>1, <2>8, <3>1
    <3>3. CASE i < p
      <4>1. i \in 1..k - 1 /\ left[i] = u
        BY <1>1, <2>1, <2>5, <3>1, <3>3
      <4>. QED  BY <2>50, <4>1
    <3>4. CASE i > p
      <4>1. i - 1 \in 1..k - 1 /\ ~(i - 1 < p) /\ (i - 1) + 1 = i
        BY <1>1, <2>1, <3>1, <3>4
      <4>2. left[i - 1] = u
        BY <2>5, <3>1, <4>1
      <4>. QED  BY <2>50, <4>1, <4>2
    <3>. QED  BY <2>1, <3>1, <3>2, <3>3, <3>4
  <2>9. Ascending(left, n) /\ Len(left) <= k
    BY <1>1, <2>5, <2>6 DEF Ascending
  <2>. QED  BY <2>7, <2>8, <2>9 DEF left, k
<1>. QED  BY <1>3, <1>4

ToastsHold ==
  /\ raised \in Nat /\ Ascending(toasts, raised) /\ Len(toasts) <= 3
  /\ \A t \in ToSet(toasts) : t \in timers /\ t \notin gone
  /\ timers \subseteq 1..raised /\ gone \subseteq 1..raised
  /\ NewestStay
FrameHolds ==
  /\ collapsed \in BOOLEAN /\ storedChoice \in {"nothing", "true", "false"}
  /\ storedChoice # "nothing" => collapsed = (storedChoice = "true")
ShellInv == ToastsHold /\ FrameHolds

LEMMA ToastShown == ASSUME ShellInv, ShowToast PROVE ShellInv'
<1>. DEFINE n == raised
            newer == RoomFor(toasts)
<1>1. /\ n \in Nat /\ Ascending(toasts, n) /\ NewestStay
      /\ \A t \in ToSet(toasts) : t \in timers /\ t \notin gone
      /\ timers \subseteq 1..n /\ gone \subseteq 1..n
  BY DEF ShellInv, ToastsHold
<1>2. raised' = n + 1 /\ toasts' = Append(newer, n + 1) /\ timers' = timers \cup {n + 1}
      /\ gone' = gone /\ UNCHANGED frameVars
  BY DEF ShowToast
<1>3. /\ Ascending(newer, n) /\ Len(newer) <= 2
      /\ \A t \in ToSet(toasts) : t + 1 >= n => t \in ToSet(newer)
      /\ ToSet(newer) \subseteq ToSet(toasts)
  BY <1>1, RoomMade
<1>. HIDE DEF newer
<1>4. PICK m \in Nat : m = Len(newer) /\ m <= 2
  <2>1. Len(newer) \in Nat
    BY <1>3, LenProperties DEF Ascending
  <2>. QED  BY <1>3, <2>1
<1>5. /\ newer \in Seq(1..n) /\ \A i, j \in 1..m : i < j => newer[i] < newer[j]
      /\ \A i \in 1..m : newer[i] \in 1..n
  <2>1. newer \in Seq(1..n) /\ \A i, j \in 1..Len(newer) : i < j => newer[i] < newer[j]
    BY <1>3 DEF Ascending
  <2>2. \A i \in 1..Len(newer) : newer[i] \in 1..n
    BY <2>1, ElementOfSeq
  <2>. QED  BY <1>4, <2>1, <2>2
<1>6. /\ toasts' \in Seq(1..n + 1) /\ Len(toasts') = m + 1 /\ toasts'[m + 1] = n + 1
      /\ \A i \in 1..m : toasts'[i] = newer[i]
  <2>1. newer \in Seq(1..n + 1) /\ n + 1 \in 1..n + 1
    BY <1>1, <1>5
  <2>. QED  BY <1>2, <1>4, <2>1, AppendProperties
<1>7. Ascending(toasts', n + 1)
  <2>1. ASSUME NEW i \in 1..m + 1, NEW j \in 1..m + 1, i < j PROVE toasts'[i] < toasts'[j]
    <3>1. i \in 1..m
      BY <1>4, <2>1
    <3>2. CASE j = m + 1
      <4>1. toasts'[i] \in 1..n
        BY <1>5, <1>6, <3>1
      <4>. QED  BY <1>1, <1>6, <3>2, <4>1
    <3>3. CASE j \in 1..m
      BY <1>5, <1>6, <2>1, <3>1, <3>3
    <3>. QED  BY <1>4, <3>2, <3>3
  <2>. QED  BY <1>6, <2>1 DEF Ascending
<1>8. ToSet(toasts') = ToSet(newer) \cup {n + 1}
  <2>1. DOMAIN toasts' = 1..m + 1 /\ DOMAIN newer = 1..m /\ 1..m + 1 = 1..m \cup {m + 1}
    BY <1>4, <1>5, <1>6
  <2>. QED  BY <1>6, <2>1 DEF ToSet
<1>9. n + 1 \in 1..n + 1 /\ n + 1 \notin 1..n /\ 1..n \subseteq 1..n + 1
  BY <1>1
<1>10. NewestStay'
  <2>1. ASSUME NEW t \in 1..n + 1, t + 2 >= n + 1, t \notin gone PROVE t \in ToSet(toasts')
    <3>1. CASE t = n + 1
      BY <1>8, <3>1
    <3>2. CASE t \in 1..n
      <4>1. t + 2 >= n /\ t + 1 >= n
        BY <1>1, <2>1, <3>2
      <4>2. t \in ToSet(toasts)
        BY <1>1, <2>1, <3>2, <4>1 DEF NewestStay
      <4>. QED  BY <1>3, <1>8, <4>1, <4>2
    <3>. QED  BY <1>1, <3>1, <3>2
  <2>. QED  BY <1>2, <2>1 DEF NewestStay
<1>11. \A t \in ToSet(toasts') : t \in timers' /\ t \notin gone'
  BY <1>1, <1>2, <1>3, <1>8, <1>9
<1>12. n + 1 \in Nat /\ Len(toasts') <= 3
  BY <1>1, <1>4, <1>6
<1>13. ToastsHold'
  BY <1>1, <1>2, <1>7, <1>9, <1>10, <1>11, <1>12 DEF ToastsHold
<1>14. FrameHolds'
  BY <1>2 DEF ShellInv, FrameHolds, frameVars
<1>. QED  BY <1>13, <1>14 DEF ShellInv

LEMMA ToastEnds ==
  ASSUME ShellInv, NEW t \in 1..raised, Dismiss(t) \/ TimesOut(t)
  PROVE  ShellInv'
<1>1. /\ raised \in Nat /\ Ascending(toasts, raised) /\ NewestStay /\ Len(toasts) <= 3
      /\ \A u \in ToSet(toasts) : u \in timers /\ u \notin gone
      /\ timers \subseteq 1..raised /\ gone \subseteq 1..raised
  BY DEF ShellInv, ToastsHold
<1>2. /\ toasts' = OtherToasts(toasts, t) /\ gone' = gone \cup {t} /\ timers' \subseteq timers
      /\ timers \ {t} \subseteq timers' /\ raised' = raised /\ UNCHANGED frameVars
  BY DEF Dismiss, TimesOut
<1>3. /\ Ascending(toasts', raised) /\ Len(toasts') <= Len(toasts) /\ ToSet(toasts') = ToSet(toasts) \ {t}
  BY <1>1, <1>2, OthersLeft
<1>4. NewestStay'
  BY <1>1, <1>2, <1>3 DEF NewestStay
<1>5. Len(toasts) \in Nat /\ Len(toasts') \in Nat
  BY <1>1, <1>3 DEF Ascending
<1>6. Len(toasts') <= 3
  BY <1>1, <1>3, <1>5
<1>7. ToastsHold'
  BY <1>1, <1>2, <1>3, <1>4, <1>6 DEF ToastsHold
<1>8. FrameHolds'
  BY <1>2 DEF ShellInv, FrameHolds, frameVars
<1>. QED  BY <1>7, <1>8 DEF ShellInv

LEMMA ShellSteps == ASSUME ShellInv, ShellNext PROVE ShellInv'
<1>1. CASE ToggleSidebar \/ MoveDrawer \/ NetworkChanges
  <2>1. UNCHANGED toastVars
    BY <1>1 DEF ToggleSidebar, MoveDrawer, NetworkChanges
  <2>2. ToastsHold'
    BY <2>1 DEF toastVars, ShellInv, ToastsHold, NewestStay
  <2>3. FrameHolds'
    BY <1>1 DEF ToggleSidebar, MoveDrawer, NetworkChanges, Toggled, ShellInv, FrameHolds
  <2>. QED  BY <2>2, <2>3 DEF ShellInv
<1>2. CASE ShellReloads
  <2>1. toasts' = <<>> /\ timers' = {} /\ gone' = 1..raised /\ raised' = raised /\ raised \in Nat
    BY <1>2 DEF ShellReloads, ShellInv, ToastsHold
  <2>2. Ascending(<<>>, raised) /\ ToSet(<<>>) = {} /\ Len(<<>>) = 0
    BY DEF Ascending, ToSet
  <2>3. ToastsHold'
    BY <2>1, <2>2 DEF ToastsHold, NewestStay
  <2>4. FrameHolds'
    BY <1>2 DEF ShellReloads, ShellInv, FrameHolds
  <2>. QED  BY <2>3, <2>4 DEF ShellInv
<1>. QED  BY <1>1, <1>2, ToastShown, ToastEnds DEF ShellNext

LEMMA ShellHolds == ShellSpec => []ShellInv
<1>1. ShellInit => ShellInv
  <2>. SUFFICES ASSUME ShellInit PROVE ShellInv
    OBVIOUS
  <2>1. Ascending(<<>>, 0) /\ ToSet(<<>>) = {} /\ Len(<<>>) = 0 /\ 1..0 = {}
    BY DEF Ascending, ToSet
  <2>2. ToastsHold
    BY <2>1 DEF ShellInit, ToastsHold, NewestStay
  <2>3. FrameHolds
    BY DEF ShellInit, FrameHolds
  <2>. QED  BY <2>2, <2>3 DEF ShellInv
<1>2. ShellInv /\ [ShellNext]_shellVars => ShellInv'
  <2>. SUFFICES ASSUME ShellInv, [ShellNext]_shellVars PROVE ShellInv'
    OBVIOUS
  <2>1. CASE UNCHANGED shellVars
    BY <2>1 DEF shellVars, ShellInv, ToastsHold, FrameHolds, NewestStay
  <2>. QED  BY <2>1, ShellSteps
<1>. QED  BY <1>1, <1>2, PTL DEF ShellSpec

LEMMA ShellTyped == ShellInv => ShellTypeOK /\ NewestStay
BY DEF ShellInv, ToastsHold, FrameHolds, ShellTypeOK

(* ---------------------------- dataset previews -------------------------- *)
(* File and rows of the raw preview are one record, set at once.            *)
PreviewInv ==
  /\ raw \in [of : Datasets \cup {NoDataset}, rows : Datasets \cup {NoDataset}, loading : BOOLEAN]
  /\ reads \in [Reads -> [kind : {"none", "raw", "clean", "csv"}, of : Datasets \cup {NoDataset},
                          sample : BOOLEAN]]
  /\ \A q \in Reads : reads[q].kind # "none" => reads[q].of \in Datasets
  /\ RawOfItsFile

LEMMA ReadSent ==
  ASSUME PreviewInv, NEW k \in {"raw", "clean", "csv"}, NEW f \in Datasets, SendRead(k, f)
  PROVE  /\ reads' \in [Reads -> [kind : {"none", "raw", "clean", "csv"},
                                  of : Datasets \cup {NoDataset}, sample : BOOLEAN]]
         /\ \A q \in Reads : reads'[q].kind # "none" => reads'[q].of \in Datasets
<1>1. PICK q \in Reads :
        reads' = [reads EXCEPT ![q] = [kind |-> k, of |-> f, sample |-> f \in sampled]]
  BY DEF SendRead
<1>2. (f \in sampled) \in BOOLEAN
  OBVIOUS
<1>. QED  BY <1>1, <1>2 DEF PreviewInv

LEMMA ReadDone ==
  ASSUME PreviewInv, NEW q \in Reads, reads' = [reads EXCEPT ![q] = NoRead]
  PROVE  /\ reads' \in [Reads -> [kind : {"none", "raw", "clean", "csv"},
                                  of : Datasets \cup {NoDataset}, sample : BOOLEAN]]
         /\ \A p \in Reads : reads'[p].kind # "none" => reads'[p].of \in Datasets
BY DEF PreviewInv, NoRead

LEMMA PreviewSteps == ASSUME PreviewInv, PreviewNext PROVE PreviewInv'
<1>1. ASSUME NEW f \in Datasets, OpenRaw(f) PROVE PreviewInv'
  <2>1. ASSUME NEW g \in Namesakes(f), raw' = [raw EXCEPT !.of = f, !.rows = g], reads' = reads
        PROVE  PreviewInv'
    <3>1. g \in Datasets
      BY <2>1 DEF Namesakes
    <3>2. /\ raw' \in [of : Datasets \cup {NoDataset}, rows : Datasets \cup {NoDataset},
                       loading : BOOLEAN]
          /\ raw'.of = f /\ raw'.rows = g
      BY <2>1, <3>1 DEF PreviewInv
    <3>3. f # NoDataset
      BY PreviewAssumption DEF PreviewAssumption, NoDataset
    <3>4. RawOfItsFile'
      BY <2>1, <3>2, <3>3 DEF RawOfItsFile, Namesakes
    <3>. QED  BY <2>1, <3>2, <3>4 DEF PreviewInv
  <2>2. CASE SendRead("raw", f) /\ raw' = [of |-> f, rows |-> NoDataset, loading |-> TRUE]
    BY <2>2, ReadSent DEF PreviewInv, RawOfItsFile
  <2>3. f \in Namesakes(f)
    BY DEF Namesakes
  <2>. QED  BY <1>1, <2>1, <2>2, <2>3 DEF OpenRaw
<1>2. CASE CloseRaw
  BY <1>2 DEF CloseRaw, PreviewInv, RawOfItsFile, Namesakes
<1>3. ASSUME NEW q \in Reads, RawArrives(q) PROVE PreviewInv'
  <2>1. reads[q].of \in Datasets /\ reads' = [reads EXCEPT ![q] = NoRead]
    BY <1>3 DEF RawArrives, PreviewInv
  <2>2. raw' = ShownRows(reads[q].of) \/ raw' = NotLoaded
    BY <1>3 DEF RawArrives
  <2>3. raw' \in [of : Datasets \cup {NoDataset}, rows : Datasets \cup {NoDataset}, loading : BOOLEAN]
        /\ RawOfItsFile'
    <3>1. CASE raw' = ShownRows(reads[q].of)
      BY <2>1, <3>1 DEF ShownRows, RawOfItsFile, Namesakes
    <3>2. CASE raw' = NotLoaded
      <4>1. /\ raw' \in [of : Datasets \cup {NoDataset}, rows : Datasets \cup {NoDataset},
                         loading : BOOLEAN]
            /\ raw'.of = raw.of /\ raw'.rows = raw.rows
        BY <3>2 DEF NotLoaded, PreviewInv
      <4>. QED  BY <4>1 DEF PreviewInv, RawOfItsFile, Namesakes
    <3>. QED  BY <2>2, <3>1, <3>2
  <2>. QED  BY <2>1, <2>3, ReadDone DEF PreviewInv
<1>4. ASSUME NEW f \in Datasets, OpenClean(f) \/ Download(f) PROVE PreviewInv'
  <2>1. raw' = raw /\ (reads' = reads \/ SendRead("clean", f) \/ SendRead("csv", f))
    BY <1>4 DEF OpenClean, Download
  <2>. QED  BY <2>1, ReadSent DEF PreviewInv, RawOfItsFile, Namesakes
<1>5. CASE CloseClean
  BY <1>5 DEF CloseClean, PreviewInv, RawOfItsFile, Namesakes
<1>6. ASSUME NEW q \in Reads, CleanArrives(q) \/ CsvArrives(q) PROVE PreviewInv'
  <2>1. raw' = raw /\ reads' = [reads EXCEPT ![q] = NoRead]
    BY <1>6 DEF CleanArrives, CsvArrives
  <2>. QED  BY <2>1, ReadDone DEF PreviewInv, RawOfItsFile, Namesakes
<1>. QED  BY <1>1, <1>2, <1>3, <1>4, <1>5, <1>6 DEF PreviewNext, PreviewAnswer

LEMMA PreviewHolds == PreviewSpec => []PreviewInv
<1>1. PreviewInit => PreviewInv
  BY DEF PreviewInit, PreviewInv, RawShut, NoRead, RawOfItsFile
<1>2. PreviewInv /\ [PreviewNext]_previewVars => PreviewInv'
  <2>. SUFFICES ASSUME PreviewInv, [PreviewNext]_previewVars PROVE PreviewInv'
    OBVIOUS
  <2>1. CASE UNCHANGED previewVars
    BY <2>1 DEF previewVars, PreviewInv, RawOfItsFile, Namesakes
  <2>. QED  BY <2>1, PreviewSteps
<1>. QED  BY <1>1, <1>2, PTL DEF PreviewSpec

(* What is remembered and loaded is of files there are.                     *)
PreviewTyped ==
  /\ PreviewInv
  /\ sampled \subseteq Datasets /\ cached \subseteq Datasets
  /\ clean \in [of : Datasets \cup {NoDataset}, loading : BOOLEAN]
  /\ cleanData \in {NoData} \cup [of : Datasets, kind : {"clean", "raw", "empty"}]
  /\ \A q \in Reads : reads[q] = NoRead \/ reads[q].kind # "none"
  /\ exported.kind \in {"none", "clean", "raw"}
  /\ looks \in 0..MaxLooks

LEMMA PreviewTypes == ASSUME PreviewTyped PROVE PreviewTypeOK
<1>1. \A q \in Reads : reads[q] = NoRead \/
        (reads[q].kind \in {"raw", "clean", "csv"} /\ reads[q].of \in Datasets)
  <2>. SUFFICES ASSUME NEW q \in Reads, reads[q].kind # "none"
                PROVE  reads[q].kind \in {"raw", "clean", "csv"} /\ reads[q].of \in Datasets
    BY DEF PreviewTyped
  <2>. QED  BY DEF PreviewTyped, PreviewInv
<1>. QED  BY <1>1 DEF PreviewTyped, PreviewInv, PreviewTypeOK

LEMMA ReadsKnown ==
  ASSUME PreviewTyped
  PROVE  /\ \A k \in {"raw", "clean", "csv"} : \A f : SendRead(k, f) =>
               \A q \in Reads : reads'[q] = NoRead \/ reads'[q].kind # "none"
         /\ \A p \in Reads : reads' = [reads EXCEPT ![p] = NoRead] =>
               \A q \in Reads : reads'[q] = NoRead \/ reads'[q].kind # "none"
<1>1. DOMAIN reads = Reads /\ \A q \in Reads : reads[q] = NoRead \/ reads[q].kind # "none"
  BY DEF PreviewTyped, PreviewInv
<1>2. ASSUME NEW k \in {"raw", "clean", "csv"}, NEW f, SendRead(k, f), NEW q \in Reads
      PROVE  reads'[q] = NoRead \/ reads'[q].kind # "none"
  <2>1. PICK p \in Reads : reads' = [reads EXCEPT ![p] = [kind |-> k, of |-> f, sample |-> f \in sampled]]
    BY <1>2 DEF SendRead
  <2>2. q # p => reads'[q] = reads[q]
    BY <1>1, <2>1
  <2>3. q = p => reads'[q].kind = k
    BY <1>1, <2>1
  <2>. QED  BY <1>1, <2>2, <2>3
<1>. QED  BY <1>1, <1>2

LEMMA PreviewTypedStep ==
  ASSUME PreviewTyped, [PreviewNext]_previewVars
  PROVE  PreviewTyped'
<1>0. PreviewInv'
  <2>1. PreviewInv
    BY DEF PreviewTyped
  <2>2. CASE UNCHANGED previewVars
    BY <2>1, <2>2 DEF previewVars, PreviewInv, RawOfItsFile, Namesakes
  <2>. QED  BY <2>1, <2>2, PreviewSteps
<1>1. /\ sampled \subseteq Datasets /\ cached \subseteq Datasets
      /\ clean \in [of : Datasets \cup {NoDataset}, loading : BOOLEAN]
      /\ cleanData \in {NoData} \cup [of : Datasets, kind : {"clean", "raw", "empty"}]
      /\ \A q \in Reads : reads[q] = NoRead \/ reads[q].kind # "none"
      /\ exported.kind \in {"none", "clean", "raw"}
  BY DEF PreviewTyped
<1>2. looks \in 0..MaxLooks /\ MaxLooks \in Nat
  BY PreviewAssumption DEF PreviewTyped, PreviewAssumption
<1>3. ASSUME sampled' \subseteq Datasets, cached' = cached,
             clean' \in [of : Datasets \cup {NoDataset}, loading : BOOLEAN],
             cleanData' \in {NoData} \cup [of : Datasets, kind : {"clean", "raw", "empty"}],
             \/ reads' = reads \/ (\E p \in Reads : reads' = [reads EXCEPT ![p] = NoRead])
             \/ \E k \in {"raw", "clean", "csv"}, f \in Datasets : SendRead(k, f),
             exported'.kind \in {"none", "clean", "raw"},
             looks' = looks \/ Look
      PROVE  PreviewTyped'
  <2>1. \A q \in Reads : reads'[q] = NoRead' \/ reads'[q].kind # "none"
    <3>1. NoRead' = NoRead
      BY DEF NoRead, NoDataset
    <3>. QED  BY <1>1, <1>3, <3>1, ReadsKnown
  <2>2. looks' \in 0..MaxLooks
    BY <1>2, <1>3 DEF Look
  <2>. QED  BY <1>0, <1>1, <1>3, <2>1, <2>2 DEF PreviewTyped, NoDataset, NoData
<1>4. ASSUME NEW f \in Datasets, OpenRaw(f) PROVE PreviewTyped'
  <2>1. /\ UNCHANGED <<sampled, cached, clean, cleanData, exported>> /\ Look
        /\ reads' = reads \/ SendRead("raw", f)
    BY <1>4 DEF OpenRaw
  <2>. QED  BY <1>1, <1>3, <2>1
<1>5. ASSUME NEW f \in Datasets, OpenClean(f) PROVE PreviewTyped'
  <2>1. /\ UNCHANGED <<sampled, cached, raw, cleanData, exported>> /\ Look
        /\ clean' = [of |-> f, loading |-> TRUE] /\ SendRead("clean", f)
    BY <1>5 DEF OpenClean
  <2>. QED  BY <1>1, <1>3, <2>1
<1>6. ASSUME NEW f \in Datasets, Download(f) PROVE PreviewTyped'
  <2>1. /\ UNCHANGED <<sampled, cached, raw, clean, cleanData>> /\ Look
        /\ \/ reads' = reads /\ cleanData.kind \in {"clean", "raw"} /\ exported' = LocalCsv(f)
           \/ SendRead("csv", f) /\ exported' = exported
    BY <1>6 DEF Download
  <2>2. exported'.kind \in {"none", "clean", "raw"}
    BY <1>1, <2>1 DEF LocalCsv, Exported
  <2>. QED  BY <1>1, <1>3, <2>1, <2>2
<1>7. CASE CloseRaw \/ CloseClean
  <2>1. /\ UNCHANGED <<sampled, cached, cleanData, reads, exported, looks>>
        /\ clean' = clean \/ clean' = [clean EXCEPT !.of = NoDataset]
    BY <1>7 DEF CloseRaw, CloseClean
  <2>2. clean' \in [of : Datasets \cup {NoDataset}, loading : BOOLEAN]
    BY <1>1, <2>1
  <2>. QED  BY <1>1, <1>3, <2>1, <2>2
<1>8. ASSUME NEW q \in Reads, PreviewAnswer(q) PROVE PreviewTyped'
  <2>0. reads[q].kind # "none" => reads[q].of \in Datasets
    BY DEF PreviewTyped, PreviewInv
  <2>1. CASE RawArrives(q)
    <3>1. /\ UNCHANGED <<cached, clean, cleanData, exported, looks>>
          /\ reads' = [reads EXCEPT ![q] = NoRead] /\ reads[q].of \in Datasets
          /\ sampled' = sampled \/ sampled' = sampled \cup {reads[q].of}
      BY <2>0, <2>1 DEF RawArrives
    <3>. QED  BY <1>1, <1>3, <3>1
  <2>2. CASE CleanArrives(q)
    <3>1. /\ UNCHANGED <<sampled, cached, raw, exported, looks>>
          /\ reads' = [reads EXCEPT ![q] = NoRead] /\ reads[q].of \in Datasets
          /\ cleanData' \in {[of |-> reads[q].of, kind |-> "clean"]} \cup Fallback(reads[q])
          /\ clean' = [clean EXCEPT !.loading = FALSE]
      BY <2>0, <2>2 DEF CleanArrives
    <3>2. cleanData' \in [of : Datasets, kind : {"clean", "raw", "empty"}]
      BY <1>1, <3>1 DEF Fallback
    <3>3. clean' \in [of : Datasets \cup {NoDataset}, loading : BOOLEAN]
      BY <1>1, <3>1
    <3>. QED  BY <1>1, <1>3, <3>1, <3>2, <3>3
  <2>3. CASE CsvArrives(q)
    <3>1. /\ UNCHANGED <<sampled, cached, raw, clean, cleanData, looks>>
          /\ reads' = [reads EXCEPT ![q] = NoRead]
          /\ exported' \in {exported, [named |-> reads[q].of, of |-> reads[q].of, kind |-> "clean"]}
      BY <2>3 DEF CsvArrives
    <3>2. exported'.kind \in {"none", "clean", "raw"}
      BY <1>1, <3>1
    <3>. QED  BY <1>1, <1>3, <3>1, <3>2
  <2>. QED  BY <1>8, <2>1, <2>2, <2>3 DEF PreviewAnswer
<1>9. CASE UNCHANGED previewVars
  BY <1>1, <1>3, <1>9 DEF previewVars
<1>. QED  BY <1>4, <1>5, <1>6, <1>7, <1>8, <1>9 DEF PreviewNext

LEMMA PreviewTypedHolds == PreviewSpec => []PreviewTyped
<1>1. PreviewInit => PreviewTyped
  <2>. SUFFICES ASSUME PreviewInit PROVE PreviewTyped
    OBVIOUS
  <2>1. PreviewInv
    BY DEF PreviewInit, PreviewInv, RawShut, NoRead, RawOfItsFile
  <2>2. looks \in 0..MaxLooks
    BY PreviewAssumption DEF PreviewInit, PreviewAssumption
  <2>. QED  BY <2>1, <2>2 DEF PreviewInit, PreviewTyped, CleanShut, NoData, Exported, NoDataset
<1>. QED  BY <1>1, PreviewTypedStep, PTL DEF PreviewSpec

(* --------------------------- the entity record -------------------------- *)
(* What is heard by the drawer was asked for the entity of the route.       *)
Lookup == [of : Entities, at : {"asked", "body", "lines"}, mounted : BOOLEAN]
Probe == [of : Entities, mounted : BOOLEAN]
DetailInv ==
  /\ entityId \in Entities
  /\ record \in [entity : Entities \cup {NoEntity}, provenance : Entities \cup {NoEntity},
                 loading : BOOLEAN, error : BOOLEAN]
  /\ lookups \subseteq Lookup /\ probes \subseteq Probe
  /\ drawer.loading \in BOOLEAN
  /\ \A p \in probes : p.mounted => p.of = entityId
  /\ DrawerOfRecord

LEMMA ProbesAbandoned ==
  ASSUME NEW ps, ps \subseteq Probe
  PROVE  Abandoned(ps) \subseteq Probe /\ \A p \in Abandoned(ps) : ~p.mounted
BY DEF Abandoned, Probe

LEMMA LookupsAbandoned ==
  ASSUME NEW ls, ls \subseteq Lookup PROVE Abandoned(ls) \subseteq Lookup
BY DEF Abandoned, Lookup

\* The drawer follows what the page shows and which key is chosen.
LEMMA DrawerKept ==
  ASSUME DetailInv, NEW r, DrawerFollows(r, activeKey'), record' = r,
         r.loading \in BOOLEAN, r.error \in BOOLEAN,
         entityId' \in Entities, entityId' # entityId => r.loading
  PROVE  /\ probes' \subseteq Probe /\ \A p \in probes' : p.mounted => p.of = entityId'
         /\ drawer'.loading \in BOOLEAN /\ DrawerOfRecord'
<1>. DEFINE seen == ~r.loading /\ ~r.error /\ r.entity # NoEntity
            asks == seen /\ activeKey' # NoKey /\ (~ShowsRecord \/ activeKey = NoKey)
<1>1. /\ drawer' = IF ~seen THEN Unmounted
                   ELSE [lines |-> drawer.lines, loading |-> drawer.loading \/ asks]
      /\ probes' = IF asks THEN Probing(entityId)
                   ELSE IF seen /\ activeKey' # NoKey THEN probes ELSE Abandoned(probes)
  BY DEF DrawerFollows
<1>2. ShowsRecord' <=> seen
  BY DEF ShowsRecord
<1>3. seen => entityId' = entityId
  OBVIOUS
<1>4. probes \subseteq Probe /\ Abandoned(probes) \subseteq Probe
      /\ \A p \in Abandoned(probes) : ~p.mounted
  BY ProbesAbandoned DEF DetailInv
<1>. HIDE DEF seen, asks
<1>5. CASE asks
  <2>1. seen
    BY <1>5 DEF asks
  <2>2. [of |-> entityId, mounted |-> TRUE] \in Probe
    BY DEF DetailInv, Probe
  <2>3. probes' = Abandoned(probes) \cup {[of |-> entityId, mounted |-> TRUE]}
    BY <1>1, <1>5 DEF Probing
  <2>4. probes' \subseteq Probe /\ \A p \in probes' : p.mounted => p.of = entityId'
    <3>1. [of |-> entityId, mounted |-> TRUE].of = entityId
      OBVIOUS
    <3>. QED  BY <1>3, <1>4, <2>1, <2>2, <2>3, <3>1
  <2>5. drawer'.loading = TRUE
    BY <1>1, <1>5, <2>1
  <2>. QED  BY <2>4, <2>5 DEF DrawerOfRecord
<1>6. CASE ~asks /\ seen
  <2>1. drawer'.lines = drawer.lines /\ drawer'.loading = (drawer.loading \/ FALSE)
    BY <1>1, <1>6
  <2>2. drawer'.loading = drawer.loading
    BY <2>1 DEF DetailInv
  <2>3. probes' \subseteq Probe /\ \A p \in probes' : p.mounted => p.of = entityId'
    BY <1>1, <1>3, <1>4, <1>6 DEF DetailInv
  <2>4. DrawerOfRecord'
    <3>. SUFFICES ASSUME activeKey' # NoKey, ~drawer'.loading
                  PROVE  drawer'.lines \in {entityId', NoEntity}
      BY DEF DrawerOfRecord
    <3>1. ShowsRecord /\ activeKey # NoKey
      BY <1>6 DEF asks
    <3>. QED  BY <1>3, <1>6, <2>1, <2>2, <3>1 DEF DetailInv, DrawerOfRecord
  <2>. QED  BY <2>2, <2>3, <2>4 DEF DetailInv
<1>7. CASE ~seen
  <2>1. drawer' = Unmounted /\ probes' = Abandoned(probes)
    BY <1>1, <1>7 DEF asks
  <2>2. drawer'.loading = FALSE
    BY <2>1 DEF Unmounted
  <2>. QED  BY <1>2, <1>4, <1>7, <2>1, <2>2 DEF DrawerOfRecord
<1>. QED  BY <1>5, <1>6, <1>7

LEMMA DetailSteps == ASSUME DetailInv, DetailNext PROVE DetailInv'
<1>1. record.loading \in BOOLEAN /\ record.error \in BOOLEAN /\ entityId \in Entities
  BY DEF DetailInv
<1>2. ASSUME NEW k \in Keys, ClickKey(k) PROVE DetailInv'
  BY <1>1, <1>2, DrawerKept DEF ClickKey, DetailInv
<1>3. CASE CloseDrawer
  <2>1. DrawerFollows(record, activeKey')
    BY <1>3 DEF CloseDrawer
  <2>. QED  BY <1>1, <1>3, <2>1, DrawerKept DEF CloseDrawer, DetailInv
<1>4. ASSUME NEW p \in probes, ProbeSettles(p) PROVE DetailInv'
  <2>1. /\ probes' = probes \ {p} /\ UNCHANGED <<entityId, record, lookups, activeKey>>
    BY <1>4 DEF ProbeSettles
  <2>2. CASE p.mounted
    <3>1. p.of = entityId
      BY <2>2 DEF DetailInv
    <3>2. drawer'.loading = FALSE /\ drawer'.lines \in {entityId, NoEntity}
      BY <1>4, <2>2, <3>1 DEF ProbeSettles, Heard
    <3>. QED  BY <2>1, <3>2 DEF DetailInv, DrawerOfRecord
  <2>3. CASE ~p.mounted
    <3>1. drawer' = drawer
      BY <1>4, <2>3 DEF ProbeSettles, Heard
    <3>. QED  BY <2>1, <3>1 DEF DetailInv, DrawerOfRecord, ShowsRecord
  <2>. QED  BY <2>2, <2>3
<1>5. ASSUME NEW e \in Entities, VisitRecord(e) PROVE DetailInv'
  <2>1. record' \in [entity : Entities \cup {NoEntity}, provenance : Entities \cup {NoEntity},
                     loading : BOOLEAN, error : BOOLEAN] /\ record'.loading = TRUE
    BY <1>5 DEF VisitRecord, DetailInv
  <2>2. lookups' \subseteq Lookup
    <3>1. Abandoned(lookups) \subseteq Lookup
      BY LookupsAbandoned DEF DetailInv
    <3>2. [of |-> e, at |-> "asked", mounted |-> TRUE] \in Lookup
      BY DEF Lookup
    <3>. QED  BY <1>5, <3>1, <3>2 DEF VisitRecord
  <2>3. DrawerFollows(record', activeKey') /\ entityId' = e
    BY <1>5 DEF VisitRecord
  <2>4. record'.error \in BOOLEAN
    BY <2>1
  <2>. QED  BY <2>1, <2>2, <2>3, <2>4, DrawerKept DEF DetailInv
<1>6. ASSUME NEW r \in lookups, DetailSettles(r) PROVE DetailInv'
  <2>1. r \in Lookup
    BY DEF DetailInv
  <2>2. PICK rec \in [entity : Entities \cup {NoEntity}, provenance : Entities \cup {NoEntity},
                      loading : BOOLEAN, error : BOOLEAN] : Shown1(r, rec)
    <3>1. CASE RecordSettles(r)
      BY <3>1 DEF RecordSettles, DetailInv
    <3>2. CASE RecordRead(r)
      BY <2>1, <3>2 DEF RecordRead, DetailInv, Lookup
    <3>3. CASE LinesRead(r)
      <4>1. PICK e \in {r.of, NoEntity} :
              Shown1(r, [record EXCEPT !.provenance = e, !.loading = @ /\ ~r.mounted])
        BY <3>3 DEF LinesRead
      <4>. QED  BY <2>1, <4>1 DEF DetailInv, Lookup
    <3>4. CASE ReadThrows(r)
      BY <3>4 DEF ReadThrows, DetailInv
    <3>. QED  BY <1>6, <3>1, <3>2, <3>3, <3>4 DEF DetailSettles
  <2>3. lookups' \subseteq Lookup
    <3>1. \A at \in {"asked", "body", "lines"} : [r EXCEPT !.at = at] \in Lookup
      BY <2>1 DEF Lookup
    <3>. QED  BY <1>6, <3>1 DEF DetailSettles, RecordSettles, RecordRead, LinesRead, ReadThrows, Go,
                              DetailInv
  <2>4. record' = rec /\ DrawerFollows(rec, activeKey') /\ entityId' = entityId
    BY <2>2 DEF Shown1
  <2>5. rec.loading \in BOOLEAN /\ rec.error \in BOOLEAN
    OBVIOUS
  <2>. QED  BY <1>1, <2>2, <2>3, <2>4, <2>5, DrawerKept DEF DetailInv
<1>. QED  BY <1>2, <1>3, <1>4, <1>5, <1>6 DEF DetailNext

LEMMA DetailHolds == DetailSpec => []DetailInv
<1>1. DetailInit => DetailInv
  BY DEF DetailInit, DetailInv, Lookup, Probe, Unmounted, DrawerOfRecord
<1>2. DetailInv /\ [DetailNext]_detailVars => DetailInv'
  <2>. SUFFICES ASSUME DetailInv, [DetailNext]_detailVars PROVE DetailInv'
    OBVIOUS
  <2>1. CASE UNCHANGED detailVars
    BY <2>1 DEF detailVars, DetailInv, DrawerOfRecord, ShowsRecord
  <2>. QED  BY <2>1, DetailSteps
<1>. QED  BY <1>1, <1>2, PTL DEF DetailSpec

(* One lookup at most is that of the page, and it is for the entity of the  *)
(* route; the page loads while there is one; the drawer is there, and hears *)
(* of a probe, only with the record.                                        *)
OneLookup == \A r, s \in lookups : r.mounted /\ s.mounted => r = s
Awaits == record.loading <=> \E r \in lookups : r.mounted
LookupTyped ==
  /\ OneLookup /\ Awaits
  /\ \A r \in lookups : r.mounted => r.of = entityId
DrawerTyped ==
  /\ activeKey \in Keys \cup {NoKey}
  /\ ~ShowsRecord => drawer = Unmounted
  /\ \A p \in probes : p.mounted => ShowsRecord

LEMMA DetailTypes == ASSUME DetailInv, LookupTyped, DrawerTyped PROVE DetailTypeOK
<1>1. record.loading \in BOOLEAN /\ record.entity \in Entities \cup {NoEntity}
  BY DEF DetailInv
<1>2. record.loading = (\E r \in lookups : r.mounted)
  BY <1>1, Zenon DEF LookupTyped, Awaits
<1>. QED  BY <1>1, <1>2 DEF DetailInv, LookupTyped, DrawerTyped, DetailTypeOK

\* The drawer follows what the page shows.
LEMMA DrawerTypedFollows ==
  ASSUME DetailInv, DrawerTyped, NEW r, NEW k, DrawerFollows(r, k),
         record' = r, activeKey' = k, k \in Keys \cup {NoKey}
  PROVE  DrawerTyped'
<1>. DEFINE seen == ~r.loading /\ ~r.error /\ r.entity # NoEntity
            asks == seen /\ k # NoKey /\ (~ShowsRecord \/ activeKey = NoKey)
<1>1. /\ ~seen => drawer' = Unmounted
      /\ asks => seen
      /\ probes' = IF asks THEN Probing(entityId)
                   ELSE IF seen /\ k # NoKey THEN probes ELSE Abandoned(probes)
  BY DEF DrawerFollows
<1>2. ShowsRecord' <=> seen
  BY DEF ShowsRecord
<1>. HIDE DEF seen, asks
<1>3. \A p \in Abandoned(probes) : ~p.mounted
  BY ProbesAbandoned DEF DetailInv
<1>4. \A p \in probes' : p.mounted => seen
  BY <1>1, <1>3
<1>. QED  BY <1>1, <1>2, <1>4 DEF DrawerTyped

LEMMA DrawerTypedStep ==
  ASSUME DetailInv, DrawerTyped, [DetailNext]_detailVars
  PROVE  DrawerTyped'
<1>0. activeKey \in Keys \cup {NoKey}
  BY DEF DrawerTyped
<1>1. ASSUME NEW k \in Keys, ClickKey(k) PROVE DrawerTyped'
  <2>1. PICK j \in Keys \cup {NoKey} : j = IF activeKey = k THEN NoKey ELSE k
    OBVIOUS
  <2>2. activeKey' = j /\ record' = record /\ DrawerFollows(record, j)
    BY <1>1, <2>1 DEF ClickKey
  <2>. QED  BY <2>2, DrawerTypedFollows
<1>2. CASE CloseDrawer
  <2>1. activeKey' = NoKey /\ record' = record /\ DrawerFollows(record, NoKey)
    BY <1>2 DEF CloseDrawer
  <2>. QED  BY <2>1, DrawerTypedFollows
<1>3. ASSUME NEW p \in probes, ProbeSettles(p) PROVE DrawerTyped'
  <2>1. /\ probes' = probes \ {p} /\ activeKey' = activeKey /\ record' = record
        /\ p.mounted \/ drawer' = drawer
    BY <1>3 DEF ProbeSettles, Heard
  <2>2. ShowsRecord' <=> ShowsRecord
    BY <2>1 DEF ShowsRecord
  <2>. QED  BY <2>1, <2>2 DEF DrawerTyped
<1>4. ASSUME NEW e \in Entities, VisitRecord(e) PROVE DrawerTyped'
  <2>1. activeKey' = activeKey /\ DrawerFollows(record', activeKey)
    BY <1>4 DEF VisitRecord
  <2>. QED  BY <1>0, <2>1, DrawerTypedFollows
<1>5. ASSUME NEW r \in lookups, DetailSettles(r) PROVE DrawerTyped'
  <2>1. PICK rec : Shown1(r, rec)
    BY <1>5 DEF DetailSettles, RecordSettles, RecordRead, LinesRead, ReadThrows
  <2>2. record' = rec /\ activeKey' = activeKey /\ DrawerFollows(rec, activeKey)
    BY <2>1 DEF Shown1
  <2>. QED  BY <1>0, <2>2, DrawerTypedFollows
<1>6. CASE UNCHANGED detailVars
  BY <1>6 DEF detailVars, DrawerTyped, ShowsRecord, Keys
<1>. QED  BY <1>1, <1>2, <1>3, <1>4, <1>5, <1>6 DEF DetailNext

LEMMA LookupTypedStep ==
  ASSUME DetailInv, LookupTyped, [DetailNext]_detailVars
  PROVE  LookupTyped'
<1>0. /\ lookups \subseteq Lookup
      /\ \A r, s \in lookups : r.mounted /\ s.mounted => r = s
      /\ record.loading <=> \E r \in lookups : r.mounted
      /\ \A r \in lookups : r.mounted => r.of = entityId
  BY DEF DetailInv, LookupTyped, OneLookup, Awaits
<1>a. ASSUME UNCHANGED <<lookups, record, entityId>> PROVE LookupTyped'
  BY <1>a DEF LookupTyped, OneLookup, Awaits
\* A lookup goes on.
<1>b. ASSUME NEW r \in lookups, NEW at \in {"body", "lines"}, Go(r, at),
             record'.loading = record.loading, entityId' = entityId
      PROVE  LookupTyped'
  <2>1. r \in Lookup
    BY <1>0
  <2>a. r = [of |-> r.of, at |-> r.at, mounted |-> r.mounted]
    BY <2>1 DEF Lookup
  <2>b. PICK o, m, stage : r = [of |-> o, at |-> stage, mounted |-> m]
    BY <2>1, <2>a DEF Lookup
  <2>c. [r EXCEPT !.at = at] = [of |-> o, at |-> at, mounted |-> m]
    BY <2>b
  <2>d. r.of = o /\ r.mounted = m
    BY <2>b
  <2>e. PICK s : s = [of |-> o, at |-> at, mounted |-> m]
    OBVIOUS
  <2>f. s.of = o /\ s.mounted = m
    BY <2>e
  <2>2. s = [r EXCEPT !.at = at] /\ s.mounted = r.mounted /\ s.of = r.of
    BY <2>c, <2>d, <2>e, <2>f
  <2>3. lookups' = (lookups \ {r}) \cup {s}
    BY <1>b, <2>2 DEF Go
  <2>4. OneLookup'
    BY <1>0, <2>2, <2>3 DEF OneLookup
  <2>5. (\E t \in lookups' : t.mounted) <=> (\E t \in lookups : t.mounted)
    BY <2>2, <2>3
  <2>6. Awaits'
    BY <1>0, <1>b, <2>5, Zenon DEF Awaits
  <2>7. \A t \in lookups' : t.mounted => t.of = entityId'
    BY <1>0, <1>b, <2>2, <2>3
  <2>. QED  BY <2>4, <2>6, <2>7 DEF LookupTyped
\* A lookup ends.
<1>c. ASSUME NEW r \in lookups, lookups' = lookups \ {r}, entityId' = entityId,
             record'.loading <=> record.loading /\ ~r.mounted
      PROVE  LookupTyped'
  <2>1. (\E t \in lookups' : t.mounted) <=> (\E t \in lookups : t.mounted) /\ ~r.mounted
    BY <1>0, <1>c
  <2>2. Awaits'
    BY <1>0, <1>c, <2>1, Zenon DEF Awaits
  <2>. QED  BY <1>0, <1>c, <2>2 DEF LookupTyped, OneLookup
<1>1. CASE \/ \E k \in Keys : ClickKey(k)
           \/ CloseDrawer \/ UNCHANGED detailVars
           \/ \E p \in probes : ProbeSettles(p)
  BY <1>1, <1>a DEF ClickKey, CloseDrawer, ProbeSettles, detailVars
<1>2. ASSUME NEW e \in Entities, VisitRecord(e) PROVE LookupTyped'
  <2>1. PICK n : n = [of |-> e, at |-> "asked", mounted |-> TRUE]
    OBVIOUS
  <2>2. n.of = e /\ n.mounted
    BY <2>1
  <2>3. /\ lookups' = Abandoned(lookups) \cup {n}
        /\ entityId' = e /\ record' = [record EXCEPT !.loading = TRUE, !.error = FALSE]
    BY <1>2, <2>1 DEF VisitRecord
  <2>4. \A r \in Abandoned(lookups) : ~r.mounted
    BY <1>0 DEF Abandoned, Lookup
  <2>5. record'.loading = TRUE
    BY <2>3 DEF DetailInv
  <2>6. Awaits'
    BY <2>2, <2>3, <2>5, Zenon DEF Awaits
  <2>7. OneLookup'
    BY <2>3, <2>4 DEF OneLookup
  <2>8. \A r \in lookups' : r.mounted => r.of = entityId'
    BY <2>2, <2>3, <2>4
  <2>. QED  BY <2>6, <2>7, <2>8 DEF LookupTyped
<1>3. ASSUME NEW r \in lookups, RecordSettles(r) PROVE LookupTyped'
  <2>1. CASE ~r.mounted
    <3>1. lookups' = lookups \ {r} /\ record' = record /\ entityId' = entityId
      BY <1>3, <2>1 DEF RecordSettles, Shown1
    <3>2. record'.loading <=> record.loading /\ ~r.mounted
      BY <2>1, <3>1, Zenon
    <3>. QED  BY <1>c, <3>1, <3>2
  <2>2. CASE r.mounted
    <3>1. CASE Go(r, "body") /\ Shown1(r, record)
      BY <1>b, <3>1 DEF Shown1
    <3>2. CASE Go(r, "lines") /\ Shown1(r, [record EXCEPT !.error = TRUE])
      <4>1. record' = [record EXCEPT !.error = TRUE] /\ entityId' = entityId
        BY <3>2 DEF Shown1
      <4>2. record'.loading = record.loading
        BY <4>1 DEF DetailInv
      <4>. QED  BY <1>b, <3>2, <4>1, <4>2
    <3>. QED  BY <1>3, <2>2, <3>1, <3>2 DEF RecordSettles
  <2>. QED  BY <2>1, <2>2
<1>4. ASSUME NEW r \in lookups, RecordRead(r) PROVE LookupTyped'
  <2>1. Go(r, "lines") /\ record' = [record EXCEPT !.entity = r.of] /\ entityId' = entityId
    BY <1>4 DEF RecordRead, Shown1
  <2>2. record'.loading = record.loading
    BY <2>1 DEF DetailInv
  <2>. QED  BY <1>b, <2>1, <2>2
<1>5. ASSUME NEW r \in lookups, LinesRead(r) PROVE LookupTyped'
  <2>1. PICK e : record' = [record EXCEPT !.provenance = e, !.loading = @ /\ ~r.mounted]
    BY <1>5 DEF LinesRead, Shown1
  <2>2. lookups' = lookups \ {r} /\ entityId' = entityId
    BY <1>5 DEF LinesRead, Shown1
  <2>3. PICK b : b = (record.loading /\ ~r.mounted)
    OBVIOUS
  <2>4. record' = [record EXCEPT !.provenance = e, !.loading = b]
    BY <2>1, <2>3
  <2>5. record'.loading = b
    BY <2>4 DEF DetailInv
  <2>6. record'.loading <=> record.loading /\ ~r.mounted
    BY <2>3, <2>5, Zenon
  <2>. QED  BY <1>c, <2>2, <2>6
<1>6. ASSUME NEW r \in lookups, ReadThrows(r) PROVE LookupTyped'
  <2>1. lookups' = lookups \ {r} /\ entityId' = entityId
    BY <1>6 DEF ReadThrows, Shown1
  <2>2. record'.loading <=> record.loading /\ ~r.mounted
    <3>1. CASE r.mounted
      <4>1. record' = [record EXCEPT !.error = TRUE, !.loading = FALSE]
        BY <1>6, <3>1 DEF ReadThrows, Shown1
      <4>2. record'.loading = FALSE
        BY <4>1 DEF DetailInv
      <4>. QED  BY <3>1, <4>2, Zenon
    <3>2. CASE ~r.mounted
      <4>1. record' = record
        BY <1>6, <3>2 DEF ReadThrows, Shown1
      <4>. QED  BY <3>2, <4>1, Zenon
    <3>. QED  BY <3>1, <3>2
  <2>. QED  BY <1>c, <2>1, <2>2
<1>. QED  BY <1>1, <1>2, <1>3, <1>4, <1>5, <1>6 DEF DetailNext, DetailSettles

LEMMA DetailTypedHold == DetailSpec => [](LookupTyped /\ DrawerTyped)
<1>1. DetailInit => LookupTyped /\ DrawerTyped
  <2>. SUFFICES ASSUME DetailInit PROVE LookupTyped /\ DrawerTyped
    OBVIOUS
  <2>1. PICK n : n = [of |-> entityId, at |-> "asked", mounted |-> TRUE]
    OBVIOUS
  <2>2. n.of = entityId /\ n.mounted /\ lookups = {n}
    BY <2>1 DEF DetailInit
  <2>3. record.loading = TRUE
    BY DEF DetailInit
  <2>4. Awaits
    BY <2>2, <2>3, Zenon DEF Awaits
  <2>5. LookupTyped
    BY <2>2, <2>4 DEF LookupTyped, OneLookup
  <2>6. DrawerTyped
    BY DEF DetailInit, DrawerTyped
  <2>. QED  BY <2>5, <2>6
<1>2. DetailInv /\ LookupTyped /\ DrawerTyped /\ [DetailNext]_detailVars
        => LookupTyped' /\ DrawerTyped'
  BY LookupTypedStep, DrawerTypedStep
<1>. QED  BY <1>1, <1>2, DetailHolds, PTL DEF DetailSpec

(* ---------------------------- the graph page ---------------------------- *)
(* What is cached under a key was asked for with that key, its nodes were   *)
(* read before its edges, and the canvas gets both ends of every edge unless *)
(* nodes are filtered out or links were written in between.                 *)
GraphKeys ==
  [entity : Vertices \cup {NoVertex, "asked"}, depth : 1..4, rel : Relations \cup {NoFilter}]
GraphViews ==
  [entity : Vertices \cup {NoVertex}, depth : 1..MaxDepth, rel : Relations \cup {NoFilter},
   kind : VertexKinds \cup {NoFilter}]
Readings == [before : SUBSET Edges, after : SUBSET Edges]
Hood ==
  [asks : GraphKeys, data : BOOLEAN, shown : Readings, req : {"none", "asked", "nodes", "served"},
   read : Readings, error : BOOLEAN]
ReadInTurn(seen, ls) == Linked \subseteq seen.before /\ seen.before \subseteq seen.after /\ seen.after \subseteq ls
HoodFits(q, h, ls) ==
  /\ h \in Hood /\ h.asks = q
  /\ h.shown = Unread1 \/ ReadInTurn(h.shown, ls)
  /\ h.data => ReadInTurn(h.shown, ls)
  /\ h.req = "nodes" => Linked \subseteq h.read.before /\ h.read.before \subseteq ls
  /\ h.req = "served" => ReadInTurn(h.read, ls)
Cached(hs, ls) == hs = [q \in DOMAIN hs |-> hs[q]] /\ \A q \in DOMAIN hs : HoodFits(q, hs[q], ls)
GraphInv ==
  /\ view \in GraphViews /\ landing \in Vertices \cup {NoVertex, "asked"}
  /\ links \subseteq Edges /\ Linked \subseteq links
  /\ Cached(hoods, links) /\ DrawnWhole

LEMMA Depths == MaxDepth \in 1..4 /\ 1..MaxDepth \subseteq 1..4
BY GraphAssumption DEF GraphAssumption

LEMMA AsksMade ==
  ASSUME NEW w \in GraphViews, NEW l \in Vertices \cup {NoVertex, "asked"}
  PROVE  Asks(w, l) \in GraphKeys
BY Depths DEF Asks, Active, GraphKeys, GraphViews

\* A fresh entry, with the data there was.
LEMMA FreshMade ==
  ASSUME NEW q \in GraphKeys, NEW d \in BOOLEAN, NEW seen \in Readings, NEW ls,
         seen = Unread1 \/ ReadInTurn(seen, ls), d => ReadInTurn(seen, ls)
  PROVE  HoodFits(q, [Fresh1(q) EXCEPT !.data = d, !.shown = seen], ls)
<1>1. Unread1 \in Readings
  BY DEF Unread1, Readings
<1>. QED  BY <1>1 DEF Fresh1, Hood, HoodFits

\* An entry of the cache is for the key it is looked up by.
LEMMA EntryFits ==
  ASSUME NEW w \in GraphViews, NEW l \in Vertices \cup {NoVertex, "asked"},
         NEW hs, NEW ls, Cached(hs, ls)
  PROVE  /\ HoodFits(Asks(w, l), Entry(w, l, hs), ls)
         /\ Entry(w, l, hs).data \in BOOLEAN /\ Entry(w, l, hs).shown \in Readings
         /\ Loaded(w, l, hs) \in {Nothing1, Neighbourhood(Asks(w, l), Entry(w, l, hs).shown)}
<1>. DEFINE q == Asks(w, l)
<1>1. q \in GraphKeys /\ Unread1 \in Readings
  BY AsksMade DEF Unread1, Readings
<1>2. Entry(w, l, hs) = IF q \in DOMAIN hs THEN hs[q] ELSE [Fresh1(q) EXCEPT !.req = "none"]
  BY DEF Entry, QueryKey
<1>. HIDE DEF q
<1>3. HoodFits(q, Entry(w, l, hs), ls)
  <2>1. CASE q \in DOMAIN hs
    BY <1>2, <2>1 DEF Cached
  <2>2. CASE q \notin DOMAIN hs
    BY <1>1, <1>2, <2>2 DEF Fresh1, Hood, HoodFits
  <2>. QED  BY <2>1, <2>2
<1>4. PICK e : e = Entry(w, l, hs)
  OBVIOUS
<1>5. e.asks = q /\ e.data \in BOOLEAN /\ e.shown \in Readings
  BY <1>3, <1>4 DEF HoodFits, Hood
<1>6. Loaded(w, l, hs) \in {Nothing1, Neighbourhood(q, e.shown)}
  BY <1>4, <1>5 DEF Loaded
<1>. QED  BY <1>3, <1>4, <1>5, <1>6 DEF q

(* What is at most n links away is what the links lead to from what is at   *)
(* most n - 1 away.                                                         *)
LEMMA WithinSpreads ==
  ASSUME NEW q, NEW ls, NEW n \in 1..4
  PROVE  Within(q, ls, n) = Spread(Near(q, ls), Within(q, ls, n - 1))
<1>1. n \in {1, 2, 3, 4}
  OBVIOUS
<1>2. CASE n = 1
  BY <1>2 DEF Within
<1>3. CASE n = 2
  BY <1>3 DEF Within
<1>4. CASE n = 3
  BY <1>4 DEF Within
<1>5. CASE n = 4
  BY <1>5 DEF Within
<1>. QED  BY <1>1, <1>2, <1>3, <1>4, <1>5

\* A neighbourhood that was read of one graph, and nothing, have both ends of
\* their edges.
LEMMA WholeNeighbourhood ==
  ASSUME NEW q \in GraphKeys, NEW seen, seen.before = seen.after
  PROVE  Drawable(Neighbourhood(q, seen)) /\ Drawable(Nothing1)
<1>. DEFINE near == Near(q, seen.before)
            inner == Within(q, seen.before, q.depth - 1)
<1>1. /\ Neighbourhood(q, seen).nodes = Spread(near, inner)
      /\ Neighbourhood(q, seen).edges = {k \in near : {k.src, k.tgt} \cap inner # {}}
  <2>1. q.depth \in 1..4
    BY DEF GraphKeys
  <2>2. Within(q, seen.before, q.depth) = Spread(near, inner)
    BY <2>1, WithinSpreads
  <2>. QED  BY <2>2 DEF Neighbourhood, NodesWithin, EdgesWithin
<1>. HIDE DEF near, inner
<1>2. \A k \in near : {k.src, k.tgt} \cap inner # {} => {k.src, k.tgt} \subseteq Spread(near, inner)
  BY DEF Spread
<1>. QED  BY <1>1, <1>2 DEF Drawable, Nothing1

LEMMA WholeUnlessFiltered ==
  ASSUME NEW w, NEW g, w.kind = NoFilter, Drawable(g) PROVE Drawable(OfKind(w, g))
<1>1. OfKind(w, g).nodes = g.nodes /\ OfKind(w, g).edges \subseteq g.edges
  BY DEF OfKind
<1>. QED  BY <1>1 DEF Drawable

LEMMA RenderedWhole ==
  ASSUME NEW w \in GraphViews, NEW l \in Vertices \cup {NoVertex, "asked"},
         NEW hs, NEW ls, Cached(hs, ls), Rendered(w, l, hs)
  PROVE  broken' => \/ w.kind # NoFilter
                    \/ Entry(w, l, hs).shown.before # Entry(w, l, hs).shown.after
<1>. SUFFICES ASSUME Entry(w, l, hs).shown.before = Entry(w, l, hs).shown.after, w.kind = NoFilter
     PROVE ~broken'
  OBVIOUS
<1>1. Asks(w, l) \in GraphKeys
  BY AsksMade
<1>2. Loaded(w, l, hs) \in {Nothing1, Neighbourhood(Asks(w, l), Entry(w, l, hs).shown)}
  BY EntryFits
<1>3. Drawable(Loaded(w, l, hs))
  BY <1>1, <1>2, WholeNeighbourhood
<1>. QED  BY <1>3, WholeUnlessFiltered DEF Rendered

LEMMA ViewsOn ==
  ASSUME GraphInv, NEW w \in GraphViews, NEW l \in Vertices \cup {NoVertex, "asked"},
         Views(w, l)
  PROVE  GraphInv'
<1>. DEFINE q == Asks(w, l)
            there == Entry(w, l, hoods)
            asked == [Fresh1(q) EXCEPT !.data = there.data, !.shown = there.shown]
<1>1. q \in GraphKeys /\ HoodFits(q, asked, links)
  <2>1. HoodFits(q, there, links) /\ there.data \in BOOLEAN /\ there.shown \in Readings
    BY EntryFits DEF GraphInv
  <2>2. (there.shown = Unread1 \/ ReadInTurn(there.shown, links)) /\ (there.data => ReadInTurn(there.shown, links))
    BY <2>1 DEF HoodFits
  <2>3. q \in GraphKeys
    BY AsksMade
  <2>. HIDE DEF q, there
  <2>. QED  BY <2>1, <2>2, <2>3, FreshMade
<1>2. view' = w /\ landing' = l /\ links' = links /\ Rendered(w, l, hoods')
      /\ (hoods' = [p \in DOMAIN hoods \cup {q} |-> IF p = q THEN asked ELSE hoods[p]]
          \/ hoods' = hoods)
  BY DEF Views, QueryKey
<1>. HIDE DEF q, asked, there
<1>3. Cached([p \in DOMAIN hoods \cup {q} |-> IF p = q THEN asked ELSE hoods[p]], links)
  BY <1>1 DEF Cached, GraphInv
<1>4. Cached(hoods', links)
  BY <1>2, <1>3 DEF GraphInv
<1>5. Cached(hoods, links)'
  BY <1>2, <1>4 DEF Cached, HoodFits, ReadInTurn
<1>6. DrawnWhole'
  <2>1. broken' => \/ w.kind # NoFilter
                   \/ Entry(w, l, hoods').shown.before # Entry(w, l, hoods').shown.after
    BY <1>2, <1>4, RenderedWhole
  <2>. QED  BY <1>2, <2>1 DEF DrawnWhole, Entry, QueryKey, Asks, Active, Fresh1, Unread1
<1>. QED  BY <1>2, <1>5, <1>6 DEF GraphInv

\* A change of the cache that fits, under the view there is.
LEMMA CachedOn ==
  ASSUME GraphInv, Cached(hoods', links), Rendered(view, landing, hoods'), UNCHANGED <<view, landing, links>>
  PROVE  GraphInv'
<1>1. Cached(hoods, links)'
  BY DEF Cached, HoodFits, ReadInTurn
<1>2. DrawnWhole'
  <2>1. broken' => \/ view.kind # NoFilter
                   \/ Entry(view, landing, hoods').shown.before # Entry(view, landing, hoods').shown.after
    BY RenderedWhole DEF GraphInv
  <2>. QED  BY <2>1 DEF DrawnWhole, Entry, QueryKey, Asks, Active, Fresh1, Unread1
<1>. QED  BY <1>1, <1>2 DEF GraphInv

\* One entry is replaced by one that fits.
LEMMA EntryReplaced ==
  ASSUME GraphInv, NEW q \in DOMAIN hoods, NEW h, HoodFits(q, h, links), hoods' = [hoods EXCEPT ![q] = h]
  PROVE  Cached(hoods', links) /\ hoods'[q] = h /\ \A p \in DOMAIN hoods : p # q => hoods'[p] = hoods[p]
BY DEF GraphInv, Cached

LEMMA DeeperDeep == ASSUME NEW d \in 1..MaxDepth PROVE Deeper(d) \in 1..MaxDepth
<1>1. MaxDepth \in 1..4 /\ d + 1 \in Nat /\ (MaxDepth <= d + 1 \/ d + 1 <= MaxDepth)
  BY GraphAssumption DEF GraphAssumption
<1>2. \E x \in {MaxDepth, d + 1} : \A y \in {MaxDepth, d + 1} : x <= y
  BY <1>1
<1>3. /\ Deeper(d) \in {MaxDepth, d + 1}
      /\ \A y \in {MaxDepth, d + 1} : Deeper(d) <= y
  BY <1>2 DEF Deeper, Min
<1>4. PICK m : m = Deeper(d)
  OBVIOUS
<1>5. m \in {MaxDepth, d + 1} /\ m <= MaxDepth
  BY <1>3, <1>4
<1>. QED  BY <1>1, <1>4, <1>5

LEMMA GraphSteps == ASSUME GraphInv, GraphNext PROVE GraphInv'
<1>. USE DEF GraphInv
<1>1. CASE Lands
  BY <1>1, ViewsOn, GraphAssumption DEF Lands, GraphAssumption
<1>2. ASSUME NEW q \in DOMAIN hoods, HoodSettles(q) PROVE GraphInv'
  <2>1. PICK ok \in BOOLEAN :
          /\ ok => hoods[q].req = "served"
          /\ hoods' = [hoods EXCEPT ![q] =
               Settled1(hoods[q], ok)]
    BY <1>2 DEF HoodSettles
  <2>2. HoodFits(q, hoods[q], links) /\ Unread1 \in Readings
    BY DEF Cached, Unread1, Readings
  <2>. DEFINE h == Settled1(hoods[q], ok)
  <2>3. HoodFits(q, h, links)
    BY <2>1, <2>2 DEF HoodFits, Hood, Settled1
  <2>. HIDE DEF h
  <2>4. Cached(hoods', links)
    BY <2>1, <2>3, EntryReplaced DEF h
  <2>. QED  BY <1>2, <2>4, CachedOn DEF HoodSettles
<1>12. ASSUME NEW q \in DOMAIN hoods, HoodRead(q) PROVE GraphInv'
  <2>1. HoodFits(q, hoods[q], links)
    BY DEF Cached
  <2>0. /\ [hoods[q].read EXCEPT !.before = links] = [before |-> links, after |-> hoods[q].read.after]
        /\ [hoods[q].read EXCEPT !.after = links] = [before |-> hoods[q].read.before, after |-> links]
    <3>1. PICK r \in Readings : r = hoods[q].read
      BY <2>1 DEF HoodFits, Hood
    <3>2. /\ [r EXCEPT !.before = links] = [before |-> links, after |-> r.after]
          /\ [r EXCEPT !.after = links] = [before |-> r.before, after |-> links]
      BY DEF Readings
    <3>. QED  BY <3>1, <3>2
  <2>2. PICK h : /\ hoods' = [hoods EXCEPT ![q] = h] /\ HoodFits(q, h, links)
                 /\ h.shown = hoods[q].shown
    <3>1. CASE hoods[q].req = "asked"
      <4>. DEFINE h == [hoods[q] EXCEPT !.req = "nodes", !.read.before = links]
      <4>1. hoods' = [hoods EXCEPT ![q] = h]
        BY <1>12, <3>1 DEF HoodRead
      <4>2. h = [hoods[q] EXCEPT !.req = "nodes", !.read = [before |-> links, after |-> hoods[q].read.after]]
        BY <2>0
      <4>3. HoodFits(q, h, links) /\ h.shown = hoods[q].shown
        BY <2>1, <4>2 DEF HoodFits, Hood, Readings
      <4>. QED  BY <4>1, <4>3
    <3>2. CASE hoods[q].req = "nodes"
      <4>. DEFINE h == [hoods[q] EXCEPT !.req = "served", !.read.after = links]
      <4>1. hoods' = [hoods EXCEPT ![q] = h]
        BY <1>12, <3>2 DEF HoodRead
      <4>2. h = [hoods[q] EXCEPT !.req = "served", !.read = [before |-> hoods[q].read.before, after |-> links]]
        BY <2>0
      <4>3. HoodFits(q, h, links) /\ h.shown = hoods[q].shown
        BY <2>1, <3>2, <4>2 DEF HoodFits, Hood, Readings, ReadInTurn
      <4>. QED  BY <4>1, <4>3
    <3>. QED  BY <1>12, <3>1, <3>2 DEF HoodRead
  <2>3. /\ Cached(hoods', links) /\ hoods'[q] = h /\ DOMAIN hoods' = DOMAIN hoods
        /\ \A p \in DOMAIN hoods : p # q => hoods'[p] = hoods[p]
    BY <2>2, EntryReplaced DEF Cached
  <2>4. UNCHANGED <<landing, view, links, broken>>
    BY <1>12 DEF HoodRead
  <2>5. Cached(hoods, links)'
    BY <2>3, <2>4 DEF Cached, HoodFits, ReadInTurn
  <2>6. Entry(view, landing, hoods').shown = Entry(view, landing, hoods).shown
    BY <2>2, <2>3 DEF Entry
  <2>7. DrawnWhole'
    BY <2>4, <2>6 DEF DrawnWhole, Entry, QueryKey, Asks, Active, Fresh1, Unread1
  <2>. QED  BY <2>4, <2>5, <2>7
<1>13. ASSUME NEW k \in Edges, LinkMerged(k) PROVE GraphInv'
  <2>1. UNCHANGED <<landing, view, hoods, broken>> /\ links' = links \cup {k}
    BY <1>13 DEF LinkMerged
  <2>2. ASSUME NEW q \in DOMAIN hoods PROVE HoodFits(q, hoods[q], links')
    BY <2>1 DEF Cached, HoodFits, ReadInTurn
  <2>3. Cached(hoods, links)'
    BY <2>1, <2>2 DEF Cached, HoodFits, ReadInTurn
  <2>. QED  BY <2>1, <2>3 DEF DrawnWhole, Entry, QueryKey, Asks, Active, Fresh1, Unread1
<1>3. CASE Reload
  <2>1. PICK q \in DOMAIN hoods : hoods[q].req = "none" /\ hoods' = [hoods EXCEPT ![q].req = "asked"]
    BY <1>3 DEF Reload
  <2>. DEFINE h == [hoods[q] EXCEPT !.req = "asked"]
  <2>2. HoodFits(q, hoods[q], links) /\ hoods' = [hoods EXCEPT ![q] = h]
    BY <2>1 DEF Cached
  <2>3. HoodFits(q, h, links)
    BY <2>2 DEF HoodFits, Hood
  <2>. HIDE DEF h
  <2>4. Cached(hoods', links)
    BY <2>2, <2>3, EntryReplaced
  <2>. QED  BY <1>3, <2>4, CachedOn DEF Reload
<1>4. ASSUME NEW d \in 1..MaxDepth, SetDepth(d) PROVE GraphInv'
  <2>1. [view EXCEPT !.depth = d] \in GraphViews
    BY DEF GraphViews
  <2>. QED  BY <1>4, <2>1, ViewsOn DEF SetDepth
<1>5. ASSUME NEW t \in VertexKinds \cup {NoFilter}, SetKind(t) PROVE GraphInv'
  <2>1. [view EXCEPT !.kind = t] \in GraphViews
    BY DEF GraphViews
  <2>. QED  BY <1>5, <2>1, ViewsOn DEF SetKind
<1>6. ASSUME NEW r \in Relations \cup {NoFilter}, SetRel(r) PROVE GraphInv'
  <2>1. [view EXCEPT !.rel = r] \in GraphViews
    BY DEF GraphViews
  <2>. QED  BY <1>6, <2>1, ViewsOn DEF SetRel
<1>7. ASSUME NEW v \in Vertices, SearchVertex(v) PROVE GraphInv'
  <2>1. [view EXCEPT !.entity = v] \in GraphViews
    BY DEF GraphViews
  <2>. QED  BY <1>7, <2>1, ViewsOn DEF SearchVertex
<1>8. CASE ResetVertex
  <2>1. [view EXCEPT !.entity = NoVertex] \in GraphViews
    BY DEF GraphViews
  <2>. QED  BY <1>8, <2>1, ViewsOn DEF ResetVertex
<1>9. ASSUME NEW v \in Vertices, ExpandVertex(v) PROVE GraphInv'
  <2>1. PICK deep \in 1..MaxDepth : deep = Deeper(view.depth)
    BY DeeperDeep DEF GraphViews
  <2>2. [view EXCEPT !.entity = v, !.depth = Deeper(view.depth)] \in GraphViews
    BY <2>1 DEF GraphViews
  <2>. QED  BY <1>9, <2>2, ViewsOn DEF ExpandVertex
<1>10. ASSUME NEW v, Tap(v) PROVE GraphInv'
  BY <1>10, CachedOn DEF Tap
<1>11. ASSUME NEW v \in Vertices, StatsSettle(v) PROVE GraphInv'
  BY <1>11 DEF StatsSettle, DrawnWhole, Entry, QueryKey, Asks, Active, Fresh1, Unread1, Cached, HoodFits, ReadInTurn
<1>. QED  BY <1>1, <1>2, <1>3, <1>4, <1>5, <1>6, <1>7, <1>8, <1>9, <1>10, <1>11, <1>12, <1>13
          DEF GraphNext, GraphSettles

LEMMA GraphHolds == GraphSpec => []GraphInv
<1>1. GraphInit => GraphInv
  <2>1. /\ MaxDepth \in 1..4 /\ Linked \subseteq Edges
        /\ \E x \in {2, MaxDepth} : \A y \in {2, MaxDepth} : x <= y
    BY GraphAssumption DEF GraphAssumption
  <2>2. PICK m : m = Min({2, MaxDepth})
    OBVIOUS
  <2>3. m \in {2, MaxDepth} /\ m <= MaxDepth
    BY <2>1, <2>2 DEF Min
  <2>4. m \in 1..MaxDepth
    BY <2>1, <2>3
  <2>. QED  BY <2>1, <2>2, <2>4 DEF GraphInit, GraphInv, GraphViews, Cached, DrawnWhole
<1>2. GraphInv /\ [GraphNext]_graphVars => GraphInv'
  <2>. SUFFICES ASSUME GraphInv, [GraphNext]_graphVars PROVE GraphInv'
    OBVIOUS
  <2>1. CASE UNCHANGED graphVars
    BY <2>1 DEF graphVars, GraphInv, DrawnWhole, Entry, QueryKey, Asks, Active, Fresh1, Unread1, Cached,
                HoodFits, ReadInTurn
  <2>. QED  BY <2>1, GraphSteps
<1>. QED  BY <1>1, <1>2, PTL DEF GraphSpec

LEMMA GraphShows == GraphInv => GraphOfView /\ DrawnWhole
<1>. SUFFICES ASSUME GraphInv PROVE GraphOfView /\ DrawnWhole
  OBVIOUS
<1>1. PICK e : e = Entry(view, landing, hoods)
  OBVIOUS
<1>2. /\ HoodFits(Asks(view, landing), e, links)
      /\ Loaded(view, landing, hoods) \in {Nothing1, Neighbourhood(Asks(view, landing), e.shown)}
  BY <1>1, EntryFits DEF GraphInv
<1>3. e.shown.before \subseteq e.shown.after /\ e.shown.after \subseteq links
      /\ (e.data => Linked \subseteq e.shown.before)
  BY <1>2 DEF HoodFits, ReadInTurn, Unread1
<1>. QED  BY <1>1, <1>2, <1>3 DEF GraphInv, GraphOfView

(* A neighbourhood is asked for of an entity, and no deeper than may be.    *)
StatStates == {"none", "asked", "again", "done"}
GraphTyped ==
  /\ GraphInv
  /\ chosen1 \in Vertices \cup {NoVertex} /\ \A q \in DOMAIN hoods : q.entity \in Vertices
  /\ stats \in [Vertices -> StatStates]

LEMMA GraphTypes == ASSUME GraphTyped PROVE GraphTypeOK
<1>1. /\ view.entity \in Vertices \cup {NoVertex} /\ view.rel \in Relations \cup {NoFilter}
      /\ view.kind \in VertexKinds \cup {NoFilter} /\ view.depth \in 1..MaxDepth /\ links \subseteq Edges
  BY DEF GraphTyped, GraphInv, GraphViews
<1>2. \A q \in DOMAIN hoods : hoods[q].asks.entity \in Vertices
  BY DEF GraphTyped, GraphInv, Cached, HoodFits
<1>3. landing \in Vertices \cup {NoVertex, "asked"}
  BY DEF GraphTyped, GraphInv
<1>. QED  BY <1>1, <1>2, <1>3 DEF GraphTyped, GraphTypeOK, StatStates

LEMMA ViewsTyped ==
  ASSUME GraphTyped, GraphInv', NEW w \in GraphViews, NEW l \in Vertices \cup {NoVertex, "asked"},
         Views(w, l), stats' = stats, chosen1' \in {chosen1, NoVertex}
  PROVE  GraphTyped'
<1>1. \A q \in DOMAIN hoods' : q \in DOMAIN hoods \/ (q = Asks(w, l) /\ q.entity # NoVertex)
  BY DEF Views, QueryKey
<1>2. Asks(w, l).entity \in Vertices \cup {NoVertex}
  BY DEF Asks, Active, GraphViews
<1>3. \A q \in DOMAIN hoods' : q.entity \in Vertices
  BY <1>1, <1>2 DEF GraphTyped
<1>. QED  BY <1>3 DEF GraphTyped, StatStates

LEMMA GraphTypedStep ==
  ASSUME GraphTyped, GraphInv', [GraphNext]_graphVars
  PROVE  GraphTyped'
<1>0. /\ view \in GraphViews /\ landing \in Vertices \cup {NoVertex, "asked"}
      /\ chosen1 \in Vertices \cup {NoVertex} /\ \A q \in DOMAIN hoods : q.entity \in Vertices
      /\ stats \in [Vertices -> StatStates]
  BY DEF GraphTyped, GraphInv
<1>z. view' \in GraphViews /\ landing' \in Vertices \cup {NoVertex, "asked"}
  BY DEF GraphInv, GraphViews
<1>a. ASSUME DOMAIN hoods' = DOMAIN hoods, chosen1' \in Vertices \cup {NoVertex},
             stats' \in [Vertices -> StatStates]
      PROVE  GraphTyped'
  BY <1>0, <1>a DEF GraphTyped, StatStates
<1>b. ASSUME NEW w, NEW l, Views(w, l), stats' = stats, chosen1' \in {chosen1, NoVertex}
      PROVE  GraphTyped'
  <2>1. w \in GraphViews /\ l \in Vertices \cup {NoVertex, "asked"}
    BY <1>z, <1>b DEF Views
  <2>. QED  BY <1>b, <2>1, ViewsTyped
<1>1. CASE Lands \/ ResetVertex
  BY <1>1, <1>b DEF Lands, ResetVertex
<1>2. ASSUME NEW t, SetKind(t) \/ SetRel(t) \/ SearchVertex(t) \/ ExpandVertex(t) \/ SetDepth(t)
      PROVE  GraphTyped'
  BY <1>2, <1>b DEF SetKind, SetRel, SearchVertex, ExpandVertex, SetDepth
<1>3. ASSUME NEW q, HoodSettles(q) \/ HoodRead(q) PROVE GraphTyped'
  BY <1>0, <1>3, <1>a DEF HoodSettles, HoodRead
<1>8. ASSUME NEW k, LinkMerged(k) PROVE GraphTyped'
  BY <1>0, <1>8, <1>a DEF LinkMerged
<1>4. CASE Reload
  BY <1>0, <1>4, <1>a DEF Reload
<1>5. ASSUME NEW v \in Vertices \cup {NoVertex}, Tap(v) PROVE GraphTyped'
  <2>1. /\ hoods' = hoods /\ chosen1' = v
        /\ stats' = stats \/ stats' = [stats EXCEPT ![v] = "asked"]
    BY <1>5 DEF Tap
  <2>2. stats' \in [Vertices -> StatStates]
    BY <1>0, <2>1 DEF StatStates
  <2>. QED  BY <1>5, <2>1, <2>2, <1>a
<1>6. ASSUME NEW v \in Vertices, StatsSettle(v) PROVE GraphTyped'
  <2>1. /\ UNCHANGED <<hoods, chosen1>>
        /\ stats' \in {[stats EXCEPT ![v] = "done"], [stats EXCEPT ![v] = "again"],
                       [stats EXCEPT ![v] = "none"]}
    BY <1>0, <1>6 DEF StatsSettle
  <2>2. stats' \in [Vertices -> StatStates]
    BY <1>0, <2>1 DEF StatStates
  <2>. QED  BY <1>0, <2>1, <2>2, <1>a
<1>7. CASE UNCHANGED graphVars
  BY <1>0, <1>7, <1>a DEF graphVars
<1>. QED  BY <1>1, <1>2, <1>3, <1>4, <1>5, <1>6, <1>7, <1>8 DEF GraphNext, GraphSettles

LEMMA GraphTypedHold == GraphSpec => []GraphTyped
<1>1. GraphInit /\ GraphInv => GraphTyped
  BY DEF GraphInit, GraphTyped, StatStates
<1>2. GraphTyped /\ GraphInv' /\ [GraphNext]_graphVars => GraphTyped'
  BY GraphTypedStep
<1>. QED  BY <1>1, <1>2, GraphHolds, PTL DEF GraphSpec

(* --------------------------- the connections ---------------------------- *)
DeletionType == [pc : {"idle", "asked", "served"}, id : Connectors \cup {NoRow},
                 list : SUBSET Connectors, ok : BOOLEAN]
LoadType == [pc : {"idle", "asked", "served"}, ids : SUBSET Connectors]
LoadTable == [Loads -> LoadType]

(* What is being deleted was confirmed, whatever the dialog shows by now;   *)
(* and what the browser remembers is of different names.                    *)
ConnectionsInv ==
  /\ deletion \in DeletionType /\ list \subseteq Connectors /\ conns \subseteq Connectors
  /\ deleteTarget \in Connectors \cup {NoRow}
  /\ listLoads \in LoadTable
  /\ deletion.pc # "idle" => deletion.id \in confirmed
  /\ OneOfAName

DeletionConfirmed ==
  deletion.pc = "asked" /\ deletion'.pc = "served" /\ deletion'.ok
    => conns \ conns' \subseteq confirmed

LEMMA LoadsGoOn ==
  ASSUME listLoads \in LoadTable,
         NEW l \in Loads, conns \subseteq Connectors
  PROVE  /\ [listLoads EXCEPT ![l] = Asked] \in LoadTable
         /\ [listLoads EXCEPT ![l] = Waiting] \in LoadTable
         /\ [listLoads EXCEPT ![l].pc = "served", ![l].ids = conns] \in LoadTable
<1>1. listLoads[l] \in LoadType
  BY DEF LoadTable
<1>2. [listLoads[l] EXCEPT !.pc = "served", !.ids = conns] \in LoadType
  BY <1>1 DEF LoadType
<1>3. [listLoads EXCEPT ![l].pc = "served", ![l].ids = conns]
        = [listLoads EXCEPT ![l] = [listLoads[l] EXCEPT !.pc = "served", !.ids = conns]]
  BY <1>1 DEF LoadTable
<1>. QED  BY <1>2, <1>3 DEF Asked, Waiting, LoadType, LoadTable

\* What most steps keep.
LEMMA DeletionRests ==
  ASSUME ConnectionsInv, deletion' = deletion, confirmed \subseteq confirmed', local' \subseteq local,
         conns' \subseteq Connectors, list' \subseteq Connectors,
         deleteTarget' \in Connectors \cup {NoRow},
         listLoads' \in LoadTable
  PROVE  ConnectionsInv' /\ DeletionConfirmed
BY DEF ConnectionsInv, OneOfAName, Alike, DeletionConfirmed

LEMMA ConnectionsSteps ==
  ASSUME ConnectionsInv, ConnectionsNext
  PROVE  ConnectionsInv' /\ DeletionConfirmed
<1>0. /\ deletion \in DeletionType /\ list \subseteq Connectors /\ conns \subseteq Connectors
      /\ deleteTarget \in Connectors \cup {NoRow}
      /\ listLoads \in LoadTable
      /\ deletion.pc # "idle" => deletion.id \in confirmed
  BY DEF ConnectionsInv
<1>1. CASE Tick \/ Refresh \/ SwitchDialog
  <2>1. PICK l \in Loads : listLoads' = [listLoads EXCEPT ![l] = Asked]
    BY <1>1 DEF Tick, Refresh, SwitchDialog, StartLoad
  <2>. QED  BY <1>0, <1>1, <2>1, LoadsGoOn, DeletionRests DEF Tick, Refresh, SwitchDialog
<1>2. CASE LeavePage \/ DismissDelete
  BY <1>0, <1>2, DeletionRests DEF LeavePage, DismissDelete
<1>3. CASE ConfirmDelete
  <2>. DEFINE d == [NoDeletion EXCEPT !.pc = "asked", !.id = deleteTarget, !.list = list]
  <2>1. d \in DeletionType /\ d.pc = "asked" /\ d.id = deleteTarget
    BY <1>0 DEF NoDeletion, DeletionType
  <2>2. /\ deletion' = d /\ confirmed' = confirmed \cup {deleteTarget} /\ deletion = NoDeletion
        /\ UNCHANGED <<conns, list, local, deleteTarget, listLoads>>
    BY <1>3 DEF ConfirmDelete
  <2>3. deletion.pc = "idle"
    BY <2>2 DEF NoDeletion
  <2>. HIDE DEF d
  <2>. QED  BY <2>1, <2>2, <2>3 DEF ConnectionsInv, OneOfAName, Alike, DeletionConfirmed
<1>4. CASE ServeDelete
  <2>1. /\ deletion.pc = "asked" /\ UNCHANGED <<list, local, deleteTarget, listLoads, confirmed>>
        /\ \/ conns' = conns \ {deletion.id} /\ deletion' = [deletion EXCEPT !.pc = "served", !.ok = TRUE]
           \/ conns' = conns /\ deletion' = [deletion EXCEPT !.pc = "served"]
    BY <1>4 DEF ServeDelete, Doomed
  <2>2. deletion' \in DeletionType /\ deletion'.id = deletion.id
    BY <1>0, <2>1 DEF DeletionType
  <2>3. conns \ conns' \subseteq confirmed /\ conns' \subseteq Connectors
    BY <1>0, <2>1
  <2>. QED  BY <1>0, <2>1, <2>2, <2>3 DEF ConnectionsInv, OneOfAName, Alike, DeletionConfirmed
<1>5. CASE EndDelete
  <2>1. /\ local' \subseteq local /\ deletion' = NoDeletion /\ list' \subseteq Connectors
        /\ deleteTarget' \in {deleteTarget, NoRow} /\ UNCHANGED <<conns, listLoads, confirmed>>
    BY <1>0, <1>5 DEF EndDelete, Unlike, DeletionType
  <2>2. NoDeletion \in DeletionType /\ NoDeletion.pc = "idle"
    BY DEF NoDeletion, DeletionType
  <2>. QED  BY <1>0, <2>1, <2>2 DEF ConnectionsInv, OneOfAName, Alike, DeletionConfirmed
<1>6. ASSUME NEW l \in Loads, ServeLoad(l) \/ LoadArrives(l) \/ LoadFails(l)
      PROVE  ConnectionsInv' /\ DeletionConfirmed
  <2>1. listLoads' \in LoadTable
    <3>1. \/ listLoads' = [listLoads EXCEPT ![l] = Waiting]
          \/ listLoads' = [listLoads EXCEPT ![l].pc = "served", ![l].ids = conns]
      BY <1>6 DEF ServeLoad, LoadArrives, LoadFails
    <3>. QED  BY <1>0, <3>1, LoadsGoOn
  <2>2. list' \subseteq Connectors
    <3>1. listLoads[l].ids \subseteq Connectors
      BY <1>0 DEF LoadTable, LoadType
    <3>. QED  BY <1>0, <1>6, <3>1 DEF ServeLoad, LoadArrives, LoadFails
  <2>3. local' \subseteq local
    BY <1>6 DEF ServeLoad, LoadArrives, LoadFails, Surviving
  <2>. QED  BY <1>0, <1>6, <2>1, <2>2, <2>3, DeletionRests DEF ServeLoad, LoadArrives, LoadFails
<1>7. ASSUME NEW c \in Connectors, ChangedElsewhere(c) \/ AskDelete(c)
      PROVE  ConnectionsInv' /\ DeletionConfirmed
  BY <1>0, <1>7, DeletionRests DEF ChangedElsewhere, AskDelete
<1>8. ASSUME NEW f \in Uploaded, Stored(f)
      PROVE  ConnectionsInv' /\ DeletionConfirmed
  <2>1. PICK l \in Loads : listLoads' = [listLoads EXCEPT ![l] = Asked]
    BY <1>8 DEF Stored, StartLoad
  <2>2. /\ conns' = conns \cup {f} /\ local' = OtherNames(f) \cup {f} /\ f \in Connectors
        /\ UNCHANGED <<list, deleteTarget, deletion, confirmed>>
    BY <1>8, ConnectionsAssumption DEF Stored, ConnectionsAssumption
  <2>3. OneOfAName'
    BY <2>2 DEF ConnectionsInv, OneOfAName, Alike, OtherNames
  <2>. QED  BY <1>0, <2>1, <2>2, <2>3, LoadsGoOn DEF ConnectionsInv, DeletionConfirmed
<1>. QED  BY <1>1, <1>2, <1>3, <1>4, <1>5, <1>6, <1>7, <1>8 DEF ConnectionsNext

LEMMA ConnectionsHold ==
  ConnectionsSpec => []ConnectionsInv /\ [][DeletionConfirmed]_connVars
<1>1. ConnectionsInit => ConnectionsInv
  <2>. SUFFICES ASSUME ConnectionsInit PROVE ConnectionsInv
    OBVIOUS
  <2>1. deletion \in DeletionType /\ deletion.pc = "idle"
    BY DEF ConnectionsInit, NoDeletion, DeletionType
  <2>2. listLoads \in LoadTable
    BY DEF ConnectionsInit, Asked, Waiting, LoadTable, LoadType
  <2>. QED  BY <2>1, <2>2, ConnectionsAssumption
            DEF ConnectionsAssumption, ConnectionsInit, ConnectionsInv, OneOfAName
<1>2. ConnectionsInv /\ [ConnectionsNext]_connVars => ConnectionsInv' /\ [DeletionConfirmed]_connVars
  <2>1. ASSUME ConnectionsInv, UNCHANGED connVars PROVE ConnectionsInv'
    BY <2>1 DEF connVars, ConnectionsInv, OneOfAName, Alike
  <2>. QED  BY <2>1, ConnectionsSteps
<1>. QED  BY <1>1, <1>2, PTL DEF ConnectionsSpec

(* What the browser remembers are uploads; what was confirmed is a row.     *)
ConnsTyped ==
  /\ local \subseteq Uploaded /\ confirmed \subseteq Connectors
  /\ busy \in BOOLEAN /\ loadError \in BOOLEAN /\ present \in BOOLEAN /\ dialog \in {"none", "open"}
ConnsBounded == visits \in 0..MaxVisits /\ upsets \in 0..MaxUpsets

LEMMA ConnsTypes == ASSUME ConnectionsInv, ConnsTyped, ConnsBounded PROVE ConnectionsTypeOK
BY DEF ConnectionsInv, ConnsTyped, ConnsBounded, ConnectionsTypeOK, LoadTable, LoadType, DeletionType

LEMMA ConnsTypedStep ==
  ASSUME ConnectionsInv, ConnsTyped, [ConnectionsNext]_connVars
  PROVE  ConnsTyped'
<1>0. /\ local \subseteq Uploaded /\ confirmed \subseteq Connectors
      /\ busy \in BOOLEAN /\ loadError \in BOOLEAN /\ present \in BOOLEAN /\ dialog \in {"none", "open"}
  BY DEF ConnsTyped
<1>1. CASE Tick \/ Refresh \/ SwitchDialog
  BY <1>0, <1>1 DEF Tick, Refresh, SwitchDialog, StartLoad, ConnsTyped
<1>2. CASE LeavePage \/ DismissDelete
  BY <1>0, <1>2 DEF LeavePage, DismissDelete, ConnsTyped
<1>3. CASE ConfirmDelete
  BY <1>0, <1>3 DEF ConfirmDelete, ConnsTyped, ConnectionsInv
<1>4. CASE ServeDelete
  BY <1>0, <1>4 DEF ServeDelete, ConnsTyped
<1>5. CASE EndDelete
  BY <1>0, <1>5 DEF EndDelete, Unlike, ConnsTyped
<1>6. ASSUME NEW l \in Loads, ServeLoad(l) \/ LoadArrives(l)
      PROVE  ConnsTyped'
  BY <1>0, <1>6 DEF ServeLoad, LoadArrives, Surviving, ConnsTyped
<1>7. ASSUME NEW l \in Loads, LoadFails(l) PROVE ConnsTyped'
  <2>1. /\ busy' = FALSE /\ loadError' = (loadError \/ present)
        /\ UNCHANGED <<dialog, local, present, confirmed>>
    BY <1>7 DEF LoadFails
  <2>2. loadError' \in BOOLEAN
    BY <2>1, Zenon
  <2>. QED  BY <1>0, <2>1, <2>2 DEF ConnsTyped
<1>8. ASSUME NEW c \in Connectors, ChangedElsewhere(c) \/ AskDelete(c) PROVE ConnsTyped'
  BY <1>0, <1>8 DEF ChangedElsewhere, AskDelete, ConnsTyped
<1>9. ASSUME NEW f \in Uploaded, Stored(f) PROVE ConnsTyped'
  BY <1>0, <1>9 DEF Stored, StartLoad, OtherNames, ConnsTyped
<1>10. CASE UNCHANGED connVars
  BY <1>0, <1>10 DEF connVars, ConnsTyped
<1>. QED  BY <1>1, <1>2, <1>3, <1>4, <1>5, <1>6, <1>7, <1>8, <1>9, <1>10 DEF ConnectionsNext

LEMMA ConnsBoundedStep ==
  ASSUME ConnsBounded, [ConnectionsNext]_connVars
  PROVE  ConnsBounded'
<1>0. visits \in 0..MaxVisits /\ upsets \in 0..MaxUpsets /\ MaxVisits \in Nat /\ MaxUpsets \in Nat
  BY ConnectionsAssumption DEF ConnsBounded, ConnectionsAssumption
<1>1. /\ Visit => visits' \in 0..MaxVisits
      /\ Upset => upsets' \in 0..MaxUpsets
  BY <1>0 DEF Visit, Upset
<1>2. (visits' = visits \/ Visit) /\ (upsets' = upsets \/ Upset)
  <2>1. CASE Tick \/ Refresh \/ SwitchDialog \/ LeavePage
    BY <2>1 DEF Tick, Refresh, SwitchDialog, LeavePage
  <2>2. CASE DismissDelete \/ ConfirmDelete \/ ServeDelete \/ EndDelete
    BY <2>2 DEF DismissDelete, ConfirmDelete, ServeDelete, EndDelete
  <2>3. ASSUME NEW l \in Loads, ServeLoad(l) \/ LoadArrives(l) \/ LoadFails(l)
        PROVE  (visits' = visits \/ Visit) /\ (upsets' = upsets \/ Upset)
    BY <2>3 DEF ServeLoad, LoadArrives, LoadFails
  <2>4. ASSUME NEW c, ChangedElsewhere(c) \/ AskDelete(c) \/ Stored(c)
        PROVE  (visits' = visits \/ Visit) /\ (upsets' = upsets \/ Upset)
    BY <2>4 DEF ChangedElsewhere, AskDelete, Stored
  <2>5. CASE UNCHANGED connVars
    BY <2>5 DEF connVars
  <2>. QED  BY <2>1, <2>2, <2>3, <2>4, <2>5 DEF ConnectionsNext
<1>3. visits' \in 0..MaxVisits /\ upsets' \in 0..MaxUpsets
  BY <1>0, <1>1, <1>2
<1>. QED  BY <1>3 DEF ConnsBounded

LEMMA ConnsTypedHold == ConnectionsSpec => [](ConnsTyped /\ ConnsBounded)
<1>1. ConnectionsInit => ConnsTyped
  BY ConnectionsAssumption DEF ConnectionsInit, ConnsTyped, ConnectionsAssumption
<1>2. ConnectionsInit => ConnsBounded
  BY ConnectionsAssumption DEF ConnectionsInit, ConnsBounded, ConnectionsAssumption
<1>3. ConnectionsInv /\ ConnsTyped /\ [ConnectionsNext]_connVars => ConnsTyped'
  BY ConnsTypedStep
<1>4. ConnsBounded /\ [ConnectionsNext]_connVars => ConnsBounded'
  BY ConnsBoundedStep
<1>. QED  BY <1>1, <1>2, <1>3, <1>4, ConnectionsHold, PTL DEF ConnectionsSpec

(* ----------------------------- the dashboard ---------------------------- *)
RequestType == [query : Queries, at : {"asked", "served"}, saw : Nat, tries : {0, 1}]

(* One request of a query counts; what it was served is no older than what  *)
(* the card shows, and no newer than what the service counts.               *)
ServedLast(r) ==
  r.at = "served" => r.saw <= news /\ (cards[r.query] # Blank => cards[r.query] <= r.saw)
DashboardInv ==
  /\ news \in Nat /\ cards \in [Queries -> Nat \cup {Blank}] /\ timeRange \in Ranges
  /\ \A q \in Queries : cards[q] # Blank => cards[q] <= news
  /\ sent \subseteq RequestType /\ \A r \in sent : ServedLast(r)
  /\ \A r, s \in sent : r.query = s.query => r = s

NoneBack == \A q \in Queries : cards[q] # Blank => cards'[q] # Blank /\ cards'[q] >= cards[q]

LEMMA AskedOnce ==
  ASSUME NEW q \in Queries
  PROVE  /\ Asked1(q) \in RequestType /\ Asked1(q).query = q /\ Asked1(q).at = "asked"
         /\ [Asked1(q) EXCEPT !.tries = 1] \in RequestType
         /\ [Asked1(q) EXCEPT !.tries = 1].query = q /\ [Asked1(q) EXCEPT !.tries = 1].at = "asked"
BY DEF Asked1, RequestType

\* Requests are dropped, and new ones sent of queries that have none.
LEMMA SentGoesOn ==
  ASSUME DashboardInv, cards' = cards, news' \in Nat, news <= news', timeRange' \in Ranges,
         NEW old \in SUBSET sent, NEW new \in SUBSET RequestType,
         sent' = old \cup new, \A r \in new : r.at = "asked" /\ \A s \in old : s.query # r.query,
         \A r, s \in new : r.query = s.query => r = s
  PROVE  DashboardInv' /\ NoneBack
<1>1. \A q \in Queries : cards[q] # Blank => cards[q] \in Nat /\ cards[q] <= news'
  BY DEF DashboardInv
<1>2. \A r \in sent' : ServedLast(r)'
  <2>1. \A r \in old : ServedLast(r)'
    <3>. SUFFICES ASSUME NEW r \in old, r.at = "served"
                  PROVE  r.saw <= news' /\ (cards[r.query] # Blank => cards[r.query] <= r.saw)
      BY DEF ServedLast
    <3>1. r.saw <= news /\ (cards[r.query] # Blank => cards[r.query] <= r.saw) /\ r.saw \in Nat
      BY DEF DashboardInv, ServedLast, RequestType
    <3>. QED  BY <3>1 DEF DashboardInv
  <2>. QED  BY <2>1 DEF ServedLast
<1>3. \A r, s \in sent' : r.query = s.query => r = s
  BY DEF DashboardInv
<1>4. NoneBack
  <2>. SUFFICES ASSUME NEW q \in Queries, cards[q] # Blank PROVE cards'[q] >= cards[q]
    BY DEF NoneBack
  <2>. QED  BY <1>1
<1>. QED  BY <1>1, <1>2, <1>3, <1>4 DEF DashboardInv

LEMMA SentStays ==
  ASSUME DashboardInv, cards' = cards, news' \in Nat, news <= news', timeRange' \in Ranges,
         sent' = sent
  PROVE  DashboardInv' /\ NoneBack
<1>. DEFINE new == {}
<1>1. sent' = sent \cup new /\ new \in SUBSET RequestType /\ sent \in SUBSET sent
  OBVIOUS
<1>2. \A r \in new : r.at = "asked" /\ \A s \in sent : s.query # r.query
  OBVIOUS
<1>3. \A r, s \in new : r.query = s.query => r = s
  OBVIOUS
<1>. HIDE DEF new
<1>. QED  BY <1>1, <1>2, <1>3, SentGoesOn

LEMMA DashboardSteps ==
  ASSUME DashboardInv, DashboardNext
  PROVE  DashboardInv' /\ NoneBack
<1>0. /\ news \in Nat /\ cards \in [Queries -> Nat \cup {Blank}] /\ timeRange \in Ranges
      /\ sent \subseteq RequestType /\ Blank \notin Nat /\ "engine" \in Queries
      /\ \A r \in Ranges : Observed(r) \subseteq Queries /\ r \in Queries
  BY DashboardAssumption DEF DashboardAssumption, DashboardInv, Observed, Queries
<1>1. CASE News \/ HideOrShow
  <2>1. UNCHANGED <<cards, timeRange, sent>> /\ news' \in {news, news + 1}
    BY <1>1 DEF News, HideOrShow
  <2>2. news' \in Nat /\ news <= news'
    BY <1>0, <2>1
  <2>. QED  BY <1>0, <2>1, <2>2, SentStays
<1>3. ASSUME NEW qs \in SUBSET Queries, Refetch(qs)
      PROVE  DashboardInv' /\ NoneBack
  <2>. DEFINE new == {Asked1(q) : q \in qs}
  <2>1. new \subseteq RequestType /\ \A r \in new : r.at = "asked" /\ r.query \in qs
    <3>1. \A q \in qs : Asked1(q) \in RequestType /\ Asked1(q).at = "asked" /\ Asked1(q).query \in qs
      BY AskedOnce
    <3>. QED  BY <3>1
  <2>2. \A r, s \in new : r.query = s.query => r = s
    BY AskedOnce
  <2>3. sent' = Replaced(qs) \cup new /\ Replaced(qs) \subseteq sent
        /\ \A s \in Replaced(qs) : s.query \notin qs
    BY <1>3 DEF Refetch, Replaced
  <2>4. UNCHANGED <<cards, news, timeRange>> /\ news <= news'
    BY <1>0, <1>3 DEF Refetch
  <2>. HIDE DEF new
  <2>. QED  BY <1>0, <2>1, <2>2, <2>3, <2>4, SentGoesOn
<1>4. CASE Refresh1 \/ RefreshEngine
  BY <1>0, <1>3, <1>4 DEF Refresh1, RefreshEngine
<1>5. ASSUME NEW q \in Queries, ~UnderWay(q), sent' = sent \cup {Asked1(q)},
             UNCHANGED <<cards, news>>, timeRange' \in Ranges
      PROVE  DashboardInv' /\ NoneBack
  <2>1. news <= news'
    BY <1>0, <1>5
  <2>. DEFINE new == {Asked1(q)}
  <2>2. new \in SUBSET RequestType /\ \A r \in new : r.at = "asked" /\ r.query = q
    BY AskedOnce
  <2>3. \A r \in new : r.at = "asked" /\ \A s \in sent : s.query # r.query
    BY <1>5, <2>2 DEF UnderWay
  <2>4. \A r, s \in new : r.query = s.query => r = s
    OBVIOUS
  <2>5. sent' = sent \cup new /\ sent \in SUBSET sent
    BY <1>5
  <2>. HIDE DEF new
  <2>. QED  BY <1>0, <1>5, <2>1, <2>2, <2>3, <2>4, <2>5, SentGoesOn
<1>6. ASSUME NEW q \in Queries, Minute(q)
      PROVE  DashboardInv' /\ NoneBack
  BY <1>0, <1>5, <1>6 DEF Minute
<1>7. ASSUME NEW r \in Ranges, ChooseRange(r)
      PROVE  DashboardInv' /\ NoneBack
  <2>1. /\ timeRange' = r /\ UNCHANGED <<cards, news>> /\ news <= news'
        /\ sent' = sent \/ (~UnderWay(r) /\ sent' = sent \cup {Asked1(r)})
    BY <1>0, <1>7 DEF ChooseRange, RangeShown
  <2>2. CASE sent' = sent
    BY <1>0, <2>1, <2>2, SentStays
  <2>. QED  BY <1>0, <1>5, <2>1, <2>2
<1>8. ASSUME NEW r \in sent, CardMissed(r)
      PROVE  DashboardInv' /\ NoneBack
  <2>. DEFINE new == IF r.tries = 0 THEN {[Asked1(r.query) EXCEPT !.tries = 1]} ELSE {}
  <2>1. r.query \in Queries
    BY <1>0 DEF RequestType
  <2>2. new \subseteq RequestType /\ \A s \in new : s.at = "asked" /\ s.query = r.query
    BY <2>1, AskedOnce
  <2>3. \A s, t \in new : s = t
    OBVIOUS
  <2>4. sent' = (sent \ {r}) \cup new /\ UNCHANGED <<cards, news, timeRange>> /\ news <= news'
    BY <1>0, <1>8 DEF CardMissed
  <2>5. \A s \in sent \ {r} : s.query # r.query
    BY DEF DashboardInv
  <2>. HIDE DEF new
  <2>. QED  BY <1>0, <2>2, <2>3, <2>4, <2>5, SentGoesOn
<1>9. ASSUME NEW r \in sent, Serve1(r)
      PROVE  DashboardInv' /\ NoneBack
  <2>. DEFINE t == [r EXCEPT !.at = "served", !.saw = news]
  <2>1. t \in RequestType /\ t.query = r.query /\ t.saw = news
    BY <1>0 DEF RequestType
  <2>2. sent' = (sent \ {r}) \cup {t} /\ UNCHANGED <<cards, news, timeRange>>
    BY <1>9 DEF Serve1
  <2>. HIDE DEF t
  <2>3. t.query \in Queries
    BY <2>1 DEF RequestType
  <2>4. ServedLast(t)
    BY <1>0, <2>1, <2>3 DEF ServedLast, DashboardInv
  <2>5. \A s \in sent' : ServedLast(s)'
    BY <2>2, <2>4 DEF DashboardInv, ServedLast
  <2>6. \A u, s \in sent' : u.query = s.query => u = s
    BY <2>1, <2>2 DEF DashboardInv
  <2>7. NoneBack
    <3>1. \A q \in Queries : cards[q] # Blank => cards[q] >= cards[q]
      BY <1>0
    <3>. QED  BY <2>2, <3>1 DEF NoneBack
  <2>. QED  BY <2>1, <2>2, <2>5, <2>6, <2>7 DEF DashboardInv
<1>10. ASSUME NEW r \in sent, CardArrives(r)
       PROVE  DashboardInv' /\ NoneBack
  <2>1. /\ r.at = "served" /\ r.query \in Queries /\ r.saw \in Nat /\ ServedLast(r)
        /\ sent' = sent \ {r} /\ cards' = [cards EXCEPT ![r.query] = r.saw]
        /\ UNCHANGED <<news, timeRange>>
    BY <1>0, <1>10 DEF CardArrives, RequestType, DashboardInv
  <2>2. /\ cards' \in [Queries -> Nat \cup {Blank}] /\ cards'[r.query] = r.saw
        /\ \A q \in Queries : q # r.query => cards'[q] = cards[q]
    BY <1>0, <2>1
  <2>3. r.saw <= news /\ (cards[r.query] # Blank => cards[r.query] <= r.saw)
    BY <2>1 DEF ServedLast
  <2>4. \A q \in Queries : cards'[q] # Blank => cards'[q] <= news
    BY <2>2, <2>3 DEF DashboardInv
  <2>5. \A s \in sent' : ServedLast(s)'
    <3>1. \A s \in sent' : s \in sent /\ s.query # r.query /\ s.query \in Queries
      BY <1>0, <2>1 DEF DashboardInv, RequestType
    <3>. QED  BY <2>1, <2>2, <3>1 DEF DashboardInv, ServedLast
  <2>6. NoneBack
    <3>. SUFFICES ASSUME NEW q \in Queries, cards[q] # Blank
                  PROVE  cards'[q] # Blank /\ cards'[q] >= cards[q]
      BY DEF NoneBack
    <3>1. CASE q = r.query
      BY <1>0, <2>1, <2>2, <2>3, <3>1
    <3>2. CASE q # r.query
      BY <1>0, <2>2, <3>2
    <3>. QED  BY <3>1, <3>2
  <2>. QED  BY <1>0, <2>1, <2>2, <2>4, <2>5, <2>6 DEF DashboardInv
<1>. QED  BY <1>1, <1>4, <1>6, <1>7, <1>8, <1>9, <1>10 DEF DashboardNext

LEMMA DashboardHolds ==
  DashboardSpec => []DashboardInv /\ [][NoneBack]_dashVars
<1>1. DashboardInit => DashboardInv
  <2>. SUFFICES ASSUME DashboardInit PROVE DashboardInv
    OBVIOUS
  <2>1. timeRange \in Ranges
    BY DashboardAssumption DEF DashboardAssumption, DashboardInit
  <2>2. Observed(timeRange) \subseteq Queries
    BY <2>1 DEF Observed, Queries
  <2>3. \A r \in sent : r \in RequestType /\ r.at = "asked" /\ r = Asked1(r.query)
    <3>1. \A r \in sent : \E q \in Queries : r = Asked1(q)
      BY <2>2 DEF DashboardInit
    <3>. QED  BY <3>1, AskedOnce
  <2>4. \A r, s \in sent : r.query = s.query => r = s
    BY <2>3
  <2>. QED  BY <2>1, <2>3, <2>4 DEF DashboardInit, DashboardInv, ServedLast
<1>2. DashboardInv /\ [DashboardNext]_dashVars => DashboardInv' /\ [NoneBack]_dashVars
  <2>1. ASSUME DashboardInv, UNCHANGED dashVars PROVE DashboardInv'
    BY <2>1 DEF dashVars, DashboardInv, ServedLast
  <2>. QED  BY <2>1, DashboardSteps
<1>. QED  BY <1>1, <1>2, PTL DEF DashboardSpec

(* A card that is blank is asked for, or its request and the retry failed.  *)
Tried1(r) == r.saw <= news /\ (r.tries = 1 => misses >= 1)
Blanks == \A q \in Observed(timeRange) : cards[q] = Blank => UnderWay(q) \/ misses >= 2

DashTyped ==
  /\ DashboardInv /\ news \in 0..MaxNews /\ misses \in Nat
  /\ (\A r \in sent : Tried1(r)) /\ Blanks

LEMMA DashTypes == ASSUME DashTyped PROVE DashboardTypeOK
<1>1. /\ news \in 0..MaxNews /\ cards \in [Queries -> Nat \cup {Blank}] /\ timeRange \in Ranges
      /\ \A q \in Queries : cards[q] # Blank => cards[q] <= news
      /\ sent \subseteq RequestType /\ \A r, s \in sent : r.query = s.query => r = s
  BY DEF DashTyped, DashboardInv
<1>2. \A q \in Queries : cards[q] \in (0..MaxNews) \cup {Blank}
  <2>. SUFFICES ASSUME NEW q \in Queries, cards[q] # Blank PROVE cards[q] \in 0..MaxNews
    OBVIOUS
  <2>1. cards[q] \in Nat /\ cards[q] <= news
    BY <1>1
  <2>. QED  BY <1>1, <2>1, DashboardAssumption DEF DashboardAssumption
<1>3. \A r \in sent : r.query \in Queries /\ r.tries \in {0, 1}
  BY <1>1 DEF RequestType
<1>. QED  BY <1>1, <1>2, <1>3 DEF DashTyped, Tried1, Blanks, DashboardTypeOK

LEMMA AskedLike ==
  ASSUME NEW q
  PROVE  /\ Asked1(q).query = q /\ Asked1(q).saw = 0 /\ Asked1(q).tries = 0
         /\ [Asked1(q) EXCEPT !.tries = 1].query = q /\ [Asked1(q) EXCEPT !.tries = 1].saw = 0
BY DEF Asked1

\* Requests are sent and dropped, and every query is asked for that was.
LEMMA BlanksStay ==
  ASSUME DashTyped, DashboardInv', cards' = cards, news' \in 0..MaxNews, news <= news',
         misses' \in Nat, misses <= misses',
         \A r \in sent' : r \in sent \/ Tried1(r)',
         \A q \in Observed(timeRange') : cards[q] = Blank =>
           UnderWay(q)' \/ misses' >= 2 \/ (q \in Observed(timeRange) /\ ~UnderWay(q))
  PROVE  DashTyped'
<1>1. news \in Nat /\ misses \in Nat /\ sent \subseteq RequestType
  BY DEF DashTyped, DashboardInv
<1>2. \A r \in sent : r.saw \in Nat
  BY <1>1 DEF RequestType
<1>3. news' \in Nat
  OBVIOUS
<1>4. \A r \in sent : Tried1(r)'
  <2>. SUFFICES ASSUME NEW r \in sent PROVE r.saw <= news' /\ (r.tries = 1 => misses' >= 1)
    BY DEF Tried1
  <2>1. r.saw <= news /\ (r.tries = 1 => misses >= 1) /\ r.saw \in Nat
    BY <1>2 DEF DashTyped, Tried1
  <2>2. r.saw <= news'
    BY <1>1, <1>3, <2>1
  <2>. QED  BY <1>1, <2>1, <2>2
<1>5. Blanks'
  <2>. SUFFICES ASSUME NEW q \in Observed(timeRange'), cards[q] = Blank
                PROVE  UnderWay(q)' \/ misses' >= 2
    BY DEF Blanks
  <2>1. CASE q \in Observed(timeRange) /\ ~UnderWay(q)
    <3>1. misses >= 2
      BY <2>1 DEF DashTyped, Blanks
    <3>. QED  BY <1>1, <3>1
  <2>. QED  BY <2>1
<1>. QED  BY <1>4, <1>5 DEF DashTyped

LEMMA DashTypedStep ==
  ASSUME DashTyped, [DashboardNext]_dashVars
  PROVE  DashTyped'
<1>0. /\ DashboardInv /\ DashboardInv' /\ news \in 0..MaxNews /\ MaxNews \in Nat /\ misses \in Nat
      /\ Blank \notin Nat
  <2>1. DashboardInv'
    BY DashboardSteps DEF DashTyped, dashVars, DashboardInv, ServedLast
  <2>. QED  BY <2>1, DashboardAssumption DEF DashTyped, DashboardAssumption
<1>a. \A q : cards[q] = Blank /\ q \in Observed(timeRange) => UnderWay(q) \/ misses >= 2
  BY DEF DashTyped, Blanks
<1>1. CASE News \/ HideOrShow \/ UNCHANGED dashVars
  <2>1. UNCHANGED <<cards, timeRange, sent, misses>> /\ news' \in 0..MaxNews /\ news <= news'
    BY <1>0, <1>1 DEF News, HideOrShow, dashVars
  <2>2. \A q : UnderWay(q)' <=> UnderWay(q)
    BY <2>1 DEF UnderWay
  <2>3. misses' \in Nat /\ misses <= misses'
    BY <1>0, <2>1
  <2>. QED  BY <1>0, <2>1, <2>2, <2>3, BlanksStay
<1>2. ASSUME NEW qs, Refetch(qs) PROVE DashTyped'
  <2>1. /\ sent' = Replaced(qs) \cup {Asked1(q) : q \in qs} /\ UNCHANGED <<cards, news, timeRange, misses>>
    BY <1>2 DEF Refetch
  <2>2. \A r \in sent' : r \in sent \/ Tried1(r)'
    <3>1. \A q \in qs : Tried1(Asked1(q))'
      BY <1>0, <2>1, AskedLike DEF Tried1
    <3>. QED  BY <2>1, <3>1 DEF Replaced
  <2>3. \A q : UnderWay(q) => UnderWay(q)'
    <3>. SUFFICES ASSUME NEW q, NEW r \in sent, r.query = q PROVE \E s \in sent' : s.query = q
      BY DEF UnderWay
    <3>1. CASE q \in qs
      BY <2>1, <3>1, AskedLike
    <3>2. CASE q \notin qs
      BY <2>1, <3>2 DEF Replaced
    <3>. QED  BY <3>1, <3>2
  <2>4. misses' \in Nat /\ misses <= misses' /\ news' \in 0..MaxNews /\ news <= news'
    BY <1>0, <2>1
  <2>. QED  BY <1>0, <2>1, <2>2, <2>3, <2>4, BlanksStay
<1>3. CASE Refresh1 \/ RefreshEngine
  BY <1>2, <1>3 DEF Refresh1, RefreshEngine
<1>4. ASSUME NEW q, sent' = sent \cup {Asked1(q)} \/ sent' = sent, UNCHANGED <<cards, news, misses>>,
             \A p \in Observed(timeRange') : p \in Observed(timeRange) \/ cards[p] # Blank \/ UnderWay(p)'
      PROVE  DashTyped'
  <2>1. \A r \in sent' : r \in sent \/ Tried1(r)'
    <3>1. Tried1(Asked1(q))'
      BY <1>0, <1>4, AskedLike DEF Tried1
    <3>. QED  BY <1>4, <3>1
  <2>2. \A p : UnderWay(p) => UnderWay(p)'
    BY <1>4 DEF UnderWay
  <2>3. misses' \in Nat /\ misses <= misses' /\ news' \in 0..MaxNews /\ news <= news'
    BY <1>0, <1>4
  <2>. QED  BY <1>0, <1>4, <2>1, <2>2, <2>3, BlanksStay
<1>5. ASSUME NEW q \in Queries, Minute(q) PROVE DashTyped'
  BY <1>4, <1>5 DEF Minute
<1>6. ASSUME NEW r \in Ranges, ChooseRange(r) PROVE DashTyped'
  <2>1. /\ timeRange' = r /\ UNCHANGED <<cards, news, misses>>
        /\ sent' = sent \/ sent' = sent \cup {Asked1(r)}
        /\ UnderWay(r) \/ cards[r] # Blank \/ sent' = sent \cup {Asked1(r)}
    BY <1>6 DEF ChooseRange, RangeShown
  <2>2. cards[r] # Blank \/ UnderWay(r)'
    <3>1. Asked1(r).query = r
      BY AskedLike
    <3>. QED  BY <2>1, <3>1 DEF UnderWay
  <2>3. \A p \in Observed(timeRange') : p \in Observed(timeRange) \/ p = r
    BY <2>1 DEF Observed
  <2>. QED  BY <1>4, <2>1, <2>2, <2>3
<1>7. ASSUME NEW r \in sent, CardMissed(r) PROVE DashTyped'
  <2>1. /\ misses' = misses + 1 /\ UNCHANGED <<cards, news, timeRange>>
        /\ sent' = (sent \ {r}) \cup IF r.tries = 0 THEN {[Asked1(r.query) EXCEPT !.tries = 1]} ELSE {}
    BY <1>7 DEF CardMissed
  <2>2. PICK t : t = [Asked1(r.query) EXCEPT !.tries = 1]
    OBVIOUS
  <2>3. t.query = r.query /\ t.saw = 0
    BY <2>2, AskedLike
  <2>4. r.tries \in {0, 1} /\ (r.tries = 1 => misses >= 1)
    BY DEF DashTyped, DashboardInv, RequestType, Tried1
  <2>5. misses' \in Nat /\ misses <= misses' /\ misses' >= 1 /\ news' \in 0..MaxNews /\ news <= news'
    BY <1>0, <2>1
  <2>6. Tried1(t)'
    BY <1>0, <2>1, <2>3, <2>5 DEF Tried1
  <2>7. \A x \in sent' : x \in sent \/ Tried1(x)'
    BY <2>1, <2>2, <2>6
  <2>8. \A q : UnderWay(q) => UnderWay(q)' \/ misses' >= 2
    <3>. SUFFICES ASSUME NEW s \in sent PROVE (\E x \in sent' : x.query = s.query) \/ misses' >= 2
      BY DEF UnderWay
    <3>1. CASE s # r
      BY <2>1, <3>1
    <3>2. CASE s = r /\ r.tries = 0
      BY <2>1, <2>2, <2>3, <3>2
    <3>3. CASE s = r /\ r.tries = 1
      <4>1. misses >= 1
        BY <2>4, <3>3
      <4>. QED  BY <1>0, <2>1, <4>1
    <3>. QED  BY <2>4, <3>1, <3>2, <3>3
  <2>. QED  BY <1>0, <2>1, <2>5, <2>7, <2>8, BlanksStay
<1>8. ASSUME NEW r \in sent, Serve1(r) PROVE DashTyped'
  <2>1. /\ sent' = (sent \ {r}) \cup {[r EXCEPT !.at = "served", !.saw = news]}
        /\ UNCHANGED <<cards, news, timeRange, misses>>
    BY <1>8 DEF Serve1
  <2>2. r \in RequestType
    BY <1>0 DEF DashboardInv
  <2>3. PICK t : t = [r EXCEPT !.at = "served", !.saw = news]
    OBVIOUS
  <2>4. t.query = r.query /\ t.saw = news /\ t.tries = r.tries
    BY <2>2, <2>3 DEF RequestType
  <2>5. Tried1(t)'
    <3>1. r.tries = 1 => misses >= 1
      BY DEF DashTyped, Tried1
    <3>2. t.saw <= news'
      BY <1>0, <2>1, <2>4
    <3>. QED  BY <2>1, <2>4, <3>1, <3>2 DEF Tried1
  <2>6. \A x \in sent' : x \in sent \/ Tried1(x)'
    BY <2>1, <2>3, <2>5
  <2>7. \A q : UnderWay(q) => UnderWay(q)'
    BY <2>1, <2>3, <2>4 DEF UnderWay
  <2>8. misses' \in Nat /\ misses <= misses' /\ news' \in 0..MaxNews /\ news <= news'
    BY <1>0, <2>1
  <2>. QED  BY <1>0, <2>1, <2>6, <2>7, <2>8, BlanksStay
<1>9. ASSUME NEW r \in sent, CardArrives(r) PROVE DashTyped'
  <2>1. /\ sent' = sent \ {r} /\ cards' = [cards EXCEPT ![r.query] = r.saw]
        /\ UNCHANGED <<news, timeRange, misses>>
    BY <1>9 DEF CardArrives
  <2>2. r.saw \in Nat /\ r.query \in Queries /\ cards \in [Queries -> Nat \cup {Blank}]
        /\ timeRange \in Ranges
    BY <1>0 DEF DashboardInv, RequestType
  <2>3. \A q \in Observed(timeRange) : cards'[q] = Blank => cards[q] = Blank /\ q # r.query
    <3>1. Observed(timeRange) \subseteq Queries
      BY <2>2 DEF Observed, Queries
    <3>. QED  BY <1>0, <2>1, <2>2, <3>1
  <2>4. \A q : UnderWay(q) /\ q # r.query => UnderWay(q)'
    BY <2>1 DEF UnderWay
  <2>5. Blanks'
    BY <1>a, <2>1, <2>3, <2>4 DEF Blanks
  <2>6. \A s \in sent' : Tried1(s)'
    BY <2>1 DEF DashTyped, Tried1
  <2>. QED  BY <1>0, <2>1, <2>5, <2>6 DEF DashTyped
<1>. QED  BY <1>1, <1>3, <1>5, <1>6, <1>7, <1>8, <1>9 DEF DashboardNext

LEMMA DashTypedHolds == DashboardSpec => []DashTyped
<1>1. DashboardInit => /\ news \in 0..MaxNews /\ misses \in Nat
                       /\ (\A r \in sent : Tried1(r)) /\ Blanks
  <2>. SUFFICES ASSUME DashboardInit
                PROVE  /\ news \in 0..MaxNews /\ misses \in Nat
                       /\ (\A r \in sent : Tried1(r)) /\ Blanks
    OBVIOUS
  <2>1. news = 0 /\ misses = 0 /\ sent = {Asked1(q) : q \in Observed(timeRange)} /\ MaxNews \in Nat
    BY DashboardAssumption DEF DashboardInit, DashboardAssumption
  <2>2. \A r \in sent : Tried1(r)
    BY <2>1, AskedLike DEF Tried1
  <2>3. Blanks
    BY <2>1, AskedLike DEF Blanks, UnderWay
  <2>. QED  BY <2>1, <2>2, <2>3
<1>2. DashTyped /\ [DashboardNext]_dashVars => DashTyped'
  BY DashTypedStep
<1>3. DashboardSpec => DashboardInv
  BY DashboardHolds, PTL
<1>. QED  BY <1>1, <1>2, <1>3, PTL DEF DashboardSpec, DashTyped

(* ---------------------------- ontology import --------------------------- *)
WindowOK(w) ==
  /\ w = [open |-> w.open, inst |-> w.inst, loading |-> w.loading, generating |-> w.generating,
          importing |-> w.importing]
  /\ w.inst \in 0..MaxOpens

\* How far an import has come: what it passed over without a failure exists.
ImportOK(t, J) ==
  /\ t = [op |-> "import", inst |-> t.inst, template |-> t.template, phase |-> t.phase,
          i |-> t.i, ids |-> t.ids, failed |-> t.failed]
  /\ t.template \in Templates /\ t.i \in Nat \ {0}
  /\ t.phase = "existing" => t.i = 1
  /\ t.phase = "types" /\ ~t.failed =>
       \A k \in DOMAIN typesIn[t.template] : k < t.i => typesIn[t.template][k] \in t.ids
  /\ t.phase = "rels" /\ ~t.failed =>
       /\ TypesNamedIn(t.template) \subseteq t.ids
       /\ \A k \in DOMAIN relsIn[t.template] : k < t.i => relsIn[t.template][k].name \in J

WholeOK(t, K, J) ==
  TypesNamedIn(t.template) \subseteq K /\ {r.name : r \in RelationsIn(t.template)} \subseteq J

TaskOK(t, K, J) ==
  /\ t.inst \in Nat
  /\ t.op = "import" => ImportOK(t, J) /\ t.ids \subseteq K
  /\ t.op = "whole" => WholeOK(t, K, J)
  /\ t.op = "generate" => t.name \in Names

\* A window runs one import, and says so while it is open.
OneImport(T) == \A t, u \in T : t.op = "import" /\ u.op = "import" /\ t.inst = u.inst => t = u

Placed(T, w) ==
  \A t \in T : /\ t.inst <= w.inst
               /\ t.op = "import" /\ w.open /\ t.inst = w.inst => w.importing

ImportStores ==
  /\ WindowOK(window) /\ tries \in 0..MaxTries
  /\ chosen = [conn |-> chosen.conn, template |-> chosen.template]
  /\ chosen.conn \subseteq offered /\ chosen.template \in Templates /\ offered \subseteq Conns
  /\ known \subseteq Names
  /\ \A t \in tasks : TaskOK(t, known, joined)
  /\ OneImport(tasks) /\ Placed(tasks, window)

LEMMA TaskGrows ==
  ASSUME NEW t, NEW K, NEW J, TaskOK(t, K, J), NEW L, NEW M, K \subseteq L, J \subseteq M
  PROVE  TaskOK(t, L, M)
<1>1. WholeOK(t, K, J) => WholeOK(t, L, M)
  BY DEF WholeOK
<1>2. ImportOK(t, J) => ImportOK(t, M)
  BY DEF ImportOK
<1>. QED  BY <1>1, <1>2 DEF TaskOK

LEMMA NamesIn ==
  ASSUME NEW k \in Templates
  PROVE  /\ TypesNamedIn(k) \subseteq Names
         /\ typesIn[k] \in Seq(TypesNamedIn(k)) /\ relsIn[k] \in Seq(RelationsIn(k))
         /\ \A r \in RelationsIn(k) : {r.src, r.tgt} \subseteq TypesNamedIn(k)
BY ImportAssumption DEF ImportAssumption, Names, TemplateTypes

\* A flag of the window changes.
LEMMA WindowFlags ==
  ASSUME WindowOK(window), NEW v, NEW w,
         \/ w = [window EXCEPT !.loading = v] \/ w = [window EXCEPT !.generating = v]
         \/ w = [window EXCEPT !.importing = v]
  PROVE  /\ WindowOK(w) /\ w.open = window.open /\ w.inst = window.inst
         /\ w.importing = window.importing \/ w.importing = v
<1>1. /\ window = [open |-> window.open, inst |-> window.inst, loading |-> window.loading,
                   generating |-> window.generating, importing |-> window.importing]
      /\ window.inst \in 0..MaxOpens
  BY DEF WindowOK
<1>2. CASE w = [window EXCEPT !.loading = v]
  <2>1. w = [open |-> window.open, inst |-> window.inst, loading |-> v,
             generating |-> window.generating, importing |-> window.importing]
    BY <1>1, <1>2
  <2>. QED  BY <1>1, <2>1 DEF WindowOK
<1>3. CASE w = [window EXCEPT !.generating = v]
  <2>1. w = [open |-> window.open, inst |-> window.inst, loading |-> window.loading,
             generating |-> v, importing |-> window.importing]
    BY <1>1, <1>3
  <2>. QED  BY <1>1, <2>1 DEF WindowOK
<1>4. CASE w = [window EXCEPT !.importing = v]
  <2>1. w = [open |-> window.open, inst |-> window.inst, loading |-> window.loading,
             generating |-> window.generating, importing |-> v]
    BY <1>1, <1>4
  <2>. QED  BY <1>1, <2>1 DEF WindowOK
<1>. QED  BY <1>2, <1>3, <1>4

LEMMA ChosenConn ==
  ASSUME ImportStores, NEW c, NEW d, d = [chosen EXCEPT !.conn = c]
  PROVE  d = [conn |-> d.conn, template |-> d.template] /\ d.conn = c /\ d.template \in Templates
<1>1. chosen = [conn |-> chosen.conn, template |-> chosen.template] /\ chosen.template \in Templates
  BY DEF ImportStores
<1>2. d = [conn |-> c, template |-> chosen.template]
  BY <1>1
<1>. QED  BY <1>1, <1>2

\* Tasks end, or others than imports start; the window stays or a flag of it
\* changes.
LEMMA TasksPlaced ==
  ASSUME NEW S, NEW w, OneImport(S), Placed(S, w), NEW T, NEW v,
         \A t \in T : t \in S \/ (t.op # "import" /\ t.inst <= v.inst),
         v.inst = w.inst, v.open => w.open /\ (w.importing => v.importing)
  PROVE  OneImport(T) /\ Placed(T, v)
BY DEF OneImport, Placed

LEMMA ImportStart == ASSUME ImportInit PROVE ImportStores
<1>1. WindowOK(window)
  BY ImportAssumption DEF ImportInit, NoWindow, WindowOK, ImportAssumption
<1>2. tries \in 0..MaxTries
  BY ImportAssumption DEF ImportInit, ImportAssumption
<1>3. PICK k \in Templates : chosen = [conn |-> {}, template |-> k]
  BY DEF ImportInit
<1>4. /\ chosen = [conn |-> chosen.conn, template |-> chosen.template]
      /\ chosen.conn \subseteq offered /\ chosen.template \in Templates /\ offered \subseteq Conns
  BY <1>3 DEF ImportInit
<1>5. tasks = {} /\ known = {}
  BY DEF ImportInit
<1>6. OneImport(tasks) /\ Placed(tasks, window)
  BY <1>5 DEF OneImport, Placed
<1>. QED  BY <1>1, <1>2, <1>4, <1>5, <1>6 DEF ImportStores

LEMMA WindowOpens ==
  ASSUME ImportStores, OpenWindow
  PROVE  ImportStores'
<1>1. /\ window.inst \in 0..MaxOpens /\ MaxOpens \in Nat /\ window.inst < MaxOpens
      /\ tasks' = tasks \cup {[op |-> "conns", inst |-> window.inst + 1]}
      /\ UNCHANGED <<known, joined, tries>> /\ offered' = {}
  BY ImportAssumption DEF ImportStores, WindowOK, OpenWindow, ImportAssumption
<1>2. PICK n : n = window.inst + 1
  OBVIOUS
<1>3. n \in 0..MaxOpens /\ window.inst < n /\ n \in Nat
  BY <1>1, <1>2
<1>4. window' = [open |-> TRUE, inst |-> n, loading |-> TRUE, generating |-> FALSE, importing |-> FALSE]
  BY <1>2 DEF OpenWindow, NoWindow
<1>5. WindowOK(window') /\ window'.inst = n
  BY <1>3, <1>4 DEF WindowOK
<1>6. PICK k \in Templates : chosen' = [conn |-> {}, template |-> k]
  BY DEF OpenWindow
<1>7. /\ chosen' = [conn |-> chosen'.conn, template |-> chosen'.template]
      /\ chosen'.conn \subseteq offered' /\ chosen'.template \in Templates /\ offered' \subseteq Conns
  BY <1>1, <1>6
<1>8. PICK c : c = [op |-> "conns", inst |-> n]
  OBVIOUS
<1>9. tasks' = tasks \cup {c} /\ c.op = "conns" /\ c.inst = n
  BY <1>1, <1>2, <1>8
<1>10. \A t \in tasks' : TaskOK(t, known', joined')
  <2>1. TaskOK(c, known, joined)
    BY <1>3, <1>9 DEF TaskOK
  <2>. QED  BY <1>1, <1>9, <2>1 DEF ImportStores
<1>11. \A t \in tasks : t.inst \in Nat /\ t.inst <= window.inst
  BY DEF ImportStores, TaskOK, Placed
<1>12. OneImport(tasks')
  BY <1>9 DEF ImportStores, OneImport
<1>13. Placed(tasks', window')
  <2>1. \A t \in tasks : t.inst <= n /\ t.inst # n
    BY <1>1, <1>3, <1>11
  <2>2. n <= n
    BY <1>3
  <2>. QED  BY <1>5, <1>9, <2>1, <2>2 DEF Placed
<1>14. known' \subseteq Names /\ tries' \in 0..MaxTries
  BY <1>1 DEF ImportStores
<1>. QED  BY <1>5, <1>7, <1>10, <1>12, <1>13, <1>14 DEF ImportStores

\* The window is closed, by the user or by a timer.
LEMMA ShutKeeps ==
  ASSUME ImportStores, Shut, tasks' \subseteq tasks, UNCHANGED <<known, joined, tries>>
  PROVE  ImportStores'
<1>1. window.inst \in 0..MaxOpens
  BY DEF ImportStores, WindowOK
<1>2. window' = [open |-> FALSE, inst |-> window.inst, loading |-> FALSE, generating |-> FALSE,
                 importing |-> FALSE]
  BY DEF Shut, NoWindow
<1>3. WindowOK(window') /\ window'.inst = window.inst /\ ~window'.open
  BY <1>1, <1>2 DEF WindowOK
<1>4. OneImport(tasks') /\ Placed(tasks', window')
  BY <1>3 DEF ImportStores, OneImport, Placed
<1>5. /\ chosen' = [conn |-> chosen'.conn, template |-> chosen'.template]
      /\ chosen'.conn = {} /\ chosen'.template \in Templates
  BY ChosenConn DEF Shut
<1>6. offered' = {}
  BY DEF Shut
<1>7. known' \subseteq Names /\ (\A t \in tasks' : TaskOK(t, known', joined'))
  BY DEF ImportStores
<1>8. tries' \in 0..MaxTries
  BY DEF ImportStores
<1>. QED  BY <1>3, <1>4, <1>5, <1>6, <1>7, <1>8 DEF ImportStores

LEMMA ConnsAnsweredKeeps ==
  ASSUME ImportStores, NEW t \in tasks, ConnsAnswered(t)
  PROVE  ImportStores'
<1>1. /\ tasks' = tasks \ {t} /\ UNCHANGED <<known, joined, tries>>
      /\ SetMine(t, [window EXCEPT !.loading = FALSE]) /\ WindowOK(window)
      /\ OneImport(tasks) /\ Placed(tasks, window)
  BY DEF ImportStores, ConnsAnswered
<1>2. WindowOK(window') /\ OneImport(tasks') /\ Placed(tasks', window')
  <2>1. CASE window' = window
    <3>1. OneImport(tasks') /\ Placed(tasks', window')
      BY <1>1, <2>1, TasksPlaced
    <3>. QED  BY <1>1, <2>1, <3>1
  <2>2. CASE window' = [window EXCEPT !.loading = FALSE]
    <3>0. PICK w : w = [window EXCEPT !.loading = FALSE]
      OBVIOUS
    <3>1. /\ WindowOK(w) /\ w.open = window.open /\ w.inst = window.inst
          /\ w.importing = window.importing
      <4>1. /\ WindowOK(w) /\ w.open = window.open /\ w.inst = window.inst
        BY <1>1, <3>0, WindowFlags
      <4>2. w.importing = window.importing
        BY <1>1, <3>0 DEF WindowOK
      <4>. QED  BY <4>1, <4>2
    <3>2. OneImport(tasks') /\ Placed(tasks', w)
      BY <1>1, <3>1, TasksPlaced
    <3>. QED  BY <2>2, <3>0, <3>1, <3>2
  <2>. QED  BY <1>1, <2>1, <2>2 DEF SetMine
<1>3. /\ chosen' = [conn |-> chosen'.conn, template |-> chosen'.template]
      /\ chosen'.conn \subseteq offered' /\ chosen'.template \in Templates /\ offered' \subseteq Conns
  <2>1. CASE offered' = Conns /\ \E c \in Conns : chosen' = [chosen EXCEPT !.conn = {c}]
    <3>1. PICK c \in Conns : chosen' = [chosen EXCEPT !.conn = {c}]
      BY <2>1
    <3>2. /\ chosen' = [conn |-> chosen'.conn, template |-> chosen'.template]
          /\ chosen'.conn = {c} /\ chosen'.template \in Templates
      BY <3>1, ChosenConn
    <3>. QED  BY <2>1, <3>2
  <2>2. CASE UNCHANGED <<offered, chosen>>
    BY <2>2 DEF ImportStores
  <2>. QED  BY <2>1, <2>2 DEF ConnsAnswered
<1>4. known' \subseteq Names /\ (\A u \in tasks' : TaskOK(u, known', joined'))
  BY <1>1 DEF ImportStores
<1>5. tries' \in 0..MaxTries
  BY <1>1 DEF ImportStores
<1>. QED  BY <1>2, <1>3, <1>4, <1>5 DEF ImportStores

LEMMA ChoicesKeep ==
  ASSUME ImportStores, (\E c \in Conns : ChooseConn(c)) \/ \E k \in Templates : ChooseTemplate(k)
  PROVE  ImportStores'
<1>1. UNCHANGED <<window, offered, tasks, known, joined, tries>>
  BY DEF ChooseConn, ChooseTemplate
<1>2. /\ chosen' = [conn |-> chosen'.conn, template |-> chosen'.template]
      /\ chosen'.conn \subseteq offered /\ chosen'.template \in Templates
  <2>1. ASSUME NEW c \in offered, chosen' = [chosen EXCEPT !.conn = {c}]
        PROVE  /\ chosen' = [conn |-> chosen'.conn, template |-> chosen'.template]
               /\ chosen'.conn \subseteq offered /\ chosen'.template \in Templates
    <3>1. /\ chosen' = [conn |-> chosen'.conn, template |-> chosen'.template]
          /\ chosen'.conn = {c} /\ chosen'.template \in Templates
      BY <2>1, ChosenConn
    <3>. QED  BY <3>1
  <2>2. ASSUME NEW k \in Templates, chosen' = [chosen EXCEPT !.template = k]
        PROVE  /\ chosen' = [conn |-> chosen'.conn, template |-> chosen'.template]
               /\ chosen'.conn \subseteq offered /\ chosen'.template \in Templates
    <3>1. chosen = [conn |-> chosen.conn, template |-> chosen.template] /\ chosen.conn \subseteq offered
      BY DEF ImportStores
    <3>2. chosen' = [conn |-> chosen.conn, template |-> k]
      BY <2>2, <3>1
    <3>. QED  BY <3>1, <3>2
  <2>. QED  BY <2>1, <2>2 DEF ChooseConn, ChooseTemplate
<1>. QED  BY <1>1, <1>2 DEF ImportStores

LEMMA Tried ==
  ASSUME tries \in 0..MaxTries, tries < MaxTries, tries' = tries + 1
  PROVE  tries' \in 0..MaxTries
BY ImportAssumption DEF ImportAssumption

LEMMA GenerateTypeKeeps ==
  ASSUME ImportStores, GenerateType
  PROVE  ImportStores'
<1>1. /\ UNCHANGED <<offered, chosen, known, joined>>
      /\ tasks' = tasks \cup {[op |-> "generate", inst |-> window.inst, name |-> derivedName[c]] :
                               c \in chosen.conn}
      /\ WindowOK(window) /\ OneImport(tasks) /\ Placed(tasks, window)
      /\ chosen.conn \subseteq Conns
  BY DEF ImportStores, GenerateType
<1>2. PICK w : w = [window EXCEPT !.generating = TRUE]
  OBVIOUS
<1>3. WindowOK(w) /\ w.open = window.open /\ w.inst = window.inst
  BY <1>1, <1>2, WindowFlags
<1>4. w.importing = window.importing
  BY <1>1, <1>2 DEF WindowOK
<1>5. window.inst \in Nat /\ window.inst <= window.inst
  BY <1>1 DEF WindowOK
<1>6. \A t \in tasks' : t \in tasks \/ (t.op = "generate" /\ t.inst = window.inst /\ t.name \in Names)
  BY <1>1 DEF Names
<1>7. \A t \in tasks' : t \in tasks \/ (t.op # "import" /\ t.inst <= w.inst)
  BY <1>3, <1>5, <1>6
<1>8. OneImport(tasks') /\ Placed(tasks', w)
  BY <1>1, <1>3, <1>4, <1>7, TasksPlaced
<1>9. \A t \in tasks' : TaskOK(t, known', joined')
  <2>1. \A t \in tasks' : t \in tasks \/ TaskOK(t, known, joined)
    BY <1>5, <1>6 DEF TaskOK
  <2>. QED  BY <1>1, <2>1 DEF ImportStores
<1>10. tries' \in 0..MaxTries
  BY Tried DEF ImportStores, GenerateType, MayGenerateType
<1>11. window' = w
  BY <1>2 DEF GenerateType
<1>12. /\ chosen' = [conn |-> chosen'.conn, template |-> chosen'.template]
       /\ chosen'.conn \subseteq offered' /\ chosen'.template \in Templates /\ offered' \subseteq Conns
       /\ known' \subseteq Names
  BY <1>1 DEF ImportStores
<1>. QED  BY <1>3, <1>8, <1>9, <1>10, <1>11, <1>12 DEF ImportStores

LEMMA ImportTemplateKeeps ==
  ASSUME ImportStores, ImportTemplate
  PROVE  ImportStores'
<1>1. /\ UNCHANGED <<offered, chosen, known, joined>> /\ window.open /\ ~window.importing
      /\ WindowOK(window) /\ OneImport(tasks) /\ Placed(tasks, window)
      /\ chosen.template \in Templates
  BY DEF ImportStores, ImportTemplate, MayImport
<1>2. PICK t : t = [op |-> "import", inst |-> window.inst, template |-> chosen.template,
                    phase |-> "existing", i |-> 1, ids |-> {}, failed |-> FALSE]
  OBVIOUS
<1>3. tasks' = tasks \cup {t} /\ t.op = "import" /\ t.inst = window.inst
  BY <1>2 DEF ImportTemplate
<1>4. PICK w : w = [window EXCEPT !.importing = TRUE]
  OBVIOUS
<1>5. window' = w
  BY <1>4 DEF ImportTemplate
<1>6. WindowOK(w) /\ w.open = window.open /\ w.inst = window.inst
  BY <1>1, <1>4, WindowFlags
<1>7. w.importing
  BY <1>1, <1>4 DEF WindowOK
<1>8. window.inst \in Nat /\ window.inst <= window.inst
  BY <1>1 DEF WindowOK
<1>9. TaskOK(t, known, joined)
  <2>1. ImportOK(t, joined)
    BY <1>1, <1>2 DEF ImportOK
  <2>. QED  BY <1>2, <1>3, <1>8, <2>1 DEF TaskOK
<1>10. \A u \in tasks : u.op = "import" => u.inst # window.inst
  BY <1>1 DEF Placed
<1>11. OneImport(tasks')
  BY <1>1, <1>3, <1>10 DEF OneImport
<1>12. Placed(tasks', w)
  BY <1>1, <1>3, <1>6, <1>7, <1>8 DEF Placed
<1>13. \A u \in tasks' : TaskOK(u, known', joined')
  BY <1>1, <1>3, <1>9 DEF ImportStores
<1>14. tries' \in 0..MaxTries
  BY Tried DEF ImportStores, ImportTemplate, MayImport
<1>15. /\ chosen' = [conn |-> chosen'.conn, template |-> chosen'.template]
       /\ chosen'.conn \subseteq offered' /\ chosen'.template \in Templates /\ offered' \subseteq Conns
       /\ known' \subseteq Names
  BY <1>1 DEF ImportStores
<1>. QED  BY <1>5, <1>6, <1>11, <1>12, <1>13, <1>14, <1>15 DEF ImportStores

\* A request of a window ends: its flag goes, if the window is still there.
LEMMA FlagGoes ==
  ASSUME ImportStores, NEW t \in tasks, t.op = "generate" \/ t.op = "import",
         SetMine(t, Finished(t, window)), NEW T,
         \A u \in T : (u \in tasks /\ u # t) \/ (u.op # "import" /\ u.inst <= window.inst)
  PROVE  WindowOK(window') /\ OneImport(T) /\ Placed(T, window')
<1>1. WindowOK(window) /\ OneImport(tasks) /\ Placed(tasks, window)
  BY DEF ImportStores
<1>2. CASE window' = window
  <2>1. OneImport(T) /\ Placed(T, window')
    BY <1>1, <1>2, TasksPlaced
  <2>. QED  BY <1>1, <1>2, <2>1
<1>3. CASE t.op = "generate" /\ window' = [window EXCEPT !.generating = FALSE]
  <2>1. PICK w : w = [window EXCEPT !.generating = FALSE]
    OBVIOUS
  <2>2. WindowOK(w) /\ w.open = window.open /\ w.inst = window.inst
    BY <1>1, <2>1, WindowFlags
  <2>3. w.importing = window.importing
    BY <1>1, <2>1 DEF WindowOK
  <2>4. \A u \in T : u \in tasks \/ (u.op # "import" /\ u.inst <= w.inst)
    BY <2>2
  <2>5. OneImport(T) /\ Placed(T, w)
    BY <1>1, <2>2, <2>3, <2>4, TasksPlaced
  <2>. QED  BY <1>3, <2>1, <2>2, <2>5
<1>4. CASE MyTask(t) /\ t.op = "import" /\ window' = [window EXCEPT !.importing = FALSE]
  <2>1. PICK w : w = [window EXCEPT !.importing = FALSE]
    OBVIOUS
  <2>2. WindowOK(w) /\ w.open = window.open /\ w.inst = window.inst
    BY <1>1, <2>1, WindowFlags
  <2>3. \A u \in T : u \in tasks \/ (u.op # "import" /\ u.inst <= window.inst)
    OBVIOUS
  <2>4. OneImport(T) /\ Placed(T, window)
    BY <1>1, <2>3, TasksPlaced
  <2>5. \A u \in T : u.op = "import" => u.inst # window.inst
    BY <1>1, <1>4 DEF OneImport, MyTask
  <2>6. Placed(T, w)
    BY <2>2, <2>4, <2>5 DEF Placed
  <2>. QED  BY <1>4, <2>1, <2>2, <2>4, <2>6
<1>5. \/ window' = window
      \/ t.op = "generate" /\ window' = [window EXCEPT !.generating = FALSE]
      \/ MyTask(t) /\ t.op = "import" /\ window' = [window EXCEPT !.importing = FALSE]
  BY DEF SetMine, Finished
<1>. QED  BY <1>2, <1>3, <1>4, <1>5

LEMMA TypeGeneratedKeeps ==
  ASSUME ImportStores, NEW t \in tasks, TypeGenerated(t)
  PROVE  ImportStores'
<1>1. /\ UNCHANGED <<offered, chosen, joined, tries>> /\ t.op = "generate"
      /\ SetMine(t, Finished(t, window)) /\ TaskOK(t, known, joined) /\ t.inst <= window.inst
  BY DEF ImportStores, TypeGenerated, Placed
<1>2. t.name \in Names /\ t.inst \in Nat
  BY <1>1 DEF TaskOK
<1>3. known \subseteq known' /\ known' \subseteq Names
  BY <1>2 DEF TypeGenerated, ImportStores
<1>4. \A u \in tasks' : (u \in tasks /\ u # t) \/ u = Timer(t)
  BY DEF TypeGenerated
<1>5. Timer(t).op = "timer" /\ Timer(t).inst = t.inst
  BY DEF Timer
<1>6. \A u \in tasks' : (u \in tasks /\ u # t) \/ (u.op # "import" /\ u.inst <= window.inst)
  BY <1>1, <1>4, <1>5
<1>7. WindowOK(window') /\ OneImport(tasks') /\ Placed(tasks', window')
  BY <1>1, <1>6, FlagGoes
<1>8. TaskOK(Timer(t), known', joined')
  BY <1>2, <1>5 DEF TaskOK
<1>9. \A u \in tasks' : TaskOK(u, known', joined')
  <2>1. \A u \in tasks : TaskOK(u, known', joined')
    BY <1>1, <1>3, TaskGrows DEF ImportStores
  <2>. QED  BY <1>4, <1>8, <2>1
<1>10. /\ chosen' = [conn |-> chosen'.conn, template |-> chosen'.template]
       /\ chosen'.conn \subseteq offered' /\ chosen'.template \in Templates /\ offered' \subseteq Conns
  BY <1>1 DEF ImportStores
<1>11. tries' \in 0..MaxTries
  BY <1>1 DEF ImportStores
<1>. QED  BY <1>3, <1>7, <1>9, <1>10, <1>11 DEF ImportStores

\* The import goes on in the window it was started in.
LEMMA ImportGoesOn ==
  ASSUME ImportStores, NEW t \in tasks, t.op = "import", NEW u, Continue(t, u),
         u.op = "import", u.inst = t.inst, TaskOK(u, known', joined'),
         known \subseteq known', known' \subseteq Names, joined \subseteq joined'
  PROVE  ImportStores'
<1>1. tasks' = (tasks \ {t}) \cup {u} /\ UNCHANGED <<window, offered, chosen, tries>>
  BY DEF Continue
<1>2. OneImport(tasks') /\ Placed(tasks', window')
  <2>1. OneImport(tasks) /\ Placed(tasks, window)
    BY DEF ImportStores
  <2>2. OneImport(tasks')
    BY <1>1, <2>1 DEF OneImport
  <2>3. Placed(tasks', window')
    BY <1>1, <2>1 DEF Placed
  <2>. QED  BY <2>2, <2>3
<1>3. \A x \in tasks' : TaskOK(x, known', joined')
  <2>1. \A x \in tasks : TaskOK(x, known', joined')
    BY TaskGrows DEF ImportStores
  <2>. QED  BY <1>1, <2>1
<1>4. /\ chosen' = [conn |-> chosen'.conn, template |-> chosen'.template]
      /\ chosen'.conn \subseteq offered' /\ chosen'.template \in Templates /\ offered' \subseteq Conns
      /\ WindowOK(window')
  BY <1>1 DEF ImportStores
<1>5. tries' \in 0..MaxTries
  BY <1>1 DEF ImportStores
<1>. QED  BY <1>2, <1>3, <1>4, <1>5 DEF ImportStores

LEMMA ImportTaskIs ==
  ASSUME ImportStores, NEW t \in tasks, t.op = "import"
  PROVE  /\ t = [op |-> "import", inst |-> t.inst, template |-> t.template, phase |-> t.phase,
                 i |-> t.i, ids |-> t.ids, failed |-> t.failed]
         /\ t.template \in Templates /\ t.i \in Nat \ {0} /\ t.ids \subseteq known
         /\ t.inst \in Nat /\ t.inst <= window.inst /\ ImportOK(t, joined)
BY DEF ImportStores, TaskOK, ImportOK, Placed

LEMMA ExistingReadKeeps ==
  ASSUME ImportStores, NEW t \in tasks, ExistingRead(t)
  PROVE  ImportStores'
<1>1. /\ t.op = "import" /\ t.phase = "existing" /\ UNCHANGED <<known, joined>>
  BY DEF ExistingRead
<1>2. /\ t = [op |-> "import", inst |-> t.inst, template |-> t.template, phase |-> t.phase,
              i |-> t.i, ids |-> t.ids, failed |-> t.failed]
      /\ t.template \in Templates /\ t.inst \in Nat /\ t.i = 1
  BY <1>1, ImportTaskIs DEF ImportOK
<1>3. CASE Continue(t, [t EXCEPT !.phase = "types", !.ids = known])
  <2>1. PICK p, K, u : p = "types" /\ K = known /\ u = [t EXCEPT !.phase = p, !.ids = K]
    OBVIOUS
  <2>2. u = [op |-> "import", inst |-> t.inst, template |-> t.template, phase |-> "types",
             i |-> 1, ids |-> known, failed |-> t.failed]
    <3>1. u = [op |-> "import", inst |-> t.inst, template |-> t.template, phase |-> p,
               i |-> t.i, ids |-> K, failed |-> t.failed]
      <4>1. t = [op |-> "import", inst |-> t.inst, template |-> t.template, phase |-> t.phase,
                 i |-> t.i, ids |-> t.ids, failed |-> t.failed]
        BY <1>2
      <4>2. u = [[t EXCEPT !.phase = p] EXCEPT !.ids = K]
        BY <2>1
      <4>3. [t EXCEPT !.phase = p] = [op |-> "import", inst |-> t.inst, template |-> t.template,
                 phase |-> p, i |-> t.i, ids |-> t.ids, failed |-> t.failed]
        BY <4>1
      <4>. QED  BY <4>2, <4>3
    <3>. QED  BY <1>2, <2>1, <3>1
  <2>3. \A k \in DOMAIN typesIn[u.template] : ~(k < u.i)
    <3>1. typesIn[t.template] \in Seq(TypesNamedIn(t.template))
      BY <1>2, NamesIn
    <3>2. \A k \in DOMAIN typesIn[t.template] : ~(k < 1)
      BY <3>1
    <3>. QED  BY <2>2, <3>2
  <2>4. ImportOK(u, joined)
    BY <1>2, <2>2, <2>3 DEF ImportOK
  <2>5. TaskOK(u, known, joined)
    BY <1>2, <2>2, <2>4 DEF TaskOK
  <2>6. Continue(t, u)
    BY <1>3, <2>1 DEF Continue
  <2>7. u.op = "import" /\ u.inst = t.inst
    BY <2>2
  <2>8. TaskOK(u, known', joined') /\ known \subseteq known' /\ known' \subseteq Names
        /\ joined \subseteq joined'
    BY <1>1, <2>5 DEF ImportStores
  <2>. QED  BY <1>1, <2>6, <2>7, <2>8, ImportGoesOn
<1>4. CASE tasks' = tasks \ {t} /\ SetMine(t, Finished(t, window)) /\ UNCHANGED <<offered, chosen, tries>>
  <2>1. WindowOK(window') /\ OneImport(tasks') /\ Placed(tasks', window')
    BY <1>1, <1>4, FlagGoes
  <2>2. /\ chosen' = [conn |-> chosen'.conn, template |-> chosen'.template]
        /\ chosen'.conn \subseteq offered' /\ chosen'.template \in Templates /\ offered' \subseteq Conns
        /\ known' \subseteq Names /\ \A u \in tasks' : TaskOK(u, known', joined')
    BY <1>1, <1>4 DEF ImportStores
  <2>3. tries' \in 0..MaxTries
    BY <1>4 DEF ImportStores
  <2>. QED  BY <2>1, <2>2, <2>3 DEF ImportStores
<1>. QED  BY <1>3, <1>4 DEF ExistingRead

\* One type or one relationship further.
LEMMA OneFurther ==
  ASSUME ImportStores, NEW t \in tasks, t.op = "import", t.phase \in {"types", "rels"},
         NEW n, n = t.i + 1, NEW I, t.ids \subseteq I, NEW f, NEW J, joined \subseteq J, NEW u,
         u = [op |-> "import", inst |-> t.inst, template |-> t.template, phase |-> t.phase,
              i |-> n, ids |-> I, failed |-> f],
         \/ f = TRUE \/ (f = t.failed /\ t.failed)
         \/ /\ f = t.failed
            /\ t.phase = "types" /\ t.i \in DOMAIN typesIn[t.template]
                 => typesIn[t.template][t.i] \in I
            /\ t.phase = "rels" /\ t.i \in DOMAIN relsIn[t.template]
                 => relsIn[t.template][t.i].name \in J
  PROVE  ImportOK(u, J)
<1>1. /\ t.template \in Templates /\ t.i \in Nat \ {0} /\ ImportOK(t, joined)
  BY ImportTaskIs
<1>2. n \in Nat \ {0}
  BY <1>1
<1>3. ASSUME f = t.failed, ~f, t.phase = "types", NEW k \in DOMAIN typesIn[t.template], k < n,
             t.i \in DOMAIN typesIn[t.template] => typesIn[t.template][t.i] \in I
      PROVE  typesIn[t.template][k] \in I
  <2>1. typesIn[t.template] \in Seq(TypesNamedIn(t.template))
    BY <1>1, NamesIn
  <2>2. k \in Int
    BY <1>3, <2>1
  <2>3. k < t.i \/ k = t.i
    BY <1>1, <1>3, <2>2
  <2>4. CASE k < t.i
    BY <1>1, <1>3, <2>4 DEF ImportOK
  <2>5. CASE k = t.i
    BY <1>3, <2>5
  <2>. QED  BY <2>3, <2>4, <2>5
<1>4. ASSUME f = t.failed, ~f, t.phase = "rels", NEW k \in DOMAIN relsIn[t.template], k < n,
             t.i \in DOMAIN relsIn[t.template] => relsIn[t.template][t.i].name \in J
      PROVE  relsIn[t.template][k].name \in J
  <2>1. relsIn[t.template] \in Seq(RelationsIn(t.template))
    BY <1>1, NamesIn
  <2>2. k \in Int
    BY <1>4, <2>1
  <2>3. k < t.i \/ k = t.i
    BY <1>1, <1>4, <2>2
  <2>4. CASE k < t.i
    BY <1>1, <1>4, <2>4 DEF ImportOK
  <2>5. CASE k = t.i
    BY <1>4, <2>5
  <2>. QED  BY <2>3, <2>4, <2>5
<1>5. t.phase = "rels" /\ ~t.failed => TypesNamedIn(t.template) \subseteq I
  BY <1>1 DEF ImportOK
<1>6. CASE f = TRUE
  <2>1. u.failed = TRUE
    BY <1>6
  <2>. QED  BY <1>1, <1>2, <2>1 DEF ImportOK
<1>7. CASE f # TRUE
  <2>1. /\ f = t.failed
        /\ t.phase = "types" /\ ~t.failed =>
             \A k \in DOMAIN typesIn[t.template] : k < n => typesIn[t.template][k] \in I
        /\ t.phase = "rels" /\ ~t.failed =>
             \A k \in DOMAIN relsIn[t.template] : k < n => relsIn[t.template][k].name \in J
    BY <1>3, <1>4, <1>7
  <2>. QED  BY <1>1, <1>2, <1>5, <2>1 DEF ImportOK
<1>. QED  BY <1>6, <1>7

LEMMA TypeImportedKeeps ==
  ASSUME ImportStores, NEW t \in tasks, TypeImported(t)
  PROVE  ImportStores'
<1>1. t.op = "import" /\ t.phase = "types" /\ UNCHANGED joined
  BY DEF TypeImported
<1>2. /\ t = [op |-> "import", inst |-> t.inst, template |-> t.template, phase |-> t.phase,
              i |-> t.i, ids |-> t.ids, failed |-> t.failed]
      /\ t.template \in Templates /\ t.i \in Nat \ {0} /\ t.ids \subseteq known /\ t.inst \in Nat
      /\ ImportOK(t, joined) /\ known \subseteq Names
  BY <1>1, ImportTaskIs DEF ImportStores
<1>3. /\ typesIn[t.template] \in Seq(TypesNamedIn(t.template))
      /\ relsIn[t.template] \in Seq(RelationsIn(t.template)) /\ TypesNamedIn(t.template) \subseteq Names
  BY <1>2, NamesIn
<1>4. ASSUME NEW u, u.op = "import", u.inst = t.inst, Continue(t, u), ImportOK(u, joined),
             u.ids \subseteq known', known \subseteq known', known' \subseteq Names
      PROVE  ImportStores'
  <2>1. TaskOK(u, known', joined')
    BY <1>1, <1>2, <1>4 DEF TaskOK
  <2>. QED  BY <1>1, <1>4, <2>1, ImportGoesOn
<1>5. CASE t.i > Len(typesIn[t.template]) /\ known' = known
           /\ Continue(t, [t EXCEPT !.phase = "rels", !.i = 1])
  <2>1. PICK p, n, u : p = "rels" /\ n = 1 /\ u = [t EXCEPT !.phase = p, !.i = n]
    OBVIOUS
  <2>2. u = [op |-> "import", inst |-> t.inst, template |-> t.template, phase |-> p,
             i |-> n, ids |-> t.ids, failed |-> t.failed]
    <3>1. u = [[t EXCEPT !.phase = p] EXCEPT !.i = n]
      BY <2>1
    <3>2. [t EXCEPT !.phase = p] = [op |-> "import", inst |-> t.inst, template |-> t.template,
               phase |-> p, i |-> t.i, ids |-> t.ids, failed |-> t.failed]
      BY <1>2
    <3>. QED  BY <3>1, <3>2
  <2>3. ~t.failed => TypesNamedIn(t.template) \subseteq t.ids
    <3>1. \A k \in DOMAIN typesIn[t.template] : k < t.i
      BY <1>2, <1>3, <1>5
    <3>. QED  BY <1>1, <1>2, <3>1 DEF ImportOK, TypesNamedIn
  <2>4. \A k \in DOMAIN relsIn[t.template] : ~(k < 1)
    BY <1>3
  <2>5. ImportOK(u, joined)
    <3>0. /\ u.op = "import" /\ u.inst = t.inst /\ u.template = t.template /\ u.phase = p
          /\ u.i = n /\ u.ids = t.ids /\ u.failed = t.failed
      BY <2>2
    <3>1. /\ u.op = "import" /\ u.inst = t.inst /\ u.template = t.template /\ u.phase = "rels"
          /\ u.i = 1 /\ u.ids = t.ids /\ u.failed = t.failed
      BY <2>1, <3>0
    <3>2. u = [op |-> "import", inst |-> u.inst, template |-> u.template, phase |-> u.phase,
               i |-> u.i, ids |-> u.ids, failed |-> u.failed]
      BY <2>2
    <3>3. u.i \in Nat \ {0} /\ \A k \in DOMAIN relsIn[u.template] : ~(k < u.i)
      BY <2>4, <3>1
    <3>. QED  BY <1>2, <2>3, <3>1, <3>2, <3>3 DEF ImportOK
  <2>6. Continue(t, u)
    BY <1>5, <2>1 DEF Continue
  <2>7. u.op = "import" /\ u.inst = t.inst /\ u.ids = t.ids
    BY <2>2
  <2>. QED  BY <1>2, <1>4, <1>5, <2>5, <2>6, <2>7
<1>6. ASSUME NEW n, n = typesIn[t.template][t.i], t.i \in DOMAIN typesIn[t.template],
             NEW I, NEW f,
             Continue(t, [op |-> "import", inst |-> t.inst, template |-> t.template, phase |-> t.phase,
                          i |-> t.i + 1, ids |-> I, failed |-> f]),
             t.ids \subseteq I, I \subseteq known', f = TRUE \/ (f = t.failed /\ n \in I),
             known \subseteq known', known' \subseteq Names
      PROVE  ImportStores'
  <2>1. PICK k : k = t.i + 1
    OBVIOUS
  <2>2. PICK u : u = [op |-> "import", inst |-> t.inst, template |-> t.template, phase |-> t.phase,
                      i |-> k, ids |-> I, failed |-> f]
    OBVIOUS
  <2>3. u.op = "import" /\ u.inst = t.inst /\ u.ids = I
    BY <2>2
  <2>4. Continue(t, u)
    BY <1>6, <2>1, <2>2
  <2>5. ImportOK(u, joined)
    BY <1>1, <1>6, <2>1, <2>2, OneFurther
  <2>. QED  BY <1>4, <1>6, <2>3, <2>4, <2>5
<1>7. CASE ~(t.i > Len(typesIn[t.template]))
  <2>1. PICK n : n = typesIn[t.template][t.i]
    OBVIOUS
  <2>2. t.i \in DOMAIN typesIn[t.template]
    BY <1>2, <1>3, <1>7
  <2>3. n \in Names
    BY <1>3, <2>1, <2>2
  <2>4. CASE n \in t.ids /\ Continue(t, [t EXCEPT !.i = @ + 1]) /\ UNCHANGED known
    <3>1. [t EXCEPT !.i = @ + 1] = [op |-> "import", inst |-> t.inst, template |-> t.template,
             phase |-> t.phase, i |-> t.i + 1, ids |-> t.ids, failed |-> t.failed]
      BY <1>2
    <3>2. Continue(t, [op |-> "import", inst |-> t.inst, template |-> t.template,
             phase |-> t.phase, i |-> t.i + 1, ids |-> t.ids, failed |-> t.failed])
      BY <2>4, <3>1
    <3>. QED  BY <1>2, <1>6, <2>1, <2>2, <2>4, <3>2
  <2>5. CASE known' = known \cup {n} /\ Continue(t, CreatedIn(t, n))
    <3>1. PICK I, k : I = t.ids \cup {n} /\ k = t.i + 1
      OBVIOUS
    <3>2. [t EXCEPT !.i = k] = [op |-> "import", inst |-> t.inst, template |-> t.template,
             phase |-> t.phase, i |-> k, ids |-> t.ids, failed |-> t.failed]
      BY <1>2
    <3>3. CreatedIn(t, n) = [[t EXCEPT !.i = k] EXCEPT !.ids = I]
      BY <1>2, <3>1, <3>2 DEF CreatedIn
    <3>4. CreatedIn(t, n) = [op |-> "import", inst |-> t.inst, template |-> t.template,
             phase |-> t.phase, i |-> k, ids |-> I, failed |-> t.failed]
      BY <3>2, <3>3
    <3>5. Continue(t, [op |-> "import", inst |-> t.inst, template |-> t.template,
             phase |-> t.phase, i |-> t.i + 1, ids |-> I, failed |-> t.failed])
      BY <2>5, <3>1, <3>4
    <3>6. t.ids \subseteq I /\ I \subseteq known' /\ n \in I /\ known \subseteq known' /\ known' \subseteq Names
      BY <1>2, <2>3, <2>5, <3>1
    <3>. QED  BY <1>6, <2>1, <2>2, <3>5, <3>6
  <2>6. CASE Continue(t, [t EXCEPT !.i = @ + 1, !.failed = TRUE]) /\ UNCHANGED known
    <3>1. PICK f, k : f = TRUE /\ k = t.i + 1
      OBVIOUS
    <3>2. [t EXCEPT !.i = k] = [op |-> "import", inst |-> t.inst, template |-> t.template,
             phase |-> t.phase, i |-> k, ids |-> t.ids, failed |-> t.failed]
      BY <1>2
    <3>3. [t EXCEPT !.i = @ + 1, !.failed = TRUE] = [[t EXCEPT !.i = k] EXCEPT !.failed = f]
      BY <1>2, <3>1, <3>2
    <3>4. [[t EXCEPT !.i = k] EXCEPT !.failed = f] = [op |-> "import", inst |-> t.inst,
             template |-> t.template, phase |-> t.phase, i |-> k, ids |-> t.ids, failed |-> f]
      <4>1. PICK q : q = [t EXCEPT !.i = k]
        OBVIOUS
      <4>2. q = [op |-> "import", inst |-> t.inst, template |-> t.template, phase |-> t.phase,
                 i |-> k, ids |-> t.ids, failed |-> t.failed]
        BY <3>2, <4>1
      <4>3. [q EXCEPT !.failed = f] = [op |-> "import", inst |-> t.inst,
             template |-> t.template, phase |-> t.phase, i |-> k, ids |-> t.ids, failed |-> f]
        BY <4>2
      <4>. QED  BY <4>1, <4>3
    <3>5. Continue(t, [op |-> "import", inst |-> t.inst, template |-> t.template,
             phase |-> t.phase, i |-> t.i + 1, ids |-> t.ids, failed |-> f])
      BY <2>6, <3>1, <3>3, <3>4
    <3>. QED  BY <1>2, <1>6, <2>1, <2>2, <2>6, <3>1, <3>5
  <2>7. \/ n \in t.ids /\ Continue(t, [t EXCEPT !.i = @ + 1]) /\ UNCHANGED known
        \/ known' = known \cup {n} /\ Continue(t, CreatedIn(t, n))
        \/ Continue(t, [t EXCEPT !.i = @ + 1, !.failed = TRUE]) /\ UNCHANGED known
    BY <1>7, <2>1 DEF TypeImported
  <2>. QED  BY <2>4, <2>5, <2>6, <2>7
<1>. QED  BY <1>5, <1>7 DEF TypeImported

LEMMA RelImportedKeeps ==
  ASSUME ImportStores, NEW t \in tasks, RelImported(t)
  PROVE  ImportStores'
<1>1. t.op = "import" /\ t.phase = "rels" /\ UNCHANGED known
  BY DEF RelImported
<1>2. /\ t = [op |-> "import", inst |-> t.inst, template |-> t.template, phase |-> t.phase,
              i |-> t.i, ids |-> t.ids, failed |-> t.failed]
      /\ t.template \in Templates /\ t.i \in Nat \ {0} /\ t.ids \subseteq known /\ t.inst \in Nat
      /\ ImportOK(t, joined) /\ known \subseteq Names /\ t.inst <= window.inst
  BY <1>1, ImportTaskIs DEF ImportStores
<1>3. /\ relsIn[t.template] \in Seq(RelationsIn(t.template))
      /\ \A r \in RelationsIn(t.template) : {r.src, r.tgt} \subseteq TypesNamedIn(t.template)
  BY <1>2, NamesIn
<1>4. CASE t.i > Len(relsIn[t.template])
  <2>1. /\ tasks' = (tasks \ {t}) \cup {Timer(t)} \cup
                      (IF t.failed THEN {} ELSE {[op |-> "whole", inst |-> t.inst, template |-> t.template]})
        /\ SetMine(t, Finished(t, window)) /\ UNCHANGED <<offered, chosen, joined, tries>>
    BY <1>4 DEF RelImported
  <2>2. PICK w : w = [op |-> "whole", inst |-> t.inst, template |-> t.template]
    OBVIOUS
  <2>3. PICK m : m = Timer(t)
    OBVIOUS
  <2>4. w.op = "whole" /\ w.inst = t.inst /\ w.template = t.template
        /\ m.op = "timer" /\ m.inst = t.inst
    BY <2>2, <2>3 DEF Timer
  <2>5. \A u \in tasks' : \/ u \in tasks /\ u # t
                          \/ u = m \/ (u = w /\ ~t.failed)
    <3>1. PICK X : X = (IF t.failed THEN {} ELSE {w})
      OBVIOUS
    <3>2. tasks' = (tasks \ {t}) \cup {m} \cup X
      BY <2>1, <2>2, <2>3, <3>1
    <3>3. \A u \in X : u = w /\ ~t.failed
      BY <3>1
    <3>. QED  BY <3>2, <3>3
  <2>6. \A u \in tasks' : (u \in tasks /\ u # t) \/ (u.op # "import" /\ u.inst <= window.inst)
    BY <1>2, <2>4, <2>5
  <2>7. WindowOK(window') /\ OneImport(tasks') /\ Placed(tasks', window')
    BY <1>1, <2>1, <2>6, FlagGoes
  <2>8. TaskOK(m, known', joined')
    BY <1>2, <2>4 DEF TaskOK
  <2>9. ~t.failed => TaskOK(w, known', joined')
    <3>1. SUFFICES ASSUME ~t.failed PROVE WholeOK(w, known, joined)
      BY <1>1, <1>2, <2>1, <2>4 DEF TaskOK
    <3>2. TypesNamedIn(t.template) \subseteq known
      BY <1>1, <1>2, <3>1 DEF ImportOK
    <3>3. \A k \in DOMAIN relsIn[t.template] : k < t.i
      BY <1>2, <1>3, <1>4
    <3>4. \A k \in DOMAIN relsIn[t.template] : relsIn[t.template][k].name \in joined
      BY <1>1, <1>2, <3>1, <3>3 DEF ImportOK
    <3>. QED  BY <2>4, <3>2, <3>4 DEF WholeOK, RelationsIn
  <2>10. \A u \in tasks' : TaskOK(u, known', joined')
    <3>1. \A u \in tasks : TaskOK(u, known', joined')
      BY <1>1, <2>1 DEF ImportStores
    <3>. QED  BY <2>5, <2>8, <2>9, <3>1
  <2>11. /\ chosen' = [conn |-> chosen'.conn, template |-> chosen'.template]
         /\ chosen'.conn \subseteq offered' /\ chosen'.template \in Templates /\ offered' \subseteq Conns
         /\ known' \subseteq Names
    BY <1>1, <2>1 DEF ImportStores
  <2>12. tries' \in 0..MaxTries
    BY <2>1 DEF ImportStores
  <2>. QED  BY <2>7, <2>10, <2>11, <2>12 DEF ImportStores
<1>5. ASSUME NEW r, r = relsIn[t.template][t.i], t.i \in DOMAIN relsIn[t.template],
             NEW f, f = TRUE \/ (f = t.failed /\ t.failed) \/ (f = t.failed /\ r.name \in joined'),
             joined \subseteq joined',
             Continue(t, [op |-> "import", inst |-> t.inst, template |-> t.template, phase |-> t.phase,
                          i |-> t.i + 1, ids |-> t.ids, failed |-> f])
      PROVE  ImportStores'
  <2>1. PICK k : k = t.i + 1
    OBVIOUS
  <2>2. PICK u : u = [op |-> "import", inst |-> t.inst, template |-> t.template, phase |-> t.phase,
                      i |-> k, ids |-> t.ids, failed |-> f]
    OBVIOUS
  <2>3. u.op = "import" /\ u.inst = t.inst /\ u.ids = t.ids
    BY <2>2
  <2>4. Continue(t, u)
    BY <1>5, <2>1, <2>2
  <2>5. PICK J : J = joined'
    OBVIOUS
  <2>6. ImportOK(u, J)
    BY <1>1, <1>5, <2>1, <2>2, <2>5, OneFurther
  <2>7. TaskOK(u, known', joined')
    BY <1>1, <1>2, <2>3, <2>5, <2>6 DEF TaskOK
  <2>8. known \subseteq known' /\ known' \subseteq Names
    BY <1>1, <1>2
  <2>. QED  BY <1>1, <1>5, <2>3, <2>4, <2>7, <2>8, ImportGoesOn
<1>6. CASE ~(t.i > Len(relsIn[t.template]))
  <2>1. PICK r : r = relsIn[t.template][t.i]
    OBVIOUS
  <2>2. t.i \in DOMAIN relsIn[t.template]
    BY <1>2, <1>3, <1>6
  <2>3. r \in RelationsIn(t.template)
    BY <2>1, <2>2 DEF RelationsIn
  <2>4. [t EXCEPT !.i = @ + 1] = [op |-> "import", inst |-> t.inst, template |-> t.template,
           phase |-> t.phase, i |-> t.i + 1, ids |-> t.ids, failed |-> t.failed]
    BY <1>2
  <2>5. CASE joined' = joined \cup {r.name} /\ Continue(t, [t EXCEPT !.i = @ + 1])
    BY <1>5, <2>1, <2>2, <2>4, <2>5
  <2>6. CASE Continue(t, [t EXCEPT !.i = @ + 1, !.failed = TRUE]) /\ UNCHANGED joined
    <3>1. PICK f, k : f = TRUE /\ k = t.i + 1
      OBVIOUS
    <3>2. PICK q : q = [t EXCEPT !.i = k]
      OBVIOUS
    <3>3. q = [op |-> "import", inst |-> t.inst, template |-> t.template, phase |-> t.phase,
               i |-> k, ids |-> t.ids, failed |-> t.failed]
      BY <1>2, <3>2
    <3>4. [t EXCEPT !.i = @ + 1, !.failed = TRUE] = [q EXCEPT !.failed = f]
      BY <1>2, <3>1, <3>2
    <3>5. [q EXCEPT !.failed = f] = [op |-> "import", inst |-> t.inst,
             template |-> t.template, phase |-> t.phase, i |-> k, ids |-> t.ids, failed |-> f]
      BY <3>3
    <3>6. Continue(t, [op |-> "import", inst |-> t.inst, template |-> t.template,
             phase |-> t.phase, i |-> t.i + 1, ids |-> t.ids, failed |-> f])
      BY <2>6, <3>1, <3>4, <3>5
    <3>. QED  BY <1>5, <2>1, <2>2, <2>6, <3>1, <3>6
  <2>7. CASE ~({r.src, r.tgt} \subseteq t.ids) /\ Continue(t, [t EXCEPT !.i = @ + 1]) /\ UNCHANGED joined
    <3>1. t.failed
      BY <1>1, <1>2, <1>3, <2>3, <2>7 DEF ImportOK
    <3>. QED  BY <1>5, <2>1, <2>2, <2>4, <2>7, <3>1
  <2>8. \/ joined' = joined \cup {r.name} /\ Continue(t, [t EXCEPT !.i = @ + 1])
        \/ Continue(t, [t EXCEPT !.i = @ + 1, !.failed = TRUE]) /\ UNCHANGED joined
        \/ ~({r.src, r.tgt} \subseteq t.ids) /\ Continue(t, [t EXCEPT !.i = @ + 1]) /\ UNCHANGED joined
    BY <1>6, <2>1 DEF RelImported
  <2>. QED  BY <2>5, <2>6, <2>7, <2>8
<1>. QED  BY <1>4, <1>6

LEMMA OtherCreatesKeeps ==
  ASSUME ImportStores, NEW n \in Names, OtherCreates(n)
  PROVE  ImportStores'
<1>1. UNCHANGED <<window, offered, chosen, tasks, joined, tries>> /\ known' = known \cup {n}
  BY DEF OtherCreates
<1>2. \A t \in tasks' : TaskOK(t, known', joined')
  <2>1. known \subseteq known' /\ joined \subseteq joined'
    BY <1>1
  <2>. QED  BY <1>1, <2>1, TaskGrows DEF ImportStores
<1>3. known' \subseteq Names
  BY <1>1 DEF ImportStores
<1>. QED  BY <1>1, <1>2, <1>3 DEF ImportStores

LEMMA ImportStep ==
  ASSUME ImportStores, [ImportNext]_importVars
  PROVE  ImportStores'
<1>1. CASE ImportTask
  <2>1. PICK t \in tasks : \/ ConnsAnswered(t) \/ TypeGenerated(t) \/ TimerFires(t)
                           \/ ExistingRead(t) \/ TypeImported(t) \/ RelImported(t)
    BY <1>1 DEF ImportTask
  <2>2. CASE TimerFires(t)
    <3>1. Shut /\ tasks' \subseteq tasks /\ UNCHANGED <<known, joined, tries>>
      BY <2>2 DEF TimerFires
    <3>. QED  BY <3>1, ShutKeeps
  <2>. QED  BY <2>1, <2>2, ConnsAnsweredKeeps, TypeGeneratedKeeps, ExistingReadKeeps,
            TypeImportedKeeps, RelImportedKeeps
<1>2. CASE CloseWindow
  <2>1. Shut /\ tasks' \subseteq tasks /\ UNCHANGED <<known, joined, tries>>
    BY <1>2 DEF CloseWindow
  <2>. QED  BY <2>1, ShutKeeps
<1>3. CASE UNCHANGED importVars
  BY <1>3 DEF importVars, ImportStores
<1>. QED  BY <1>1, <1>2, <1>3, WindowOpens, GenerateTypeKeeps, ImportTemplateKeeps, ChoicesKeep,
          OtherCreatesKeeps DEF ImportNext

LEMMA ImportStored == ASSUME ImportStores PROVE ImportTypeOK /\ ImportCompletes
<1>1. ImportCompletes
  BY DEF ImportStores, TaskOK, WholeOK, ImportCompletes
<1>2. \A t \in tasks : t.op = "import" => t.ids \subseteq known
  BY DEF ImportStores, TaskOK
<1>3. Cardinality({t \in tasks : t.op = "import" /\ MyTask(t)}) <= 1
  <2>. DEFINE S == {t \in tasks : t.op = "import" /\ MyTask(t)}
  <2>1. \A t, u \in S : t = u
    BY DEF ImportStores, OneImport, MyTask
  <2>. HIDE DEF S
  <2>2. CASE S = {}
    <3>1. Cardinality(S) = 0
      BY <2>2, FS_EmptySet
    <3>. QED  BY <3>1 DEF S
  <2>3. CASE S # {}
    <3>1. PICK t : S = {t}
      BY <2>1, <2>3
    <3>2. Cardinality(S) = 1
      BY <3>1, FS_Singleton
    <3>. QED  BY <3>2 DEF S
  <2>. QED  BY <2>2, <2>3
<1>4. window.inst \in 0..MaxOpens /\ tries \in 0..MaxTries
  BY DEF ImportStores, WindowOK
<1>5. chosen.conn \subseteq offered /\ known \subseteq Names
  BY DEF ImportStores
<1>. QED  BY <1>1, <1>2, <1>3, <1>4, <1>5 DEF ImportTypeOK

LEMMA ImportStoresHolds == ImportSpec => []ImportStores
<1>1. ImportInit => ImportStores
  BY ImportStart
<1>2. ImportStores /\ [ImportNext]_importVars => ImportStores'
  BY ImportStep
<1>. QED  BY <1>1, <1>2, PTL DEF ImportSpec

(* --------------------------- the review console ------------------------- *)
(* Whatever pairs, golden records and filters there are and however often   *)
(* reviewers call: decisions on pairs hold (DecisionsHold).  The invariant  *)
(* says what each reviewer's transaction has read: whoever accepts has      *)
(* found the pair pending, and a copy of the version that is stored is a    *)
(* copy of what is stored.                                                  *)

CallStages == {"rest", "sent", "checked", "read", "done", "failed"}
DecisionOps == {"none", "accept", "reject", "split"}
PairLists == UNION {[D -> PairStatuses] : D \in SUBSET PairIds}
Copies == [version : Nat, sources : SUBSET (PairIds \cup {0})]
Decisions == [at : CallStages, op : DecisionOps, pair : PairIds \cup {0}, copy : Copies]

ServiceTyped ==
  /\ standing \in [PairIds -> PairStatuses] /\ fused \in [PairIds -> Nat]
  /\ records \in [Golden -> Copies] /\ alone \subseteq PairIds
DecidingTyped ==
  /\ deciding \in [Reviewers -> Decisions] /\ deciding["console"].op # "split"
  /\ \A r \in Reviewers : deciding[r].at # "rest" => deciding[r].pair \in PairIds
ListsTyped ==
  /\ fusion.filter \in Filters /\ told \subseteq PairIds /\ spared \subseteq Filters /\ overtaken \subseteq Filters
  /\ pairs \in [Filters -> [rows : PairLists, loaded : BOOLEAN, stale : BOOLEAN, seen : PairLists,
                            req : {"none", "asked", "served"}]]
ReviewTyped == ServiceTyped /\ DecidingTyped /\ ListsTyped

\* One for an accepting reviewer who has found the pair pending.
Claim(r, c) ==
  IF deciding[r].pair = c /\ deciding[r].op = "accept" /\ deciding[r].at \in {"checked", "read"}
  THEN 1 ELSE 0

ClaimsCounted ==
  \A c \in PairIds :
    /\ fused[c] + Claim("console", c) + Claim("other", c) <= 2
    /\ standing[c] = "PENDING" => fused[c] = 0
    /\ standing[c] = "ACCEPTED" => fused[c] >= 1

\* A copy is of a version that there was, and true while there is no later.
\* A record is extracted from a copy that holds it.
CopyTrue(r) ==
  LET d == deciding[r]
      golden == records[goldenOf[d.pair]]
  IN  d.at = "read" /\ d.op \in {"accept", "split"} =>
        /\ goldenOf[d.pair] # NoGolden /\ d.copy.version <= golden.version
        /\ d.copy.version = golden.version => d.copy.sources = golden.sources
        /\ d.op = "split" => d.pair \in d.copy.sources

PairHeld(c) == c \in records[goldenOf[c]].sources

PairsPlaced ==
  \A c \in PairIds : 
    /\ c \in alone => fused[c] >= 1
    /\ goldenOf[c] # NoGolden =>
         /\ PairHeld(c) => fused[c] >= 1
         /\ fused[c] >= 1 => PairHeld(c) \/ c \in alone
         /\ PairHeld(c) /\ c \in alone => fused[c] >= 2

\* What the page is told is decided is so; a list that is fetched and still
\* counts was made when it was so, unless the cache let it be overtaken.
Decided(answer) == \A c \in told \cap DOMAIN answer : answer[c] # "PENDING"
DecisionsShown ==
  /\ \A c \in told : standing[c] # "PENDING"
  /\ deciding["console"].at = "done" => standing[deciding["console"].pair] # "PENDING"
  /\ \A f \in Filters :
       /\ ~pairs[f].stale /\ f \notin overtaken => Decided(pairs[f].rows)
       /\ pairs[f].req = "served" /\ f \notin spared => Decided(pairs[f].seen)

ReviewInv ==
  /\ ReviewTyped /\ ClaimsCounted /\ (\A r \in Reviewers : CopyTrue(r)) /\ PairsPlaced /\ DecisionsShown

LEMMA TwoReviewers == Cardinality(Reviewers) = 2
<1>1. IsFiniteSet({"console"}) /\ Cardinality({"console"}) = 1
  BY FS_Singleton
<1>2. Reviewers = {"console"} \cup {"other"}
  BY DEF Reviewers
<1> QED
  BY <1>1, <1>2, FS_AddElement

(* What the invariant is for.                                               *)
LEMMA InvHolds == ReviewInv => DecisionsHold
<1> SUFFICES ASSUME ReviewInv PROVE DecisionsHold
  OBVIOUS
<1>1. \A c \in PairIds : fused[c] \in Nat /\ Claim("console", c) \in Nat /\ Claim("other", c) \in Nat
  BY DEF ReviewInv, ReviewTyped, ServiceTyped, Claim
<1>2. AcceptedIsMerged
  BY <1>1, TwoReviewers DEF ReviewInv, ClaimsCounted, AcceptedIsMerged
<1>3. HeldOnce
  BY DEF ReviewInv, PairsPlaced, PairHeld, HeldOnce
<1>4. ToldIsShown
  BY DEF ReviewInv, DecisionsShown, Decided, ToldIsShown
<1> QED
  BY <1>2, <1>3, <1>4 DEF DecisionsHold

LEMMA InitInv == ReviewInit => ReviewInv
<1> SUFFICES ASSUME ReviewInit PROVE ReviewInv
  OBVIOUS
<1>1. ServiceTyped
  BY DEF ReviewInit, ServiceTyped, Copies, PairStatuses
<1>2. AtRest \in Decisions
  BY DEF AtRest, Decisions, CallStages, DecisionOps, Copies
<1>3. DecidingTyped
  BY <1>2 DEF ReviewInit, DecidingTyped, AtRest, Reviewers
<1>4. NoPairs \in PairLists /\ DOMAIN NoPairs = {}
  BY DEF NoPairs, PairLists
<1>5. ListsTyped
  BY <1>4, ReviewAssumption DEF ReviewInit, ListsTyped
<1>6. ClaimsCounted
  BY <1>3 DEF ReviewInit, ClaimsCounted, Claim, AtRest, Reviewers
<1>7. \A r \in Reviewers : CopyTrue(r)
  BY DEF ReviewInit, CopyTrue, AtRest, Reviewers
<1>8. PairsPlaced
  <2> SUFFICES ASSUME NEW c \in PairIds, goldenOf[c] # NoGolden PROVE ~PairHeld(c) /\ fused[c] = 0 /\ c \notin alone
    BY DEF PairsPlaced, ReviewInit
  <2>1. goldenOf[c] \in Golden /\ c # 0
    BY ReviewAssumption
  <2> QED
    BY <2>1 DEF ReviewInit, PairHeld
<1>9. DecisionsShown
  BY <1>4 DEF ReviewInit, DecisionsShown, Decided, AtRest, Reviewers
<1> QED
  BY <1>1, <1>3, <1>5, <1>6, <1>7, <1>8, <1>9 DEF ReviewInv, ReviewTyped

(* What a step does to the lists alone.                                     *)
ListStep ==
  \/ RefreshPairs \/ \E c \in PairIds : SelectPair(c)
  \/ \E f \in Filters : FilterBy(f) \/ ServePairs(f) \/ PairsArrive(f) \/ PairsLost(f)

LEMMA ListKeeps == ReviewInv /\ ListStep => ReviewInv'
<1> SUFFICES ASSUME ReviewInv, ListStep PROVE ReviewInv'
  OBVIOUS
<1>1. UNCHANGED <<deciding, standing, records, fused, alone, told>>
  BY DEF ListStep, RefreshPairs, SelectPair, FilterBy, ServePairs, PairsArrive, PairsLost, serverVars, history
<1>2. ServiceTyped' /\ DecidingTyped' /\ ClaimsCounted' /\ PairsPlaced' /\ \A r \in Reviewers : CopyTrue(r)'
  BY <1>1 DEF ReviewInv, ReviewTyped, ServiceTyped, DecidingTyped, ClaimsCounted, Claim, PairsPlaced, PairHeld, CopyTrue
<1>3. NoPairs \in PairLists /\ DOMAIN NoPairs = {}
  BY DEF NoPairs, PairLists
<1>4. ASSUME NEW f \in Filters PROVE ListedPairs(f) \in PairLists /\ Decided(ListedPairs(f))
  <2> DEFINE shown == {c \in PairIds : f \in {"ALL", standing[c]}}
  <2>1. ListedPairs(f) = [c \in shown |-> standing[c]]
    BY DEF ListedPairs
  <2>2. shown \in SUBSET PairIds /\ [c \in shown |-> standing[c]] \in [shown -> PairStatuses]
    BY DEF ReviewInv, ReviewTyped, ServiceTyped
  <2>3. [c \in shown |-> standing[c]] \in PairLists
    BY <2>2 DEF PairLists
  <2> HIDE DEF shown
  <2>4. Decided([c \in shown |-> standing[c]])
    BY DEF ReviewInv, DecisionsShown, Decided
  <2> QED
    BY <2>1, <2>3, <2>4
<1>5. ListsTyped' /\ \A f \in Filters :
        /\ ~pairs'[f].stale /\ f \notin overtaken' => Decided(pairs'[f].rows)
        /\ pairs'[f].req = "served" /\ f \notin spared' => Decided(pairs'[f].seen)
  <2>0. ListsTyped /\ \A f \in Filters :
          /\ ~pairs[f].stale /\ f \notin overtaken => Decided(pairs[f].rows)
          /\ pairs[f].req = "served" /\ f \notin spared => Decided(pairs[f].seen)
    BY DEF ReviewInv, ReviewTyped, DecisionsShown
  <2>1. CASE RefreshPairs
    BY <1>1, <2>0, <2>1 DEF RefreshPairs, ListsTyped, history
  <2>2. ASSUME NEW c \in PairIds, SelectPair(c) PROVE <1>5!:
    BY <1>1, <2>0, <2>2 DEF SelectPair, ListsTyped, history
  <2>3. ASSUME NEW f \in Filters, FilterBy(f) PROVE <1>5!:
    BY <1>1, <2>0, <2>3 DEF FilterBy, ListsTyped, history
  <2>4. ASSUME NEW f \in Filters, ServePairs(f) PROVE <1>5!:
    BY <1>1, <1>4, <2>0, <2>4 DEF ServePairs, ListsTyped, history
  <2>5. ASSUME NEW f \in Filters, PairsArrive(f) PROVE <1>5!:
    BY <1>1, <1>3, <2>0, <2>5 DEF PairsArrive, ListsTyped
  <2>6. ASSUME NEW f \in Filters, PairsLost(f) PROVE <1>5!:
    <3>1. /\ overtaken' = overtaken /\ fusion' = fusion /\ spared' = spared \ {f}
          /\ pairs' = [pairs EXCEPT ![f] = [pairs[f] EXCEPT !.stale = TRUE, !.req = "none", !.seen = NoPairs]]
      BY <2>6 DEF PairsLost
    <3>2. ListsTyped'
      BY <1>1, <1>3, <2>0, <3>1 DEF ListsTyped
    <3>3. pairs'[f].stale /\ pairs'[f].req = "none" /\ \A h \in Filters : h # f => pairs'[h] = pairs[h]
      BY <2>0, <3>1 DEF ListsTyped
    <3> QED
      BY <2>0, <3>1, <3>2, <3>3
  <2> QED
    BY <2>1, <2>2, <2>3, <2>4, <2>5, <2>6 DEF ListStep
<1>6. DecisionsShown'
  <2>1. \A answer : Decided(answer)' <=> \A c \in told \cap DOMAIN answer' : answer'[c] # "PENDING"
    BY <1>1 DEF Decided
  <2> QED
    BY <1>1, <1>5 DEF ReviewInv, DecisionsShown, Decided
<1> QED
  BY <1>2, <1>5, <1>6 DEF ReviewInv, ReviewTyped

(* ------------------------ reviewers at work ----------------------------- *)
OthersStay(r) == \A q \in Reviewers : q # r => deciding'[q] = deciding[q]

(* A reviewer who calls, fails or is done has read nothing that counts.     *)
LEMMA Unread ==
  ASSUME ReviewInv, NEW r \in Reviewers, NEW d \in Decisions, d.at \in {"rest", "sent", "failed"},
         d.at # "rest" => d.pair \in PairIds, r = "console" => d.op # "split",
         deciding' = [deciding EXCEPT ![r] = d],
         UNCHANGED <<fusion, pairs, standing, records, fused, alone, history>>
  PROVE  ReviewInv'
<1>1. deciding'[r] = d /\ OthersStay(r)
  BY DEF ReviewInv, ReviewTyped, DecidingTyped, OthersStay
<1>2. DecidingTyped'
  BY <1>1 DEF ReviewInv, ReviewTyped, DecidingTyped, Reviewers, OthersStay
<1>3. \A q \in Reviewers, b \in PairIds : Claim(q, b)' <= Claim(q, b)
  BY <1>1 DEF Claim, OthersStay
<1>4. ClaimsCounted'
  BY <1>3 DEF ReviewInv, ReviewTyped, ServiceTyped, ClaimsCounted, Claim, Reviewers
<1>5. \A q \in Reviewers : CopyTrue(q)'
  BY <1>1 DEF ReviewInv, CopyTrue, OthersStay
<1>6. DecisionsShown'
  BY <1>1 DEF ReviewInv, DecisionsShown, Decided, Reviewers, OthersStay, history
<1> QED
  BY <1>2, <1>4, <1>5, <1>6 DEF ReviewInv, ReviewTyped, ServiceTyped, ListsTyped, PairsPlaced, PairHeld, history

LEMMA CallKeeps ==
  ASSUME ReviewInv, NEW r \in Reviewers, NEW op \in {"accept", "reject", "split"}, NEW c \in PairIds,
         Called(r, op, c), r = "console" => op # "split"
  PROVE  ReviewInv'
<1> DEFINE d == [AtRest EXCEPT !.at = "sent", !.op = op, !.pair = c]
<1>1. d \in Decisions /\ d.at = "sent" /\ d.op = op /\ d.pair = c
  BY DEF AtRest, Decisions, CallStages, DecisionOps, Copies
<1>2. /\ deciding' = [deciding EXCEPT ![r] = d]
      /\ UNCHANGED <<fusion, pairs, standing, records, fused, alone, history>>
  BY DEF Called, serverVars
<1> HIDE DEF d
<1> QED
  BY <1>1, <1>2, Unread

LEMMA FailureKeeps ==
  ASSUME ReviewInv, NEW r \in Reviewers, deciding[r].at # "rest",
         Fails(r) \/ deciding' = [deciding EXCEPT ![r] = AtRest],
         UNCHANGED <<fusion, pairs, standing, records, fused, alone, history>>
  PROVE  ReviewInv'
<1>0. deciding[r] \in Decisions /\ deciding[r].pair \in PairIds /\ DecidingTyped
  BY DEF ReviewInv, ReviewTyped, DecidingTyped
<1>1. CASE Fails(r)
  <2> DEFINE d == [deciding[r] EXCEPT !.at = "failed"]
  <2>1. d \in Decisions /\ d.at = "failed" /\ d.op = deciding[r].op /\ d.pair = deciding[r].pair
    BY <1>0 DEF Decisions, CallStages
  <2>2. deciding' = [deciding EXCEPT ![r] = d]
    BY <1>0, <1>1 DEF Fails, DecidingTyped
  <2> HIDE DEF d
  <2> QED
    BY <1>0, <2>1, <2>2, Unread DEF DecidingTyped
<1>2. CASE deciding' = [deciding EXCEPT ![r] = AtRest]
  <2>1. AtRest \in Decisions /\ AtRest.at = "rest" /\ AtRest.op # "split"
    BY DEF AtRest, Decisions, CallStages, DecisionOps, Copies
  <2> QED
    BY <1>2, <2>1, Unread
<1> QED
  BY <1>1, <1>2

LEMMA ReadPairKeeps ==
  ASSUME ReviewInv, NEW r \in Reviewers, ReadPair(r)
  PROVE  ReviewInv'
<1> DEFINE d == deciding[r]
<1>0. d \in Decisions /\ d.pair \in PairIds /\ d.at = "sent" /\ DecidingTyped
  BY DEF ReviewInv, ReviewTyped, DecidingTyped, ReadPair
<1>1. UNCHANGED <<fusion, pairs, standing, records, fused, alone, history>>
  BY DEF ReadPair, serverVars
<1>2. CASE ~MayProceed(d.op, d.pair)
  BY <1>0, <1>1, <1>2, FailureKeeps DEF ReadPair
<1>3. CASE MayProceed(d.op, d.pair)
  <2>1. PICK at \in {"checked", "read"} :
          /\ deciding' = [deciding EXCEPT ![r] = [d EXCEPT !.at = at]]
          /\ at = "read" => d.op = "reject"
    BY <1>0, <1>3 DEF ReadPair, DecidingTyped
  <2> DEFINE e == [d EXCEPT !.at = at]
  <2>2. e \in Decisions /\ e.at = at /\ e.op = d.op /\ e.pair = d.pair
    BY <1>0 DEF Decisions, CallStages
  <2> HIDE DEF e
  <2>3. deciding'[r] = e /\ OthersStay(r)
    BY <1>0, <2>1 DEF DecidingTyped, OthersStay, e
  <2>4. DecidingTyped'
    BY <1>0, <2>1, <2>2, <2>3 DEF DecidingTyped, OthersStay, e
  <2>5. ClaimsCounted'
    BY <1>0, <1>1, <1>3, <2>2, <2>3
       DEF ReviewInv, ReviewTyped, ServiceTyped, ClaimsCounted, Claim, Reviewers, OthersStay, MayProceed
  <2>6. \A q \in Reviewers : CopyTrue(q)'
    BY <1>1, <2>1, <2>2, <2>3 DEF ReviewInv, CopyTrue, OthersStay
  <2>7. DecisionsShown'
    BY <1>1, <2>2, <2>3 DEF ReviewInv, DecisionsShown, Decided, Reviewers, OthersStay, history
  <2> QED
    BY <1>1, <2>4, <2>5, <2>6, <2>7 DEF ReviewInv, ReviewTyped, ServiceTyped, ListsTyped, PairsPlaced, PairHeld, history
<1> QED
  BY <1>2, <1>3

LEMMA ReadGoldenKeeps ==
  ASSUME ReviewInv, NEW r \in Reviewers, ReadGolden(r)
  PROVE  ReviewInv'
<1> DEFINE d == deciding[r]
           g == goldenOf[d.pair]
<1>0. /\ d \in Decisions /\ d.pair \in PairIds /\ d.at \in {"sent", "checked"} /\ DecidingTyped
      /\ d.op \in {"accept", "split"} /\ (d.op = "accept" => d.at = "checked")
  BY DEF ReviewInv, ReviewTyped, DecidingTyped, ReadGolden
<1>1. UNCHANGED <<fusion, pairs, standing, records, fused, alone, history>>
  BY DEF ReadGolden, serverVars
<1>2. CASE g = NoGolden \/ (d.op = "split" /\ ~MayExtract(d.pair))
  BY <1>0, <1>1, <1>2, FailureKeeps DEF ReadGolden
<1>3. CASE ~(g = NoGolden \/ (d.op = "split" /\ ~MayExtract(d.pair)))
  <2> DEFINE e == [d EXCEPT !.at = "read", !.copy = records[g]]
  <2>1. g \in Golden /\ records[g] \in Copies
    BY <1>0, <1>3, ReviewAssumption DEF ReviewInv, ReviewTyped, ServiceTyped
  <2>2. /\ e \in Decisions /\ e.at = "read" /\ e.op = d.op /\ e.pair = d.pair
        /\ e.copy = records[g]
    BY <1>0, <2>1 DEF Decisions, CallStages
  <2>3. deciding' = [deciding EXCEPT ![r] = e]
    BY <1>3 DEF ReadGolden
  <2> HIDE DEF e
  <2>4. deciding'[r] = e /\ OthersStay(r)
    BY <1>0, <2>3 DEF DecidingTyped, OthersStay
  <2>5. DecidingTyped'
    BY <1>0, <2>2, <2>3, <2>4 DEF DecidingTyped, OthersStay
  <2>6. \A q \in Reviewers, b \in PairIds : Claim(q, b)' = Claim(q, b)
    BY <1>0, <2>2, <2>4 DEF Claim, OthersStay
  <2>7. ClaimsCounted'
    BY <1>1, <2>6 DEF ReviewInv, ClaimsCounted, Reviewers
  <2>8. \A q \in Reviewers : CopyTrue(q)'
    <3>1. CopyTrue(r)'
      BY <1>1, <1>3, <2>1, <2>2, <2>4 DEF CopyTrue, MayExtract, Copies
    <3> QED
      BY <1>1, <2>4, <3>1 DEF ReviewInv, CopyTrue, OthersStay
  <2>9. DecisionsShown'
    BY <1>1, <2>2, <2>4 DEF ReviewInv, DecisionsShown, Decided, Reviewers, OthersStay, history
  <2> QED
    BY <1>1, <2>5, <2>7, <2>8, <2>9 DEF ReviewInv, ReviewTyped, ServiceTyped, ListsTyped, PairsPlaced, PairHeld, history
<1> QED
  BY <1>2, <1>3

LEMMA RejectKeeps ==
  ASSUME ReviewInv, NEW r \in Reviewers, CommitReject(r)
  PROVE  ReviewInv'
<1> DEFINE d == deciding[r]
           e == [d EXCEPT !.at = "done"]
<1>0. d \in Decisions /\ d.pair \in PairIds /\ d.at = "read" /\ d.op = "reject" /\ DecidingTyped
  BY DEF ReviewInv, ReviewTyped, DecidingTyped, CommitReject
<1>1. /\ UNCHANGED <<fusion, pairs, records, fused, alone, history>>
      /\ standing' = [standing EXCEPT ![d.pair] = "REJECTED"]
  BY DEF CommitReject
<1>2. e \in Decisions /\ e.at = "done" /\ e.op = d.op /\ e.pair = d.pair
  BY <1>0 DEF Decisions, CallStages
<1>3. deciding' = [deciding EXCEPT ![r] = e]
  BY <1>0 DEF CommitReject, DecidingTyped
<1> HIDE DEF e
<1>4. deciding'[r] = e /\ OthersStay(r)
  BY <1>0, <1>3 DEF DecidingTyped, OthersStay
<1>5. DecidingTyped'
  BY <1>0, <1>2, <1>3, <1>4 DEF DecidingTyped, OthersStay
<1>6. \A c \in PairIds : standing'[c] = IF c = d.pair THEN "REJECTED" ELSE standing[c]
  BY <1>0, <1>1 DEF ReviewInv, ReviewTyped, ServiceTyped
<1>7. ServiceTyped'
  BY <1>1 DEF ReviewInv, ReviewTyped, ServiceTyped, PairStatuses
<1>8. \A q \in Reviewers, b \in PairIds : Claim(q, b)' = Claim(q, b)
  BY <1>0, <1>2, <1>4 DEF Claim, OthersStay
<1>9. ClaimsCounted'
  BY <1>1, <1>6, <1>8 DEF ReviewInv, ClaimsCounted, Reviewers
<1>10. \A q \in Reviewers : CopyTrue(q)'
  BY <1>1, <1>2, <1>4 DEF ReviewInv, CopyTrue, OthersStay
<1>11. DecisionsShown'
  BY <1>0, <1>1, <1>2, <1>4, <1>6 DEF ReviewInv, ReviewTyped, ListsTyped, DecidingTyped, DecisionsShown, Decided, Reviewers, OthersStay, history
<1> QED
  BY <1>1, <1>5, <1>7, <1>9, <1>10, <1>11 DEF ReviewInv, ReviewTyped, ListsTyped, PairsPlaced, PairHeld, history

(* The golden record that is saved is made of what is stored, so that no    *)
(* other merge or split is undone, and what others have read of it is old.  *)
LEMMA GoldenKeeps ==
  ASSUME ReviewInv, NEW r \in Reviewers, CommitGolden(r)
  PROVE  ReviewInv'
<1> DEFINE d == deciding[r]
           g == goldenOf[d.pair]
           e == [d EXCEPT !.at = "done"]
           fusedRecord == [version |-> d.copy.version + 1,
                     sources |-> MergedSources(d.op, d.pair, d.copy.sources)]
<1>0. /\ d \in Decisions /\ d.pair \in PairIds /\ d.at = "read" /\ d.op \in {"accept", "split"}
      /\ DecidingTyped /\ ServiceTyped /\ SameVersion(d)
  BY DEF ReviewInv, ReviewTyped, DecidingTyped, CommitGolden
<1>1. /\ g \in Golden /\ g # NoGolden
      /\ d.copy.version = records[g].version /\ d.copy.sources = records[g].sources
      /\ d.op = "split" => d.pair \in records[g].sources
  <2>1. CopyTrue(r) /\ records[g].version = d.copy.version
    BY <1>0 DEF ReviewInv, SameVersion
  <2> QED
    BY <1>0, <2>1, ReviewAssumption DEF CopyTrue
<1>2. /\ UNCHANGED <<fusion, pairs, history>> /\ records' = [records EXCEPT ![g] = fusedRecord]
      /\ d.op = "accept" => /\ standing' = [standing EXCEPT ![d.pair] = "ACCEPTED"]
                            /\ fused' = [fused EXCEPT ![d.pair] = fused[d.pair] + 1] /\ alone' = alone
      /\ d.op = "split" => alone' = alone \cup {d.pair} /\ UNCHANGED <<standing, fused>>
  BY <1>0 DEF CommitGolden
<1>3. e \in Decisions /\ e.at = "done" /\ e.op = d.op /\ e.pair = d.pair
  BY <1>0 DEF Decisions, CallStages
<1>4. deciding' = [deciding EXCEPT ![r] = e]
  BY <1>0 DEF CommitGolden, DecidingTyped
<1> HIDE DEF e
<1>5. deciding'[r] = e /\ OthersStay(r)
  BY <1>0, <1>4 DEF DecidingTyped, OthersStay
<1>6. DecidingTyped'
  BY <1>0, <1>3, <1>4, <1>5 DEF DecidingTyped, OthersStay
<1>7. /\ fusedRecord \in Copies /\ fusedRecord.version = records[g].version + 1
      /\ fusedRecord.sources = IF d.op = "accept" THEN records[g].sources \cup {d.pair}
                         ELSE records[g].sources \ {d.pair}
  BY <1>0, <1>1 DEF MergedSources, Decisions, Copies
<1> HIDE DEF fusedRecord
<1>8. records'[g] = fusedRecord /\ \A h \in Golden : h # g => records'[h] = records[h]
  BY <1>0, <1>1, <1>2 DEF ServiceTyped
<1>9. ServiceTyped'
  <2>1. records' \in [Golden -> Copies]
    BY <1>0, <1>2, <1>7 DEF ServiceTyped
  <2>2. CASE d.op = "accept"
    <3>1. fused[d.pair] + 1 \in Nat /\ "ACCEPTED" \in PairStatuses
      BY <1>0 DEF ServiceTyped, PairStatuses
    <3> QED
      BY <1>0, <1>2, <2>1, <2>2, <3>1 DEF ServiceTyped
  <2>3. CASE d.op = "split"
    BY <1>0, <1>2, <2>1, <2>3 DEF ServiceTyped
  <2> QED
    BY <1>0, <2>2, <2>3
<1>10. \A c \in PairIds :
         /\ standing'[c] = IF c = d.pair /\ d.op = "accept" THEN "ACCEPTED" ELSE standing[c]
         /\ fused'[c] = IF c = d.pair /\ d.op = "accept" THEN fused[c] + 1 ELSE fused[c]
         /\ c \in alone' <=> c \in alone \/ (c = d.pair /\ d.op = "split")
  BY <1>0, <1>2 DEF ServiceTyped
<1>11. ClaimsCounted'
  <2>1. Claim(r, d.pair)' = 0 /\ (d.op = "accept" => Claim(r, d.pair) = 1)
    BY <1>0, <1>3, <1>5 DEF Claim
  <2>2. \A q \in Reviewers, b \in PairIds : q # r \/ b # d.pair => Claim(q, b)' = Claim(q, b)
    BY <1>0, <1>3, <1>5 DEF Claim, OthersStay
  <2>3. \A q \in Reviewers, b \in PairIds : Claim(q, b) \in {0, 1}
    BY DEF Claim
  <2> SUFFICES ASSUME NEW c \in PairIds
               PROVE  /\ fused'[c] + Claim("console", c)' + Claim("other", c)' <= 2
                      /\ standing'[c] = "PENDING" => fused'[c] = 0
                      /\ standing'[c] = "ACCEPTED" => fused'[c] >= 1
    BY DEF ClaimsCounted
  <2>4. fused[c] \in Nat
    BY <1>0 DEF ServiceTyped
  <2>5. CASE c = d.pair
    BY <1>0, <1>10, <2>1, <2>2, <2>3, <2>4, <2>5 DEF ReviewInv, ClaimsCounted, Reviewers, Claim
  <2>6. CASE c # d.pair
    BY <1>10, <2>2, <2>6 DEF ReviewInv, ClaimsCounted, Reviewers
  <2> QED
    BY <2>5, <2>6
<1>12. ASSUME NEW q \in Reviewers PROVE CopyTrue(q)'
  <2>1. CASE q = r
    BY <1>3, <1>5, <2>1 DEF CopyTrue
  <2>2. CASE q # r
    <3>1. deciding'[q] = deciding[q] /\ CopyTrue(q) /\ deciding[q] \in Decisions
          /\ records[g] \in Copies
      BY <1>0, <1>1, <1>5, <2>2 DEF ReviewInv, OthersStay, DecidingTyped, ServiceTyped
    <3>2. deciding[q].at = "read" => deciding[q].pair \in PairIds
      BY <1>0 DEF DecidingTyped
    <3> DEFINE h == goldenOf[deciding[q].pair]
    <3>3. deciding[q].copy.version \in Nat /\ records[g].version \in Nat
      BY <3>1 DEF Decisions, Copies
    <3>4. CASE h = g
      <4>1. records'[h].version = records[g].version + 1
        BY <1>7, <1>8, <3>4
      <4> QED
        BY <3>1, <3>3, <3>4, <4>1 DEF CopyTrue
    <3>5. CASE h # g
      <4>1. deciding[q].at = "read" /\ h # NoGolden => h \in Golden
        BY <3>2, ReviewAssumption
      <4>2. deciding[q].at = "read" /\ h # NoGolden => records'[h] = records[h]
        BY <1>8, <3>5, <4>1
      <4> QED
        BY <3>1, <4>2 DEF CopyTrue
    <3> QED
      BY <3>4, <3>5
  <2> QED
    BY <2>1, <2>2
<1>13. PairsPlaced'
  <2> SUFFICES ASSUME NEW c \in PairIds
               PROVE  /\ c \in alone' => fused'[c] >= 1
                      /\ goldenOf[c] # NoGolden =>
                           /\ PairHeld(c)' => fused'[c] >= 1
                           /\ fused'[c] >= 1 => PairHeld(c)' \/ c \in alone'
                           /\ PairHeld(c)' /\ c \in alone' => fused'[c] >= 2
    BY DEF PairsPlaced
  <2>1. /\ fused[c] \in Nat
        /\ c \in alone => fused[c] >= 1
        /\ goldenOf[c] # NoGolden =>
             /\ goldenOf[c] \in Golden /\ (PairHeld(c) => fused[c] >= 1)
             /\ fused[c] >= 1 => PairHeld(c) \/ c \in alone
             /\ PairHeld(c) /\ c \in alone => fused[c] >= 2
    BY <1>0, ReviewAssumption DEF ReviewInv, PairsPlaced, ServiceTyped
  <2>2. CASE c = d.pair
    <3>1. PairHeld(c)' <=> d.op = "accept"
      BY <1>0, <1>7, <1>8, <2>2 DEF PairHeld
    <3>2. d.op = "split" => PairHeld(c)
      BY <1>1, <2>2 DEF PairHeld
    <3> QED
      BY <1>0, <1>1, <1>10, <2>1, <2>2, <3>1, <3>2
  <2>3. CASE c # d.pair
    <3>1. goldenOf[c] # NoGolden => (PairHeld(c)' <=> PairHeld(c))
      BY <1>7, <1>8, <2>1, <2>3 DEF PairHeld
    <3> QED
      BY <1>10, <2>1, <2>3, <3>1
  <2> QED
    BY <2>2, <2>3
<1>14. DecisionsShown'
  <2>1. d.op = "split" => r # "console"
    BY <1>0 DEF DecidingTyped
  <2>2. \A c \in PairIds : standing[c] # "PENDING" => standing'[c] # "PENDING"
    BY <1>10
  <2>3. told \subseteq PairIds /\ (deciding["console"].at # "rest" => deciding["console"].pair \in PairIds)
    BY <1>0 DEF ReviewInv, ReviewTyped, ListsTyped, DecidingTyped, Reviewers
  <2> QED
    BY <1>0, <1>2, <1>3, <1>5, <1>10, <2>1, <2>2, <2>3 DEF ReviewInv, DecisionsShown, Decided, Reviewers, OthersStay, history
<1> QED
  BY <1>2, <1>6, <1>9, <1>11, <1>12, <1>13, <1>14 DEF ReviewInv, ReviewTyped, ListsTyped, history

LEMMA ArrivalKeeps ==
  ASSUME ReviewInv, NEW r \in Reviewers, DecisionArrives(r)
  PROVE  ReviewInv'
<1>0. AtRest \in Decisions /\ AtRest.at = "rest" /\ AtRest.op # "split"
  BY DEF AtRest, Decisions, CallStages, DecisionOps, Copies
<1>1. CASE r # "console"
  BY <1>0, <1>1, Unread DEF DecisionArrives, serverVars
<1>2. CASE r = "console"
  <2> DEFINE c == deciding["console"].pair
  <2>1. /\ deciding["console"].at = "done" /\ deciding' = [deciding EXCEPT !["console"] = AtRest]
        /\ pairs' = Invalidated /\ told' = told \cup {c} /\ overtaken' = overtaken
        /\ spared' = {f \in Filters : pairs[f].req = "served" /\ LeftAlone(f)}
        /\ UNCHANGED <<fusion, standing, records, fused, alone>>
    BY <1>2 DEF DecisionArrives, serverVars
  <2>2. c \in PairIds /\ standing[c] # "PENDING"
    BY <2>1 DEF ReviewInv, ReviewTyped, DecidingTyped, DecisionsShown, Reviewers
  <2>3. deciding'["console"] = AtRest /\ deciding'["other"] = deciding["other"]
    BY <2>1 DEF ReviewInv, ReviewTyped, DecidingTyped, Reviewers
  <2>4. DecidingTyped'
    BY <1>0, <2>1, <2>3 DEF ReviewInv, ReviewTyped, DecidingTyped, Reviewers
  <2>5. NoPairs \in PairLists
    BY DEF NoPairs, PairLists
  <2>6. ListsTyped'
    <3>1. pairs \in [Filters -> [rows : PairLists, loaded : BOOLEAN, stale : BOOLEAN, seen : PairLists,
                                 req : {"none", "asked", "served"}]]
      BY DEF ReviewInv, ReviewTyped, ListsTyped
    <3>2. pairs' \in [Filters -> [rows : PairLists, loaded : BOOLEAN, stale : BOOLEAN, seen : PairLists,
                                  req : {"none", "asked", "served"}]]
      BY <2>1, <2>5, <3>1 DEF Invalidated
    <3> QED
      BY <2>1, <2>2, <3>2 DEF ReviewInv, ReviewTyped, ListsTyped
  <2>7. DecisionsShown'
    <3>1. ASSUME NEW f \in Filters PROVE pairs'[f].stale /\ (pairs'[f].req = "served" => f \in spared')
      <4>1. pairs[f] \in [rows : PairLists, loaded : BOOLEAN, stale : BOOLEAN, seen : PairLists,
                          req : {"none", "asked", "served"}]
        BY DEF ReviewInv, ReviewTyped, ListsTyped
      <4> QED
        BY <2>1, <4>1 DEF Invalidated
    <3> QED
      BY <1>0, <2>1, <2>2, <2>3, <3>1 DEF ReviewInv, DecisionsShown
  <2>8. \A q \in Reviewers, b \in PairIds : Claim(q, b)' = Claim(q, b)
    BY <1>0, <2>1, <2>3 DEF Claim, Reviewers
  <2>9. ClaimsCounted'
    BY <2>1, <2>8 DEF ReviewInv, ClaimsCounted, Reviewers
  <2>10. \A q \in Reviewers : CopyTrue(q)'
    BY <1>0, <2>1, <2>3 DEF ReviewInv, CopyTrue, Reviewers
  <2> QED
    BY <2>1, <2>4, <2>6, <2>7, <2>9, <2>10 DEF ReviewInv, ReviewTyped, ServiceTyped, PairsPlaced, PairHeld
<1> QED
  BY <1>1, <1>2

LEMMA StepInv == ReviewInv /\ [ReviewNext]_reviewVars => ReviewInv'
<1> SUFFICES ASSUME ReviewInv, [ReviewNext]_reviewVars PROVE ReviewInv'
  OBVIOUS
<1>1. CASE ListStep
  BY <1>1, ListKeeps
<1>2. ASSUME NEW r \in Reviewers, Deciding(r) PROVE ReviewInv'
  <2>1. CASE CommitRefused(r) \/ DecisionFails(r) \/ DecisionLost(r)
    BY <2>1, FailureKeeps DEF CommitRefused, DecisionFails, DecisionLost, StillDeciding, serverVars
  <2> QED
    BY <1>2, <2>1, ReadPairKeeps, ReadGoldenKeeps, RejectKeeps, GoldenKeeps, ArrivalKeeps
       DEF Deciding
<1>3. ASSUME NEW op \in {"accept", "reject"}, Decide(op) PROVE ReviewInv'
  <2>1. ActivePair \in PairIds /\ Called("console", op, ActivePair)
    BY <1>3 DEF Decide, ReviewInv, ReviewTyped, ListsTyped, PairLists
  <2> QED
    BY <2>1, CallKeeps DEF Reviewers
<1>4. ASSUME NEW c \in PairIds, NEW op \in {"accept", "reject", "split"}, OtherCalls(op, c)
      PROVE  ReviewInv'
  BY <1>4, CallKeeps DEF OtherCalls, Reviewers
<1>5. CASE UNCHANGED reviewVars
  BY <1>5 DEF reviewVars, ReviewInv, ReviewTyped, ServiceTyped, DecidingTyped, ListsTyped, ClaimsCounted, Claim,
              CopyTrue, PairsPlaced, PairHeld, DecisionsShown, Decided
<1> QED
  BY <1>1, <1>2, <1>3, <1>4, <1>5 DEF ReviewNext, ListStep

LEMMA ReviewHolds == ReviewSpec => []ReviewInv
BY InitInv, StepInv, PTL DEF ReviewSpec

(* What reviewers decide holds, on the records of MergeReviewService and in *)
(* the lists of MergeReviewPage: an accepted pair was merged, by nobody who *)
(* had not found it pending; no merge and no split is undone by a golden    *)
(* record that was read before; and no list that still counts offers again  *)
(* what the page was told it has decided, but for a list read before the    *)
(* decision that the cache was not holding then and takes in after it.      *)
THEOREM DecisionsAlwaysHold == ReviewSpec => []DecisionsHold
BY ReviewHolds, InvHolds, PTL

(* The rows of a list, and those served for it, are of its filter; every    *)
(* version of a golden record was paid for by a call, and so is every one   *)
(* still to come; the record itself stays among its sources.                *)
OfFilter(f, answer) == f # "ALL" => \A c \in DOMAIN answer : answer[c] = f
RowsOfFilter ==
  /\ fusion = [filter |-> fusion.filter, chosen |-> fusion.chosen]
  /\ fusion.chosen \in PairIds \cup {0}
  /\ \A f \in Filters : OfFilter(f, pairs[f].rows) /\ OfFilter(f, pairs[f].seen)

OpenCall(r) == IF deciding[r].at \in {"sent", "checked", "read"} THEN 1 ELSE 0
VersionsPaid ==
  /\ calls2 \in 0..MaxCalls
  /\ \A g \in Golden : /\ records[g].version + OpenCall("console") + OpenCall("other") <= calls2
                       /\ 0 \in records[g].sources
  /\ \A r \in Reviewers : deciding[r].at # "rest" => deciding[r].op # "none"

LEMMA ReviewTypes == ASSUME ReviewInv, RowsOfFilter, VersionsPaid PROVE ReviewTypeOK
<1>1. ASSUME NEW f \in Filters
      PROVE  /\ DOMAIN pairs[f].rows \subseteq PairIds /\ pairs[f].req \in {"none", "asked", "served"}
             /\ f # "ALL" => \A c \in DOMAIN pairs[f].rows : pairs[f].rows[c] = f
  <2>1. pairs[f].rows \in PairLists /\ pairs[f].req \in {"none", "asked", "served"}
    BY DEF ReviewInv, ReviewTyped, ListsTyped
  <2>2. DOMAIN pairs[f].rows \subseteq PairIds
    BY <2>1 DEF PairLists
  <2>. QED  BY <2>1, <2>2 DEF RowsOfFilter, OfFilter
<1>2. ASSUME NEW g \in Golden PROVE records[g].version <= MaxCalls /\ 0 \in records[g].sources
  <2>1. records[g].version \in Nat
    BY DEF ReviewInv, ReviewTyped, ServiceTyped, Copies
  <2>2. OpenCall("console") \in Nat /\ OpenCall("other") \in Nat
    BY DEF OpenCall
  <2>3. calls2 \in Nat /\ calls2 <= MaxCalls /\ MaxCalls \in Nat
    BY ReviewAssumption DEF VersionsPaid
  <2>4. records[g].version + OpenCall("console") + OpenCall("other") <= calls2
    BY DEF VersionsPaid
  <2>5. 0 \in records[g].sources
    BY DEF VersionsPaid
  <2>. QED  BY <2>1, <2>2, <2>3, <2>4, <2>5
<1>3. ASSUME NEW r \in Reviewers, deciding[r].at = "read"
      PROVE  goldenOf[deciding[r].pair] # NoGolden \/ deciding[r].op = "reject"
  <2>1. deciding[r].op \in DecisionOps /\ deciding[r].op # "none"
    BY <1>3 DEF ReviewInv, ReviewTyped, DecidingTyped, Decisions, VersionsPaid
  <2>. QED  BY <1>3, <2>1 DEF ReviewInv, CopyTrue, DecisionOps
<1>. QED  BY <1>1, <1>2, <1>3 DEF ReviewInv, ReviewTyped, ListsTyped, ServiceTyped, RowsOfFilter, ReviewTypeOK

LEMMA RowsOfFilterStep ==
  ASSUME ReviewInv, RowsOfFilter, [ReviewNext]_reviewVars
  PROVE  RowsOfFilter'
<1>0. /\ pairs \in [Filters -> [rows : PairLists, loaded : BOOLEAN, stale : BOOLEAN, seen : PairLists,
                                req : {"none", "asked", "served"}]]
      /\ \A f \in Filters : OfFilter(f, pairs[f].rows) /\ OfFilter(f, pairs[f].seen)
      /\ fusion = [filter |-> fusion.filter, chosen |-> fusion.chosen]
      /\ fusion.chosen \in PairIds \cup {0}
  BY DEF ReviewInv, ReviewTyped, ListsTyped, RowsOfFilter
<1>1. \A f : OfFilter(f, NoPairs)
  BY DEF OfFilter, NoPairs
<1>2. \A f : OfFilter(f, ListedPairs(f))
  BY DEF OfFilter, ListedPairs
<1>a. ASSUME UNCHANGED <<fusion, pairs>> PROVE RowsOfFilter'
  BY <1>a DEF RowsOfFilter
\* A list changes.
<1>b. ASSUME NEW f \in Filters, NEW e, pairs' = [pairs EXCEPT ![f] = e], fusion' = fusion,
             OfFilter(f, e.rows), OfFilter(f, e.seen)
      PROVE  RowsOfFilter'
  <2>1. pairs'[f] = e /\ \A g \in Filters : g # f => pairs'[g] = pairs[g]
    BY <1>0, <1>b
  <2>. QED  BY <1>0, <1>b, <2>1 DEF RowsOfFilter
<1>c. ASSUME NEW f \in Filters PROVE OfFilter(f, pairs[f].rows) /\ OfFilter(f, pairs[f].seen)
  BY <1>0
<1>3. CASE RefreshPairs
  <2>1. PICK f \in Filters : f = fusion.filter
    BY DEF ReviewInv, ReviewTyped, ListsTyped
  <2>2. pairs' = [pairs EXCEPT ![f].req = "asked"] /\ fusion' = fusion
    BY <1>3, <2>1 DEF RefreshPairs
  <2>. DEFINE e == [pairs[f] EXCEPT !.req = "asked"]
  <2>3. pairs' = [pairs EXCEPT ![f] = e] /\ e.rows = pairs[f].rows /\ e.seen = pairs[f].seen
    BY <1>0, <2>2
  <2>. HIDE DEF e
  <2>. QED  BY <1>b, <1>c, <2>2, <2>3
<1>4. ASSUME NEW f \in Filters, FilterBy(f) PROVE RowsOfFilter'
  <2>1. fusion' = [fusion EXCEPT !.filter = f] /\ pairs' \in {pairs, [pairs EXCEPT ![f].req = "asked"]}
    BY <1>4 DEF FilterBy
  <2>2. fusion' = [filter |-> f, chosen |-> fusion.chosen]
    BY <1>0, <2>1
  <2>3. \A g \in Filters : OfFilter(g, pairs'[g].rows) /\ OfFilter(g, pairs'[g].seen)
    BY <1>0, <2>1
  <2>4. fusion'.filter = f /\ fusion'.chosen = fusion.chosen
    BY <2>2
  <2>. QED  BY <1>0, <2>2, <2>3, <2>4 DEF RowsOfFilter
<1>5. ASSUME NEW f \in Filters, ServePairs(f) PROVE RowsOfFilter'
  <2>. DEFINE answer == ListedPairs(f)
              e == [pairs[f] EXCEPT !.req = "served", !.seen = answer]
  <2>1. OfFilter(f, answer)
    BY <1>2
  <2>2. pairs' = [pairs EXCEPT ![f].req = "served", ![f].seen = answer] /\ fusion' = fusion
    BY <1>5 DEF ServePairs
  <2>. HIDE DEF answer
  <2>3. pairs' = [pairs EXCEPT ![f] = e] /\ e.rows = pairs[f].rows /\ e.seen = answer
    BY <1>0, <2>2
  <2>. HIDE DEF e
  <2>. QED  BY <1>b, <1>c, <2>1, <2>2, <2>3
<1>6. ASSUME NEW f \in Filters, PairsArrive(f) PROVE RowsOfFilter'
  <2>. DEFINE e == [rows |-> pairs[f].seen, loaded |-> TRUE, stale |-> FALSE, req |-> "none", seen |-> NoPairs]
  <2>1. pairs' = [pairs EXCEPT ![f] = e] /\ fusion' = fusion
    BY <1>6 DEF PairsArrive
  <2>2. e.rows = pairs[f].seen /\ e.seen = NoPairs
    OBVIOUS
  <2>. HIDE DEF e
  <2>. QED  BY <1>1, <1>b, <1>c, <2>1, <2>2
<1>7. ASSUME NEW f \in Filters, PairsLost(f) PROVE RowsOfFilter'
  <2>. DEFINE e == [pairs[f] EXCEPT !.stale = TRUE, !.req = "none", !.seen = NoPairs]
  <2>1. pairs' = [pairs EXCEPT ![f] = e] /\ fusion' = fusion
    BY <1>7 DEF PairsLost
  <2>2. e.rows = pairs[f].rows /\ e.seen = NoPairs
    BY <1>0
  <2>. HIDE DEF e
  <2>. QED  BY <1>1, <1>b, <1>c, <2>1, <2>2
<1>8. ASSUME NEW r \in Reviewers, Deciding(r) PROVE RowsOfFilter'
  <2>1. CASE DecisionArrives(r)
    <3>1. fusion' = fusion /\ pairs' \in {pairs, Invalidated}
      BY <2>1 DEF DecisionArrives
    <3>2. ASSUME NEW f \in Filters
          PROVE  OfFilter(f, Invalidated[f].rows) /\ OfFilter(f, Invalidated[f].seen)
      <4>1. Invalidated[f].rows = pairs[f].rows /\ Invalidated[f].seen \in {pairs[f].seen, NoPairs}
        BY <1>0 DEF Invalidated
      <4>. QED  BY <1>0, <1>1, <4>1
    <3>3. \A f \in Filters : OfFilter(f, pairs'[f].rows) /\ OfFilter(f, pairs'[f].seen)
      BY <1>0, <3>1, <3>2
    <3>. QED  BY <1>0, <3>1, <3>3 DEF RowsOfFilter
  <2>2. CASE ~DecisionArrives(r)
    BY <1>8, <2>2, <1>a DEF Deciding, ReadPair, ReadGolden, CommitReject, CommitGolden,
                            CommitRefused, DecisionFails, DecisionLost
  <2>. QED  BY <2>1, <2>2
<1>9. ASSUME NEW c \in PairIds, SelectPair(c) PROVE RowsOfFilter'
  <2>1. fusion' = [fusion EXCEPT !.chosen = c] /\ pairs' = pairs
    BY <1>9 DEF SelectPair
  <2>2. fusion' = [filter |-> fusion.filter, chosen |-> c]
    BY <1>0, <2>1
  <2>3. fusion'.filter = fusion.filter /\ fusion'.chosen = c
    BY <2>2
  <2>. QED  BY <1>0, <2>1, <2>2, <2>3 DEF RowsOfFilter
<1>10. ASSUME NEW r, NEW op, NEW c, Called(r, op, c) PROVE RowsOfFilter'
  BY <1>10, <1>a DEF Called
<1>11. CASE UNCHANGED reviewVars
  BY <1>11, <1>a DEF reviewVars
<1>. QED  BY <1>3, <1>4, <1>5, <1>6, <1>7, <1>8, <1>9, <1>10, <1>11 DEF ReviewNext, OtherCalls, Decide

LEMMA VersionsPaidStep ==
  ASSUME ReviewInv, VersionsPaid, [ReviewNext]_reviewVars
  PROVE  VersionsPaid'
<1>0. /\ deciding \in [Reviewers -> Decisions] /\ records \in [Golden -> Copies]
      /\ calls2 \in Nat /\ calls2 <= MaxCalls /\ MaxCalls \in Nat
      /\ \A r \in Reviewers : deciding[r].at # "rest" => deciding[r].op # "none" /\ deciding[r].pair \in PairIds
  BY ReviewAssumption DEF ReviewInv, ReviewTyped, ServiceTyped, DecidingTyped, VersionsPaid
<1>1. /\ \A g \in Golden : /\ records[g].version \in Nat /\ 0 \in records[g].sources
                           /\ records[g].version + OpenCall("console") + OpenCall("other") <= calls2
      /\ \A r : OpenCall(r) \in {0, 1} /\ OpenCall(r)' \in {0, 1}
  BY <1>0 DEF VersionsPaid, OpenCall, Copies
\* No record is savedRecord, and nobody but a reviewer who calls has more open.
<1>a. ASSUME records' = records, calls2' \in Nat, calls2' <= MaxCalls,
             OpenCall("console")' + OpenCall("other")' - calls2'
               <= OpenCall("console") + OpenCall("other") - calls2,
             \A r \in Reviewers : deciding'[r].at # "rest" => deciding'[r].op # "none"
      PROVE  VersionsPaid'
  <2>1. ASSUME NEW g \in Golden
        PROVE  records'[g].version + OpenCall("console")' + OpenCall("other")' <= calls2'
    <3>1. records'[g].version = records[g].version
      BY <1>a
    <3>. QED  BY <1>0, <1>1, <1>a, <3>1
  <2>. QED  BY <1>0, <1>1, <1>a, <2>1 DEF VersionsPaid
\* A reviewer goes on without a call more.
<1>b. ASSUME NEW r \in Reviewers, NEW d, deciding' = [deciding EXCEPT ![r] = d],
             d.at \in {"sent", "checked", "read"} => deciding[r].at \in {"sent", "checked", "read"},
             d.at # "rest" => d.op # "none", records' = records, calls2' = calls2
      PROVE  VersionsPaid'
  <2>1. deciding'[r] = d /\ \A q \in Reviewers : q # r => deciding'[q] = deciding[q]
    BY <1>0, <1>b
  <2>2. \A q \in Reviewers : OpenCall(q)' <= OpenCall(q)
    BY <1>b, <2>1 DEF OpenCall
  <2>3. OpenCall("console")' <= OpenCall("console") /\ OpenCall("other")' <= OpenCall("other")
    BY <2>2 DEF Reviewers
  <2>4. \A q \in Reviewers : deciding'[q].at # "rest" => deciding'[q].op # "none"
    BY <1>0, <1>b, <2>1
  <2>. QED  BY <1>0, <1>1, <1>a, <1>b, <2>3, <2>4
<1>c. ASSUME UNCHANGED <<deciding, records>>, calls2' \in {calls2, calls2 + 1}, calls2' <= MaxCalls
      PROVE  VersionsPaid'
  <2>1. OpenCall("console")' = OpenCall("console") /\ OpenCall("other")' = OpenCall("other")
    BY <1>c DEF OpenCall
  <2>. QED  BY <1>0, <1>1, <1>a, <1>c, <2>1
<1>2. CASE ListStep \/ UNCHANGED reviewVars
  <2>1. UNCHANGED <<deciding, records>> /\ (calls2' = calls2 \/ Call2)
    BY <1>2 DEF ListStep, RefreshPairs, SelectPair, FilterBy, ServePairs, PairsArrive, PairsLost,
                serverVars, reviewVars
  <2>2. calls2' \in {calls2, calls2 + 1} /\ calls2' <= MaxCalls
    BY <1>0, <2>1 DEF Call2
  <2>. QED  BY <1>c, <2>1, <2>2
<1>3. ASSUME NEW r \in Reviewers, NEW op \in {"accept", "reject", "split"}, NEW c, Called(r, op, c)
      PROVE  VersionsPaid'
  <2>. DEFINE d == [AtRest EXCEPT !.at = "sent", !.op = op, !.pair = c]
  <2>1. d.at = "sent" /\ d.op = op
    BY DEF AtRest
  <2>2. deciding' = [deciding EXCEPT ![r] = d] /\ records' = records /\ calls2' = calls2 + 1 /\ calls2 < MaxCalls
    BY <1>3 DEF Called, Call2, serverVars
  <2>. HIDE DEF d
  <2>3. deciding'[r] = d /\ \A q \in Reviewers : q # r => deciding'[q] = deciding[q]
    BY <1>0, <2>2
  <2>4. \A q \in Reviewers : q # r => OpenCall(q)' = OpenCall(q)
    BY <2>3 DEF OpenCall
  <2>5. OpenCall("console")' + OpenCall("other")' <= OpenCall("console") + OpenCall("other") + 1
    <3>1. CASE r = "console"
      <4>1. OpenCall("other")' = OpenCall("other")
        BY <2>4, <3>1 DEF Reviewers
      <4>. QED  BY <1>1, <4>1
    <3>2. CASE r = "other"
      <4>1. OpenCall("console")' = OpenCall("console")
        BY <2>4, <3>2 DEF Reviewers
      <4>. QED  BY <1>1, <4>1
    <3>. QED  BY <3>1, <3>2 DEF Reviewers
  <2>6. \A q \in Reviewers : deciding'[q].at # "rest" => deciding'[q].op # "none"
    BY <1>0, <2>1, <2>3
  <2>7. calls2' \in Nat /\ calls2' <= MaxCalls
    BY <1>0, <2>2
  <2>8. OpenCall("console")' + OpenCall("other")' - calls2'
               <= OpenCall("console") + OpenCall("other") - calls2
    BY <1>0, <1>1, <2>2, <2>5
  <2>. QED  BY <1>a, <2>2, <2>6, <2>7, <2>8
<1>4. ASSUME NEW r \in Reviewers, Deciding(r), ~CommitGolden(r) PROVE VersionsPaid'
  <2>1. PICK at \in CallStages :
          /\ deciding' = [deciding EXCEPT ![r] = AtRest] \/ deciding' = [deciding EXCEPT ![r].at = at]
               \/ \E k : deciding' = [deciding EXCEPT ![r] = [deciding[r] EXCEPT !.at = at, !.copy = k]]
          /\ at \in {"sent", "checked", "read"} => deciding[r].at \in {"sent", "checked"}
          /\ records' = records /\ calls2' = calls2 /\ deciding[r].at # "rest"
    <3>1. CASE ReadPair(r)
      BY <3>1 DEF ReadPair, Fails, serverVars, CallStages
    <3>2. CASE ReadGolden(r)
      BY <3>2 DEF ReadGolden, Fails, serverVars, CallStages
    <3>3. CASE CommitReject(r)
      BY <3>3 DEF CommitReject, CallStages
    <3>5. CASE CommitRefused(r)
      BY <3>5 DEF CommitRefused, Fails, serverVars, CallStages
    <3>4. CASE DecisionArrives(r) \/ DecisionFails(r) \/ DecisionLost(r)
      BY <3>4 DEF DecisionArrives, DecisionFails, DecisionLost, StillDeciding, serverVars, CallStages
    <3>. QED  BY <1>4, <3>1, <3>2, <3>3, <3>4, <3>5 DEF Deciding
  <2>2. deciding[r] \in Decisions /\ deciding[r].op # "none"
    BY <1>0, <2>1
  <2>3. CASE deciding' = [deciding EXCEPT ![r] = AtRest]
    <3>1. AtRest.at = "rest"
      BY DEF AtRest
    <3>. QED  BY <1>b, <2>1, <2>3, <3>1
  <2>4. CASE deciding' = [deciding EXCEPT ![r].at = at]
    <3>1. /\ [deciding[r] EXCEPT !.at = at].at = at
          /\ [deciding[r] EXCEPT !.at = at].op = deciding[r].op
      BY <2>2 DEF Decisions
    <3>2. deciding' = [deciding EXCEPT ![r] = [deciding[r] EXCEPT !.at = at]]
      BY <1>0, <2>4
    <3>. QED  BY <1>b, <2>1, <2>2, <3>1, <3>2
  <2>5. ASSUME NEW k, deciding' = [deciding EXCEPT ![r] = [deciding[r] EXCEPT !.at = at, !.copy = k]]
        PROVE  VersionsPaid'
    <3>1. /\ [deciding[r] EXCEPT !.at = at, !.copy = k].at = at
          /\ [deciding[r] EXCEPT !.at = at, !.copy = k].op = deciding[r].op
      BY <2>2 DEF Decisions
    <3>. QED  BY <1>b, <2>1, <2>2, <2>5, <3>1
  <2>. QED  BY <2>1, <2>3, <2>4, <2>5
<1>5. ASSUME NEW r \in Reviewers, CommitGolden(r) PROVE VersionsPaid'
  <2>. DEFINE d == deciding[r]
              g == goldenOf[d.pair]
              savedRecord == [version |-> d.copy.version + 1,
                        sources |-> MergedSources(d.op, d.pair, d.copy.sources)]
  <2>1. /\ d \in Decisions /\ d.at = "read" /\ d.op \in {"accept", "split"} /\ SameVersion(d)
        /\ records' = [records EXCEPT ![g] = savedRecord] /\ calls2' = calls2
        /\ deciding' = [deciding EXCEPT ![r].at = "done"] /\ d.pair \in PairIds
    BY <1>0, <1>5 DEF CommitGolden
  <2>2. /\ g \in Golden /\ d.copy.version = records[g].version
        /\ d.copy.sources = records[g].sources
    <3>1. CopyTrue(r) /\ records[g].version = d.copy.version
      BY <2>1 DEF ReviewInv, SameVersion
    <3>. QED  BY <2>1, <3>1, ReviewAssumption DEF CopyTrue
  <2>3. savedRecord.version = records[g].version + 1 /\ 0 \in savedRecord.sources
    <3>1. 0 \in records[g].sources /\ d.pair # 0
      BY <1>1, <2>1, <2>2, ReviewAssumption
    <3>. QED  BY <2>2, <3>1 DEF MergedSources
  <2>. HIDE DEF savedRecord
  <2>4. records'[g] = savedRecord /\ \A h \in Golden : h # g => records'[h] = records[h]
    BY <1>0, <2>1, <2>2
  <2>5. deciding'[r].at = "done" /\ deciding'[r].op = d.op
        /\ \A q \in Reviewers : q # r => deciding'[q] = deciding[q]
    BY <1>0, <2>1 DEF Decisions
  <2>6. OpenCall(r)' = 0 /\ OpenCall(r) = 1
    BY <2>1, <2>5 DEF OpenCall
  <2>7. \A q \in Reviewers : q # r => OpenCall(q)' = OpenCall(q)
    BY <2>5 DEF OpenCall
  <2>8. OpenCall("console")' + OpenCall("other")' + 1 = OpenCall("console") + OpenCall("other")
    <3>1. CASE r = "console"
      <4>1. OpenCall("other")' = OpenCall("other")
        BY <2>7, <3>1 DEF Reviewers
      <4>. QED  BY <1>1, <2>6, <3>1, <4>1
    <3>2. CASE r = "other"
      <4>1. OpenCall("console")' = OpenCall("console")
        BY <2>7, <3>2 DEF Reviewers
      <4>. QED  BY <1>1, <2>6, <3>2, <4>1
    <3>. QED  BY <3>1, <3>2 DEF Reviewers
  <2>9. ASSUME NEW h \in Golden
        PROVE  /\ records'[h].version + OpenCall("console")' + OpenCall("other")' <= calls2'
               /\ 0 \in records'[h].sources
    <3>1. records'[h].version \in {records[h].version, records[h].version + 1} /\ 0 \in records'[h].sources
      BY <1>1, <2>3, <2>4
    <3>. QED  BY <1>0, <1>1, <2>1, <2>8, <3>1
  <2>10. \A q \in Reviewers : deciding'[q].at # "rest" => deciding'[q].op # "none"
    BY <1>0, <2>1, <2>5
  <2>. QED  BY <1>0, <2>1, <2>9, <2>10 DEF VersionsPaid
<1>6. ASSUME NEW op \in {"accept", "reject"}, Decide(op) PROVE VersionsPaid'
  BY <1>3, <1>6 DEF Decide, Reviewers
<1>7. ASSUME NEW c \in PairIds, NEW op \in {"accept", "reject", "split"}, OtherCalls(op, c)
      PROVE  VersionsPaid'
  BY <1>3, <1>7 DEF OtherCalls, Reviewers
<1>. QED  BY <1>2, <1>4, <1>5, <1>6, <1>7 DEF ReviewNext, ListStep

LEMMA ReviewTypedHold == ReviewSpec => [](RowsOfFilter /\ VersionsPaid)
<1>1. ReviewInit => RowsOfFilter /\ VersionsPaid
  <2>. SUFFICES ASSUME ReviewInit PROVE RowsOfFilter /\ VersionsPaid
    OBVIOUS
  <2>1. \A f : OfFilter(f, NoPairs)
    BY DEF OfFilter, NoPairs
  <2>2. \A f \in Filters : pairs[f].rows = NoPairs /\ pairs[f].seen = NoPairs
    BY DEF ReviewInit
  <2>3. RowsOfFilter
    BY <2>1, <2>2 DEF ReviewInit, RowsOfFilter
  <2>4. \A r \in Reviewers : deciding[r].at = "rest"
    BY DEF ReviewInit, AtRest
  <2>5. OpenCall("console") = 0 /\ OpenCall("other") = 0
    BY <2>4 DEF OpenCall, Reviewers
  <2>6. \A g \in Golden : records[g].version = 0 /\ 0 \in records[g].sources
    BY DEF ReviewInit
  <2>7. calls2 = 0 /\ MaxCalls \in Nat
    BY ReviewAssumption DEF ReviewInit
  <2>8. VersionsPaid
    BY <2>4, <2>5, <2>6, <2>7 DEF VersionsPaid
  <2>. QED  BY <2>3, <2>8
<1>2. ReviewInv /\ RowsOfFilter /\ VersionsPaid /\ [ReviewNext]_reviewVars
        => RowsOfFilter' /\ VersionsPaid'
  BY RowsOfFilterStep, VersionsPaidStep
<1>. QED  BY <1>1, <1>2, ReviewHolds, PTL DEF ReviewSpec
=============================================================================
