----------------------------- MODULE Administration -----------------------------
(* What an administrator does: users (UserRegistrationPage and              *)
(* UserProvisioningService, with the accounts of Keycloak), tenants         *)
(* (TenantRegistrationPage and TenantProvisioningService) and the API key   *)
(* of the tenant (SettingsPage and ApiKeyService).  Another administrator   *)
(* works with the same services.  A request of the page may be answered     *)
(* without the page hearing of it; Keycloak is external, and is no part of  *)
(* the transaction that writes a user.                                      *)
EXTENDS Naturals, FiniteSetsExt, Workbench

CONSTANTS
  Emails, Slugs,    \* users and tenants that may be created
  NoName,
  MaxJobs           \* bound: requests of both administrators

ASSUME AdminAssumption ==
  NoName \notin Emails \cup Slugs \cup {"console", "colleague"} /\ MaxJobs \in Nat

VARIABLES
  errands,          \* [Clerks -> the request of each and how far it is]
  accounts,         \* Keycloak: emails with an account
  userRows,         \* public.users: emails with a row
  named,            \* public.tenants: [Slugs -> who named it last, or NoName]
  keys, active1,    \* API keys issued, numbered; those that are accepted
  prior,            \* history: [key -> keys issued before its rotation was asked for]
  undone,           \* history: emails whose row was rolled back by the email
  form1,            \* the page: [said, about]: its message
  settings,         \* the page: [key, meta, metaReq, confirm]
  jobsDone          \* bound used up

adminVars == <<errands, accounts, userRows, named, keys, active1, prior, undone, form1, settings,
               jobsDone>>
pageVars == <<form1, settings>>
keyVars == <<keys, active1, prior>>

Clerks == {"console", "colleague"}
Idle1 == [op |-> "none", at |-> "rest", what |-> NoName, asked |-> {}, snap |-> {}]
Unsaid == [said |-> "nothing", about |-> NoName]

AdminInit ==
  /\ errands = [c \in Clerks |-> Idle1]
  /\ accounts = {} /\ userRows = {} /\ named = [s \in Slugs |-> NoName]
  /\ keys = 1 /\ active1 = {1} /\ prior = [k \in 1..1 |-> {}] /\ undone = {}
  /\ form1 = Unsaid /\ settings = [key |-> 0, meta |-> 0, metaReq |-> "asked", confirm |-> FALSE]
  /\ jobsDone = 0

Moves(c, at) == errands' = [errands EXCEPT ![c].at = at]
In(c, op, at) == errands[c].op = op /\ errands[c].at = at

\* The submit button, which is disabled while the request is under way; a
\* colleague calls the same service.
Submit1(c, op, what) ==
  /\ errands[c] = Idle1 /\ jobsDone < MaxJobs /\ jobsDone' = jobsDone + 1
  /\ errands' = [errands EXCEPT ![c] = [op |-> op, at |-> "sent", what |-> what, snap |-> {},
                                  asked |-> IF op = "key" THEN DOMAIN prior ELSE {}]]
  /\ op = "key" /\ c = "console" => settings.confirm
  /\ form1' = IF c = "console" /\ op # "key" THEN Unsaid ELSE form1
  /\ UNCHANGED <<accounts, userRows, named, keyVars, undone, settings>>

(* --------------------------------- users -------------------------------- *)
\* An email that has a row is a conflict.
UserChecked(c) ==
  /\ In(c, "user", "sent")
  /\ Moves(c, IF errands[c].what \in userRows THEN "failed" ELSE "checked")
  /\ UNCHANGED <<accounts, userRows, named, keyVars, undone, pageVars, jobsDone>>

BugGoesOn(ok) == TRUE

\* createUser throws on every failure: no token, a conflict, no answer.
GoesOn(ok) == ok

AccountCreated(c) ==
  LET e == errands[c].what
  IN  /\ In(c, "user", "checked")
      /\ \E reached, answered \in BOOLEAN :
           /\ accounts' = IF reached THEN accounts \cup {e} ELSE accounts
           /\ Moves(c, IF GoesOn(reached /\ answered /\ e \notin accounts)
                       THEN "created" ELSE "failed")
      /\ UNCHANGED <<userRows, named, keyVars, undone, pageVars, jobsDone>>

\* sendSetPasswordEmail: that the mail cannot be sent is logged; that there
\* is no token for it is thrown, and the row is rolled back.
MailThrows == {TRUE, FALSE}

UserCommitted(c) ==
  LET e == errands[c].what
  IN  /\ In(c, "user", "created")
      /\ \E throws \in MailThrows :
           IF throws THEN Moves(c, "failed") /\ undone' = undone \cup {e} /\ userRows' = userRows
                     ELSE Moves(c, "done") /\ userRows' = userRows \cup {e} /\ undone' = undone
      /\ UNCHANGED <<accounts, named, keyVars, pageVars, jobsDone>>

(* -------------------------------- tenants ------------------------------- *)
\* schemaExists, outside the transaction.
TenantChecked(c) ==
  /\ In(c, "tenant", "sent")
  /\ Moves(c, IF named[errands[c].what] # NoName THEN "failed" ELSE "checked")
  /\ UNCHANGED <<accounts, userRows, named, keyVars, undone, pageVars, jobsDone>>

\* The schema, its tables and the row of the tenant are committed together,
\* or none of it; a tenant that is there by now takes the new name.
TenantCommitted(c) ==
  /\ In(c, "tenant", "checked")
  /\ \/ Moves(c, "done") /\ named' = [named EXCEPT ![errands[c].what] = c]
     \/ Moves(c, "failed") /\ named' = named
  /\ UNCHANGED <<accounts, userRows, keyVars, undone, pageVars, jobsDone>>

(* --------------------------------- keys --------------------------------- *)
BugRevoked(c) == {Max(errands[c].snap)}

\* deactivateAllForTenant: every key its statement sees.
Revoked(c) == errands[c].snap

BugLeftActive(c) == (active1 \cup {keys + 1}) \ (Revoked(c) \cup {keys + 1})

LeftActive(c) == (active1 \ Revoked(c)) \cup {keys + 1}

KeysSeen(c) ==
  /\ In(c, "key", "sent") /\ errands' = [errands EXCEPT ![c].at = "seen", ![c].snap = DOMAIN prior]
  /\ prior' = prior /\ UNCHANGED <<accounts, userRows, named, keys, active1, undone, pageVars, jobsDone>>

KeyCommitted(c) ==
  /\ In(c, "key", "seen")
  /\ \/ /\ keys' = keys + 1 /\ active1' = LeftActive(c)
        /\ prior' = [k \in 1..(keys + 1) |-> IF k = keys + 1 THEN errands[c].asked ELSE prior[k]]
        /\ errands' = [errands EXCEPT ![c].at = "done", ![c].snap = {keys + 1}]
     \/ Moves(c, "failed") /\ UNCHANGED keyVars
  /\ UNCHANGED <<accounts, userRows, named, undone, pageVars, jobsDone>>

\* "Roll Key" opens the dialog; Cancel is disabled while it works, the
\* backdrop and Escape are not.
AskToRoll ==
  /\ settings' = [settings EXCEPT !.confirm = ~@]
  /\ UNCHANGED <<errands, accounts, userRows, named, keyVars, undone, form1, jobsDone>>

\* getActiveApiKey: the newest one that is active.
MetaSettles ==
  /\ settings.metaReq = "asked"
  /\ settings' \in {[settings EXCEPT !.metaReq = "none", !.meta = Max(active1)],
                    [settings EXCEPT !.metaReq = "none"]}
  /\ UNCHANGED <<errands, accounts, userRows, named, keyVars, undone, form1, jobsDone>>

(* ----------------------- what the pages are told ------------------------ *)
\* The message of both registration pages.
Says(j, heard) == IF j.at = "done" /\ heard THEN "created" ELSE "error"

\* On success the key is shown, the dialog closed, and its data read again.
KeyShown(j, heard) ==
  IF j.at = "done" /\ heard
  THEN [settings EXCEPT !.key = Max(j.snap), !.confirm = FALSE, !.metaReq = "asked"]
  ELSE settings

\* The answer arrives, or is lost on its way.
Answered1(c) ==
  LET j == errands[c]
  IN  /\ j.at \in {"done", "failed"} /\ errands' = [errands EXCEPT ![c] = Idle1]
      /\ \E heard \in BOOLEAN :
           /\ form1' = IF c = "console" /\ j.op # "key"
                       THEN [said |-> Says(j, heard), about |-> j.what] ELSE form1
           /\ settings' = IF c = "console" /\ j.op = "key" THEN KeyShown(j, heard) ELSE settings
      /\ UNCHANGED <<accounts, userRows, named, keyVars, undone, jobsDone>>

\* A request that the server never works on, or whose server stops: what is
\* not committed is gone, an account is not.
Stops(c) ==
  /\ errands[c].at \in {"sent", "checked", "created", "seen"} /\ Moves(c, "failed")
  /\ UNCHANGED <<accounts, userRows, named, keyVars, undone, pageVars, jobsDone>>

Works(c) ==
  \/ UserChecked(c) \/ AccountCreated(c) \/ UserCommitted(c) \/ TenantChecked(c)
  \/ TenantCommitted(c) \/ KeysSeen(c) \/ KeyCommitted(c) \/ Answered1(c)

AdminNext ==
  \/ AskToRoll \/ MetaSettles
  \/ \E c \in Clerks :
       \/ Works(c) \/ Stops(c) \/ Submit1(c, "key", NoName)
       \/ \E e \in Emails : Submit1(c, "user", e)
       \/ \E s \in Slugs : Submit1(c, "tenant", s)

AdminSpec == AdminInit /\ [][AdminNext]_adminVars

\* The services answer every request.
AdminFairness ==
  /\ \A c \in Clerks : WF_adminVars(inUse = "admin" /\ Works(c))
  /\ WF_adminVars(inUse = "admin" /\ MetaSettles)

(* --------------------- waiting, and what is shown ----------------------- *)
\* isSubmitting, isRegenerating
AdminWaits == errands["console"] # Idle1

(* ------------------------------ properties ------------------------------ *)
AdminTypeOK ==
  /\ accounts \subseteq Emails /\ userRows \subseteq Emails /\ undone \subseteq Emails
  /\ named \in [Slugs -> Clerks \cup {NoName}]
  /\ active1 \subseteq 1..keys /\ keys \in active1 /\ DOMAIN prior = 1..keys
  /\ settings.key <= keys /\ settings.meta <= keys
  /\ \A c \in Clerks : errands[c].op = "key" => errands[c].snap \subseteq 1..keys
  /\ form1.said \in {"nothing", "created", "error"}

(* "we never persist a public.users row that doesn't have a corresponding,  *)
(* real Keycloak account", with two administrators, lost answers and a      *)
(* server that stops between the two; and what a page says it has created   *)
(* is there.                                                                *)
RowHasAccount ==
  /\ userRows \subseteq accounts
  /\ form1.said = "created" =>
       form1.about \in userRows \cup {s \in Slugs : named[s] # NoName}

(* A rotation revokes every key that had been issued when it was asked for, *)
(* also when two rotations overlap and each leaves the other's key active   *)
(* ("Any existing background workers or SDK scripts using this API key will *)
(* be immediately invalidated").                                            *)
EarlierKeysRevoked == \A k \in 1..keys : prior[k] \cap active1 = {}

(* "a failure here is logged but does not roll back user creation"          *)
(* (KeycloakAdminClient, sendSetPasswordEmail).                             *)
MailUndoesNothing == undone = {}
=============================================================================
