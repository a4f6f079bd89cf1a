------------------------------- MODULE Auth --------------------------------
(***************************************************************************)
(* AuthService (backend/src/auth): login with lockout and duplicate-session *)
(* checks, logout, logout-beacon, the session heartbeat, the SSE logout     *)
(* event and the cron that deletes expired sessions.                        *)
(*                                                                          *)
(* The server is one Node process: a handler runs alone until it awaits a   *)
(* query, so every action below is one query together with the synchronous  *)
(* code up to the next await, and handlers interleave between actions.      *)
(* Time is counted in ticks; SessionExpiry and accountLockMinutes are given *)
(* in ticks, and 0 stands for a null lockedUntil.                           *)
(***************************************************************************)
EXTENDS Naturals

CONSTANTS
  User,           \* rows of the users table
  Request,        \* HTTP requests, each handled once; a login's session id is its request
  Kinds,          \* which handlers the clients call
  SettingsSpace,  \* rows the administrators may give system_settings
  SessionExpiry,  \* SESSION_EXPIRY_MS in ticks
  MaxTime         \* bound on the clock

Settings == [preventDuplicateLogin : BOOLEAN, loginFailureLimitEnabled : BOOLEAN,
             loginFailureLimit : 1..5, accountLockMinutes : Nat \ {0}]

ASSUME AuthAssumption ==
  /\ User # {}
  /\ Kinds \subseteq {"login", "logout", "beacon", "validate", "events"}
  /\ SettingsSpace # {} /\ SettingsSpace \subseteq Settings
  /\ SessionExpiry \in Nat /\ MaxTime \in Nat

VARIABLES
  now,            \* the clock
  settings,       \* the system_settings row
  users,          \* the columns of users that login reads and writes
  removed,        \* users whose row has been deleted; users says nothing of these
  userSessions,   \* the user_sessions table
  loginAttempts,  \* the login_attempts table: <<request, success>>
  subscribed,     \* sessions whose tab holds an open session-events stream
  pc,             \* where each request's handler is
  job,            \* what each request asks for
  local,          \* what each handler remembers across its awaits
  notified,       \* history: sessions whose tab received a logout event
  cleared         \* history: sessions already created when a login cleared the table

db == <<settings, users, removed, userSessions, loginAttempts>>
history == <<notified, cleared>>
vars == <<now, settings, users, removed, userSessions, loginAttempts, subscribed,
          pc, job, local, notified, cleared>>

UserSession == [sessionId : Request, userId : User, lastActivity : Nat]
UserRow == [isActive : BOOLEAN, isLocked : BOOLEAN, lockedUntil : Nat,
            failedLoginAttempts : Nat]
Job == [kind : {"login", "logout", "beacon", "validate"}, user : User,
        force : BOOLEAN, good : BOOLEAN, token : Request]
Local == [prevent : BOOLEAN, limit : 1..5, lock : Nat, seen : Nat,
          existing : SUBSET Request]

LoginSteps == {"lockCheck", "unlock", "compare", "count", "recordFailure", "lock",
               "duplicateCheck", "reset", "recordSuccess", "list", "clear", "create"}
TokenSteps == {"deleteAll", "validateSettings", "findSession", "touch"}
InFlight == LoginSteps \cup TokenSteps
Final == {"granted", "refused", "answered", "aborted"}

TypeOK ==
  /\ now \in Nat
  /\ settings \in SettingsSpace
  /\ users \in [User -> UserRow]
  /\ removed \subseteq User
  /\ userSessions \subseteq UserSession
  /\ loginAttempts \subseteq Request \X BOOLEAN
  /\ subscribed \subseteq Request
  /\ pc \in [Request -> {"idle"} \cup InFlight \cup Final]
  /\ job \in [Request -> Job]
  /\ local \in [Request -> Local]
  /\ notified \subseteq Request
  /\ cleared \in [Request -> SUBSET Request]

Init ==
  /\ now = 0
  /\ settings \in SettingsSpace
  /\ users = [u \in User |-> [isActive |-> TRUE, isLocked |-> FALSE,
                              lockedUntil |-> 0, failedLoginAttempts |-> 0]]
  /\ removed = {}
  /\ userSessions = {}
  /\ loginAttempts = {}
  /\ subscribed = {}
  /\ pc = [r \in Request |-> "idle"]
  /\ job = [r \in Request |-> [kind |-> "login", user |-> CHOOSE u \in User : TRUE,
                               force |-> FALSE, good |-> FALSE, token |-> r]]
  /\ local = [r \in Request |-> [prevent |-> FALSE, limit |-> 1, lock |-> 0,
                                 seen |-> 0, existing |-> {}]]
  /\ notified = {}
  /\ cleared = [r \in Request |-> {}]

---------------------------------------------------------------------------
(* Helpers *)

SessionsOf(u) == {s \in userSessions : s.userId = u}
Ids(S) == {s.sessionId : s \in S}

\* lastActivity < now - SESSION_EXPIRY_MS
Expired(s) == s.lastActivity + SessionExpiry < now

\* Requests whose login was answered with tokens.
Granted == {r \in Request : pc[r] = "granted"}

\* The row of the request's user is still there: what the query updates or refers to.
HasUser(r) == job[r].user \notin removed

Step(r, from, to) == pc[r] = from /\ pc' = [pc EXCEPT ![r] = to]

---------------------------------------------------------------------------
(* Slips: plausible mistakes in single steps. No action uses them; putting one  *)
(* in the place of the step it is named after shows that a property notices.    *)

Slip_LimitReached(r) == local[r].seen > local[r].limit

Slip_Unlock(r) ==  \* releases the lock and keeps the counter
  /\ HasUser(r)
  /\ Step(r, "unlock", "compare")
  /\ users' = [users EXCEPT ![job[r].user].isLocked = FALSE,
                            ![job[r].user].lockedUntil = 0]
  /\ UNCHANGED <<now, settings, removed, userSessions, loginAttempts, subscribed, job, local, history>>

Slip_LockAccount(r) ==  \* forgets the end of the lock
  /\ HasUser(r)
  /\ Step(r, "lock", "refused")
  /\ users' = [users EXCEPT ![job[r].user].isLocked = TRUE]
  /\ UNCHANGED <<now, settings, removed, userSessions, loginAttempts, subscribed, job, local, history>>

Slip_ListSessions(r) ==  \* keeps the rows instead of their session ids
  /\ Step(r, "list", "clear")
  /\ local' = [local EXCEPT ![r].existing = SessionsOf(job[r].user)]
  /\ UNCHANGED <<now, db, subscribed, job, history>>

Slip_ClearListed(r) ==  \* deletes the sessions it listed, not those there are
  LET gone == {s \in userSessions : s.sessionId \in local[r].existing} IN
  /\ Step(r, "clear", "create")
  /\ userSessions' = userSessions \ gone
  /\ notified' = notified \cup
       (IF gone # {} /\ job[r].force /\ local[r].prevent
        THEN local[r].existing \cap subscribed ELSE {})
  /\ cleared' = [cleared EXCEPT ![r] = {q \in Granted : job[q].user = job[r].user}]
  /\ UNCHANGED <<now, settings, users, removed, loginAttempts, subscribed, job, local>>

Slip_ClearSessions(r) ==  \* deletes without saying whose
  /\ Step(r, "clear", "create")
  /\ userSessions' = {}
  /\ notified' = notified \cup
       (IF userSessions # {} /\ job[r].force /\ local[r].prevent
        THEN local[r].existing \cap subscribed ELSE {})
  /\ cleared' = [cleared EXCEPT ![r] = {q \in Granted : job[q].user = job[r].user}]
  /\ UNCHANGED <<now, settings, users, removed, loginAttempts, subscribed, job, local>>

Slip_TouchSession(r) ==  \* an upsert instead of an update
  /\ Step(r, "touch", "answered")
  /\ userSessions' = {s \in userSessions : s.sessionId # job[r].token} \cup
       {[sessionId |-> job[r].token, userId |-> job[r].user, lastActivity |-> now]}
  /\ UNCHANGED <<now, settings, users, removed, loginAttempts, subscribed, job, local, history>>

Slip_CleanupExpiredSessions ==  \* compares the wrong way round
  /\ userSessions' = {s \in userSessions : Expired(s)}
  /\ UNCHANGED <<now, settings, users, removed, loginAttempts, subscribed, pc, job, local, history>>

---------------------------------------------------------------------------
(* login *)

\* The user row is read; a missing or inactive account is refused at once.
LoginLookup(r, u, force, good) ==
  /\ "login" \in Kinds
  /\ Step(r, "idle", IF u \notin removed /\ users[u].isActive THEN "lockCheck" ELSE "refused")
  /\ job' = [job EXCEPT ![r] = [kind |-> "login", user |-> u, force |-> force,
                                good |-> good, token |-> r]]
  /\ UNCHANGED <<now, db, subscribed, local, history>>

\* isAccountLocked reads the row a second time.
LockPassed(u) == users[u].lockedUntil # 0 /\ now > users[u].lockedUntil

IsAccountLocked(r) ==
  LET u == job[r].user IN
  /\ HasUser(r)
  /\ Step(r, "lockCheck", IF ~users[u].isLocked THEN "compare"
                          ELSE IF LockPassed(u) THEN "unlock" ELSE "refused")
  /\ UNCHANGED <<now, db, subscribed, job, local, history>>

\* A lock whose time has passed is released by whoever reads it.
Unlock(r) ==
  /\ HasUser(r)
  /\ Step(r, "unlock", "compare")
  /\ users' = [users EXCEPT ![job[r].user].isLocked = FALSE,
                            ![job[r].user].lockedUntil = 0,
                            ![job[r].user].failedLoginAttempts = 0]
  /\ UNCHANGED <<now, settings, removed, userSessions, loginAttempts, subscribed, job, local, history>>

\* Wrong password: handleFailedLogin reads the settings ...
FailureSettings(r) ==
  /\ ~job[r].good
  /\ Step(r, "compare", "count")
  /\ local' = [local EXCEPT ![r].limit = settings.loginFailureLimit,
                            ![r].lock = settings.accountLockMinutes]
  /\ UNCHANGED <<now, db, subscribed, job, history>>

\* ... increments the counter in the database and gets the new value back ...
CountFailure(r) ==
  LET u == job[r].user IN
  /\ HasUser(r)
  /\ Step(r, "count", "recordFailure")
  /\ users' = [users EXCEPT ![u].failedLoginAttempts = @ + 1]
  /\ local' = [local EXCEPT ![r].seen = users[u].failedLoginAttempts + 1]
  /\ UNCHANGED <<now, settings, removed, userSessions, loginAttempts, subscribed, job, history>>

LimitReached(r) == local[r].seen >= local[r].limit

\* ... records the attempt, compares the returned value with the limit ...
RecordFailure(r) ==
  /\ HasUser(r)
  /\ Step(r, "recordFailure", IF LimitReached(r) THEN "lock" ELSE "refused")
  /\ loginAttempts' = loginAttempts \cup {<<r, FALSE>>}
  /\ UNCHANGED <<now, settings, users, removed, userSessions, subscribed, job, local, history>>

\* ... and locks the account with a second update.
LockAccount(r) ==
  /\ HasUser(r)
  /\ Step(r, "lock", "refused")
  /\ users' = [users EXCEPT ![job[r].user].isLocked = TRUE,
                            ![job[r].user].lockedUntil = now + local[r].lock]
  /\ UNCHANGED <<now, settings, removed, userSessions, loginAttempts, subscribed, job, local, history>>

\* Right password: the settings decide whether existing sessions are checked.
SuccessSettings(r) ==
  /\ job[r].good
  /\ Step(r, "compare", IF settings.preventDuplicateLogin /\ ~job[r].force
                        THEN "duplicateCheck" ELSE "reset")
  /\ local' = [local EXCEPT ![r].prevent = settings.preventDuplicateLogin]
  /\ UNCHANGED <<now, db, subscribed, job, history>>

\* DUPLICATE_SESSION when a session of the user is still active.
DuplicateCheck(r) ==
  /\ Step(r, "duplicateCheck",
          IF \E s \in SessionsOf(job[r].user) : ~Expired(s) THEN "refused" ELSE "reset")
  /\ UNCHANGED <<now, db, subscribed, job, local, history>>

\* handleSuccessfulLogin clears counter and lock whatever they are by now.
ResetFailures(r) ==
  /\ HasUser(r)
  /\ Step(r, "reset", "recordSuccess")
  /\ users' = [users EXCEPT ![job[r].user].isLocked = FALSE,
                            ![job[r].user].lockedUntil = 0,
                            ![job[r].user].failedLoginAttempts = 0]
  /\ UNCHANGED <<now, settings, removed, userSessions, loginAttempts, subscribed, job, local, history>>

RecordSuccess(r) ==
  /\ HasUser(r)
  /\ Step(r, "recordSuccess", "list")
  /\ loginAttempts' = loginAttempts \cup {<<r, TRUE>>}
  /\ UNCHANGED <<now, settings, users, removed, userSessions, subscribed, job, local, history>>

\* manageUserSession lists the sessions that will be sent the logout event ...
ListSessions(r) ==
  /\ Step(r, "list", "clear")
  /\ local' = [local EXCEPT ![r].existing = Ids(SessionsOf(job[r].user))]
  /\ UNCHANGED <<now, db, subscribed, job, history>>

\* ... deletes every session of the user and, when the login was forced and
\* something was deleted, emits the event to the listed sessions ...
ClearSessions(r) ==
  LET u == job[r].user
      events == IF SessionsOf(u) # {} /\ job[r].force /\ local[r].prevent
                THEN local[r].existing \cap subscribed ELSE {}
  IN
  /\ Step(r, "clear", "create")
  /\ userSessions' = userSessions \ SessionsOf(u)
  /\ notified' = notified \cup events
  /\ cleared' = [cleared EXCEPT ![r] = {q \in Granted : job[q].user = u}]
  /\ UNCHANGED <<now, settings, users, removed, loginAttempts, subscribed, job, local>>

\* ... and creates the new one, whose id goes into the tokens.
CreateSession(r) ==
  /\ HasUser(r)
  /\ Step(r, "create", "granted")
  /\ userSessions' = userSessions \cup
       {[sessionId |-> r, userId |-> job[r].user, lastActivity |-> now]}
  /\ UNCHANGED <<now, settings, users, removed, loginAttempts, subscribed, job, local, history>>

LoginStep(r) ==
  \/ IsAccountLocked(r) \/ Unlock(r)
  \/ FailureSettings(r) \/ CountFailure(r) \/ RecordFailure(r) \/ LockAccount(r)
  \/ SuccessSettings(r) \/ DuplicateCheck(r) \/ ResetFailures(r) \/ RecordSuccess(r)
  \/ ListSessions(r) \/ ClearSessions(r) \/ CreateSession(r)

---------------------------------------------------------------------------
(* Requests that carry a token: JWTs are checked for signature, expiry and an *)
(* active user, never against user_sessions.                                  *)

FirstStep(k) == IF k = "validate" THEN "validateSettings" ELSE "deleteAll"

\* JwtStrategy.validate stands before logout and validate-session; the beacon
\* only verifies the signature.
TokenArrives(r, k, t) ==
  /\ k \in Kinds \cap {"logout", "beacon", "validate"} /\ t \in Granted
  /\ Step(r, "idle", IF k = "beacon" \/ (HasUser(t) /\ users[job[t].user].isActive)
                     THEN FirstStep(k) ELSE "refused")
  /\ job' = [job EXCEPT ![r].kind = k, ![r].user = job[t].user, ![r].token = t]
  /\ UNCHANGED <<now, db, subscribed, local, history>>

\* Both logout routes call logout without a session id: all sessions go.
Logout(r) ==
  /\ Step(r, "deleteAll", "answered")
  /\ userSessions' = userSessions \ SessionsOf(job[r].user)
  /\ UNCHANGED <<now, settings, users, removed, loginAttempts, subscribed, job, local, history>>

\* validateSession answers at once while duplicate logins are allowed ...
ValidateSettings(r) ==
  /\ Step(r, "validateSettings",
          IF settings.preventDuplicateLogin THEN "findSession" ELSE "answered")
  /\ UNCHANGED <<now, db, subscribed, job, local, history>>

\* ... refuses a token whose session is gone ...
FindSession(r) ==
  /\ Step(r, "findSession",
          IF job[r].token \in Ids(SessionsOf(job[r].user)) THEN "touch" ELSE "refused")
  /\ UNCHANGED <<now, db, subscribed, job, local, history>>

\* ... and updates the row it found, an error when the row has vanished since.
Touched(r) == {s \in userSessions : s.sessionId = job[r].token}

TouchSession(r) ==
  /\ Step(r, "touch", IF Touched(r) # {} THEN "answered" ELSE "aborted")
  /\ userSessions' = (userSessions \ Touched(r)) \cup
       {[s EXCEPT !.lastActivity = now] : s \in Touched(r)}
  /\ UNCHANGED <<now, settings, users, removed, loginAttempts, subscribed, job, local, history>>

TokenStep(r) ==
  Logout(r) \/ ValidateSettings(r) \/ FindSession(r) \/ TouchSession(r)

\* The session-events stream of a tab, opened with its token and closed by the
\* tab, by a proxy or by the 50 minute reconnect.
Subscribe(s) ==
  /\ "events" \in Kinds
  /\ s \in Granted \ subscribed /\ HasUser(s) /\ users[job[s].user].isActive
  /\ subscribed' = subscribed \cup {s}
  /\ UNCHANGED <<now, db, pc, job, local, history>>

Unsubscribe(s) ==
  /\ s \in subscribed
  /\ subscribed' = subscribed \ {s}
  /\ UNCHANGED <<now, db, pc, job, local, history>>

---------------------------------------------------------------------------
(* The rest of the system *)

\* The five-minute cron.
CleanupExpiredSessions ==
  /\ userSessions' = {s \in userSessions : ~Expired(s)}
  /\ UNCHANGED <<now, settings, users, removed, loginAttempts, subscribed, pc, job, local, history>>

\* An administrator saves the settings page.
UpdateSettings ==
  /\ settings' \in SettingsSpace
  /\ UNCHANGED <<now, users, removed, userSessions, loginAttempts, subscribed, pc, job, local, history>>

\* An administrator (de)activates an account; its sessions stay.
ToggleActive(u) ==
  /\ u \notin removed
  /\ users' = [users EXCEPT ![u].isActive = ~@]
  /\ UNCHANGED <<now, settings, removed, userSessions, loginAttempts, subscribed, pc, job, local, history>>

\* A super admin removes an account: its sessions and login attempts go with the row
\* (onDelete: Cascade), and nothing is emitted to its tabs.
RemoveUser(u) ==
  /\ u \notin removed
  /\ removed' = removed \cup {u}
  /\ userSessions' = userSessions \ SessionsOf(u)
  /\ loginAttempts' = {a \in loginAttempts : job[a[1]].user # u}
  /\ UNCHANGED <<now, settings, users, subscribed, pc, job, local, history>>

\* A login whose account has been removed meanwhile fails at its next query about the
\* row: it reads null, updates nothing (P2025) or breaks a foreign key.
UserGone(r) ==
  /\ ~HasUser(r)
  /\ pc[r] \in {"lockCheck", "unlock", "count", "recordFailure", "lock", "reset",
               "recordSuccess", "create"}
  /\ pc' = [pc EXCEPT ![r] = "aborted"]
  /\ UNCHANGED <<now, db, subscribed, job, local, history>>

\* A query of one handler fails: the exception ends the request, nothing is undone.
Abort(r) ==
  /\ pc[r] \in InFlight
  /\ pc' = [pc EXCEPT ![r] = "aborted"]
  /\ UNCHANGED <<now, db, subscribed, job, local, history>>

\* The process dies and is started again: handlers and streams are lost.
Restart ==
  /\ pc' = [r \in Request |-> IF pc[r] \in InFlight THEN "aborted" ELSE pc[r]]
  /\ subscribed' = {}
  /\ UNCHANGED <<now, db, job, local, history>>

Tick ==
  /\ now < MaxTime
  /\ now' = now + 1
  /\ UNCHANGED <<db, subscribed, pc, job, local, history>>

Next ==
  \/ \E r \in Request :
       \/ \E u \in User, force, good \in BOOLEAN : LoginLookup(r, u, force, good)
       \/ LoginStep(r)
       \/ \E k \in Kinds, t \in Request : TokenArrives(r, k, t)
       \/ TokenStep(r)
       \/ Subscribe(r)
       \/ Unsubscribe(r)
       \/ UserGone(r)
       \/ Abort(r)
  \/ CleanupExpiredSessions
  \/ UpdateSettings
  \/ \E u \in User : ToggleActive(u) \/ RemoveUser(u)
  \/ Restart
  \/ Tick

Spec == Init /\ [][Next]_vars

\* A handler whose query has been answered continues, and the cron keeps
\* firing. Nothing obliges a client to send anything.
Fairness ==
  /\ \A r \in Request : WF_vars(LoginStep(r) \/ TokenStep(r) \/ UserGone(r))
  /\ WF_vars(CleanupExpiredSessions)

FairSpec == Spec /\ Fairness

---------------------------------------------------------------------------
(* Properties *)

\* handleFailedLogin counts with one query and locks with another, so requests
\* in flight, settings changes and crashes come between the two. Once the counter
\* has reached every limit an administrator may set, the account is locked, or a
\* handler that saw the limit reached has its lock update still ahead of it or
\* died before it.
LockDue(r, u) ==
  /\ job[r].user = u
  /\ pc[r] \in {"recordFailure", "lock", "aborted"}
  /\ LimitReached(r)

LimitLocks ==
  \A u \in User :
    (\A c \in SettingsSpace : users[u].failedLoginAttempts >= c.loginFailureLimit)
      => users[u].isLocked \/ \E r \in Request : LockDue(r, u)

\* isAccountLocked never releases a lock without an end: whatever interleaving of
\* failed, successful and unlocking logins wrote the row, a locked account has an
\* end that is at most the longest configurable lock away, and an account that is
\* not locked has none left over.
LockIsTemporary ==
  \A u \in User :
    /\ users[u].isLocked <=> users[u].lockedUntil # 0
    /\ users[u].isLocked =>
         \E c \in SettingsSpace : users[u].lockedUntil <= now + c.accountLockMinutes

\* manageUserSession deletes by user, not by the list it read before: a session
\* that had been created when a later login of its user cleared the table never
\* has a row again, so two sessions exist side by side only when their logins
\* were in manageUserSession at the same time.
ClearedStayCleared ==
  \A r \in Request : cleared[r] \cap Ids(userSessions) = {}

\* A session row disappears only because a login or a logout of its own user deleted it,
\* because it had expired, or with its user's account; no other request of another
\* account and no heartbeat ever ends it.
SessionEndsForAReason ==
  [][\A s \in userSessions :
       s.sessionId \notin Ids(userSessions)' =>
         \/ Expired(s)
         \/ s.userId \in removed' \ removed
         \/ \E r \in Request : /\ job[r].user = s.userId
                              /\ pc[r] \in {"clear", "deleteAll"}
                              /\ pc'[r] # pc[r]]_vars

\* The session table keeps the promises of SessionRegistry: identifiers are used
\* once, a heartbeat racing a logout does not bring a row back, and only tabs of
\* closed sessions are told to log out.
Registry == INSTANCE SessionRegistry WITH
  Session <- Request,
  live <- Ids(userSessions),
  ended <- Granted \ Ids(userSessions),
  told <- notified

ImplementsRegistry == Registry!Spec

\* The cron ends what nobody keeps alive: an expired session loses its row or is
\* touched again by a heartbeat.
ExpiredSessionsEnd ==
  \A r \in Request :
    (\E s \in userSessions : s.sessionId = r /\ Expired(s))
      ~> ~(\E s \in userSessions : s.sessionId = r /\ Expired(s))

\* A counter that has reached every limit does not leave the account open: it
\* gets locked, is reset by a login that was already past the lock check, or the
\* handler that had to lock died.
LimitEventuallyLocks ==
  \A u \in User :
    (\A c \in SettingsSpace : users[u].failedLoginAttempts >= c.loginFailureLimit)
      ~> \/ users[u].isLocked
         \/ users[u].failedLoginAttempts = 0
         \/ \E r \in Request : pc[r] = "aborted" /\ LockDue(r, u)

============================================================================
