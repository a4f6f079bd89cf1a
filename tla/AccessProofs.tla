---------------------------- MODULE AccessProofs ----------------------------
(***************************************************************************)
(* Proofs about Auth, for any number of accounts and requests, and about     *)
(* Logs, the pages on which what Auth writes is looked at, for any number    *)
(* of entries, page sizes and requests.                                      *)
(***************************************************************************)
EXTENDS Auth, Logs, FiniteSetTheorems, TLAPS

(***************************************************************************)
(*                                  Auth                                   *)
(***************************************************************************)

LEMMA InitTypeOK == Init => TypeOK
<1> SUFFICES ASSUME Init PROVE TypeOK
  OBVIOUS
<1>1. (CHOOSE u \in User : TRUE) \in User
  BY AuthAssumption
<1>2. now \in Nat /\ settings \in SettingsSpace /\ users \in [User -> UserRow]
  BY DEF Init, UserRow
<1>3. job \in [Request -> Job]
  BY <1>1 DEF Init, Job
<1>4. local \in [Request -> Local]
  BY DEF Init, Local
<1> QED
  BY <1>2, <1>3, <1>4 DEF Init, TypeOK

\* What a failed login copies from the settings fits what handlers remember.
LEMMA CopiedSettings ==
  ASSUME NEW l \in Local, NEW max \in 1..5, NEW lock \in Nat
  PROVE  [l EXCEPT !.limit = max, !.lock = lock] \in Local
BY DEF Local

\* Every action of a login keeps the types.
LEMMA LoginTypeOK ==
  ASSUME TypeOK, NEW r \in Request, LoginStep(r) PROVE TypeOK'
<1>0. /\ now \in Nat /\ settings \in SettingsSpace
      /\ users \in [User -> UserRow]
      /\ local \in [Request -> Local]
      /\ loginAttempts \subseteq Request \X BOOLEAN
      /\ job[r].user \in User
  BY DEF TypeOK, Job
<1>1. CASE IsAccountLocked(r)
  BY <1>1 DEF IsAccountLocked, TypeOK, Step, LoginSteps, TokenSteps, InFlight, Final, db, history
<1>2. CASE Unlock(r)
  <2>1. users' \in [User -> UserRow]
    BY <1>0, <1>2 DEF Unlock, UserRow
  <2> QED
    BY <1>2, <2>1 DEF TypeOK, Step, LoginSteps, TokenSteps, InFlight, Final, db, history, Unlock
<1>3. CASE FailureSettings(r)
  <2>1. settings.loginFailureLimit \in 1..5 /\ settings.accountLockMinutes \in Nat
    BY <1>0, AuthAssumption DEF Settings
  <2>2. local' \in [Request -> Local]
    <3>1. [local[r] EXCEPT !.limit = settings.loginFailureLimit,
                           !.lock = settings.accountLockMinutes] \in Local
      BY <1>0, <2>1, CopiedSettings
    <3>2. local' = [local EXCEPT ![r].limit = settings.loginFailureLimit,
                                 ![r].lock = settings.accountLockMinutes]
      BY <1>3 DEF FailureSettings
    <3> QED
      BY <1>0, <3>1, <3>2
  <2> QED
    BY <1>3, <2>2 DEF TypeOK, Step, LoginSteps, TokenSteps, InFlight, Final, db, history, FailureSettings
<1>4. CASE CountFailure(r)
  <2>1. users[job[r].user].failedLoginAttempts \in Nat
    BY <1>0 DEF UserRow
  <2>2. users' \in [User -> UserRow]
    BY <1>0, <1>4, <2>1 DEF CountFailure, UserRow
  <2>3. local' \in [Request -> Local]
    BY <1>0, <1>4, <2>1 DEF CountFailure, Local
  <2> QED
    BY <1>4, <2>2, <2>3 DEF TypeOK, Step, LoginSteps, TokenSteps, InFlight, Final, db, history, CountFailure
<1>5. CASE RecordFailure(r)
  <2>1. loginAttempts' \subseteq Request \X BOOLEAN
    <3>1. loginAttempts' = loginAttempts \cup {<<r, FALSE>>}
      BY <1>5 DEF RecordFailure
    <3>2. <<r, FALSE>> \in Request \X BOOLEAN
      BY Zenon
    <3> QED
      BY <1>0, <3>1, <3>2
  <2> QED
    BY <1>5, <2>1 DEF TypeOK, Step, LoginSteps, TokenSteps, InFlight, Final, db, history, RecordFailure
<1>6. CASE LockAccount(r)
  <2>1. now + local[r].lock \in Nat
    BY <1>0 DEF Local
  <2>2. users' \in [User -> UserRow]
    BY <1>0, <1>6, <2>1 DEF LockAccount, UserRow
  <2> QED
    BY <1>6, <2>2 DEF TypeOK, Step, LoginSteps, TokenSteps, InFlight, Final, db, history, LockAccount
<1>7. CASE SuccessSettings(r)
  <2>1. settings.preventDuplicateLogin \in BOOLEAN
    BY <1>0, AuthAssumption DEF Settings
  <2>2. local' \in [Request -> Local]
    BY <1>0, <1>7, <2>1 DEF SuccessSettings, Local
  <2> QED
    BY <1>7, <2>2 DEF TypeOK, Step, LoginSteps, TokenSteps, InFlight, Final, db, history, SuccessSettings
<1>8. CASE DuplicateCheck(r)
  BY <1>8 DEF DuplicateCheck, TypeOK, Step, LoginSteps, TokenSteps, InFlight, Final, db, history
<1>9. CASE ResetFailures(r)
  <2>1. users' \in [User -> UserRow]
    BY <1>0, <1>9 DEF ResetFailures, UserRow
  <2> QED
    BY <1>9, <2>1 DEF TypeOK, Step, LoginSteps, TokenSteps, InFlight, Final, db, history, ResetFailures
<1>10. CASE RecordSuccess(r)
  <2>1. loginAttempts' \subseteq Request \X BOOLEAN
    <3>1. loginAttempts' = loginAttempts \cup {<<r, TRUE>>}
      BY <1>10 DEF RecordSuccess
    <3>2. <<r, TRUE>> \in Request \X BOOLEAN
      BY Zenon
    <3> QED
      BY <1>0, <3>1, <3>2
  <2> QED
    BY <1>10, <2>1 DEF TypeOK, Step, LoginSteps, TokenSteps, InFlight, Final, db, history, RecordSuccess
<1>11. CASE ListSessions(r)
  <2>1. Ids(SessionsOf(job[r].user)) \subseteq Request
    BY DEF TypeOK, Ids, SessionsOf, UserSession
  <2> QED
    BY <1>11, <2>1 DEF TypeOK, Step, LoginSteps, TokenSteps, InFlight, Final, db, history, ListSessions, Local
<1>12. CASE ClearSessions(r)
  <2>1. local[r].existing \subseteq Request
    BY <1>0 DEF Local
  <2> QED
    BY <1>12, <2>1 DEF TypeOK, Step, LoginSteps, TokenSteps, InFlight, Final, db, history, ClearSessions, Granted
<1>13. CASE CreateSession(r)
  BY <1>0, <1>13 DEF CreateSession, UserSession, TypeOK, Step, LoginSteps, TokenSteps, InFlight, Final, db, history
<1> QED
  BY <1>1, <1>2, <1>3, <1>4, <1>5, <1>6, <1>7, <1>8, <1>9, <1>10, <1>11, <1>12, <1>13
  DEF LoginStep

\* So does every other step of the system.
LEMMA OtherTypeOK ==
  ASSUME TypeOK, [Next]_vars PROVE
    TypeOK' \/ \E r \in Request : LoginStep(r)
<1> USE DEF TypeOK, Step, LoginSteps, TokenSteps, InFlight, Final, db, history
<1>1. ASSUME NEW r \in Request, NEW u \in User, NEW force \in BOOLEAN, NEW good \in BOOLEAN,
             LoginLookup(r, u, force, good)
      PROVE  TypeOK'
  BY <1>1 DEF LoginLookup, Job
<1>2. ASSUME NEW r \in Request, NEW k \in Kinds, NEW t \in Request, TokenArrives(r, k, t)
      PROVE  TypeOK'
  <2>1. job' \in [Request -> Job]
    <3>1. k \in {"logout", "beacon", "validate"} /\ job[t].user \in User
      BY <1>2, AuthAssumption DEF TokenArrives, Job
    <3>2. job[r] \in Job
      OBVIOUS
    <3>3. [job[r] EXCEPT !.kind = k, !.user = job[t].user, !.token = t] \in Job
      BY <3>1, <3>2 DEF Job
    <3> QED
      BY <1>2, <3>3 DEF TokenArrives
  <2> QED
    BY <1>2, <2>1 DEF TokenArrives, FirstStep
<1>3. ASSUME NEW r \in Request, TokenStep(r)
      PROVE  TypeOK'
  <2>1. CASE Logout(r)
    BY <2>1 DEF Logout
  <2>2. CASE ValidateSettings(r)
    BY <2>2 DEF ValidateSettings
  <2>3. CASE FindSession(r)
    BY <2>3 DEF FindSession
  <2>4. CASE TouchSession(r)
    BY <2>4 DEF TouchSession, Touched, UserSession
  <2> QED
    BY <1>3, <2>1, <2>2, <2>3, <2>4 DEF TokenStep
<1>4. ASSUME NEW s \in Request, Subscribe(s) \/ Unsubscribe(s)
      PROVE  TypeOK'
  BY <1>4 DEF Subscribe, Unsubscribe
<1>5. ASSUME NEW r \in Request, Abort(r)
      PROVE  TypeOK'
  BY <1>5 DEF Abort
<1>6. CASE CleanupExpiredSessions
  BY <1>6 DEF CleanupExpiredSessions
<1>7. CASE UpdateSettings
  BY <1>7 DEF UpdateSettings
<1>8. ASSUME NEW u \in User, ToggleActive(u)
      PROVE  TypeOK'
  BY <1>8 DEF ToggleActive, UserRow
<1>9. CASE Restart
  BY <1>9 DEF Restart
<1>10. CASE Tick
  BY <1>10 DEF Tick
<1>11. CASE UNCHANGED vars
  BY <1>11 DEF vars
<1>12. ASSUME NEW u \in User, RemoveUser(u)
      PROVE  TypeOK'
  BY <1>12 DEF RemoveUser
<1>13. ASSUME NEW r \in Request, UserGone(r)
      PROVE  TypeOK'
  BY <1>13 DEF UserGone
<1> QED
  BY <1>1, <1>2, <1>3, <1>4, <1>5, <1>6, <1>7, <1>8, <1>9, <1>10, <1>11, <1>12, <1>13 DEF Next

\* Type correctness.
THEOREM TypeCorrect == Spec => []TypeOK
<1>1. TypeOK /\ [Next]_vars => TypeOK'
  BY LoginTypeOK, OtherTypeOK
<1> QED
  BY InitTypeOK, <1>1, PTL DEF Spec

---------------------------------------------------------------------------
(***************************************************************************)
(* The lockout. LimitLocks is not inductive by itself: the limit a handler *)
(* compares with must be one an administrator may set, which holds from    *)
(* the moment handleFailedLogin has read the settings.                     *)
(***************************************************************************)

Failing == {"count", "recordFailure", "lock"}

CopiedFromSettings ==
  \A r \in Request : pc[r] \in Failing =>
    \E c \in SettingsSpace : /\ local[r].limit = c.loginFailureLimit
                             /\ local[r].lock = c.accountLockMinutes

LockInv == TypeOK /\ CopiedFromSettings /\ LimitLocks /\ LockIsTemporary

\* A step that leaves the accounts alone and loses no lock that is due.
LEMMA LockFrame ==
  ASSUME LockInv, users' = users, now' \in Nat, now' >= now,
         \A q \in Request, u \in User : LockDue(q, u) => LockDue(q, u)'
  PROVE  LimitLocks' /\ LockIsTemporary'
<1>1. LimitLocks'
  BY DEF LockInv, LimitLocks
<1>2. ASSUME NEW u \in User, users[u].isLocked
      PROVE  \E c \in SettingsSpace : users[u].lockedUntil <= now' + c.accountLockMinutes
  <2>1. PICK c \in SettingsSpace : users[u].lockedUntil <= now + c.accountLockMinutes
    BY <1>2 DEF LockInv, LockIsTemporary
  <2>2. users[u].lockedUntil \in Nat /\ now \in Nat /\ c.accountLockMinutes \in Nat
    BY AuthAssumption DEF LockInv, TypeOK, UserRow, Settings
  <2> QED
    BY <2>1, <2>2
<1>3. LockIsTemporary'
  BY <1>2 DEF LockInv, LockIsTemporary
<1> QED
  BY <1>1, <1>3

\* A step of r from elsewhere than the end of a failed login keeps locks due.
LEMMA DueKept ==
  ASSUME TypeOK, NEW r \in Request, NEW from, NEW to, Step(r, from, to),
         from \notin {"recordFailure", "lock", "aborted"},
         \A q \in Request \ {r} : job'[q] = job[q] /\ local'[q] = local[q]
  PROVE  \A q \in Request, u \in User : LockDue(q, u) => LockDue(q, u)'
<1> SUFFICES ASSUME NEW q \in Request, NEW u \in User, LockDue(q, u)
             PROVE  LockDue(q, u)'
  OBVIOUS
<1>1. q # r
  BY DEF LockDue, Step
<1>2. pc'[q] = pc[q] /\ job'[q] = job[q] /\ local'[q] = local[q]
  BY <1>1 DEF Step, TypeOK
<1> QED
  BY <1>2 DEF LockDue, LimitReached

\* A step of r that does not enter the end of a failed login keeps the copies.
LEMMA CopiedKept ==
  ASSUME TypeOK, CopiedFromSettings, NEW r \in Request, NEW from, NEW to,
         Step(r, from, to),
         to \in Failing => from \in Failing,
         \A q \in Request \ {r} : local'[q] = local[q],
         to \in Failing => /\ local'[r].limit = local[r].limit
                           /\ local'[r].lock = local[r].lock
  PROVE  CopiedFromSettings'
<1> SUFFICES ASSUME NEW q \in Request, pc'[q] \in Failing
             PROVE  \E c \in SettingsSpace : /\ local'[q].limit = c.loginFailureLimit
                                             /\ local'[q].lock = c.accountLockMinutes
  BY DEF CopiedFromSettings
<1>1. CASE q = r
  <2>1. pc'[r] = to /\ pc[r] = from
    BY DEF Step, TypeOK
  <2> QED
    BY <1>1, <2>1 DEF CopiedFromSettings
<1>2. CASE q # r
  <2>1. pc'[q] = pc[q] /\ local'[q] = local[q]
    BY <1>2 DEF Step, TypeOK
  <2> QED
    BY <2>1 DEF CopiedFromSettings
<1> QED
  BY <1>1, <1>2

\* A row that is reset, by an unlock or by a login that succeeds.
LEMMA ResetFrame ==
  ASSUME LockInv, NEW v \in User, now' = now,
         users' = [users EXCEPT ![v].isLocked = FALSE, ![v].lockedUntil = 0,
                                ![v].failedLoginAttempts = 0],
         \A q \in Request, u \in User : LockDue(q, u) => LockDue(q, u)'
  PROVE  LimitLocks' /\ LockIsTemporary'
<1>1. /\ users'[v].isLocked = FALSE
      /\ users'[v].lockedUntil = 0
      /\ users'[v].failedLoginAttempts = 0
      /\ \A u \in User \ {v} : users'[u] = users[u]
  BY DEF LockInv, TypeOK, UserRow
<1>2. PICK c \in SettingsSpace : c.loginFailureLimit \in 1..5
  BY AuthAssumption DEF Settings
<1>3. LimitLocks'
  <2> SUFFICES ASSUME NEW u \in User,
                      \A d \in SettingsSpace :
                        users'[u].failedLoginAttempts >= d.loginFailureLimit
               PROVE  users'[u].isLocked \/ \E r \in Request : LockDue(r, u)'
    BY DEF LimitLocks
  <2>1. users'[u].failedLoginAttempts >= c.loginFailureLimit
    OBVIOUS
  <2>2. ~(0 >= c.loginFailureLimit)
    BY <1>2
  <2>3. u # v
    BY <1>1, <2>1, <2>2
  <2> QED
    BY <1>1, <2>3 DEF LockInv, LimitLocks
<1>4. LockIsTemporary'
  BY <1>1 DEF LockInv, LockIsTemporary
<1> QED
  BY <1>3, <1>4

\* The increment that reaches the limit makes the lock due.
LEMMA CountLock ==
  ASSUME LockInv, NEW r \in Request, CountFailure(r)
  PROVE  LimitLocks' /\ LockIsTemporary'
<1> DEFINE v == job[r].user
<1>0. v \in User /\ users[v].failedLoginAttempts \in Nat
  BY DEF LockInv, TypeOK, Job, UserRow
<1>1. /\ users'[v].failedLoginAttempts = users[v].failedLoginAttempts + 1
      /\ \A u \in User \ {v} : users'[u] = users[u]
      /\ \A u \in User : /\ users'[u].isLocked = users[u].isLocked
                         /\ users'[u].lockedUntil = users[u].lockedUntil
      /\ now' = now
  BY <1>0 DEF CountFailure, LockInv, TypeOK, UserRow
<1>2. /\ local'[r].seen = users[v].failedLoginAttempts + 1
      /\ local'[r].limit = local[r].limit
      /\ pc'[r] = "recordFailure" /\ pc[r] = "count" /\ job' = job
      /\ \A q \in Request \ {r} : local'[q] = local[q]
  BY DEF CountFailure, Step, LockInv, TypeOK, Local
<1>3. PICK c \in SettingsSpace : local[r].limit = c.loginFailureLimit
  BY <1>2 DEF LockInv, CopiedFromSettings, Failing
<1>4. LimitLocks'
  <2> SUFFICES ASSUME NEW u \in User,
                      \A d \in SettingsSpace :
                        users'[u].failedLoginAttempts >= d.loginFailureLimit
               PROVE  users'[u].isLocked \/ \E q \in Request : LockDue(q, u)'
    BY DEF LimitLocks
  <2>1. CASE u = v
    <3>1. users'[v].failedLoginAttempts >= c.loginFailureLimit
      BY <2>1
    <3>2. local'[r].seen >= local'[r].limit
      BY <1>1, <1>2, <1>3, <3>1
    <3> QED
      BY <1>2, <2>1, <3>2 DEF LockDue, LimitReached
  <2>2. CASE u # v
    <3>1. \A q \in Request : LockDue(q, u) => LockDue(q, u)'
      <4> SUFFICES ASSUME NEW q \in Request, LockDue(q, u) PROVE LockDue(q, u)'
        OBVIOUS
      <4>1. q # r
        BY <1>2 DEF LockDue
      <4>2. pc'[q] = pc[q] /\ local'[q] = local[q]
        BY <1>2, <4>1 DEF CountFailure, Step, LockInv, TypeOK
      <4> QED
        BY <1>2, <4>2 DEF LockDue, LimitReached
    <3> QED
      BY <1>1, <2>2, <3>1 DEF LockInv, LimitLocks
  <2> QED
    BY <2>1, <2>2
<1>5. LockIsTemporary'
  BY <1>1 DEF LockInv, LockIsTemporary
<1> QED
  BY <1>4, <1>5

\* The lock that is due is set, with an end.
LEMMA SetLock ==
  ASSUME LockInv, NEW r \in Request, LockAccount(r)
  PROVE  LimitLocks' /\ LockIsTemporary'
<1> DEFINE v == job[r].user
<1>0. v \in User
  BY DEF LockInv, TypeOK, Job
<1>1. /\ users'[v].isLocked = TRUE
      /\ users'[v].lockedUntil = now + local[r].lock
      /\ \A u \in User \ {v} : users'[u] = users[u]
      /\ now' = now /\ now \in Nat
  BY <1>0 DEF LockAccount, LockInv, TypeOK, UserRow
<1>2. PICK c \in SettingsSpace : local[r].lock = c.accountLockMinutes
  BY DEF LockInv, CopiedFromSettings, Failing, LockAccount, Step
<1>3. c.accountLockMinutes \in Nat \ {0}
  BY AuthAssumption DEF Settings
<1>4. LimitLocks'
  <2> SUFFICES ASSUME NEW u \in User, u # v,
                      \A d \in SettingsSpace :
                        users[u].failedLoginAttempts >= d.loginFailureLimit,
                      ~users[u].isLocked
               PROVE  \E q \in Request : LockDue(q, u)'
    BY <1>1 DEF LimitLocks
  <2>1. PICK q \in Request : LockDue(q, u)
    BY DEF LockInv, LimitLocks
  <2>2. q # r
    BY <2>1 DEF LockDue
  <2>3. pc'[q] = pc[q] /\ job' = job /\ local' = local
    BY <2>2 DEF LockAccount, Step, LockInv, TypeOK
  <2> QED
    BY <2>1, <2>3 DEF LockDue, LimitReached
<1>5. LockIsTemporary'
  BY <1>1, <1>2, <1>3 DEF LockInv, LockIsTemporary
<1> QED
  BY <1>4, <1>5

\* Every step of a login keeps the lockout.
LEMMA LoginLock ==
  ASSUME LockInv, NEW r \in Request, LoginStep(r) PROVE LockInv'
<1> USE DEF db, history
<1>0. TypeOK /\ CopiedFromSettings /\ TypeOK'
  BY LoginTypeOK DEF LockInv
<1>a. now' = now /\ now' \in Nat /\ now' >= now
  <2>1. now' = now
    BY DEF LoginStep, IsAccountLocked, Unlock, FailureSettings, CountFailure,
       RecordFailure, LockAccount, SuccessSettings, DuplicateCheck, ResetFailures,
       RecordSuccess, ListSessions, ClearSessions, CreateSession
  <2> QED
    BY <1>0, <2>1 DEF TypeOK
<1>b. job[r].user \in User
  BY <1>0 DEF TypeOK, Job
<1>c. ASSUME NEW from, NEW to, Step(r, from, to), UNCHANGED <<users, job>>,
             from \notin {"recordFailure", "lock", "aborted"}, to \notin Failing,
             \A q \in Request \ {r} : local'[q] = local[q]
      PROVE  LockInv'
  <2>1. CopiedFromSettings'
    BY <1>0, <1>c, CopiedKept
  <2>2. \A q \in Request, u \in User : LockDue(q, u) => LockDue(q, u)'
    BY <1>0, <1>c, DueKept
  <2> QED
    BY <1>0, <1>a, <1>c, <2>1, <2>2, LockFrame DEF LockInv
<1>1. CASE IsAccountLocked(r)
  <2> DEFINE to == IF ~users[job[r].user].isLocked THEN "compare"
                   ELSE IF LockPassed(job[r].user) THEN "unlock" ELSE "refused"
  <2>1. Step(r, "lockCheck", to) /\ to \notin Failing
        /\ UNCHANGED <<users, job, local>>
    BY <1>1 DEF IsAccountLocked, Failing
  <2> HIDE DEF to
  <2> QED
    BY <1>c, <2>1
<1>2. CASE Unlock(r)
  <2>1. Step(r, "unlock", "compare") /\ UNCHANGED <<job, local>>
    BY <1>2 DEF Unlock
  <2>2. CopiedFromSettings'
    BY <1>0, <2>1, CopiedKept DEF Failing
  <2>3. \A q \in Request, u \in User : LockDue(q, u) => LockDue(q, u)'
    BY <1>0, <2>1, DueKept
  <2> QED
    BY <1>0, <1>a, <1>b, <1>2, <2>2, <2>3, ResetFrame DEF LockInv, Unlock
<1>3. CASE FailureSettings(r)
  <2>1. /\ Step(r, "compare", "count") /\ UNCHANGED <<users, job>>
        /\ \A q \in Request \ {r} : local'[q] = local[q]
        /\ local'[r].limit = settings.loginFailureLimit
        /\ local'[r].lock = settings.accountLockMinutes
    BY <1>0, <1>3 DEF FailureSettings, TypeOK, Local
  <2>2. CopiedFromSettings'
    <3> SUFFICES ASSUME NEW q \in Request, pc'[q] \in Failing
                 PROVE  \E c \in SettingsSpace :
                          /\ local'[q].limit = c.loginFailureLimit
                          /\ local'[q].lock = c.accountLockMinutes
      BY DEF CopiedFromSettings
    <3>1. CASE q = r
      BY <1>0, <2>1, <3>1 DEF TypeOK
    <3>2. CASE q # r
      BY <1>0, <2>1, <3>2 DEF CopiedFromSettings, Step, TypeOK
    <3> QED
      BY <3>1, <3>2
  <2>3. \A q \in Request, u \in User : LockDue(q, u) => LockDue(q, u)'
    BY <1>0, <2>1, DueKept
  <2> QED
    BY <1>0, <1>a, <2>1, <2>2, <2>3, LockFrame DEF LockInv
<1>4. CASE CountFailure(r)
  <2>1. /\ Step(r, "count", "recordFailure")
        /\ \A q \in Request \ {r} : local'[q] = local[q]
        /\ local'[r].limit = local[r].limit /\ local'[r].lock = local[r].lock
    BY <1>0, <1>4 DEF CountFailure, TypeOK, Local
  <2>2. CopiedFromSettings'
    BY <1>0, <2>1, CopiedKept DEF Failing
  <2> QED
    BY <1>0, <1>4, <2>2, CountLock DEF LockInv
<1>5. CASE RecordFailure(r)
  <2> DEFINE to == IF LimitReached(r) THEN "lock" ELSE "refused"
  <2>1. Step(r, "recordFailure", to) /\ UNCHANGED <<users, job, local>>
    BY <1>5 DEF RecordFailure
  <2>2. CopiedFromSettings'
    BY <1>0, <2>1, CopiedKept DEF Failing
  <2>3. \A q \in Request, u \in User : LockDue(q, u) => LockDue(q, u)'
    BY <1>0, <2>1 DEF LockDue, LimitReached, Step, TypeOK
  <2> QED
    BY <1>0, <1>a, <2>1, <2>2, <2>3, LockFrame DEF LockInv
<1>6. CASE LockAccount(r)
  <2>1. Step(r, "lock", "refused") /\ UNCHANGED <<job, local>>
    BY <1>6 DEF LockAccount
  <2>2. CopiedFromSettings'
    BY <1>0, <2>1, CopiedKept DEF Failing
  <2> QED
    BY <1>0, <1>6, <2>2, SetLock DEF LockInv
<1>7. CASE SuccessSettings(r)
  <2> DEFINE to == IF settings.preventDuplicateLogin /\ ~job[r].force
                   THEN "duplicateCheck" ELSE "reset"
  <2>1. Step(r, "compare", to) /\ to \notin Failing /\ UNCHANGED <<users, job>>
        /\ \A q \in Request \ {r} : local'[q] = local[q]
    BY <1>0, <1>7 DEF SuccessSettings, Failing, TypeOK
  <2> HIDE DEF to
  <2> QED
    BY <1>c, <2>1
<1>8. CASE DuplicateCheck(r)
  <2> DEFINE to == IF \E s \in SessionsOf(job[r].user) : ~Expired(s)
                   THEN "refused" ELSE "reset"
  <2>1. Step(r, "duplicateCheck", to) /\ to \notin Failing /\ UNCHANGED <<users, job, local>>
    BY <1>8 DEF DuplicateCheck, Failing
  <2> HIDE DEF to
  <2> QED
    BY <1>c, <2>1
<1>9. CASE ResetFailures(r)
  <2>1. Step(r, "reset", "recordSuccess") /\ UNCHANGED <<job, local>>
    BY <1>9 DEF ResetFailures
  <2>2. CopiedFromSettings'
    BY <1>0, <2>1, CopiedKept DEF Failing
  <2>3. \A q \in Request, u \in User : LockDue(q, u) => LockDue(q, u)'
    BY <1>0, <2>1, DueKept
  <2> QED
    BY <1>0, <1>a, <1>b, <1>9, <2>2, <2>3, ResetFrame DEF LockInv, ResetFailures
<1>10. CASE RecordSuccess(r)
  BY <1>c, <1>10 DEF RecordSuccess, Failing
<1>11. CASE ListSessions(r)
  BY <1>0, <1>c, <1>11 DEF ListSessions, Failing, TypeOK
<1>12. CASE ClearSessions(r)
  BY <1>c, <1>12 DEF ClearSessions, Failing
<1>13. CASE CreateSession(r)
  BY <1>c, <1>13 DEF CreateSession, Failing
<1> QED
  BY <1>1, <1>2, <1>3, <1>4, <1>5, <1>6, <1>7, <1>8, <1>9, <1>10, <1>11, <1>12, <1>13
  DEF LoginStep

\* So does every other step.
LEMMA OtherLock ==
  ASSUME LockInv, [Next]_vars PROVE LockInv' \/ \E r \in Request : LoginStep(r)
<1> USE DEF db, history
<1>0. TypeOK /\ CopiedFromSettings
  BY DEF LockInv
<1> SUFFICES ASSUME TypeOK', ~\E r \in Request : LoginStep(r)
             PROVE  LockInv'
  BY <1>0, OtherTypeOK
<1>c. ASSUME NEW r \in Request, NEW from, NEW to, Step(r, from, to),
             UNCHANGED <<now, users, local>>,
             \A q \in Request \ {r} : job'[q] = job[q],
             from \notin {"recordFailure", "lock", "aborted"}, to \notin Failing
      PROVE  LockInv'
  <2>1. CopiedFromSettings'
    BY <1>0, <1>c, CopiedKept
  <2>2. \A q \in Request, u \in User : LockDue(q, u) => LockDue(q, u)'
    BY <1>0, <1>c, DueKept
  <2>3. now' \in Nat /\ now' >= now
    BY <1>0, <1>c DEF TypeOK
  <2> QED
    BY <1>c, <2>1, <2>2, <2>3, LockFrame DEF LockInv
<1>1. ASSUME NEW r \in Request, NEW u \in User, NEW force \in BOOLEAN, NEW good \in BOOLEAN,
             LoginLookup(r, u, force, good)
      PROVE  LockInv'
  BY <1>0, <1>1, <1>c DEF LoginLookup, Failing, TypeOK
<1>2. ASSUME NEW r \in Request, NEW k \in Kinds, NEW t \in Request, TokenArrives(r, k, t)
      PROVE  LockInv'
  BY <1>0, <1>2, <1>c DEF TokenArrives, FirstStep, Failing, TypeOK
<1>3. ASSUME NEW r \in Request, TokenStep(r)
      PROVE  LockInv'
  BY <1>0, <1>3, <1>c DEF TokenStep, Logout, ValidateSettings, FindSession, TouchSession, Failing
<1>d. ASSUME users' = users, job' = job, local' = local, now' >= now,
             \A q \in Request : pc'[q] = pc[q] \/ pc'[q] = "aborted"
      PROVE  LockInv'
  <2>1. CopiedFromSettings'
    BY <1>0, <1>d DEF CopiedFromSettings, Failing
  <2>2. \A q \in Request, u \in User : LockDue(q, u) => LockDue(q, u)'
    BY <1>d DEF LockDue, LimitReached
  <2>3. now' \in Nat
    BY DEF TypeOK
  <2> QED
    BY <1>d, <2>1, <2>2, <2>3, LockFrame DEF LockInv
<1>e. now \in Nat /\ now >= now
  BY <1>0 DEF TypeOK
<1>4. ASSUME NEW s \in Request, Subscribe(s) \/ Unsubscribe(s)
      PROVE  LockInv'
  BY <1>4, <1>d, <1>e DEF Subscribe, Unsubscribe
<1>5. ASSUME NEW r \in Request, Abort(r)
      PROVE  LockInv'
  BY <1>0, <1>5, <1>d, <1>e DEF Abort, TypeOK
<1>6. CASE CleanupExpiredSessions
  BY <1>6, <1>d, <1>e DEF CleanupExpiredSessions
<1>7. CASE UpdateSettings
  BY <1>7, <1>d, <1>e DEF UpdateSettings
<1>8. ASSUME NEW v \in User, ToggleActive(v)
      PROVE  LockInv'
  <2>1. /\ \A u \in User : /\ users'[u].isLocked = users[u].isLocked
                           /\ users'[u].lockedUntil = users[u].lockedUntil
                           /\ users'[u].failedLoginAttempts = users[u].failedLoginAttempts
        /\ UNCHANGED <<now, pc, job, local>>
    BY <1>0, <1>8 DEF ToggleActive, TypeOK, UserRow
  <2>2. CopiedFromSettings'
    BY <1>0, <2>1 DEF CopiedFromSettings
  <2>3. LimitLocks'
    BY <2>1 DEF LockInv, LimitLocks, LockDue, LimitReached
  <2>4. LockIsTemporary'
    BY <2>1 DEF LockInv, LockIsTemporary
  <2> QED
    BY <2>2, <2>3, <2>4 DEF LockInv
<1>9. CASE Restart
  BY <1>0, <1>9, <1>d, <1>e DEF Restart, TypeOK
<1>10. CASE Tick
  BY <1>0, <1>10, <1>d DEF Tick, TypeOK
<1>11. CASE UNCHANGED vars
  BY <1>11, <1>d, <1>e DEF vars
<1>12. ASSUME NEW u \in User, RemoveUser(u)
      PROVE  LockInv'
  BY <1>0, <1>12, <1>d, <1>e DEF RemoveUser, TypeOK
<1>13. ASSUME NEW r \in Request, UserGone(r)
      PROVE  LockInv'
  BY <1>0, <1>13, <1>d, <1>e DEF UserGone, TypeOK
<1> QED
  BY <1>1, <1>2, <1>3, <1>4, <1>5, <1>6, <1>7, <1>8, <1>9, <1>10, <1>11, <1>12, <1>13 DEF Next

LEMMA InitLock == Init => LockInv
<1> SUFFICES ASSUME Init PROVE LockInv
  OBVIOUS
<1>1. PICK c \in SettingsSpace : c.loginFailureLimit \in 1..5
  BY AuthAssumption DEF Settings
<1>2. LimitLocks
  <2> SUFFICES ASSUME NEW u \in User
               PROVE  ~(users[u].failedLoginAttempts >= c.loginFailureLimit)
    BY DEF LimitLocks
  <2> QED
    BY <1>1 DEF Init
<1>3. LockIsTemporary
  BY DEF Init, LockIsTemporary
<1>4. CopiedFromSettings
  BY DEF Init, CopiedFromSettings, Failing
<1> QED
  BY <1>2, <1>3, <1>4, InitTypeOK DEF LockInv

\* handleFailedLogin and isAccountLocked: an account whose counter has reached
\* every configurable limit is locked or about to be, and every lock has an end.
THEOREM LockoutSafe == Spec => [](LimitLocks /\ LockIsTemporary)
<1>1. LockInv /\ [Next]_vars => LockInv'
  BY LoginLock, OtherLock
<1>2. LockInv => LimitLocks /\ LockIsTemporary
  BY DEF LockInv
<1> QED
  BY InitLock, <1>1, <1>2, PTL DEF Spec

\* isAccountLocked: a locked account has an end of its lock that is at most the longest
\* configurable lock away, and an account that is not locked has none left over.
THEOREM LocksEnd == Spec => []LockIsTemporary
BY LockoutSafe, PTL

---------------------------------------------------------------------------
(***************************************************************************)
(* The session table. Rows belong to granted logins, which stay granted;   *)
(* what a forced login lists before it deletes are granted sessions of its *)
(* own user, so that after the deletion none of them has a row.            *)
(***************************************************************************)

SessionInv ==
  /\ TypeOK
  /\ \A s \in userSessions : pc[s.sessionId] = "granted" /\ job[s.sessionId].user = s.userId
  /\ \A r \in Request : cleared[r] \subseteq Granted
  /\ ClearedStayCleared
  /\ notified \subseteq Granted \ Ids(userSessions)
  /\ \A r \in Request : pc[r] = "clear" =>
       \A q \in local[r].existing : pc[q] = "granted" /\ job[q].user = job[r].user

\* No step takes a granted request anywhere else or changes what it asked for.
GrantedKept ==
  \A q \in Request : pc[q] = "granted" => pc'[q] = "granted" /\ job'[q] = job[q]

\* The rows after the step are rows before it, perhaps touched.
RowsKept ==
  \A t \in userSessions' : \E s \in userSessions :
    s.sessionId = t.sessionId /\ s.userId = t.userId

\* No handler has listed sessions in this step.
NobodyListed ==
  \A r \in Request : pc'[r] = "clear" =>
    pc[r] = "clear" /\ local'[r].existing = local[r].existing /\ job'[r] = job[r]

\* Nobody was granted a session in this step.
NobodyGranted == \A r \in Request : pc'[r] = "granted" => pc[r] = "granted"

Quiet == GrantedKept /\ RowsKept /\ NobodyListed /\ NobodyGranted
         /\ UNCHANGED <<notified, cleared>>

LEMMA GrantedStays ==
  ASSUME TypeOK, [Next]_vars PROVE GrantedKept
<1> USE DEF TypeOK, Step, GrantedKept, db, history
<1>1. ASSUME NEW r \in Request, NEW u \in User, NEW force \in BOOLEAN, NEW good \in BOOLEAN,
             LoginLookup(r, u, force, good)
      PROVE  GrantedKept
  BY <1>1 DEF LoginLookup
<1>2. ASSUME NEW r \in Request, NEW k \in Kinds, NEW t \in Request, TokenArrives(r, k, t)
      PROVE  GrantedKept
  BY <1>2 DEF TokenArrives
<1>3. ASSUME NEW r \in Request, LoginStep(r)
      PROVE  GrantedKept
  BY <1>3 DEF LoginStep, IsAccountLocked, Unlock, FailureSettings, CountFailure,
     RecordFailure, LockAccount, SuccessSettings, DuplicateCheck, ResetFailures,
     RecordSuccess, ListSessions, ClearSessions, CreateSession
<1>4. ASSUME NEW r \in Request, TokenStep(r)
      PROVE  GrantedKept
  BY <1>4 DEF TokenStep, Logout, ValidateSettings, FindSession, TouchSession
<1>5. ASSUME NEW r \in Request, Abort(r) \/ UserGone(r)
      PROVE  GrantedKept
  BY <1>5 DEF Abort, UserGone, InFlight, LoginSteps, TokenSteps
<1>6. CASE Restart
  BY <1>6 DEF Restart, InFlight, LoginSteps, TokenSteps
<1>7. ASSUME UNCHANGED <<pc, job>>
      PROVE  GrantedKept
  BY <1>7
<1> QED
  BY <1>1, <1>2, <1>3, <1>4, <1>5, <1>6, <1>7
  DEF Next, Subscribe, Unsubscribe, CleanupExpiredSessions, UpdateSettings, ToggleActive,
      RemoveUser, Tick, vars

\* Every step is quiet, or is one of the three steps of manageUserSession.
LEMMA QuietSteps ==
  ASSUME TypeOK, [Next]_vars
  PROVE  Quiet \/ \E r \in Request : ListSessions(r) \/ ClearSessions(r) \/ CreateSession(r)
<1> USE DEF TypeOK, Step, db, history
<1>0. GrantedKept
  BY GrantedStays
<1>r. userSessions' \subseteq userSessions => RowsKept
  BY DEF RowsKept
<1>1. ASSUME NEW r \in Request, NEW u \in User, NEW force \in BOOLEAN, NEW good \in BOOLEAN,
             LoginLookup(r, u, force, good)
      PROVE  Quiet
  BY <1>0, <1>r, <1>1 DEF LoginLookup, Quiet, NobodyListed, NobodyGranted
<1>2. ASSUME NEW r \in Request, NEW k \in Kinds, NEW t \in Request, TokenArrives(r, k, t)
      PROVE  Quiet
  BY <1>0, <1>r, <1>2 DEF TokenArrives, FirstStep, Quiet, NobodyListed, NobodyGranted
<1>3. ASSUME NEW r \in Request, LoginStep(r),
             ~(ListSessions(r) \/ ClearSessions(r) \/ CreateSession(r))
      PROVE  Quiet
  <2>1. userSessions' = userSessions /\ UNCHANGED <<notified, cleared>>
    BY <1>3 DEF LoginStep, IsAccountLocked, Unlock, FailureSettings, CountFailure,
       RecordFailure, LockAccount, SuccessSettings, DuplicateCheck, ResetFailures,
       RecordSuccess
  <2>2. NobodyListed /\ NobodyGranted
    BY <1>3 DEF LoginStep, IsAccountLocked, Unlock, FailureSettings, CountFailure,
       RecordFailure, LockAccount, SuccessSettings, DuplicateCheck, ResetFailures,
       RecordSuccess, NobodyListed, NobodyGranted
  <2> QED
    BY <1>0, <1>r, <2>1, <2>2 DEF Quiet
<1>4. ASSUME NEW r \in Request, TokenStep(r)
      PROVE  Quiet
  <2>1. UNCHANGED <<notified, cleared>> /\ NobodyListed /\ NobodyGranted
    BY <1>4 DEF TokenStep, Logout, ValidateSettings, FindSession, TouchSession,
       NobodyListed, NobodyGranted
  <2>2. RowsKept
    <3>1. CASE TouchSession(r)
      <4>1. userSessions' = (userSessions \ Touched(r)) \cup
                              {[s EXCEPT !.lastActivity = now] : s \in Touched(r)}
        BY <3>1 DEF TouchSession
      <4> SUFFICES ASSUME NEW t \in userSessions'
                   PROVE  \E s \in userSessions :
                            s.sessionId = t.sessionId /\ s.userId = t.userId
        BY DEF RowsKept
      <4>2. CASE t \in userSessions
        BY <4>2
      <4>3. CASE t \notin userSessions
        <5>1. PICK s \in Touched(r) : t = [s EXCEPT !.lastActivity = now]
          BY ONLY <4>1, <4>3, t \in userSessions'
        <5>2. s \in userSessions /\ s \in UserSession
          BY <5>1 DEF Touched
        <5>3. t.sessionId = s.sessionId /\ t.userId = s.userId
          BY ONLY <5>1, <5>2 DEF UserSession
        <5> QED
          BY <5>2, <5>3
      <4> QED
        BY <4>2, <4>3
    <3> QED
      BY <1>4, <1>r, <3>1 DEF TokenStep, Logout, ValidateSettings, FindSession
  <2> QED
    BY <1>0, <2>1, <2>2 DEF Quiet
<1>5. ASSUME UNCHANGED <<userSessions, job, local, notified, cleared>>,
             \A q \in Request : pc'[q] = pc[q] \/ pc'[q] = "aborted"
      PROVE  Quiet
  BY <1>0, <1>r, <1>5 DEF Quiet, NobodyListed, NobodyGranted
<1>6. ASSUME NEW r \in Request, Abort(r) \/ UserGone(r)
      PROVE  Quiet
  BY <1>5, <1>6 DEF Abort, UserGone
<1>7. CASE Restart
  BY <1>5, <1>7 DEF Restart
<1>8. CASE CleanupExpiredSessions
  BY <1>0, <1>r, <1>8 DEF CleanupExpiredSessions, Quiet, NobodyListed, NobodyGranted
<1>9. ASSUME NEW u \in User, RemoveUser(u)
      PROVE  Quiet
  BY <1>0, <1>r, <1>9 DEF RemoveUser, Quiet, NobodyListed, NobodyGranted
<1> QED
  BY <1>1, <1>2, <1>3, <1>4, <1>5, <1>6, <1>7, <1>8, <1>9
  DEF Next, Subscribe, Unsubscribe, UpdateSettings, ToggleActive, Tick, vars

\* What a quiet step does to the registry: it can only close sessions.
LEMMA QuietIds ==
  ASSUME TypeOK, Quiet
  PROVE  /\ Ids(userSessions)' \subseteq Ids(userSessions)
         /\ Granted' = Granted
<1>1. Ids(userSessions)' \subseteq Ids(userSessions)
  BY DEF Quiet, RowsKept, Ids
<1>2. Granted' = Granted
  BY DEF Quiet, GrantedKept, NobodyGranted, Granted
<1> QED
  BY <1>1, <1>2

LEMMA QuietSession ==
  ASSUME SessionInv, Quiet, TypeOK' PROVE SessionInv'
<1>0. TypeOK
  BY DEF SessionInv
<1>1. \A t \in userSessions' : pc'[t.sessionId] = "granted" /\ job'[t.sessionId].user = t.userId
  <2> SUFFICES ASSUME NEW t \in userSessions'
               PROVE  pc'[t.sessionId] = "granted" /\ job'[t.sessionId].user = t.userId
    OBVIOUS
  <2>1. PICK s \in userSessions : s.sessionId = t.sessionId /\ s.userId = t.userId
    BY DEF Quiet, RowsKept
  <2>2. s.sessionId \in Request
    BY <1>0 DEF TypeOK, UserSession
  <2> QED
    BY <2>1, <2>2 DEF SessionInv, Quiet, GrantedKept
<1>2. Ids(userSessions)' \subseteq Ids(userSessions) /\ Granted' = Granted
  BY <1>0, QuietIds
<1>3. /\ \A r \in Request : cleared'[r] \subseteq Granted'
      /\ ClearedStayCleared'
      /\ notified' \subseteq (Granted \ Ids(userSessions))'
  BY <1>2 DEF SessionInv, Quiet, ClearedStayCleared
<1>4. ASSUME NEW r \in Request, pc'[r] = "clear", NEW q \in local'[r].existing
      PROVE  pc'[q] = "granted" /\ job'[q].user = job'[r].user
  <2>1. pc[r] = "clear" /\ q \in local[r].existing /\ job'[r] = job[r]
    BY <1>4 DEF Quiet, NobodyListed
  <2>2. q \in Request
    BY <1>0, <2>1 DEF TypeOK, Local
  <2> QED
    BY <2>1, <2>2 DEF SessionInv, Quiet, GrantedKept
<1> QED
  BY <1>1, <1>3, <1>4 DEF SessionInv

LEMMA ListSession ==
  ASSUME SessionInv, NEW r \in Request, ListSessions(r), TypeOK' PROVE SessionInv'
<1> USE DEF db, history
<1>0. TypeOK
  BY DEF SessionInv
<1>1. /\ \A q \in Request : pc'[q] = "granted" <=> pc[q] = "granted"
      /\ \A q \in Request \ {r} : pc'[q] = pc[q] /\ local'[q] = local[q]
      /\ local'[r].existing = Ids(SessionsOf(job[r].user))
      /\ UNCHANGED <<job, userSessions, notified, cleared>>
  BY <1>0 DEF ListSessions, Step, TypeOK, Local
<1>2. Granted' = Granted
  BY <1>1 DEF Granted
<1>3. ASSUME NEW p \in Request, pc'[p] = "clear", NEW q \in local'[p].existing
      PROVE  pc'[q] = "granted" /\ job'[q].user = job'[p].user
  <2>1. CASE p = r
    <3>1. PICK s \in userSessions : s.sessionId = q /\ s.userId = job[r].user
      BY <1>1, <1>3, <2>1 DEF Ids, SessionsOf
    <3>2. q \in Request
      BY <1>0, <3>1 DEF TypeOK, UserSession
    <3> QED
      BY <1>1, <2>1, <3>1, <3>2 DEF SessionInv
  <2>2. CASE p # r
    <3>1. q \in Request
      BY <1>0, <1>1, <1>3, <2>2 DEF TypeOK, Local
    <3> QED
      BY <1>1, <1>3, <2>2, <3>1 DEF SessionInv
  <2> QED
    BY <2>1, <2>2
<1>4. \A s \in userSessions' : pc'[s.sessionId] = "granted" /\ job'[s.sessionId].user = s.userId
  BY <1>0, <1>1 DEF SessionInv, TypeOK, UserSession
<1>5. /\ \A q \in Request : cleared'[q] \subseteq Granted'
      /\ ClearedStayCleared'
      /\ notified' \subseteq (Granted \ Ids(userSessions))'
  BY <1>1, <1>2 DEF SessionInv, ClearedStayCleared, Ids
<1> QED
  BY <1>3, <1>4, <1>5 DEF SessionInv

\* After a login has cleared the table no granted session of its user has a row.
LEMMA ClearGone ==
  ASSUME SessionInv, NEW r \in Request, ClearSessions(r),
         NEW q \in Request, pc[q] = "granted", job[q].user = job[r].user
  PROVE  q \notin Ids(userSessions)'
<1> SUFFICES ASSUME NEW s \in userSessions', s.sessionId = q PROVE FALSE
  BY DEF Ids
<1>1. s \in userSessions /\ s.userId # job[r].user
  BY DEF ClearSessions, SessionsOf
<1> QED
  BY <1>1 DEF SessionInv

LEMMA ClearSession ==
  ASSUME SessionInv, NEW r \in Request, ClearSessions(r), TypeOK' PROVE SessionInv'
<1> USE DEF db, history
<1>0. TypeOK
  BY DEF SessionInv
<1>1. /\ \A q \in Request : pc'[q] = "granted" <=> pc[q] = "granted"
      /\ \A q \in Request : pc'[q] = "clear" => pc[q] = "clear"
      /\ userSessions' \subseteq userSessions
      /\ UNCHANGED <<job, local>>
  BY <1>0 DEF ClearSessions, Step, TypeOK
<1>2. Granted' = Granted /\ Ids(userSessions)' \subseteq Ids(userSessions)
  BY <1>1 DEF Granted, Ids
<1>3. pc[r] = "clear"
  BY DEF ClearSessions, Step
<1>4. \A q \in Request : cleared'[q] \subseteq Granted' /\ cleared'[q] \cap Ids(userSessions)' = {}
  <2> SUFFICES ASSUME NEW q \in Request, NEW p \in cleared'[q]
               PROVE  p \in Granted /\ p \notin Ids(userSessions)'
    BY <1>2
  <2>1. CASE q = r
    <3>1. p \in Granted /\ job[p].user = job[r].user
      BY <1>0, <2>1 DEF ClearSessions, TypeOK
    <3> QED
      BY <3>1, ClearGone DEF Granted
  <2>2. CASE q # r
    <3>1. p \in cleared[q]
      BY <1>0, <2>2 DEF ClearSessions, TypeOK
    <3> QED
      BY <1>2, <3>1 DEF SessionInv, ClearedStayCleared
  <2> QED
    BY <2>1, <2>2
<1>5. notified' \subseteq (Granted \ Ids(userSessions))'
  <2> SUFFICES ASSUME NEW q \in notified'
               PROVE  q \in Granted /\ q \notin Ids(userSessions)'
    BY <1>2
  <2>1. q \in notified \/ q \in local[r].existing
    BY DEF ClearSessions
  <2>2. CASE q \in notified
    BY <1>2, <2>2 DEF SessionInv
  <2>3. CASE q \in local[r].existing
    <3>1. q \in Request /\ pc[q] = "granted" /\ job[q].user = job[r].user
      BY <1>0, <1>3, <2>3 DEF SessionInv, TypeOK, Local
    <3> QED
      BY <3>1, ClearGone DEF Granted
  <2> QED
    BY <2>1, <2>2, <2>3
<1>6. \A s \in userSessions' : pc'[s.sessionId] = "granted" /\ job'[s.sessionId].user = s.userId
  BY <1>0, <1>1 DEF SessionInv, TypeOK, UserSession
<1>7. ASSUME NEW p \in Request, pc'[p] = "clear", NEW q \in local'[p].existing
      PROVE  pc'[q] = "granted" /\ job'[q].user = job'[p].user
  <2>1. q \in Request
    BY <1>0, <1>1, <1>7 DEF TypeOK, Local
  <2> QED
    BY <1>1, <1>7, <2>1 DEF SessionInv
<1> QED
  BY <1>4, <1>5, <1>6, <1>7 DEF SessionInv, ClearedStayCleared

LEMMA CreateIds ==
  ASSUME TypeOK, NEW r \in Request, CreateSession(r)
  PROVE  /\ Ids(userSessions)' = Ids(userSessions) \cup {r}
         /\ Granted' = Granted \cup {r}
         /\ r \notin Granted
<1>1. Granted' = Granted \cup {r} /\ r \notin Granted
  BY DEF CreateSession, Step, Granted, TypeOK
<1> DEFINE row == [sessionId |-> r, userId |-> job[r].user, lastActivity |-> now]
<1>2. userSessions' = userSessions \cup {row} /\ row.sessionId = r
  BY DEF CreateSession
<1> HIDE DEF row
<1>3. Ids(userSessions)' = Ids(userSessions) \cup {r}
  <2>1. ASSUME NEW q \in Ids(userSessions)' PROVE q \in Ids(userSessions) \cup {r}
    BY <1>2, <2>1 DEF Ids
  <2>2. ASSUME NEW q \in Ids(userSessions) \cup {r} PROVE q \in Ids(userSessions)'
    BY <1>2, <2>2 DEF Ids
  <2> QED
    BY <2>1, <2>2
<1> QED
  BY <1>1, <1>3

LEMMA CreateSessionInv ==
  ASSUME SessionInv, NEW r \in Request, CreateSession(r), TypeOK' PROVE SessionInv'
<1> USE DEF db, history
<1>0. TypeOK
  BY DEF SessionInv
<1>1. /\ \A q \in Request : pc[q] = "granted" => pc'[q] = "granted"
      /\ pc'[r] = "granted" /\ pc[r] = "create"
      /\ \A q \in Request : pc'[q] = "clear" => pc[q] = "clear"
      /\ UNCHANGED <<job, local, notified, cleared>>
  BY <1>0 DEF CreateSession, Step, TypeOK
<1>2. \A s \in userSessions' : pc'[s.sessionId] = "granted" /\ job'[s.sessionId].user = s.userId
  <2>1. ASSUME NEW s \in userSessions
        PROVE  pc'[s.sessionId] = "granted" /\ job'[s.sessionId].user = s.userId
    BY <1>0, <1>1 DEF SessionInv, TypeOK, UserSession
  <2> QED
    BY <1>1, <2>1 DEF CreateSession
<1>3. /\ \A q \in Request : cleared'[q] \subseteq Granted'
      /\ ClearedStayCleared'
      /\ notified' \subseteq (Granted \ Ids(userSessions))'
  BY <1>0, <1>1, CreateIds DEF SessionInv, ClearedStayCleared
<1>4. ASSUME NEW p \in Request, pc'[p] = "clear", NEW q \in local'[p].existing
      PROVE  pc'[q] = "granted" /\ job'[q].user = job'[p].user
  <2>1. q \in Request
    BY <1>0, <1>1, <1>4 DEF TypeOK, Local
  <2> QED
    BY <1>1, <1>4, <2>1 DEF SessionInv
<1> QED
  BY <1>2, <1>3, <1>4 DEF SessionInv

LEMMA NextSession == SessionInv /\ [Next]_vars => SessionInv'
<1> SUFFICES ASSUME SessionInv, [Next]_vars PROVE SessionInv'
  OBVIOUS
<1>1. TypeOK /\ TypeOK'
  BY LoginTypeOK, OtherTypeOK DEF SessionInv
<1> QED
  BY <1>1, QuietSteps, QuietSession, ListSession, ClearSession, CreateSessionInv

LEMMA InitSession == Init => SessionInv
BY InitTypeOK DEF Init, SessionInv, ClearedStayCleared, Ids, Granted

\* manageUserSession: a session that a later login of its user cleared away never
\* has a row again.
THEOREM ClearedForGood == Spec => []ClearedStayCleared
<1>1. SessionInv => ClearedStayCleared
  BY DEF SessionInv
<1> QED
  BY InitSession, NextSession, <1>1, PTL DEF Spec

---------------------------------------------------------------------------
(* The session table implements SessionRegistry. *)

LEMMA InitRegistry == Init => Registry!Init
BY DEF Init, Registry!Init, Ids, Granted

\* A step that only loses rows and tells tabs of sessions that are closed by then.
LEMMA ClosingStep ==
  ASSUME TypeOK, SessionInv, SessionInv',
         Ids(userSessions)' \subseteq Ids(userSessions), Granted' = Granted,
         notified \subseteq notified'
  PROVE  Registry!Next
<1> DEFINE S == Ids(userSessions) \ Ids(userSessions)'
           T == notified'
<1>1. Ids(userSessions) \subseteq Granted
  <2> SUFFICES ASSUME NEW s \in userSessions PROVE s.sessionId \in Granted
    BY DEF Ids
  <2> QED
    BY DEF SessionInv, TypeOK, UserSession, Granted
<1>2. S \in SUBSET Ids(userSessions)
  OBVIOUS
<1>3. T \in SUBSET ((Granted \ Ids(userSessions)) \cup S)
  BY DEF SessionInv
<1>4. Registry!Close(S, T)
  BY <1>1 DEF Registry!Close
<1> QED
  BY <1>2, <1>3, <1>4 DEF Registry!Next

LEMMA NextRegistry ==
  ASSUME SessionInv, SessionInv', [Next]_vars PROVE [Registry!Next]_(Registry!vars)
<1>0. TypeOK
  BY DEF SessionInv
<1>1. CASE Quiet
  BY <1>0, <1>1, QuietIds, ClosingStep DEF Quiet
<1>2. ASSUME NEW r \in Request, ListSessions(r) PROVE Registry!Next
  <2>1. Granted' = Granted
    BY <1>0, <1>2 DEF ListSessions, Step, Granted, TypeOK
  <2>2. userSessions' = userSessions /\ notified' = notified
    BY <1>2 DEF ListSessions, db, history
  <2> QED
    BY <1>0, <2>1, <2>2, ClosingStep DEF Ids
<1>3. ASSUME NEW r \in Request, ClearSessions(r) PROVE Registry!Next
  <2>1. Granted' = Granted
    BY <1>0, <1>3 DEF ClearSessions, Step, Granted, TypeOK
  <2>2. userSessions' \subseteq userSessions /\ notified \subseteq notified'
    BY <1>3 DEF ClearSessions
  <2>3. Ids(userSessions)' \subseteq Ids(userSessions)
    BY <2>2 DEF Ids
  <2> QED
    BY <1>0, <2>1, <2>2, <2>3, ClosingStep
<1>4. ASSUME NEW r \in Request, CreateSession(r) PROVE Registry!Next
  <2>1. /\ Ids(userSessions)' = Ids(userSessions) \cup {r}
        /\ Granted' = Granted \cup {r}
        /\ r \notin Granted
    BY <1>0, <1>4, CreateIds
  <2>2. notified' = notified
    BY <1>4 DEF CreateSession, history
  <2>3. r \notin Ids(userSessions)
    BY <1>0, <2>1 DEF Ids, SessionInv, TypeOK, UserSession, Granted
  <2>4. Registry!Open(r)
    BY <2>1, <2>2, <2>3 DEF Registry!Open
  <2> QED
    BY <2>4 DEF Registry!Next
<1> QED
  BY <1>0, <1>1, <1>2, <1>3, <1>4, QuietSteps

\* Auth implements SessionRegistry: identifiers are used once, closed sessions stay
\* closed and only tabs of closed sessions are told to log out.
THEOREM RegistryImplemented == Spec => ImplementsRegistry
<1>1. Init => Registry!Init
  BY InitRegistry
<1>2. SessionInv /\ SessionInv' /\ [Next]_vars => [Registry!Next]_(Registry!vars)
  BY NextRegistry
<1> QED
  BY <1>1, <1>2, InitSession, NextSession, PTL DEF Spec, ImplementsRegistry, Registry!Spec

---------------------------------------------------------------------------
(* Who may end a session. *)

LEMMA EndsForAReason ==
  ASSUME TypeOK, [Next]_vars, NEW s \in userSessions, s.sessionId \notin Ids(userSessions)'
  PROVE  \/ Expired(s)
         \/ s.userId \in removed' \ removed
         \/ \E r \in Request : /\ job[r].user = s.userId
                              /\ pc[r] \in {"clear", "deleteAll"}
                              /\ pc'[r] # pc[r]
<1> USE DEF db, history
<1>0. /\ pc \in [Request -> {"idle"} \cup InFlight \cup Final]
      /\ userSessions \subseteq UserSession
  BY DEF TypeOK
<1>1. s \notin userSessions'
  BY DEF Ids
<1>2. ASSUME NEW r \in Request, Logout(r) \/ ClearSessions(r)
      PROVE  \E q \in Request : /\ job[q].user = s.userId
                              /\ pc[q] \in {"clear", "deleteAll"}
                              /\ pc'[q] # pc[q]
  BY <1>0, <1>1, <1>2 DEF Logout, ClearSessions, SessionsOf, Step
<1>3. CASE CleanupExpiredSessions
  BY <1>1, <1>3 DEF CleanupExpiredSessions
<1>4. ASSUME NEW r \in Request PROVE ~TouchSession(r)
  <2> SUFFICES ASSUME TouchSession(r) PROVE FALSE
    OBVIOUS
  <2>1. s \in Touched(r)
    BY <1>1 DEF TouchSession
  <2> DEFINE t == [s EXCEPT !.lastActivity = now]
  <2>2. t \in userSessions'
    BY <2>1 DEF TouchSession
  <2>3. t.sessionId = s.sessionId
    BY <1>0 DEF UserSession
  <2> QED
    BY <2>2, <2>3 DEF Ids
<1>5. ASSUME NEW r \in Request PROVE ~CreateSession(r)
  BY <1>1 DEF CreateSession
<1>6. userSessions' # userSessions
  BY <1>1
<1>7. ASSUME NEW r \in Request, LoginStep(r) PROVE ClearSessions(r)
  BY <1>5, <1>6, <1>7 DEF LoginStep, IsAccountLocked, Unlock, FailureSettings, CountFailure,
     RecordFailure, LockAccount, SuccessSettings, DuplicateCheck, ResetFailures,
     RecordSuccess, ListSessions
<1>8. ASSUME NEW r \in Request, TokenStep(r) PROVE Logout(r)
  BY <1>4, <1>6, <1>8 DEF TokenStep, ValidateSettings, FindSession
<1>9. ASSUME NEW u \in User, RemoveUser(u) PROVE s.userId \in removed' \ removed
  BY <1>1, <1>9 DEF RemoveUser, SessionsOf
<1> QED
  BY <1>2, <1>3, <1>6, <1>7, <1>8, <1>9
  DEF Next, LoginLookup, TokenArrives, Subscribe, Unsubscribe, Abort, UserGone, UpdateSettings,
      ToggleActive, Restart, Tick, vars

\* A session row disappears only through a login or a logout of its own user, because
\* it had expired, or with its user's account.
THEOREM SessionsEndForAReason == Spec => SessionEndsForAReason
<1>1. TypeOK /\ [Next]_vars =>
        [\A s \in userSessions :
           s.sessionId \notin Ids(userSessions)' =>
             \/ Expired(s)
             \/ s.userId \in removed' \ removed
             \/ \E r \in Request : /\ job[r].user = s.userId
                                  /\ pc[r] \in {"clear", "deleteAll"}
                                  /\ pc'[r] # pc[r]]_vars
  BY EndsForAReason
<1> QED
  BY <1>1, TypeCorrect, PTL DEF Spec, SessionEndsForAReason

(***************************************************************************)
(*                                  Logs                                   *)
(* A reader that is half way is compared with what it would merge if the     *)
(* rest were read now: reading does not change that, and entries only push   *)
(* rows back.                                                               *)
(***************************************************************************)

(* The inductive invariant *)

\* No two rows of a table are of one moment: the order of the pages is total.
Ordered(S) == \A e, x \in S : e.table = x.table /\ e.at = x.at => e = x
Sound(S) == S \subseteq Rows /\ IsFiniteSet(S) /\ Ordered(S)

EntriesInv == Sound(entries) /\ \A e \in entries : e.at <= clock

\* What a reader would merge if the rest of it were read now.
Sees(r) ==
  IF r.step = "sent" THEN Where(r.filter)
  ELSE IF r.step = "half" THEN r.part \cup AttemptRows(r.filter)
  ELSE r.rows

\* Without a removal in between nothing is read that is not there.
ReadsOnlyRows(a) ==
  /\ Sound(a.part) /\ (\A e \in a.part : e.table = "service") /\ Sound(a.rows)
  /\ a.removals <= removals
  /\ a.removals = removals => Sees(a) \subseteq Where(a.filter)

\* Entries of the first page of a walk that were not seen are behind the pages walked through.
ReachesOn(S) ==
  /\ walk.base \subseteq S
  /\ \A e \in walk.base \ walk.seen : walk.n * walk.limit <= Position(e, S)

Goes == walk.n > 0 /\ walk.removals = removals

Continues(a) ==
  walk.upto < a.n =>
    /\ walk.removals <= a.removals
    /\ Goes /\ a.filter = walk.filter /\ a.limit = walk.limit => ReachesOn(Sees(a))

IsWithin(a) ==
  a.clean /\ removals = 0 /\ a.page > 1 => (a.page - 1) * a.limit < Cardinality(Sees(a))

IsCurrent(a) ==
  /\ a.n = asked => a.filter = applied /\ a.page = page /\ a.limit = limit
  /\ ~overlapped => a.n = asked

AskInv(a) == ReadsOnlyRows(a) /\ Continues(a) /\ IsWithin(a) /\ IsCurrent(a)

WalkInv ==
  /\ walk.removals <= removals
  /\ walk.n > 0 => walk.filter \in Filter
  /\ Goes => ReachesOn(Where(walk.filter)) /\ (walk.n >= walk.pages => walk.base \subseteq walk.seen)

ShownInv ==
  /\ removals = 0 /\ shown.filter \in Filter =>
       shown.total <= Cardinality(Where(shown.filter)) /\ shown.rows \subseteq Where(shown.filter)
  /\ shown.clean /\ removals = 0 /\ shown.rows = {} => shown.total = 0

ScreenInv ==
  /\ ~overlapped /\ asks # {} => isLoading
  /\ ~overlapped /\ ~error /\ asks = {} =>
       shown.filter = applied /\ shown.page = page /\ shown.limit = limit

ExportInv ==
  /\ Sound(export.part) /\ \A e \in export.part : e.table = "service"
  /\ export.step \in {"sent", "half"} => export.filter \in Filter
  /\ export.step \in {"sent", "half"} /\ removals = 0 =>
       export.shown \subseteq Sees(export) /\ Sees(export) \subseteq Where(export.filter)

AsksInv == \A a \in asks : AskInv(a)

LogsInv ==
  LogsOK /\ EntriesInv /\ AsksInv /\ WalkInv /\ ShownInv /\ ScreenInv /\ ExportInv /\ ExportHoldsShown

---------------------------------------------------------------------------
(* Rows and their pages *)

LEMMA SoundSubset ==
  ASSUME NEW S, Sound(S), NEW T \in SUBSET S PROVE Sound(T)
BY FS_Subset DEF Sound, Ordered

\* Rows read of one table with rows of the other.
LEMMA SoundMerge ==
  ASSUME NEW S, Sound(S), \A e \in S : e.table = "service",
         NEW T, Sound(T), \A e \in T : e.table = "attempt"
  PROVE  Sound(S \cup T)
BY FS_Union DEF Sound, Ordered

\* A position is below the number of the rows.
LEMMA PositionBelow ==
  ASSUME NEW S, Sound(S), NEW e
  PROVE  /\ Position(e, S) \in Nat
         /\ e \in S => Position(e, S) < Cardinality(S)
<1> DEFINE B == {x \in S : Before(x, e)}
<1>1. /\ IsFiniteSet(B) /\ Cardinality(B) \in Nat /\ Cardinality(S) \in Nat
      /\ Cardinality(B) <= Cardinality(S) /\ (Cardinality(S) = Cardinality(B) => S = B)
  <2>1. B \in SUBSET S /\ IsFiniteSet(S)
    BY DEF Sound
  <2> QED BY <2>1, FS_Subset, FS_CardinalityType
<1>2. ASSUME e \in S PROVE e \notin B
  <2>1. e.at \in Nat
    BY <1>2 DEF Sound, Rows
  <2> QED BY <2>1 DEF Before
<1> QED
  BY <1>1, <1>2 DEF Position

\* More rows push a row back.
LEMMA PositionGrows ==
  ASSUME NEW S, NEW T, Sound(T), S \subseteq T, NEW e
  PROVE  Position(e, S) <= Position(e, T)
<1>1. IsFiniteSet({x \in T : Before(x, e)})
  BY FS_Subset DEF Sound
<1>2. {x \in S : Before(x, e)} \in SUBSET {x \in T : Before(x, e)}
  OBVIOUS
<1> QED
  BY <1>1, <1>2, FS_Subset DEF Position

\* A row behind the pages before and not on this page is behind this page too.
LEMMA BehindPage ==
  ASSUME NEW S, Sound(S), NEW e \in S, NEW p \in Nat \ {0}, NEW l \in Nat,
         (p - 1) * l <= Position(e, S), e \notin Slice(S, p, l)
  PROVE  p * l <= Position(e, S)
BY PositionBelow DEF Slice

\* The last page ends behind the last row.
LEMMA PagesCover ==
  ASSUME NEW t \in Nat, NEW l \in Nat \ {0}, NEW p \in Nat
  PROVE  /\ totalPages(t, l) \in Nat
         /\ totalPages(t, l) <= p => t <= p * l
         /\ p \in 1..totalPages(t, l) => (p - 1) * l < t
<1> DEFINE d == (t + l - 1) \div l
<1> DEFINE m == (t + l - 1) % l
<1>1. t + l - 1 \in Nat
  OBVIOUS
<1>2. d \in Nat /\ m \in 0..(l - 1) /\ t + l - 1 = l * d + m
  BY <1>1
<1> HIDE DEF d, m
<1>3. ASSUME d <= p PROVE t <= p * l
  <2>1. l * d <= l * p
    BY <1>2, <1>3
  <2>2. t + l - 1 <= l * p + (l - 1)
    BY <1>2, <2>1
  <2> QED BY <2>2
<1>4. ASSUME p \in 1..d PROVE (p - 1) * l < t
  <2>1. l * p <= l * d
    BY <1>2, <1>4
  <2>2. (p - 1) * l = l * p - l
    OBVIOUS
  <2> QED BY <1>2, <2>1, <2>2
<1> QED
  BY <1>2, <1>3, <1>4 DEF totalPages, d

\* The order of the rows is that of their positions, so no two have the same.
LEMMA PositionOrder ==
  ASSUME NEW S, Sound(S), NEW e \in S, NEW x \in S, Before(x, e)
  PROVE  Position(x, S) < Position(e, S)
<1> DEFINE B(y) == {z \in S : Before(z, y)}
<1>1. e \in Rows /\ x \in Rows /\ \A z \in S : z \in Rows
  BY DEF Sound
<1>2. \A z \in S : Before(z, x) => Before(z, e)
  BY <1>1 DEF Before, Rows
<1>3. x \in B(e) /\ x \notin B(x)
  BY <1>1 DEF Before, Rows
<1>4. B(x) \in SUBSET B(e) /\ B(e) \in SUBSET S /\ B(x) # B(e)
  BY <1>2, <1>3
<1> HIDE DEF B
<1>5. IsFiniteSet(B(e)) /\ IsFiniteSet(B(x))
  BY <1>4, FS_Subset DEF Sound
<1>6. Cardinality(B(x)) \in Nat /\ Cardinality(B(e)) \in Nat
  BY <1>5, FS_CardinalityType
<1>7. Cardinality(B(x)) <= Cardinality(B(e)) /\ Cardinality(B(x)) # Cardinality(B(e))
  BY <1>4, <1>5, FS_Subset
<1> QED
  BY <1>6, <1>7 DEF Position, B

LEMMA PositionsDiffer ==
  ASSUME NEW S, Sound(S), NEW e \in S, NEW x \in S, e # x
  PROVE  Position(e, S) # Position(x, S)
<1>1. Before(e, x) \/ Before(x, e)
  BY DEF Sound, Ordered, Before, Rows
<1> QED
  BY <1>1, PositionOrder, PositionBelow

\* Rows at the first k positions are no more than k.
LEMMA FewInFront ==
  ASSUME NEW S, Sound(S), NEW T \in SUBSET S, NEW k \in Nat, \A e \in T : Position(e, S) < k
  PROVE  Cardinality(T) <= k
<1> DEFINE f == [e \in T |-> Position(e, S)]
<1>1. \A e \in T : Position(e, S) \in 0..(k - 1)
  BY PositionBelow
<1>2. \A e, x \in T : Position(e, S) = Position(x, S) => e = x
  BY PositionsDiffer
<1>3. f \in [T -> 0..(k - 1)]
  BY <1>1
<1>4. f \in Injection(T, 0..(k - 1))
  BY <1>2, <1>3 DEF Injection, IsInjective
<1>5. IsFiniteSet(0..(k - 1)) /\ Cardinality(0..(k - 1)) = k
  <2>1. k - 1 \in Int /\ 0 \in Int
    OBVIOUS
  <2>2. IsFiniteSet(0..(k - 1)) /\ Cardinality(0..(k - 1)) = IF 0 > k - 1 THEN 0 ELSE (k - 1) - 0 + 1
    BY <2>1, FS_Interval
  <2> QED BY <2>2
<1> QED
  BY <1>4, <1>5, FS_Injection

\* A nonempty set of numbers has a least.
LEMMA LeastPosition ==
  ASSUME NEW N \in SUBSET Nat, N # {}
  PROVE  \E m \in N : \A x \in N : m <= x
<1> DEFINE R == OpToRel(<, Nat)
<1>1. IsWellFoundedOn(R, Nat)
  BY NatLessThanWellFounded
<1>2. \A x, y \in Nat : <<x, y>> \in R <=> x < y
  BY DEF OpToRel
<1> HIDE DEF R
<1>3. PICK m \in N : \A x \in N : ~(<<x, m>> \in R)
  BY <1>1, WFMin
<1>4. \A x \in N : m <= x
  <2> TAKE x \in N
  <2>1. x \in Nat /\ m \in Nat /\ ~(x < m)
    BY <1>2, <1>3
  <2> QED BY <2>1
<1> QED BY <1>4

\* Every position below the number of the rows is taken, ...
LEMMA PositionsAreTaken ==
  ASSUME NEW S, Sound(S), NEW k \in Nat, k < Cardinality(S)
  PROVE  \E e \in S : Position(e, S) = k
<1> DEFINE T == {e \in S : k <= Position(e, S)}
<1> DEFINE N == {Position(e, S) : e \in T}
<1>0. \A e \in S : Position(e, S) \in Nat
  BY PositionBelow
<1>1. T # {}
  <2> SUFFICES ASSUME T = {} PROVE FALSE
    OBVIOUS
  <2>1. \A e \in S : Position(e, S) < k
    BY <1>0
  <2>2. Cardinality(S) <= k
    BY <2>1, FewInFront
  <2>3. Cardinality(S) \in Nat
    BY FS_CardinalityType DEF Sound
  <2> QED BY <2>2, <2>3
<1>2. N \in SUBSET Nat /\ N # {}
  BY <1>0, <1>1
<1>3. PICK m \in N : \A n \in N : m <= n
  <2> HIDE DEF N
  <2> QED BY <1>2, LeastPosition
<1>4. PICK e \in T : m = Position(e, S)
  OBVIOUS
<1>5. \A x \in T : Position(e, S) <= Position(x, S)
  BY <1>3, <1>4
<1> DEFINE B == {x \in S : Before(x, e)}
<1>6. \A x \in B : Position(x, S) < k
  <2> TAKE x \in B
  <2>1. x \in S /\ Position(x, S) < Position(e, S)
    BY PositionOrder
  <2>2. x \notin T
    BY <2>1, <1>5, <1>0
  <2> QED BY <2>1, <2>2, <1>0
<1>7. Cardinality(B) <= k
  <2>1. B \in SUBSET S
    OBVIOUS
  <2> HIDE DEF B
  <2> QED BY <2>1, <1>6, FewInFront
<1>8. Position(e, S) <= k
  BY <1>7 DEF Position
<1>9. e \in S /\ k <= Position(e, S) /\ Position(e, S) \in Nat
  BY <1>0
<1> QED BY <1>8, <1>9

\* ... so a page that begins before the last row is not empty.
LEMMA PageHasRows ==
  ASSUME NEW S, Sound(S), NEW p \in Nat \ {0}, NEW l \in Nat \ {0}, (p - 1) * l < Cardinality(S)
  PROVE  Slice(S, p, l) # {}
<1>1. (p - 1) * l \in Nat /\ p * l = (p - 1) * l + l
  OBVIOUS
<1>2. PICK e \in S : Position(e, S) = (p - 1) * l
  BY <1>1, PositionsAreTaken
<1>3. e \in Slice(S, p, l)
  BY <1>1, <1>2 DEF Slice
<1> QED BY <1>3

---------------------------------------------------------------------------
(* What the queries find *)

LEMMA WhereIs ==
  ASSUME scenario \in Scenarios, EntriesInv, NEW g
  PROVE  /\ Where(g) \in SUBSET entries /\ Where(g) = ServiceRows(g) \cup AttemptRows(g)
         /\ Sound(Where(g)) /\ Sound(ServiceRows(g)) /\ Sound(AttemptRows(g))
<1>1. scenario.kind \in {"system", "upload", "login"}
  BY LogsAssumption
<1>2. Where(g) \in SUBSET entries
  BY <1>1 DEF Where, SystemWhere, UploadWhere, LoginWhere
<1>3. Where(g) = ServiceRows(g) \cup AttemptRows(g)
  BY <1>2 DEF ServiceRows, AttemptRows, EntriesInv, Sound, Rows
<1>4. ServiceRows(g) \in SUBSET entries /\ AttemptRows(g) \in SUBSET entries
  BY <1>2, <1>3
<1> QED
  BY <1>2, <1>3, <1>4, SoundSubset DEF EntriesInv

\* Where entries are only added, more is found.
LEMMA WhereGrows ==
  ASSUME scenario \in Scenarios, scenario' = scenario, entries \subseteq entries', Sound(entries'), NEW g
  PROVE  /\ Where(g) \subseteq Where(g)' /\ AttemptRows(g) \subseteq AttemptRows(g)'
         /\ AttemptRows(g)' \subseteq Where(g)'
         /\ Sound(Where(g)') /\ Sound(AttemptRows(g)') /\ \A e \in AttemptRows(g)' : e.table = "attempt"
<1>1. scenario.kind \in {"system", "upload", "login"}
  BY LogsAssumption
<1>2. Where(g) \subseteq Where(g)'
  BY <1>1 DEF Where, SystemWhere, UploadWhere, LoginWhere, InDays, OfType
<1>3. Where(g)' \in SUBSET entries'
  BY <1>1 DEF Where, SystemWhere, UploadWhere, LoginWhere
<1>4. AttemptRows(g)' \in SUBSET Where(g)' /\ \A e \in AttemptRows(g)' : e.table = "attempt"
  BY DEF AttemptRows
<1>5. AttemptRows(g) \subseteq AttemptRows(g)'
  BY <1>2 DEF AttemptRows
<1>6. Sound(Where(g)')
  BY <1>3, SoundSubset
<1> QED
  BY <1>2, <1>4, <1>5, <1>6, SoundSubset

---------------------------------------------------------------------------
(* Steps that remove no account *)

\* What a step does to the tables if it removes nothing.
Grows ==
  /\ scenario \in Scenarios /\ scenario' = scenario /\ removals' = removals
  /\ entries \subseteq entries' /\ Sound(entries) /\ Sound(entries')

\* A reader sees no less than before.
LEMMA SeesGrows ==
  ASSUME Grows, NEW a \in PageRequest \cup File, Sound(a.part), \A e \in a.part : e.table = "service",
         a.step \notin {"sent", "half"} => Sound(a.rows)
  PROVE  Sees(a) \subseteq Sees(a)' /\ Sound(Sees(a)')
<1>1. /\ Where(a.filter) \subseteq Where(a.filter)' /\ AttemptRows(a.filter) \subseteq AttemptRows(a.filter)'
      /\ Sound(Where(a.filter)') /\ Sound(AttemptRows(a.filter)')
      /\ \A e \in AttemptRows(a.filter)' : e.table = "attempt"
  BY WhereGrows DEF Grows
<1>2. Sound(a.part \cup AttemptRows(a.filter)')
  BY <1>1, SoundMerge
<1> QED
  BY <1>1, <1>2 DEF Sees

LEMMA ReadsStay ==
  ASSUME Grows, NEW a \in PageRequest, ReadsOnlyRows(a)
  PROVE  Sees(a) \subseteq Sees(a)' /\ Sound(Sees(a)') /\ ReadsOnlyRows(a)'
<1>1. Sees(a) \subseteq Sees(a)' /\ Sound(Sees(a)')
  BY SeesGrows DEF ReadsOnlyRows
<1>2. /\ Where(a.filter) \subseteq Where(a.filter)' /\ AttemptRows(a.filter)' \subseteq Where(a.filter)'
  BY WhereGrows DEF Grows
<1>3. a.removals = removals => Sees(a)' \subseteq Where(a.filter)'
  BY <1>2 DEF ReadsOnlyRows, Sees
<1> QED
  BY <1>1, <1>3 DEF ReadsOnlyRows, Grows

LEMMA WithinStays ==
  ASSUME Grows, NEW a \in PageRequest, ReadsOnlyRows(a), IsWithin(a), removals \in Nat
  PROVE  IsWithin(a)'
<1>1. Sees(a) \in SUBSET Sees(a)' /\ IsFiniteSet(Sees(a)')
  BY ReadsStay DEF Sound
<1>2. IsFiniteSet(Sees(a)) /\ Cardinality(Sees(a)) <= Cardinality(Sees(a)')
  BY <1>1, FS_Subset
<1>3. Cardinality(Sees(a)) \in Nat /\ Cardinality(Sees(a)') \in Nat
  BY <1>1, <1>2, FS_CardinalityType
<1>4. (a.page - 1) * a.limit \in Int
  <2>1. Limit \subseteq Nat
    BY LogsAssumption
  <2>2. a.page \in Nat /\ a.limit \in Nat
    BY <2>1 DEF PageRequest
  <2> QED BY <2>2
<1> QED
  BY <1>2, <1>3, <1>4 DEF IsWithin, Grows

\* What is behind the pages walked through stays behind them.
LEMMA ReachStays ==
  ASSUME NEW S, NEW T, Sound(S), Sound(T), S \subseteq T, ReachesOn(S), walk \in Walk, walk' = walk
  PROVE  ReachesOn(T)'
<1>1. \A e : Position(e, S) <= Position(e, T) /\ Position(e, S) \in Nat /\ Position(e, T) \in Nat
  BY PositionGrows, PositionBelow
<1>2. walk.n * walk.limit \in Nat
  BY DEF Walk
<1>3. \A e \in walk.base \ walk.seen : walk.n * walk.limit <= Position(e, T)
  BY <1>1, <1>2 DEF ReachesOn
<1> QED
  BY <1>3 DEF ReachesOn, Position, Before

LEMMA ContinuesStays ==
  ASSUME Grows, NEW a \in PageRequest, ReadsOnlyRows(a), Continues(a), walk \in Walk, walk' = walk
  PROVE  Continues(a)'
<1>1. Sees(a) \subseteq Sees(a)' /\ Sound(Sees(a)')
  BY ReadsStay
<1>2. Sound(Sees(a))
  BY <1>1, SoundSubset
<1>3. ReachesOn(Sees(a)) => ReachesOn(Sees(a))'
  BY <1>1, <1>2, ReachStays
<1> QED
  BY <1>3 DEF Continues, Goes, Grows

\* The tables grow, the page does nothing.
LEMMA PageGrows ==
  ASSUME LogsInv, Grows, UNCHANGED <<applied, page, limit, list>>
  PROVE  AsksInv' /\ WalkInv' /\ ShownInv' /\ ScreenInv'
<1>0. /\ asks \subseteq PageRequest /\ shown \in Answer /\ walk \in Walk /\ removals \in Nat /\ removals' = removals
      /\ AsksInv /\ WalkInv /\ ShownInv /\ ScreenInv /\ EntriesInv
  BY DEF LogsInv, LogsOK, Grows
<1>1. /\ applied' = applied /\ page' = page /\ limit' = limit
      /\ asks' = asks /\ asked' = asked /\ shown' = shown /\ isLoading' = isLoading /\ error' = error
      /\ overlapped' = overlapped /\ walk' = walk
  BY DEF list
<1>2. AsksInv'
  <2> SUFFICES ASSUME NEW a \in asks PROVE AskInv(a)'
    BY <1>1 DEF AsksInv
  <2>1. a \in PageRequest /\ AskInv(a)
    BY <1>0 DEF AsksInv
  <2>2. ReadsOnlyRows(a)' /\ IsWithin(a)' /\ Continues(a)'
    BY <2>1, <1>0, <1>1, ReadsStay, WithinStays, ContinuesStays DEF AskInv
  <2>3. IsCurrent(a)'
    BY <2>1, <1>1 DEF AskInv, IsCurrent
  <2> QED BY <2>2, <2>3 DEF AskInv
<1>3. \A g : Where(g) \in SUBSET Where(g)' /\ Sound(Where(g)) /\ Sound(Where(g)')
  BY <1>0, WhereGrows, WhereIs DEF Grows
<1>4. WalkInv'
  <2>1. ASSUME Goes' PROVE ReachesOn(Where(walk.filter))' /\ (walk.n >= walk.pages => walk.base \subseteq walk.seen)
    <3>1. Goes
      BY <1>0, <1>1, <2>1 DEF Goes
    <3>2. PICK g : g = walk.filter
      OBVIOUS
    <3>3. ReachesOn(Where(g)) /\ (walk.n >= walk.pages => walk.base \subseteq walk.seen)
      BY <1>0, <3>1, <3>2 DEF WalkInv
    <3>4. ReachesOn(Where(g))'
      BY <1>0, <1>1, <1>3, <3>3, ReachStays
    <3> QED BY <3>2, <3>3, <3>4, <1>1
  <2> QED BY <2>1, <1>0, <1>1 DEF WalkInv
<1>5. ShownInv'
  <2>1. PICK g : g = shown.filter
    OBVIOUS
  <2>2. removals = 0 /\ g \in Filter => shown.total <= Cardinality(Where(g)) /\ shown.rows \subseteq Where(g)
    BY <1>0, <2>1 DEF ShownInv
  <2>3. Cardinality(Where(g)) \in Nat /\ Cardinality(Where(g)') \in Nat /\ Cardinality(Where(g)) <= Cardinality(Where(g)')
    BY <1>3, FS_Subset, FS_CardinalityType DEF Sound
  <2>4. shown.total \in Nat
    BY <1>0 DEF Answer
  <2>5. removals = 0 /\ g \in Filter => shown.total <= Cardinality(Where(g)') /\ shown.rows \subseteq Where(g)'
    BY <2>2, <2>3, <2>4, <1>3
  <2>6. removals = 0 /\ shown.filter \in Filter
          => shown.total <= Cardinality(Where(shown.filter)') /\ shown.rows \subseteq Where(shown.filter)'
    BY <2>1, <2>5, <1>1
  <2> QED BY <2>6, <1>0, <1>1 DEF ShownInv
<1>6. ScreenInv'
  BY <1>0, <1>1 DEF ScreenInv
<1> QED BY <1>2, <1>4, <1>5, <1>6

\* The tables grow, no file is read.
LEMMA FileGrows ==
  ASSUME LogsInv, Grows, export' \in {export, Idle}, exported' = exported
  PROVE  ExportInv' /\ ExportHoldsShown'
<1>0. /\ export \in File /\ removals' = removals /\ ExportInv /\ ExportHoldsShown
  BY DEF LogsInv, LogsOK, Grows
<1>1. ExportHoldsShown'
  <2>1. entries \in SUBSET entries' /\ IsFiniteSet(entries')
    BY DEF Grows, Sound
  <2>2. IsFiniteSet(entries) /\ Cardinality(entries) <= Cardinality(entries')
    BY <2>1, FS_Subset
  <2>3. Cardinality(entries) \in Nat /\ Cardinality(entries') \in Nat
    BY <2>1, <2>2, FS_CardinalityType
  <2> QED BY <1>0, <2>2, <2>3 DEF ExportHoldsShown, FileLimit
<1>2. CASE export' = Idle
  <2>1. Sound({})
    BY FS_EmptySet DEF Sound, Ordered
  <2>2. export'.step = "idle" /\ export'.part = {}
    BY <1>2 DEF Idle
  <2> QED BY <1>1, <2>1, <2>2 DEF ExportInv
<1>3. CASE export' = export
  <2>1. PICK x \in File : x = export
    BY <1>0
  <2>2. Sound(x.part) /\ \A e \in x.part : e.table = "service"
    BY <1>0, <2>1 DEF ExportInv
  <2>3. ASSUME x.step \in {"sent", "half"}, removals = 0
        PROVE  x.shown \subseteq Sees(x)' /\ Sees(x)' \subseteq Where(x.filter)'
    <3>1. x.shown \subseteq Sees(x) /\ Sees(x) \subseteq Where(x.filter)
      BY <1>0, <2>1, <2>3 DEF ExportInv
    <3>2. Sees(x) \subseteq Sees(x)'
      BY <2>2, <2>3, SeesGrows
    <3>3. Where(x.filter) \subseteq Where(x.filter)' /\ AttemptRows(x.filter)' \subseteq Where(x.filter)'
      BY WhereGrows DEF Grows
    <3>4. Sees(x)' \subseteq Where(x.filter)'
      BY <3>1, <3>3, <2>3 DEF Sees
    <3> QED BY <3>1, <3>2, <3>4
  <2>4. export' = x
    BY <1>3, <2>1
  <2>5. export'.step \in {"sent", "half"} /\ removals' = 0
          => export'.shown \subseteq Sees(export)' /\ Sees(export)' \subseteq Where(export.filter)'
    BY <2>3, <2>4, <1>0
  <2> QED BY <1>0, <1>1, <2>1, <2>2, <2>4, <2>5 DEF ExportInv
<1> QED BY <1>2, <1>3

---------------------------------------------------------------------------
(* The rest of the program *)

\* An entry is newer than those of its table.
LEMMA EntryGrows ==
  ASSUME LogsInv, NEW x \in Rows, \A e \in entries : e.table = x.table => e.at < x.at, clock <= x.at,
         entries' = entries \cup {x}, clock' = x.at, UNCHANGED <<scenario, removals>>
  PROVE  Grows /\ EntriesInv' /\ clock' \in Nat
<1>0. /\ scenario \in Scenarios /\ Sound(entries) /\ clock \in Nat /\ \A e \in entries : e.at <= clock
      /\ x.at \in Nat /\ \A e \in entries : e \in Rows /\ e.at \in Nat
  BY DEF LogsInv, LogsOK, EntriesInv, Sound, Rows
<1>1. IsFiniteSet(entries')
  BY <1>0, FS_AddElement DEF Sound
<1>2. Ordered(entries')
  BY <1>0 DEF Sound, Ordered
<1>3. Sound(entries')
  BY <1>0, <1>1, <1>2 DEF Sound
<1>4. \A e \in entries' : e.at <= clock'
  BY <1>0
<1> QED
  BY <1>0, <1>3, <1>4 DEF Grows, EntriesInv

LEMMA HappensStep ==
  ASSUME LogsInv, NEW h \in Happening, Happens(h)
  PROVE  LogsInv'
<1>1. PICK t \in {clock, clock + 1} :
        /\ \A e \in entries : e.table = h.table => e.at < t
        /\ entries' = entries \cup {[table |-> h.table, action |-> h.action, type |-> h.type,
                                     account |-> h.account, at |-> t]}
        /\ clock' = t
  BY DEF Happens
<1>2. UNCHANGED <<scenario, removals, form, list, file>> /\ clock \in Nat
  BY DEF Happens, LogsInv, LogsOK
<1>3. [table |-> h.table, action |-> h.action, type |-> h.type, account |-> h.account, at |-> t] \in Rows
  <2>1. h.table \in {"service", "attempt"} /\ h.action \in {"login", "upload", "other"}
    BY LogsAssumption
  <2>2. h.type \in LogType /\ h.account \in STRING \cup {none}
    BY LogsAssumption
  <2>3. t \in Nat
    BY <1>2
  <2> QED BY <2>1, <2>2, <2>3 DEF Rows
<1>4. PICK x \in Rows : x = [table |-> h.table, action |-> h.action, type |-> h.type, account |-> h.account, at |-> t]
  BY <1>3
<1>5. Grows /\ EntriesInv' /\ clock' \in Nat
  <2>1. x.table = h.table /\ x.at = t /\ clock <= t
    BY <1>2, <1>4
  <2>2. entries' = entries \cup {x}
    BY <1>1, <1>4
  <2> QED BY <2>1, <2>2, <1>1, <1>2, EntryGrows
<1>6. AsksInv' /\ WalkInv' /\ ShownInv' /\ ScreenInv'
  BY <1>2, <1>5, PageGrows DEF form
<1>7. ExportInv' /\ ExportHoldsShown'
  BY <1>2, <1>5, FileGrows DEF file
<1>8. LogsOK'
  <2>1. LogsOK
    BY DEF LogsInv
  <2>2. entries' \subseteq Rows /\ IsFiniteSet(entries') /\ \A e \in entries' : e.at <= clock'
    BY <1>5 DEF EntriesInv, Sound
  <2> QED BY <2>1, <2>2, <1>2, <1>5 DEF LogsOK, form, list, file
<1> QED BY <1>5, <1>6, <1>7, <1>8 DEF LogsInv

\* Without an account's attempts, and without its name, the order is the same.
LEMMA RemovedStep ==
  ASSUME LogsInv, NEW u, AccountRemoved(u)
  PROVE  LogsInv'
<1> DEFINE O == {x \in entries : ~(x.table = "attempt" /\ x.account = u)}
<1> DEFINE f == [e \in O |-> IF e.account = u THEN [e EXCEPT !.account = none] ELSE e]
<1>0. /\ LogsOK /\ EntriesInv /\ AsksInv /\ WalkInv /\ ShownInv /\ ScreenInv /\ ExportInv
      /\ removals \in Nat /\ removals' = removals + 1 /\ Sound(entries)
  BY DEF LogsInv, LogsOK, AccountRemoved, EntriesInv
<1>1. /\ entries' = {IF e.account = u THEN [e EXCEPT !.account = none] ELSE e : e \in O}
      /\ scenario' = scenario /\ clock' = clock
      /\ applied' = applied /\ page' = page /\ limit' = limit /\ filters' = filters /\ edited' = edited
      /\ asks' = asks /\ asked' = asked /\ shown' = shown /\ isLoading' = isLoading /\ error' = error
      /\ overlapped' = overlapped /\ walk' = walk /\ export' = export /\ exported' = exported
  BY DEF AccountRemoved, form, list, file
<1>2. \A e \in O : f[e] \in Rows /\ f[e].table = e.table /\ f[e].at = e.at
  BY <1>0 DEF Sound, Rows
<1>3. IsFiniteSet(entries')
  <2>1. f \in Surjection(O, entries')
    BY <1>1 DEF Surjection
  <2>2. O \in SUBSET entries /\ IsFiniteSet(entries)
    BY <1>0 DEF Sound
  <2>3. IsFiniteSet(O)
    BY <2>2, FS_Subset
  <2> HIDE DEF f, O
  <2> QED BY <2>1, <2>3, FS_Surjection
<1>4. \A y \in entries' : \E e \in O : y = f[e]
  BY <1>1
<1> HIDE DEF f
<1>5. Ordered(entries')
  <2> SUFFICES ASSUME NEW y \in entries', NEW z \in entries', y.table = z.table, y.at = z.at PROVE y = z
    BY DEF Ordered
  <2>1. PICK e \in O, x \in O : y = f[e] /\ z = f[x]
    BY <1>4
  <2>2. e = x
    BY <2>1, <1>0, <1>2 DEF Sound, Ordered
  <2> QED BY <2>1, <2>2
<1>6. entries' \subseteq Rows /\ \A y \in entries' : y.at <= clock'
  BY <1>0, <1>1, <1>2, <1>4 DEF EntriesInv
<1>7. EntriesInv'
  BY <1>3, <1>5, <1>6 DEF EntriesInv, Sound
<1>8. LogsOK'
  BY <1>0, <1>1, <1>3, <1>6 DEF LogsOK
<1>9. AsksInv'
  <2> SUFFICES ASSUME NEW a \in asks PROVE AskInv(a)'
    BY <1>1 DEF AsksInv
  <2>1. AskInv(a) /\ a.removals \in Nat /\ walk.removals \in Nat /\ walk.removals <= removals
    BY <1>0 DEF AsksInv, LogsOK, PageRequest, Walk, WalkInv
  <2>2. ReadsOnlyRows(a)'
    BY <2>1, <1>0 DEF AskInv, ReadsOnlyRows
  <2>3. Continues(a)'
    BY <2>1, <1>0, <1>1 DEF AskInv, Continues, Goes
  <2>4. IsWithin(a)'
    BY <1>0 DEF IsWithin
  <2>5. IsCurrent(a)'
    BY <2>1, <1>1 DEF AskInv, IsCurrent
  <2> QED BY <2>2, <2>3, <2>4, <2>5 DEF AskInv
<1>10. WalkInv'
  <2>1. walk.removals \in Nat
    BY <1>0 DEF LogsOK, Walk
  <2> QED BY <2>1, <1>0, <1>1 DEF WalkInv, Goes
<1>11. ShownInv' /\ ExportHoldsShown'
  BY <1>0 DEF ShownInv, ExportHoldsShown
<1>12. ScreenInv'
  BY <1>0, <1>1 DEF ScreenInv
<1>13. ExportInv'
  BY <1>0, <1>1 DEF ExportInv
<1> QED BY <1>7, <1>8, <1>9, <1>10, <1>11, <1>12, <1>13 DEF LogsInv

---------------------------------------------------------------------------
(* The page asks *)

\* A step that leaves the tables alone removes nothing.
LEMMA NothingWritten ==
  ASSUME LogsInv, UNCHANGED <<scenario, table>>
  PROVE  /\ Grows /\ EntriesInv' /\ removals' = removals /\ entries' = entries /\ clock' = clock
         /\ \A g : Where(g)' = Where(g) /\ AttemptRows(g)' = AttemptRows(g)
<1>1. /\ LogsOK /\ EntriesInv /\ scenario' = scenario
      /\ removals' = removals /\ entries' = entries /\ clock' = clock
  BY DEF LogsInv, table
<1> QED
  BY <1>1 DEF LogsOK, EntriesInv, Grows, Where, SystemWhere, UploadWhere, LoginWhere, InDays, OfType, AttemptRows

LEMMA FilterStep ==
  ASSUME LogsInv, NEW g \in Filter, FilterChange(g)
  PROVE  LogsInv'
<1>1. /\ UNCHANGED <<scenario, table, applied, page, limit, list, file>> /\ filters' = g /\ edited' = TRUE
      /\ LogsOK
  BY DEF FilterChange, LogsInv
<1>2. Grows /\ EntriesInv' /\ entries' = entries /\ clock' = clock /\ removals' = removals
  BY <1>1, NothingWritten
<1>3. AsksInv' /\ WalkInv' /\ ShownInv' /\ ScreenInv'
  BY <1>1, <1>2, PageGrows
<1>4. ExportInv' /\ ExportHoldsShown'
  BY <1>1, <1>2, FileGrows DEF file
<1>5. LogsOK'
  BY <1>1, <1>2 DEF LogsOK, list, file
<1> QED BY <1>2, <1>3, <1>4, <1>5 DEF LogsInv

\* The effect asks for a page of what the form said or of what is shown.
LEMMA FetchStep ==
  ASSUME LogsInv, NEW g \in Filter, NEW p \in Nat \ {0}, NEW l \in Limit, fetchLogs(g, p, l),
         UNCHANGED <<scenario, table, file>>, filters' \in Filter, edited' \in BOOLEAN,
         p # 1 => g = applied /\ l = limit /\ p \in 1..totalPages(shown.total, shown.limit)
  PROVE  LogsInv'
<1> DEFINE x == Ask(g, p, l, asked + 1)
<1>0. /\ LogsOK /\ EntriesInv /\ AsksInv /\ WalkInv /\ ShownInv /\ ScreenInv /\ ExportInv
      /\ walk \in Walk /\ shown \in Answer /\ asked \in Nat /\ removals \in Nat
      /\ asks \subseteq PageRequest /\ \A a \in asks : a.n <= asked
  BY DEF LogsInv, LogsOK
<1>1. /\ applied' = g /\ page' = p /\ limit' = l /\ asks' = asks \cup {x} /\ asked' = asked + 1
      /\ isLoading' = TRUE /\ overlapped' = (overlapped \/ asks # {})
      /\ shown' = shown /\ error' = error /\ walk' = walk /\ export' = export /\ exported' = exported
  BY DEF fetchLogs, file
<1>2. /\ Grows /\ EntriesInv' /\ removals' = removals /\ entries' = entries /\ clock' = clock
      /\ scenario' = scenario /\ scenario \in Scenarios
      /\ \A h : Where(h)' = Where(h) /\ AttemptRows(h)' = AttemptRows(h) /\ Sound(Where(h))
  BY <1>0, NothingWritten, WhereIs DEF LogsOK
<1>3. x \in PageRequest /\ x.n = asked + 1
  <2>1. (p = 1 \/ (asks = {} /\ ~overlapped /\ ~error)) \in BOOLEAN
    OBVIOUS
  <2> QED BY <2>1, <1>0 DEF Ask, PageRequest
<1>4. /\ x.filter = g /\ x.page = p /\ x.limit = l /\ x.step = "sent" /\ x.part = {} /\ x.rows = {}
      /\ x.removals = removals /\ x.clean = (p = 1 \/ (asks = {} /\ ~overlapped /\ ~error))
  BY DEF Ask
<1>5. PICK y \in PageRequest : y = x
  BY <1>3
<1> HIDE DEF x
<1>6. Sees(y)' = Where(g)
  BY <1>2, <1>4, <1>5 DEF Sees
<1>7. ReadsOnlyRows(y)'
  <2>1. Sound({})
    BY FS_EmptySet DEF Sound, Ordered
  <2>2. y.part = {} /\ y.rows = {} /\ y.removals = removals' /\ y.filter = g
    BY <1>2, <1>4, <1>5
  <2>3. removals' \in Nat
    BY <1>0, <1>2
  <2>4. Sees(y)' \subseteq Where(y.filter)'
    BY <2>2, <1>2, <1>6
  <2> QED BY <2>1, <2>2, <2>3, <2>4 DEF ReadsOnlyRows
<1>8. Continues(y)'
  <2>1. ASSUME Goes, g = walk.filter PROVE ReachesOn(Where(g))'
    <3>1. ReachesOn(Where(g))
      BY <2>1, <1>0 DEF WalkInv
    <3> QED BY <3>1, <1>0, <1>1, <1>2, ReachStays
  <2>2. ASSUME Goes, g = walk.filter PROVE ReachesOn(Sees(y))'
    BY <2>1, <2>2, <1>2, <1>4, <1>5 DEF Sees
  <2>3. walk.removals <= removals
    BY <1>0 DEF WalkInv
  <2> QED BY <2>2, <2>3, <1>1, <1>2, <1>4, <1>5 DEF Continues, Goes
<1>9. IsWithin(y)'
  <2> SUFFICES ASSUME y.clean, removals = 0, p > 1 PROVE (p - 1) * l < Cardinality(Where(g))
    BY <1>2, <1>4, <1>5, <1>6 DEF IsWithin
  <2>1. asks = {} /\ ~overlapped /\ ~error
    <3>1. p # 1
      OBVIOUS
    <3>2. y.clean = (p = 1 \/ (asks = {} /\ ~overlapped /\ ~error))
      BY <1>4, <1>5
    <3> QED BY <3>1, <3>2, Zenon
  <2>2. shown.filter = g /\ shown.limit = l /\ p \in 1..totalPages(shown.total, l)
    BY <2>1, <1>0 DEF ScreenInv
  <2>3. shown.total <= Cardinality(Where(g))
    BY <2>2, <1>0 DEF ShownInv
  <2>4. shown.total \in Nat /\ l \in Nat \ {0}
    BY <1>0, LogsAssumption DEF Answer
  <2>5. (p - 1) * l < shown.total
    BY <2>2, <2>4, PagesCover
  <2>6. Cardinality(Where(g)) \in Nat
    BY <1>2, FS_CardinalityType DEF Sound
  <2>7. (p - 1) * l \in Int
    BY <2>4
  <2> QED BY <2>3, <2>4, <2>5, <2>6, <2>7
<1>10. IsCurrent(y)'
  BY <1>1, <1>3, <1>4, <1>5 DEF IsCurrent
<1>11. ASSUME NEW a \in asks PROVE AskInv(a)'
  <2>1. a \in PageRequest /\ AskInv(a) /\ a.n <= asked /\ a.n \in Nat
    BY <1>0 DEF AsksInv, PageRequest
  <2>2. ReadsOnlyRows(a)' /\ IsWithin(a)' /\ Continues(a)'
    BY <2>1, <1>0, <1>1, <1>2, ReadsStay, WithinStays, ContinuesStays DEF AskInv
  <2>3. overlapped'
    BY <1>1
  <2>4. a.n # asked'
    BY <2>1, <1>0, <1>1
  <2>5. IsCurrent(a)'
    BY <2>3, <2>4 DEF IsCurrent
  <2> QED BY <2>2, <2>5 DEF AskInv
<1>12. \A a \in asks' : AskInv(a)'
  BY <1>1, <1>5, <1>7, <1>8, <1>9, <1>10, <1>11 DEF AskInv
<1>13. LogsOK'
  <2>1. asks' \subseteq PageRequest /\ \A a \in asks' : a.n <= asked'
    <3>1. \A a \in asks : a.n \in Nat
      BY <1>0 DEF PageRequest
    <3> QED BY <1>0, <1>1, <1>3, <3>1
  <2>2. overlapped' \in BOOLEAN /\ asks' # {}
    BY <1>1
  <2> QED BY <2>1, <2>2, <1>0, <1>1, <1>2 DEF LogsOK
<1>14. WalkInv'
  <2>1. ASSUME Goes PROVE ReachesOn(Where(walk.filter))'
    <3>1. PICK h : h = walk.filter
      OBVIOUS
    <3>2. ReachesOn(Where(h))
      BY <2>1, <3>1, <1>0 DEF WalkInv
    <3>3. ReachesOn(Where(h))'
      BY <3>2, <1>0, <1>1, <1>2, ReachStays
    <3> QED BY <3>1, <3>3, <1>1
  <2> QED BY <2>1, <1>0, <1>1, <1>2 DEF WalkInv, Goes
<1>15. ShownInv'
  <2>1. PICK h : h = shown.filter
    OBVIOUS
  <2>2. Where(shown.filter)' = Where(shown.filter)
    BY <2>1, <1>1, <1>2
  <2> QED BY <2>2, <1>0, <1>1, <1>2 DEF ShownInv
<1>16. ScreenInv'
  BY <1>1 DEF ScreenInv
<1>17. ExportInv' /\ ExportHoldsShown'
  BY <1>1, <1>2, FileGrows
<1> QED BY <1>0, <1>2, <1>12, <1>13, <1>14, <1>15, <1>16, <1>17 DEF LogsInv, AsksInv

LEMMA SearchStep ==
  ASSUME LogsInv, Search
  PROVE  LogsInv'
<1>1. PICK g \in Filter, l \in Limit : g = filters /\ l = limit
  BY DEF LogsInv, LogsOK
<1>2. fetchLogs(g, 1, l) /\ UNCHANGED <<scenario, table, file>> /\ filters' = filters /\ edited' = FALSE
  BY <1>1 DEF Search
<1>3. filters' \in Filter
  BY <1>1, <1>2
<1>4. edited' \in BOOLEAN
  BY <1>2
<1>5. 1 \in Nat \ {0}
  OBVIOUS
<1> QED BY <1>2, <1>3, <1>4, <1>5, FetchStep

LEMMA ResetStep ==
  ASSUME LogsInv, Reset
  PROVE  LogsInv'
<1>1. PICK l \in Limit : l = limit
  BY DEF LogsInv, LogsOK
<1>2. PICK g \in Filter : g = EmptyForm
  BY LogsAssumption
<1>3. fetchLogs(g, 1, l) /\ UNCHANGED <<scenario, table, file>> /\ filters' = g /\ edited' = FALSE
  BY <1>1, <1>2 DEF Reset, fetchLogs, Ask
<1>4. filters' \in Filter
  BY <1>3
<1>5. edited' \in BOOLEAN
  BY <1>3
<1>6. 1 \in Nat \ {0}
  OBVIOUS
<1> QED BY <1>3, <1>4, <1>5, <1>6, FetchStep

LEMMA PageChangeStep ==
  ASSUME LogsInv, NEW p, PageChange(p)
  PROVE  LogsInv'
<1>1. PICK g \in Filter, l \in Limit : g = applied /\ l = limit
  BY DEF LogsInv, LogsOK
<1>2. /\ fetchLogs(g, p, l) /\ UNCHANGED <<scenario, table, file>> /\ filters' = filters /\ edited' = edited
      /\ p \in 1..totalPages(shown.total, shown.limit)
  BY <1>1 DEF PageChange
<1>3. p \in Nat \ {0} /\ filters \in Filter /\ edited \in BOOLEAN /\ shown.limit \in Nat \ {0} /\ shown.total \in Nat
  <2>1. filters \in Filter /\ edited \in BOOLEAN /\ shown.limit \in Nat \ {0} /\ shown.total \in Nat
    BY DEF LogsInv, LogsOK, Answer
  <2>2. totalPages(shown.total, shown.limit) \in Nat
    BY <2>1, PagesCover
  <2> QED BY <1>2, <2>1, <2>2
<1> QED BY <1>1, <1>2, <1>3, FetchStep

LEMMA LimitChangeStep ==
  ASSUME LogsInv, NEW l \in Limit, LimitChange(l)
  PROVE  LogsInv'
<1>1. PICK g \in Filter : g = applied
  BY DEF LogsInv, LogsOK
<1>2. /\ fetchLogs(g, 1, l) /\ UNCHANGED <<scenario, table, file>> /\ filters' = filters /\ edited' = edited
      /\ filters \in Filter /\ edited \in BOOLEAN
  BY <1>1 DEF LimitChange, LogsInv, LogsOK
<1> QED BY <1>2, FetchStep

---------------------------------------------------------------------------
(* The service reads *)

\* Reading one table does not change what will be merged.
LEMMA ReadStep ==
  ASSUME LogsInv, NEW a \in asks, NEW b \in PageRequest, asks' = (asks \ {a}) \cup {b},
         UNCHANGED <<scenario, table, form, asked, shown, isLoading, error, overlapped, walk, file>>,
         b.n = a.n, b.filter = a.filter, b.page = a.page, b.limit = a.limit,
         b.removals = a.removals, b.clean = a.clean,
         Sound(b.part), \A e \in b.part : e.table = "service", Sound(b.rows), Sees(b) = Sees(a)
  PROVE  LogsInv'
<1>0. /\ LogsOK /\ AsksInv /\ WalkInv /\ ShownInv /\ ScreenInv
      /\ walk \in Walk /\ removals \in Nat
      /\ asks \subseteq PageRequest /\ \A x \in asks : x.n <= asked
  BY DEF LogsInv, LogsOK
<1>1. /\ applied' = applied /\ page' = page /\ limit' = limit /\ filters' = filters /\ edited' = edited
      /\ asked' = asked /\ shown' = shown /\ isLoading' = isLoading /\ error' = error
      /\ overlapped' = overlapped /\ walk' = walk /\ export' = export /\ exported' = exported
  BY DEF form, file
<1>2. /\ Grows /\ EntriesInv' /\ removals' = removals /\ entries' = entries /\ clock' = clock
      /\ scenario' = scenario
      /\ \A h : Where(h)' = Where(h)
  BY <1>0, NothingWritten
<1>3. ReadsOnlyRows(b) /\ IsWithin(b) /\ Continues(b) /\ IsCurrent(b)
  <2>1. AskInv(a)
    BY <1>0 DEF AsksInv
  <2> QED BY <2>1 DEF AskInv, ReadsOnlyRows, IsWithin, Continues, IsCurrent
<1>4. ASSUME NEW x \in asks' PROVE AskInv(x)'
  <2>1. x \in PageRequest /\ ReadsOnlyRows(x) /\ IsWithin(x) /\ Continues(x) /\ IsCurrent(x)
    BY <1>0, <1>3 DEF AsksInv, AskInv
  <2>2. ReadsOnlyRows(x)' /\ IsWithin(x)' /\ Continues(x)'
    BY <2>1, <1>0, <1>1, <1>2, ReadsStay, WithinStays, ContinuesStays
  <2>3. IsCurrent(x)'
    BY <2>1, <1>1 DEF IsCurrent
  <2> QED BY <2>2, <2>3 DEF AskInv
<1>5. LogsOK'
  <2>1. asks' \subseteq PageRequest /\ asks' # {} /\ \A x \in asks' : x.n <= asked
    BY <1>0
  <2> QED BY <2>1, <1>0, <1>1, <1>2 DEF LogsOK
<1>6. WalkInv'
  <2>1. ASSUME Goes PROVE ReachesOn(Where(walk.filter))'
    <3>1. PICK h : h = walk.filter
      OBVIOUS
    <3>2. ReachesOn(Where(h))
      BY <2>1, <3>1, <1>0 DEF WalkInv
    <3>3. Sound(Where(h)) /\ Where(h)' = Where(h)
      BY <1>2, WhereIs DEF Grows, LogsInv
    <3>4. ReachesOn(Where(h))'
      BY <3>2, <3>3, <1>0, <1>1, ReachStays
    <3> QED BY <3>1, <3>4, <1>1
  <2> QED BY <2>1, <1>0, <1>1, <1>2 DEF WalkInv, Goes
<1>7. ShownInv'
  <2>1. PICK h : h = shown.filter
    OBVIOUS
  <2>2. Where(shown.filter)' = Where(shown.filter)
    BY <2>1, <1>1, <1>2
  <2> QED BY <2>2, <1>0, <1>1, <1>2 DEF ShownInv
<1>8. ScreenInv'
  BY <1>0, <1>1 DEF ScreenInv
<1>9. ExportInv' /\ ExportHoldsShown'
  BY <1>1, <1>2, FileGrows
<1> QED BY <1>2, <1>4, <1>5, <1>6, <1>7, <1>8, <1>9 DEF LogsInv, AsksInv

LEMMA ReadServicesStep ==
  ASSUME LogsInv, NEW a \in asks, ReadServices(a)
  PROVE  LogsInv'
<1> DEFINE x == [a EXCEPT !.step = "half", !.part = ServiceRows(a.filter)]
<1>1. a \in PageRequest /\ AskInv(a) /\ a.step = "sent"
  BY DEF LogsInv, LogsOK, AsksInv, ReadServices
<1>2. /\ Sound(ServiceRows(a.filter)) /\ Where(a.filter) = ServiceRows(a.filter) \cup AttemptRows(a.filter)
      /\ \A e \in ServiceRows(a.filter) : e.table = "service"
  BY WhereIs DEF LogsInv, LogsOK, ServiceRows
<1>3. /\ x \in PageRequest /\ x.n = a.n /\ x.filter = a.filter /\ x.page = a.page /\ x.limit = a.limit
      /\ x.removals = a.removals /\ x.clean = a.clean /\ x.step = "half" /\ x.part = ServiceRows(a.filter)
      /\ x.rows = a.rows
  BY <1>1, <1>2 DEF PageRequest, Sound
<1>4. asks' = (asks \ {a}) \cup {x}
  BY DEF ReadServices
<1> HIDE DEF x
<1>5. PICK b \in PageRequest : b = x
  BY <1>3
<1>6. Sees(b) = Sees(a) /\ Sound(b.rows)
  BY <1>1, <1>2, <1>3, <1>5 DEF Sees, AskInv, ReadsOnlyRows
<1> QED BY <1>2, <1>3, <1>4, <1>5, <1>6, ReadStep DEF ReadServices

LEMMA ReadAttemptsStep ==
  ASSUME LogsInv, NEW a \in asks, ReadAttempts(a)
  PROVE  LogsInv'
<1> DEFINE x == [a EXCEPT !.step = "answered", !.part = {}, !.rows = a.part \cup AttemptRows(a.filter)]
<1>1. a \in PageRequest /\ AskInv(a) /\ a.step = "half"
  BY DEF LogsInv, LogsOK, AsksInv, ReadAttempts
<1>2. Sound(AttemptRows(a.filter)) /\ \A e \in AttemptRows(a.filter) : e.table = "attempt"
  BY WhereIs DEF LogsInv, LogsOK, AttemptRows
<1>3. Sound(a.part \cup AttemptRows(a.filter)) /\ Sound({})
  BY <1>1, <1>2, SoundMerge, FS_EmptySet DEF AskInv, ReadsOnlyRows, Sound, Ordered
<1>4. /\ x \in PageRequest /\ x.n = a.n /\ x.filter = a.filter /\ x.page = a.page /\ x.limit = a.limit
      /\ x.removals = a.removals /\ x.clean = a.clean /\ x.step = "answered" /\ x.part = {}
      /\ x.rows = a.part \cup AttemptRows(a.filter)
  BY <1>1, <1>3 DEF PageRequest, Sound
<1>5. asks' = (asks \ {a}) \cup {x}
  BY DEF ReadAttempts
<1> HIDE DEF x
<1>6. PICK b \in PageRequest : b = x
  BY <1>4
<1>7. Sees(b) = Sees(a)
  BY <1>1, <1>4, <1>6 DEF Sees
<1> QED BY <1>3, <1>4, <1>5, <1>6, <1>7, ReadStep DEF ReadAttempts

---------------------------------------------------------------------------
(* The answer comes *)

\* A page more: what was not seen is behind it too, and behind the last page there is nothing.
LEMMA PageMore ==
  ASSUME NEW S, Sound(S), NEW T, Sound(T), S \subseteq T, NEW base, NEW seen, base \subseteq S,
         NEW n \in Nat, NEW l \in Nat \ {0}, \A e \in base \ seen : n * l <= Position(e, S)
  PROVE  /\ \A e \in base \ (seen \cup Slice(S, n + 1, l)) : (n + 1) * l <= Position(e, T)
         /\ totalPages(Cardinality(S), l) <= n + 1 => base \subseteq seen \cup Slice(S, n + 1, l)
<1>1. ((n + 1) - 1) * l = n * l /\ (n + 1) * l \in Nat /\ n + 1 \in Nat \ {0}
  OBVIOUS
<1>2. \A e \in base \ (seen \cup Slice(S, n + 1, l)) : (n + 1) * l <= Position(e, S)
  BY <1>1, BehindPage
<1>3. \A e : Position(e, S) <= Position(e, T) /\ Position(e, S) \in Nat /\ Position(e, T) \in Nat
  BY PositionGrows, PositionBelow
<1>4. \A e \in base \ (seen \cup Slice(S, n + 1, l)) : (n + 1) * l <= Position(e, T)
  BY <1>1, <1>2, <1>3
<1>5. ASSUME totalPages(Cardinality(S), l) <= n + 1 PROVE base \subseteq seen \cup Slice(S, n + 1, l)
  <2>1. Cardinality(S) \in Nat
    BY FS_CardinalityType DEF Sound
  <2>2. Cardinality(S) <= (n + 1) * l
    BY <2>1, <1>1, <1>5, PagesCover
  <2>3. \A e \in base : Position(e, S) < Cardinality(S)
    BY PositionBelow
  <2>4. ASSUME NEW e \in base \ (seen \cup Slice(S, n + 1, l)) PROVE FALSE
    <3>1. (n + 1) * l <= Position(e, S) /\ Position(e, S) < Cardinality(S) /\ Position(e, S) \in Nat
      BY <1>2, <1>3, <2>3
    <3> QED BY <3>1, <2>1, <2>2, <1>1
  <2> QED BY <2>4
<1> QED BY <1>4, <1>5

\* The other requests, when one is over: the walk goes on from the page seen or not at all.
LEMMA OthersGoOn ==
  ASSUME LogsInv, NEW a \in asks, Over(a), UNCHANGED <<scenario, table, form, asked>>,
         walk' = walk \/ walk'.upto = asked
  PROVE  AsksInv'
<1>0. /\ AsksInv /\ walk \in Walk /\ removals \in Nat /\ asked \in Nat
      /\ asks \subseteq PageRequest /\ \A x \in asks : x.n <= asked
  BY DEF LogsInv, LogsOK
<1>1. /\ Grows /\ asked' = asked
  BY NothingWritten
<1>2. asks' = asks \ {a}
  BY DEF Over
<1>3. ASSUME NEW x \in asks' PROVE AskInv(x)'
  <2>1. x \in PageRequest /\ ReadsOnlyRows(x) /\ IsWithin(x) /\ Continues(x) /\ x.n <= asked /\ x.n \in Nat
        /\ IsCurrent(x)
    BY <1>0, <1>2 DEF AsksInv, AskInv, PageRequest
  <2>2. ReadsOnlyRows(x)' /\ IsWithin(x)'
    BY <2>1, <1>0, <1>1, ReadsStay, WithinStays
  <2>3. Continues(x)'
    <3>1. CASE walk' = walk
      BY <3>1, <2>1, <1>0, <1>1, ContinuesStays
    <3>2. CASE walk'.upto = asked
      <4>1. ~(walk'.upto < x.n)
        BY <3>2, <2>1, <1>0
      <4> QED BY <4>1 DEF Continues
    <3> QED BY <3>1, <3>2
  <2>4. IsCurrent(x)'
    <3>1. overlapped'
      BY DEF Over
    <3>2. applied' = applied /\ page' = page /\ limit' = limit
      BY DEF form
    <3> QED BY <3>1, <3>2, <2>1, <1>1 DEF IsCurrent
  <2> QED BY <2>2, <2>3, <2>4 DEF AskInv
<1> QED BY <1>3 DEF AsksInv

\* A walk that is where it was.
LEMMA WalkStays ==
  ASSUME LogsInv, UNCHANGED <<scenario, table, walk>>
  PROVE  WalkInv'
<1>0. WalkInv /\ walk \in Walk /\ walk' = walk
  BY DEF LogsInv, LogsOK
<1>1. Grows /\ removals' = removals /\ \A h : Where(h)' = Where(h) /\ Sound(Where(h))
  BY NothingWritten, WhereIs DEF Grows, LogsInv
<1>2. ASSUME Goes PROVE ReachesOn(Where(walk.filter))'
  <2>1. PICK h : h = walk.filter
    OBVIOUS
  <2>2. ReachesOn(Where(h))
    BY <1>2, <2>1, <1>0 DEF WalkInv
  <2>3. ReachesOn(Where(h))'
    BY <2>2, <1>0, <1>1, ReachStays
  <2> QED BY <2>1, <2>3, <1>0
<1> QED BY <1>0, <1>1, <1>2 DEF WalkInv, Goes

LEMMA AnsweredWalk ==
  ASSUME LogsInv, NEW a \in asks, Answered(a)
  PROVE  WalkInv' /\ walk' \in Walk /\ (walk' = walk \/ walk'.upto = asked)
<1> DEFINE rows == Slice(a.rows, a.page, a.limit)
<1> DEFINE pages == totalPages(Cardinality(a.rows), a.limit)
<1>0. /\ WalkInv /\ walk \in Walk /\ removals \in Nat /\ asked \in Nat /\ a \in PageRequest
      /\ AskInv(a) /\ a.step = "answered" /\ scenario \in Scenarios /\ EntriesInv
      /\ UNCHANGED <<scenario, table>> /\ asked' = asked
  BY DEF LogsInv, LogsOK, AsksInv, Answered
<1>1. Grows /\ removals' = removals /\ \A h : Where(h)' = Where(h) /\ Sound(Where(h))
  BY <1>0, NothingWritten, WhereIs
<1>2. walk' = Walked(a, rows)
  BY DEF Answered
<1>3. /\ a.page \in Nat \ {0} /\ a.limit \in Limit /\ a.limit \in Nat \ {0} /\ a.filter \in Filter /\ a.removals \in Nat
      /\ a.rows \in SUBSET Rows /\ rows \in SUBSET a.rows
  BY <1>0, LogsAssumption DEF PageRequest, Slice
<1>4. Sound(a.rows) /\ a.removals <= removals /\ (a.removals = removals => a.rows \subseteq Where(a.filter))
  BY <1>0 DEF AskInv, ReadsOnlyRows, Sees
<1>5. pages \in Nat
  <2>1. Cardinality(a.rows) \in Nat
    BY <1>4, FS_CardinalityType DEF Sound
  <2> QED BY <2>1, <1>3, PagesCover
<1> HIDE DEF rows, pages
<1>6. CASE a.page = 1
  <2>1. walk' = [n |-> 1, filter |-> a.filter, limit |-> a.limit, base |-> a.rows, seen |-> rows,
                 pages |-> pages, removals |-> a.removals, upto |-> asked]
    <3>1. ~(walk.n > 0 /\ a.page = walk.n + 1)
      BY <1>0, <1>6 DEF Walk
    <3> QED BY <3>1, <1>2, <1>6 DEF Walked, pages
  <2>2. /\ walk'.n = 1 /\ walk'.filter = a.filter /\ walk'.limit = a.limit /\ walk'.base = a.rows /\ walk'.seen = rows
        /\ walk'.pages = pages /\ walk'.removals = a.removals /\ walk'.upto = asked
    BY <2>1
  <2>3. walk' \in Walk
    BY <2>1, <1>0, <1>3, <1>5 DEF Walk
  <2>4. ASSUME a.removals = removals
        PROVE  /\ \A e \in a.rows \ rows : 1 * a.limit <= Position(e, Where(a.filter))
               /\ pages <= 1 => a.rows \subseteq rows
    <3>1. \A e \in a.rows \ {} : 0 * a.limit <= Position(e, a.rows)
      BY <1>3, <1>4, PositionBelow
    <3>2. /\ \A e \in a.rows \ ({} \cup Slice(a.rows, 0 + 1, a.limit)) : (0 + 1) * a.limit <= Position(e, Where(a.filter))
          /\ totalPages(Cardinality(a.rows), a.limit) <= 0 + 1 => a.rows \subseteq {} \cup Slice(a.rows, 0 + 1, a.limit)
      BY <3>1, <2>4, <1>1, <1>3, <1>4, PageMore
    <3>3. 0 + 1 = 1 /\ rows = Slice(a.rows, 1, a.limit)
      BY <1>6 DEF rows
    <3> QED BY <3>2, <3>3 DEF pages
  <2>5. ASSUME Goes'
        PROVE  ReachesOn(Where(walk.filter))' /\ (walk'.n >= walk'.pages => walk'.base \subseteq walk'.seen)
    <3>1. a.removals = removals
      BY <2>5, <2>2, <1>1 DEF Goes
    <3>2. \A e \in a.rows \ rows : 1 * a.limit <= Position(e, Where(a.filter)')
      BY <3>1, <2>4, <1>1
    <3>3. a.rows \subseteq Where(a.filter)'
      BY <3>1, <1>1, <1>4
    <3>4. ReachesOn(Where(a.filter))'
      BY <3>2, <3>3, <2>2 DEF ReachesOn, Position, Before
    <3>5. 1 >= pages => a.rows \subseteq rows
      BY <3>1, <2>4, <1>5
    <3> QED BY <3>4, <3>5, <2>2
  <2> QED BY <2>2, <2>3, <2>5, <1>1, <1>3, <1>4 DEF WalkInv
<1>7. CASE walk.n > 0 /\ a.page = walk.n + 1 /\ a.filter = walk.filter /\ a.limit = walk.limit /\ a.n > walk.upto
  <2>1. walk' = [walk EXCEPT !.n = a.page, !.seen = @ \cup rows, !.pages = pages, !.upto = asked]
    <3>1. a.page # 1
      BY <1>0, <1>7 DEF Walk
    <3> QED BY <3>1, <1>2, <1>7 DEF Walked, pages
  <2>2. /\ walk'.n = a.page /\ walk'.filter = a.filter /\ walk'.limit = a.limit /\ walk'.base = walk.base
        /\ walk'.seen = walk.seen \cup rows
        /\ walk'.pages = pages /\ walk'.removals = walk.removals /\ walk'.upto = asked
    BY <2>1, <1>0, <1>7 DEF Walk
  <2>3. walk' \in Walk
    BY <2>1, <1>0, <1>3, <1>5 DEF Walk
  <2>4. walk.n \in Nat /\ walk.n > 0 /\ walk.upto \in Nat /\ a.n \in Nat /\ walk.removals <= removals /\ walk.removals \in Nat
    BY <1>0, <1>3, <1>7 DEF Walk, PageRequest, WalkInv
  <2>5. ASSUME walk.removals = removals
        PROVE  /\ a.rows \subseteq Where(a.filter) /\ walk.base \subseteq a.rows
               /\ \A e \in walk.base \ (walk.seen \cup rows) : a.page * a.limit <= Position(e, Where(a.filter))
               /\ pages <= a.page => walk.base \subseteq walk.seen \cup rows
    <3>1. walk.removals <= a.removals /\ ReachesOn(a.rows)
      BY <2>4, <2>5, <1>0, <1>7 DEF AskInv, Continues, Goes, Sees
    <3>2. a.removals = removals
      BY <3>1, <2>5, <1>3, <1>4, <1>0
    <3>3. walk.base \subseteq a.rows /\ \A e \in walk.base \ walk.seen : walk.n * a.limit <= Position(e, a.rows)
      BY <3>1, <1>7 DEF ReachesOn
    <3>4. /\ \A e \in walk.base \ (walk.seen \cup Slice(a.rows, walk.n + 1, a.limit)) :
               (walk.n + 1) * a.limit <= Position(e, Where(a.filter))
          /\ totalPages(Cardinality(a.rows), a.limit) <= walk.n + 1
               => walk.base \subseteq walk.seen \cup Slice(a.rows, walk.n + 1, a.limit)
      BY <3>2, <3>3, <2>4, <1>1, <1>3, <1>4, PageMore
    <3> QED BY <3>2, <3>3, <3>4, <1>4, <1>7 DEF rows, pages
  <2>6. ASSUME Goes'
        PROVE  ReachesOn(Where(walk.filter))' /\ (walk'.n >= walk'.pages => walk'.base \subseteq walk'.seen)
    <3>1. walk.removals = removals
      BY <2>6, <2>2, <1>1 DEF Goes
    <3>2. \A e \in walk.base \ (walk.seen \cup rows) : a.page * a.limit <= Position(e, Where(a.filter)')
      BY <3>1, <2>5, <1>1
    <3>3. walk.base \subseteq Where(a.filter)'
      BY <3>1, <2>5, <1>1
    <3>4. ReachesOn(Where(a.filter))'
      BY <3>2, <3>3, <2>2 DEF ReachesOn, Position, Before
    <3>5. a.page >= pages => walk.base \subseteq walk.seen \cup rows
      BY <3>1, <2>5, <1>3, <1>5
    <3> QED BY <3>4, <3>5, <2>2
  <2> QED BY <2>2, <2>3, <2>4, <2>6, <1>1, <1>3 DEF WalkInv
<1>8. CASE walk' = walk
  BY <1>8, <1>0, WalkStays
<1> QED
  BY <1>2, <1>6, <1>7, <1>8 DEF Walked

LEMMA AnsweredStep ==
  ASSUME LogsInv, NEW a \in asks, Answered(a)
  PROVE  LogsInv'
<1> DEFINE rows == Slice(a.rows, a.page, a.limit)
<1>0. /\ LogsOK /\ removals \in Nat /\ asked \in Nat /\ a \in PageRequest
      /\ AskInv(a) /\ a.step = "answered" /\ Over(a)
      /\ UNCHANGED <<scenario, table, form, asked, file>>
      /\ shown' = [filter |-> a.filter, page |-> a.page, limit |-> a.limit, rows |-> rows,
                   total |-> Cardinality(a.rows), clean |-> a.clean]
      /\ isLoading' = FALSE /\ error' = FALSE
  BY DEF LogsInv, LogsOK, AsksInv, Answered
<1>1. /\ Grows /\ EntriesInv' /\ removals' = removals /\ entries' = entries /\ clock' = clock
      /\ scenario' = scenario
      /\ \A h : Where(h)' = Where(h) /\ Sound(Where(h))
  BY <1>0, NothingWritten, WhereIs DEF LogsOK, LogsInv
<1>2. /\ a.page \in Nat \ {0} /\ a.limit \in Limit /\ a.limit \in Nat \ {0} /\ a.filter \in Filter /\ a.removals \in Nat
      /\ a.rows \in SUBSET Rows /\ rows \in SUBSET Rows /\ a.clean \in BOOLEAN
  BY <1>0, LogsAssumption DEF PageRequest, Slice
<1>3. Sound(a.rows) /\ a.removals <= removals /\ (a.removals = removals => a.rows \subseteq Where(a.filter))
  BY <1>0 DEF AskInv, ReadsOnlyRows, Sees
<1>4. Cardinality(a.rows) \in Nat
  BY <1>3, FS_CardinalityType DEF Sound
<1>5. rows \subseteq a.rows
  BY DEF Slice
<1> HIDE DEF rows
<1>6. /\ shown' \in Answer /\ shown'.filter = a.filter /\ shown'.page = a.page /\ shown'.limit = a.limit
      /\ shown'.rows = rows /\ shown'.total = Cardinality(a.rows) /\ shown'.clean = a.clean
  BY <1>0, <1>2, <1>4 DEF Answer
<1>7. WalkInv' /\ walk' \in Walk /\ AsksInv'
  BY <1>0, AnsweredWalk, OthersGoOn
<1>8. ShownInv'
  <2>1. ASSUME removals = 0
        PROVE  Cardinality(a.rows) <= Cardinality(Where(a.filter)) /\ rows \subseteq Where(a.filter)
    <3>1. a.rows \in SUBSET Where(a.filter) /\ IsFiniteSet(Where(a.filter))
      BY <2>1, <1>1, <1>2, <1>3 DEF Sound
    <3> QED BY <3>1, <1>5, FS_Subset
  <2>2. ASSUME a.clean, removals = 0, rows = {} PROVE Cardinality(a.rows) = 0
    <3>1. ~((a.page - 1) * a.limit < Cardinality(a.rows))
      BY <2>2, <1>2, <1>3, PageHasRows DEF rows
    <3>2. a.page > 1 => (a.page - 1) * a.limit < Cardinality(a.rows)
      BY <2>2, <1>0 DEF AskInv, IsWithin, Sees
    <3>3. a.page = 1
      BY <3>1, <3>2, <1>2
    <3>4. (1 - 1) * a.limit = 0
      BY <1>2
    <3> QED BY <3>1, <3>3, <3>4, <1>4
  <2>3. removals = 0 => /\ Cardinality(a.rows) <= Cardinality(Where(a.filter)')
                        /\ rows \subseteq Where(a.filter)'
    BY <2>1, <1>1
  <2>4. Where(a.filter)' = Where(shown.filter)'
    BY <1>6
  <2> QED BY <2>2, <2>3, <2>4, <1>1, <1>6 DEF ShownInv
<1>9. ScreenInv'
  <2>1. overlapped' = (asks' # {} \/ a.n # asked)
    BY <1>0 DEF Over
  <2>2. a.n = asked => a.filter = applied /\ a.page = page /\ a.limit = limit
    BY <1>0 DEF AskInv, IsCurrent
  <2>3. applied' = applied /\ page' = page /\ limit' = limit
    BY <1>0 DEF form
  <2> QED BY <2>1, <2>2, <2>3, <1>6 DEF ScreenInv
<1>10. ExportInv' /\ ExportHoldsShown'
  BY <1>0, <1>1, FileGrows DEF file
<1>11. LogsOK'
  <2>1. asks' \subseteq PageRequest /\ \A x \in asks' : x.n <= asked
    BY <1>0 DEF LogsOK, Over
  <2>2. overlapped' \in BOOLEAN
    BY <1>0 DEF Over
  <2>3. isLoading' \in BOOLEAN /\ error' \in BOOLEAN /\ (isLoading' => asks' # {})
    BY <1>0
  <2>4. /\ applied' = applied /\ page' = page /\ limit' = limit /\ filters' = filters /\ edited' = edited
        /\ export' = export /\ exported' = exported /\ asked' = asked
    BY <1>0 DEF form, file
  <2> QED BY <2>1, <2>2, <2>3, <2>4, <1>0, <1>1, <1>6, <1>7 DEF LogsOK
<1> QED BY <1>1, <1>7, <1>8, <1>9, <1>10, <1>11 DEF LogsInv

LEMMA FailedStep ==
  ASSUME LogsInv, NEW a \in asks, Failed(a)
  PROVE  LogsInv'
<1>0. /\ LogsOK /\ Over(a) /\ UNCHANGED <<scenario, table, form, asked, shown, walk, file>>
      /\ isLoading' = FALSE /\ error' = TRUE /\ ShownInv
  BY DEF LogsInv, Failed
<1>1. /\ Grows /\ EntriesInv' /\ removals' = removals /\ entries' = entries /\ clock' = clock
      /\ scenario' = scenario /\ \A h : Where(h)' = Where(h)
  BY <1>0, NothingWritten
<1>2. WalkInv' /\ AsksInv'
  BY <1>0, WalkStays, OthersGoOn
<1>3. ShownInv'
  <2>1. PICK h : h = shown.filter
    OBVIOUS
  <2>2. Where(shown.filter)' = Where(shown.filter)
    BY <2>1, <1>0, <1>1
  <2> QED BY <2>2, <1>0, <1>1 DEF ShownInv
<1>4. ScreenInv'
  <2>1. asks' # {} => overlapped'
    BY <1>0 DEF Over
  <2> QED BY <2>1, <1>0 DEF ScreenInv
<1>5. ExportInv' /\ ExportHoldsShown'
  BY <1>0, <1>1, FileGrows DEF file
<1>6. LogsOK'
  <2>1. asks' \subseteq PageRequest /\ \A x \in asks' : x.n <= asked
    BY <1>0 DEF LogsOK, Over
  <2>2. overlapped' \in BOOLEAN
    BY <1>0 DEF Over
  <2>3. isLoading' \in BOOLEAN /\ error' \in BOOLEAN /\ (isLoading' => asks' # {})
    BY <1>0
  <2>4. /\ applied' = applied /\ page' = page /\ limit' = limit /\ filters' = filters /\ edited' = edited
        /\ export' = export /\ exported' = exported
    BY <1>0 DEF form, file
  <2> QED BY <2>1, <2>2, <2>3, <2>4, <1>0, <1>1 DEF LogsOK
<1> QED BY <1>1, <1>2, <1>3, <1>4, <1>5, <1>6 DEF LogsInv

---------------------------------------------------------------------------
(* The file *)

\* A step of the file: the page does nothing.
LEMMA FileStep ==
  ASSUME LogsInv, UNCHANGED <<scenario, table, form, list>>, export' \in File,
         exported' \in [rows : SUBSET Rows, shown : SUBSET Rows], ExportInv', ExportHoldsShown'
  PROVE  LogsInv'
<1>1. /\ LogsOK /\ Grows /\ EntriesInv' /\ removals' = removals /\ entries' = entries /\ clock' = clock
      /\ scenario' = scenario
  BY NothingWritten DEF LogsInv
<1>2. AsksInv' /\ WalkInv' /\ ShownInv' /\ ScreenInv'
  BY <1>1, PageGrows DEF form
<1>3. LogsOK'
  BY <1>1 DEF LogsOK, form, list
<1> QED BY <1>1, <1>2, <1>3 DEF LogsInv

\* It is asked for by who sees what is in the tables.
LEMMA ExportStep ==
  ASSUME LogsInv, Export
  PROVE  LogsInv'
<1> DEFINE held == IF shown.filter = applied THEN shown.rows ELSE {}
<1>0. /\ LogsOK /\ ShownInv /\ ExportHoldsShown /\ applied \in Filter /\ shown \in Answer
      /\ UNCHANGED <<scenario, table, form, list, exported>>
      /\ export' = [step |-> "sent", filter |-> applied, part |-> {}, shown |-> held]
  BY DEF LogsInv, LogsOK, Export
<1>1. /\ Grows /\ removals' = removals /\ entries' = entries /\ \A h : Where(h)' = Where(h)
  BY <1>0, NothingWritten
<1>2. held \in SUBSET Rows /\ (removals = 0 => held \subseteq Where(applied))
  BY <1>0 DEF Answer, ShownInv
<1> HIDE DEF held
<1>3. export' \in File
  BY <1>0, <1>2 DEF File
<1>4. export'.step = "sent" /\ export'.filter = applied /\ export'.part = {} /\ export'.shown = held
  BY <1>0
<1>5. Sees(export)' = Where(applied)
  <2>1. PICK h : h = applied
    OBVIOUS
  <2>2. Where(export.filter)' = Where(h)'
    BY <2>1, <1>4
  <2>3. Sees(export)' = Where(export.filter)'
    BY <1>4 DEF Sees
  <2> QED BY <2>1, <2>2, <2>3, <1>1
<1>6. Where(export.filter)' = Where(applied)
  BY <1>4, <1>5 DEF Sees
<1>7. ExportInv'
  <2>1. Sound({})
    BY FS_EmptySet DEF Sound, Ordered
  <2> QED BY <2>1, <1>0, <1>1, <1>2, <1>4, <1>5, <1>6 DEF ExportInv
<1>8. ExportHoldsShown'
  BY <1>0, <1>1 DEF ExportHoldsShown
<1>9. exported' \in [rows : SUBSET Rows, shown : SUBSET Rows]
  BY <1>0 DEF LogsOK
<1> QED BY <1>0, <1>3, <1>7, <1>8, <1>9, FileStep

LEMMA ExportServicesStep ==
  ASSUME LogsInv, ExportServices
  PROVE  LogsInv'
<1>0. /\ LogsOK /\ ExportInv /\ ExportHoldsShown /\ export \in File /\ export.step = "sent" /\ export.filter \in Filter
      /\ UNCHANGED <<scenario, table, form, list, exported>> /\ scenario \in Scenarios /\ EntriesInv
      /\ export' = [export EXCEPT !.step = "half", !.part = ServiceRows(export.filter)]
  BY DEF LogsInv, LogsOK, ExportServices, ExportInv
<1>1. /\ Grows /\ removals' = removals /\ entries' = entries
      /\ \A h : Where(h)' = Where(h) /\ AttemptRows(h)' = AttemptRows(h)
  BY <1>0, NothingWritten
<1>2. PICK g \in Filter : g = export.filter
  BY <1>0
<1>3. /\ Sound(ServiceRows(g)) /\ Where(g) = ServiceRows(g) \cup AttemptRows(g)
      /\ \A e \in ServiceRows(g) : e.table = "service"
  BY <1>0, WhereIs DEF ServiceRows
<1>4. /\ export' \in File /\ export'.step = "half" /\ export'.part = ServiceRows(g) /\ export'.filter = g
      /\ export'.shown = export.shown
  BY <1>0, <1>2, <1>3 DEF File, Sound
<1>5. Where(export.filter)' = Where(g) /\ AttemptRows(export.filter)' = AttemptRows(g)
  <2>1. Where(export.filter)' = Where(g)' /\ AttemptRows(export.filter)' = AttemptRows(g)'
    BY <1>4
  <2> QED BY <2>1, <1>1
<1>6. Sees(export)' = Where(g)
  BY <1>3, <1>4, <1>5 DEF Sees
<1>7. removals = 0 => export.shown \subseteq Where(g)
  BY <1>0, <1>2 DEF ExportInv, Sees
<1>8. ExportInv'
  BY <1>1, <1>3, <1>4, <1>5, <1>6, <1>7 DEF ExportInv
<1>9. ExportHoldsShown'
  BY <1>0, <1>1 DEF ExportHoldsShown
<1>10. exported' \in [rows : SUBSET Rows, shown : SUBSET Rows]
  BY <1>0 DEF LogsOK
<1> QED BY <1>0, <1>4, <1>8, <1>9, <1>10, FileStep

\* One page holds all that a history no longer than a file has.
LEMMA SheetHoldsAll ==
  ASSUME NEW S, Sound(S), Cardinality(S) <= FileLimit
  PROVE  S \subseteq Sheet(S)
<1>1. FileLimit \in Nat
  BY DEF FileLimit
<1>2. Cardinality(S) \in Nat
  BY FS_CardinalityType DEF Sound
<1>3. (1 - 1) * FileLimit = 0 /\ 1 * FileLimit = FileLimit
  BY <1>1
<1>4. ASSUME NEW e \in S PROVE (1 - 1) * FileLimit <= Position(e, S) /\ Position(e, S) < 1 * FileLimit
  <2>1. Position(e, S) \in Nat /\ Position(e, S) < Cardinality(S)
    BY PositionBelow
  <2> QED BY <2>1, <1>1, <1>2, <1>3
<1> QED BY <1>4 DEF Sheet, Slice

LEMMA ExportSentStep ==
  ASSUME LogsInv, ExportSent
  PROVE  LogsInv'
<1> DEFINE rows == Sheet(export.part \cup AttemptRows(export.filter))
<1>0. /\ LogsOK /\ ExportInv /\ export \in File /\ export.step = "half" /\ export.filter \in Filter
      /\ UNCHANGED <<scenario, table, form, list>> /\ scenario \in Scenarios /\ EntriesInv
      /\ exported' = [rows |-> rows, shown |-> export.shown]
      /\ export' = [export EXCEPT !.step = "served"]
  BY DEF LogsInv, LogsOK, ExportSent, ExportInv
<1>1. Grows /\ removals' = removals /\ entries' = entries
  BY <1>0, NothingWritten
<1>2. /\ Sound(AttemptRows(export.filter)) /\ Sound(Where(export.filter)) /\ Where(export.filter) \in SUBSET entries
      /\ \A e \in AttemptRows(export.filter) : e.table = "attempt"
  <2>1. PICK g : g = export.filter
    OBVIOUS
  <2> QED BY <2>1, <1>0, WhereIs DEF AttemptRows
<1>3. Sound(export.part \cup AttemptRows(export.filter)) /\ export.part \subseteq Rows
  BY <1>0, <1>2, SoundMerge DEF ExportInv, Sound
<1>4. rows \in SUBSET Rows
  BY <1>3 DEF Sheet, Slice, Sound
<1>5. ASSUME removals = 0, Cardinality(entries) <= FileLimit PROVE export.shown \subseteq rows
  <2>1. /\ export.shown \subseteq export.part \cup AttemptRows(export.filter)
        /\ export.part \cup AttemptRows(export.filter) \in SUBSET entries
    BY <1>0, <1>2, <1>5 DEF ExportInv, Sees
  <2>2. Cardinality(export.part \cup AttemptRows(export.filter)) <= Cardinality(entries)
    BY <2>1, <1>0, FS_Subset DEF EntriesInv, Sound
  <2>3. Cardinality(export.part \cup AttemptRows(export.filter)) \in Nat /\ Cardinality(entries) \in Nat
    BY <1>0, <1>3, FS_CardinalityType DEF EntriesInv, Sound
  <2>4. Cardinality(export.part \cup AttemptRows(export.filter)) <= FileLimit
    BY <2>2, <2>3, <1>5 DEF FileLimit
  <2> QED BY <2>1, <2>4, <1>3, SheetHoldsAll
<1> HIDE DEF rows
<1>6. /\ exported'.rows = rows /\ exported'.shown = export.shown
      /\ exported' \in [rows : SUBSET Rows, shown : SUBSET Rows]
  BY <1>0, <1>4 DEF File
<1>7. export' \in File /\ export'.step = "served" /\ export'.part = export.part
  BY <1>0 DEF File
<1>8. ExportInv'
  BY <1>0, <1>7 DEF ExportInv
<1>9. ExportHoldsShown'
  BY <1>1, <1>5, <1>6 DEF ExportHoldsShown
<1> QED BY <1>0, <1>6, <1>7, <1>8, <1>9, FileStep

LEMMA IdleIsFile == Idle \in File
BY DEF Idle, File

LEMMA ExportLoggedStep ==
  ASSUME LogsInv, ExportLogged
  PROVE  LogsInv'
<1>0. /\ LogsOK /\ export' = Idle /\ UNCHANGED <<scenario, removals, form, list, exported>> /\ clock \in Nat
      /\ \A e \in entries : e.at <= clock /\ e.at \in Nat
  BY DEF ExportLogged, LogsInv, LogsOK, Rows
<1>1. CASE entries' = entries \cup {ExportEntry} /\ clock' = clock + 1
  <2>1. ExportEntry \in Rows /\ ExportEntry.at = clock + 1
    <3>1. (IF scenario.kind = "login" THEN "login" ELSE "other") \in {"login", "upload", "other"}
      OBVIOUS
    <3>2. clock + 1 \in Nat
      BY <1>0
    <3> QED BY <3>1, <3>2 DEF ExportEntry, Rows, LogType
  <2>2. PICK x \in Rows : x = ExportEntry
    BY <2>1
  <2>3. Grows /\ EntriesInv' /\ clock' \in Nat
    <3>1. \A e \in entries : e.at < x.at
      BY <1>0, <2>1, <2>2
    <3>2. clock <= x.at /\ clock' = x.at /\ entries' = entries \cup {x}
      BY <1>0, <1>1, <2>1, <2>2
    <3> QED BY <3>1, <3>2, <1>0, EntryGrows
  <2>4. AsksInv' /\ WalkInv' /\ ShownInv' /\ ScreenInv'
    BY <1>0, <2>3, PageGrows DEF form
  <2>5. ExportInv' /\ ExportHoldsShown'
    BY <1>0, <2>3, FileGrows
  <2>6. LogsOK'
    <3>1. entries' \subseteq Rows /\ IsFiniteSet(entries') /\ \A e \in entries' : e.at <= clock'
      BY <2>3 DEF EntriesInv, Sound
    <3> QED BY <3>1, <2>3, <1>0, IdleIsFile DEF LogsOK, form, list
  <2> QED BY <2>3, <2>4, <2>5, <2>6 DEF LogsInv
<1>2. CASE UNCHANGED <<entries, clock>>
  <2>1. UNCHANGED <<scenario, table, form, list>>
    BY <1>0, <1>2 DEF table
  <2>2. ExportInv' /\ ExportHoldsShown'
    BY <1>0, <2>1, NothingWritten, FileGrows
  <2> QED BY <1>0, <2>1, <2>2, IdleIsFile, FileStep DEF LogsOK
<1> QED BY <1>1, <1>2 DEF ExportLogged

LEMMA ExportFailedStep ==
  ASSUME LogsInv, ExportFailed
  PROVE  LogsInv'
<1>1. export' = Idle /\ UNCHANGED <<scenario, table, form, list, exported>> /\ LogsOK
  BY DEF ExportFailed, LogsInv
<1>2. ExportInv' /\ ExportHoldsShown'
  BY <1>1, NothingWritten, FileGrows
<1> QED BY <1>1, <1>2, IdleIsFile, FileStep DEF LogsOK

---------------------------------------------------------------------------
(* The whole *)

LEMMA InitiallyLogs == LogsInit => LogsInv
<1> SUFFICES ASSUME LogsInit PROVE LogsInv
  OBVIOUS
<1>1. Sound({})
  BY FS_EmptySet DEF Sound, Ordered
<1>2. /\ scenario \in Scenarios /\ entries = {} /\ clock = 0 /\ removals = 0 /\ asked = 1 /\ page = 1
      /\ filters \in Filter /\ applied \in Filter /\ edited \in BOOLEAN
      /\ isLoading \in BOOLEAN /\ error \in BOOLEAN /\ overlapped = FALSE /\ isLoading
  BY LogsAssumption DEF LogsInit
<1>3. limit \in Limit /\ Limit \subseteq Nat \ {0}
  BY LogsAssumption DEF LogsInit
<1>4. EntriesInv
  BY <1>1, <1>2 DEF EntriesInv
<1>5. PICK x : /\ asks = {x}
               /\ x = [n |-> 1, filter |-> applied, page |-> 1, limit |-> limit, step |-> "sent", part |-> {},
                       rows |-> {}, removals |-> 0, clean |-> TRUE]
  BY DEF LogsInit
<1>6. /\ x \in PageRequest /\ x.n = 1 /\ x.filter = applied /\ x.page = 1 /\ x.limit = limit /\ x.part = {} /\ x.rows = {}
      /\ x.step = "sent" /\ x.removals = 0
  BY <1>2, <1>3, <1>5 DEF PageRequest
<1>7. /\ walk \in Walk /\ walk.n = 0 /\ walk.removals = 0
  BY DEF LogsInit, Walk
<1>8. shown \in Answer /\ shown.total = 0 /\ shown.rows = {}
  BY DEF LogsInit, Answer
<1>9. /\ export \in File /\ export.step = "idle" /\ export.part = {}
      /\ exported \in [rows : SUBSET Rows, shown : SUBSET Rows] /\ exported.shown = {}
  BY IdleIsFile DEF LogsInit, Idle
<1>10. LogsOK
  <2>1. IsFiniteSet(entries)
    BY <1>2, FS_EmptySet
  <2>2. overlapped \in BOOLEAN
    BY <1>2
  <2>3. asks \subseteq PageRequest /\ asks # {} /\ \A a \in asks : a.n <= asked
    BY <1>2, <1>5, <1>6
  <2>4. clock \in Nat /\ removals \in Nat /\ asked \in Nat /\ page \in Nat \ {0}
    BY <1>2
  <2> QED BY <2>1, <2>2, <2>3, <2>4, <1>2, <1>3, <1>5, <1>6, <1>7, <1>8, <1>9 DEF LogsOK
<1>11. AsksInv
  <2>1. ReadsOnlyRows(x)
    BY <1>1, <1>2, <1>6 DEF ReadsOnlyRows, Sees
  <2>2. Continues(x) /\ IsWithin(x) /\ IsCurrent(x)
    BY <1>2, <1>6, <1>7 DEF Continues, Goes, IsWithin, IsCurrent
  <2> QED BY <2>1, <2>2, <1>5 DEF AsksInv, AskInv
<1>12. WalkInv
  BY <1>2, <1>7 DEF WalkInv, Goes
<1>13. ShownInv
  <2>1. PICK g : g = shown.filter
    OBVIOUS
  <2>2. Cardinality(Where(g)) \in Nat
    BY <1>2, <1>4, WhereIs, FS_CardinalityType DEF Sound
  <2> QED BY <2>1, <2>2, <1>8 DEF ShownInv
<1>14. ScreenInv
  BY <1>2, <1>5 DEF ScreenInv
<1>15. ExportInv /\ ExportHoldsShown
  BY <1>1, <1>9 DEF ExportInv, ExportHoldsShown
<1> QED BY <1>4, <1>10, <1>11, <1>12, <1>13, <1>14, <1>15 DEF LogsInv

LEMMA LogsStays == LogsInv /\ [LogsNext]_histories => LogsInv'
<1> SUFFICES ASSUME LogsInv, [LogsNext]_histories PROVE LogsInv'
  OBVIOUS
<1>1. CASE UNCHANGED histories
  <2>1. UNCHANGED <<scenario, table, form, list>> /\ export' = export /\ exported' = exported
    BY <1>1 DEF histories, file
  <2>2. ExportInv' /\ ExportHoldsShown'
    BY <2>1, NothingWritten, FileGrows
  <2> QED BY <2>1, <2>2, FileStep DEF LogsInv, LogsOK
<1>2. CASE LogsNext
  <2>1. ASSUME NEW h \in Happening, Happens(h) \/ AccountRemoved(h.account) PROVE LogsInv'
    BY <2>1, HappensStep, RemovedStep
  <2>2. ASSUME NEW f \in Filter, FilterChange(f) PROVE LogsInv'
    BY <2>2, FilterStep
  <2>3. ASSUME NEW p \in 1..scenario.entries, PageChange(p) PROVE LogsInv'
    BY <2>3, PageChangeStep
  <2>4. ASSUME NEW l \in Limit, LimitChange(l) PROVE LogsInv'
    BY <2>4, LimitChangeStep
  <2>5. ASSUME NEW a \in asks, ReadServices(a) \/ ReadAttempts(a) \/ Answered(a) \/ Failed(a) PROVE LogsInv'
    BY <2>5, ReadServicesStep, ReadAttemptsStep, AnsweredStep, FailedStep
  <2> QED
    BY <1>2, <2>1, <2>2, <2>3, <2>4, <2>5, SearchStep, ResetStep, ExportStep, ExportServicesStep,
       ExportSentStep, ExportLoggedStep, ExportFailedStep DEF LogsNext
<1> QED BY <1>1, <1>2

LEMMA LogsInductive == LogsSpec => []LogsInv
BY InitiallyLogs, LogsStays, PTL DEF LogsSpec

\* Neither page nor file says what is not so, whatever is written, asked for and answered
\* in whatever order: rows without a spinner are those asked for, "no entries" means none,
\* and a file holds what was displayed when it was asked for.
THEOREM LogsTellTruth == LogsSpec => []PagesTellTruth
<1>1. LogsInv => PagesTellTruth
  <2> SUFFICES ASSUME LogsInv PROVE PagesTellTruth
    OBVIOUS
  <2>1. /\ LogsOK /\ ScreenInv /\ ShownInv /\ ExportHoldsShown
    BY DEF LogsInv
  <2>2. ShowsWhatIsAsked
    BY <2>1 DEF ShowsWhatIsAsked, ScreenInv, Displayed
  <2>3. EmptyMeansNone
    BY <2>1 DEF EmptyMeansNone, ShownInv, Displayed
  <2> QED BY <2>1, <2>2, <2>3 DEF PagesTellTruth
<1> QED BY <1>1, LogsInductive, PTL

\* Who looks at the pages one after the other has at the last page seen every entry that
\* was there at the first, for any number of entries, page sizes and requests.
THEOREM LogsWalkLosesNothing == LogsSpec => []WalkLosesNothing
<1>1. LogsInv => WalkLosesNothing
  BY DEF LogsInv, WalkInv, Goes, WalkLosesNothing
<1> QED BY <1>1, LogsInductive, PTL

=============================================================================
