----------------------------- MODULE UserAdmin ------------------------------
(***************************************************************************)
(* UsersService (backend/src/users) and changePassword of AuthService: the  *)
(* administration of accounts. Every handler reads the rows it decides on   *)
(* with one query and writes with later ones; actions are single queries,   *)
(* so the handlers of several administrators interleave between them.       *)
(***************************************************************************)
EXTENDS Naturals, FiniteSets

CONSTANTS
  Id,        \* primary keys the users table can hand out
  Customer,  \* rows of the customers table
  Request,   \* HTTP requests, each handled once
  Kinds,     \* which handlers the clients call
  Limit,     \* most accounts per administrator role: 3 and 10 in the code
  Variant,   \* other words that accounts may have for a role: the DTO takes any string
  Reads,     \* the role RolesGuard reads in such a word, trimmed and in lower case
  Collates,  \* the role the database takes it for when it compares
  NoRow      \* stands for a row that does not exist

Role == {"super_admin", "admin", "user"}
AdminRole == {"super_admin", "admin"}
Word == Role \cup Variant
Password == {"default", "own"}
Operations == {"create", "update", "toggle", "remove", "reset", "change"}
UserRow == [role : Word, isActive : BOOLEAN, password : Password, isFirstLogin : BOOLEAN]

ASSUME UserAdminAssumption ==
  /\ Limit \in [AdminRole -> Nat \ {0}]
  /\ Kinds \subseteq Operations
  /\ IsFiniteSet(Id) /\ IsFiniteSet(Request)
  /\ Variant \cap Role = {}
  /\ {Reads, Collates} \subseteq [Variant -> Role \cup {"none"}]
  /\ NoRow \notin UserRow

VARIABLES
  users,       \* the users table: a row or NoRow per id
  issued,      \* ids handed out so far; auto-increment never reuses one
  assigned,    \* the user_customers table
  pc,          \* where each request's handler is
  job,         \* what each request asks for, and who asks
  seen,        \* isActive of the target as each handler read it before its write
  overlapped   \* history: roles whose creations overlapped

vars == <<users, issued, assigned, pc, job, seen, overlapped>>

Job == [kind : Operations, caller : Id, callerRole : Word, target : Id,
        role : Word, listed : BOOLEAN, list : SUBSET Customer, typed : Password]

Steps == {"count", "insert", "read", "write", "delete", "unassign", "assign"}
Final == {"done", "refused", "failed"}

TypeOK ==
  /\ users \in [Id -> UserRow \cup {NoRow}]
  /\ issued \subseteq Id
  /\ assigned \subseteq Id \X Customer
  /\ pc \in [Request -> {"idle"} \cup Steps \cup Final]
  /\ job \in [Request -> Job]
  /\ seen \in [Request -> BOOLEAN]
  /\ overlapped \subseteq AdminRole

Exists(i) == users[i] # NoRow
Rows == {i \in Id : Exists(i)}

\* One word is read in three ways: the services compare it exactly, RolesGuard after
\* trimming it and without regard to case, a query by the collation of the column.
Normalized(word) == IF word \in Role THEN word ELSE Reads[word]
Matched(word) == IF word \in Role THEN word ELSE Collates[word]
WithRole(role) == {i \in Rows : users[i].role = role}
Counted(role) == {i \in Rows : Matched(users[i].role) = role}
ActiveSuperAdmins == {i \in WithRole("super_admin") : users[i].isActive}

NewRow(role) ==
  [role |-> role, isActive |-> TRUE, password |-> "default", isFirstLogin |-> TRUE]

\* An installation in use: accounts of every role, active or not, within the
\* quota, at least one active super admin.
Init ==
  /\ users \in [Id -> {NoRow} \cup {[NewRow(role) EXCEPT !.isActive = active] :
                                       role \in Word, active \in BOOLEAN}]
  /\ ActiveSuperAdmins # {}
  /\ \A role \in AdminRole : Cardinality(WithRole(role)) <= Limit[role]
  /\ issued = Rows
  /\ \E i \in ActiveSuperAdmins :
       job = [r \in Request |->
               [kind |-> "update", caller |-> i, callerRole |-> "super_admin",
                target |-> i, role |-> "user", listed |-> FALSE, list |-> {},
                typed |-> "default"]]
  /\ assigned = {}
  /\ pc = [r \in Request |-> "idle"]
  /\ seen = [r \in Request |-> FALSE]
  /\ overlapped = {}

Step(r, from, to) == pc[r] = from /\ pc' = [pc EXCEPT ![r] = to]

\* Creations of a role that have passed the count and not inserted yet.
Creating(role) == {r \in Request : pc[r] = "insert" /\ job[r].role = role}

---------------------------------------------------------------------------
(* Slips: plausible mistakes in single steps, used by no action. *)

Slip_ToggleAllowed(r) ==  \* compares the wrong way round in the self check
  LET t == job[r].target IN
  /\ ~(t = job[r].caller /\ ~users[t].isActive)
  /\ ~(job[r].callerRole = "admin" /\ users[t].role \in AdminRole)

Slip_LimitReached(role) == Cardinality(Counted(role)) > Limit[role]

---------------------------------------------------------------------------
(* Guards of the routes *)

RolesFor(k) == IF k = "remove" THEN {"super_admin"} ELSE AdminRole

\* changePassword has no @Roles.
Admitted(k, word) == k = "change" \/ Normalized(word) \in RolesFor(k)

\* What a caller can ask: create and change carry no target, remove refuses the
\* caller itself, only create and update list customers.
Requests(k, caller) ==
  [kind : {k}, caller : {caller}, callerRole : {users[caller].role},
   target : CASE k \in {"create", "change"} -> {caller}
              [] k = "remove" -> issued \ {caller}
              [] OTHER -> issued,
   role : IF k = "create" THEN Word ELSE {"user"},
   listed : IF k = "update" THEN BOOLEAN ELSE {k = "create"},
   list : IF k \in {"create", "update"} THEN SUBSET Customer ELSE {{}},
   typed : IF k = "change" THEN Password ELSE {"default"}]

\* JwtStrategy reads the caller's row; RolesGuard and the synchronous checks of
\* the service run before the handler's first query.
Arrive(r, k, caller) ==
  /\ k \in Kinds
  /\ Exists(caller) /\ users[caller].isActive /\ Admitted(k, users[caller].role)
  /\ \E j \in Requests(k, caller) :
       /\ ~j.listed => j.list = {}
       /\ Step(r, "idle", IF k # "create" THEN "read"
                          ELSE IF j.role \in AdminRole THEN "count" ELSE "insert")
       /\ job' = [job EXCEPT ![r] = j]
  /\ UNCHANGED <<users, issued, assigned, seen, overlapped>>

---------------------------------------------------------------------------
(* create *)

LimitReached(role) == Cardinality(Counted(role)) >= Limit[role]

\* The number of accounts of the role is counted ...
CountRole(r) ==
  LET role == job[r].role IN
  /\ Step(r, "count", IF LimitReached(role) THEN "refused" ELSE "insert")
  /\ overlapped' = overlapped \cup
       (IF ~LimitReached(role) /\ Creating(role) # {} THEN {role} ELSE {})
  /\ UNCHANGED <<users, issued, assigned, job, seen>>

\* ... and, a settings query and a bcrypt hash later, the row is inserted.
Insert(r) ==
  /\ Step(r, "insert", IF job[r].list # {} THEN "assign" ELSE "done")
  /\ \E i \in Id \ issued :
       /\ users' = [users EXCEPT ![i] = NewRow(job[r].role)]
       /\ issued' = issued \cup {i}
       /\ job' = [job EXCEPT ![r].target = i]
  /\ UNCHANGED <<assigned, seen, overlapped>>

---------------------------------------------------------------------------
(* update, toggleActive, resetPassword, changePassword, remove *)

ToggleAllowed(r) ==
  LET t == job[r].target IN
  /\ ~(t = job[r].caller /\ users[t].isActive)
  /\ ~(job[r].callerRole = "admin" /\ users[t].role \in AdminRole)

RemoveAllowed(r) ==
  users[job[r].target].role \in AdminRole => job[r].callerRole = "super_admin"

Allowed(r) ==
  CASE job[r].kind = "toggle" -> ToggleAllowed(r)
    [] job[r].kind = "remove" -> RemoveAllowed(r)
    [] job[r].kind = "change" -> users[job[r].target].password = job[r].typed
    [] OTHER -> TRUE

\* The row is read and everything is decided on what was read.
ReadTarget(r) ==
  LET t == job[r].target IN
  /\ Step(r, "read", IF ~Exists(t) \/ ~Allowed(r) THEN "refused"
                     ELSE IF job[r].kind = "remove" THEN "delete" ELSE "write")
  /\ seen' = [seen EXCEPT ![r] = Exists(t) /\ users[t].isActive]
  /\ UNCHANGED <<users, issued, assigned, job, overlapped>>

\* A write to a row that has vanished raises P2025 and changes nothing.
WriteRow(r, to, row) ==
  LET t == job[r].target IN
  /\ Step(r, "write", IF Exists(t) THEN to ELSE "failed")
  /\ users' = IF Exists(t) THEN [users EXCEPT ![t] = row] ELSE users
  /\ UNCHANGED <<issued, assigned, job, seen, overlapped>>

\* isActive is written as the negation of what was read.
ToggleWrite(r) ==
  /\ job[r].kind = "toggle"
  /\ WriteRow(r, "done", [users[job[r].target] EXCEPT !.isActive = ~seen[r]])

ResetWrite(r) ==
  /\ job[r].kind = "reset"
  /\ WriteRow(r, "done", [users[job[r].target] EXCEPT !.password = "default",
                                                      !.isFirstLogin = TRUE])

ChangeWrite(r) ==
  /\ job[r].kind = "change"
  /\ WriteRow(r, "done", [users[job[r].target] EXCEPT !.password = "own",
                                                      !.isFirstLogin = FALSE])

\* update writes name, email and the like, then replaces the assignments when
\* the request lists customers.
UpdateWrite(r) ==
  /\ job[r].kind = "update"
  /\ WriteRow(r, IF job[r].listed THEN "unassign" ELSE "done", users[job[r].target])

Unassign(r) ==
  /\ Step(r, "unassign", IF job[r].list # {} THEN "assign" ELSE "done")
  /\ assigned' = {a \in assigned : a[1] # job[r].target}
  /\ UNCHANGED <<users, issued, job, seen, overlapped>>

\* One createMany: all rows or, on a duplicate or a missing user, none.
Assign(r) ==
  LET t == job[r].target
      new == {t} \X job[r].list
      ok == Exists(t) /\ new \cap assigned = {}
  IN
  /\ Step(r, "assign", IF ok THEN "done" ELSE "failed")
  /\ assigned' = IF ok THEN assigned \cup new ELSE assigned
  /\ UNCHANGED <<users, issued, job, seen, overlapped>>

\* The row goes and its assignments with it (onDelete: Cascade).
Delete(r) ==
  LET t == job[r].target IN
  /\ Step(r, "delete", IF Exists(t) THEN "done" ELSE "failed")
  /\ users' = [users EXCEPT ![t] = NoRow]
  /\ assigned' = {a \in assigned : a[1] # t}
  /\ UNCHANGED <<issued, job, seen, overlapped>>

HandlerStep(r) ==
  \/ CountRole(r) \/ Insert(r) \/ ReadTarget(r)
  \/ ToggleWrite(r) \/ ResetWrite(r) \/ ChangeWrite(r) \/ UpdateWrite(r)
  \/ Unassign(r) \/ Assign(r) \/ Delete(r)

---------------------------------------------------------------------------
(* Failures *)

\* A failing query (an uploader's documents restrict a delete, a username is
\* taken, the connection is lost) ends the handler and undoes nothing.
Abort(r) ==
  /\ pc[r] \in Steps
  /\ pc' = [pc EXCEPT ![r] = "failed"]
  /\ UNCHANGED <<users, issued, assigned, job, seen, overlapped>>

\* The process restarts and ensureDefaultAdmin runs before it listens.
Restart ==
  /\ pc' = [r \in Request |-> IF pc[r] \in Steps THEN "failed" ELSE pc[r]]
  /\ \/ Rows # {} /\ UNCHANGED <<users, issued>>
     \/ /\ Rows = {}
        /\ \E i \in Id \ issued :
             /\ users' = [users EXCEPT ![i] = NewRow("super_admin")]
             /\ issued' = issued \cup {i}
  /\ UNCHANGED <<assigned, job, seen, overlapped>>

Next ==
  \/ \E r \in Request :
       \/ \E k \in Kinds, caller \in Id : Arrive(r, k, caller)
       \/ HandlerStep(r)
       \/ Abort(r)
  \/ Restart

Spec == Init /\ [][Next]_vars

---------------------------------------------------------------------------
(* Properties *)

\* toggleActive and remove: no request of an account ever ends that account's own
\* access, also when other administrators change the row between the check and
\* the write.
LosesAccess(i) == Exists(i) /\ users[i].isActive /\ ~(Exists(i)' /\ users'[i].isActive)

SelfNeverLocksOut ==
  [][\A r \in Request : pc'[r] # pc[r] /\ pc[r] \in {"write", "delete"}
       => ~LosesAccess(job[r].caller)]_vars

\* toggleActive and remove compare roles exactly. An account whose role is exactly an
\* administrator's loses its access only to a super admin, or is deactivated by a
\* caller whom RolesGuard takes for an administrator and the service for none.
\* An account with any other word for its role has no such protection.
OnlySuperAdminsEndAdmins ==
  [][\A i \in Id : Exists(i) /\ users[i].role \in AdminRole /\ LosesAccess(i)
       => \E r \in Request :
            /\ pc[r] \in {"write", "delete"} /\ pc'[r] = "done" /\ job[r].target = i
            /\ \/ job[r].callerRole = "super_admin"
               \/ /\ job[r].kind = "toggle" /\ job[r].callerRole \in Variant
                  /\ Normalized(job[r].callerRole) \in AdminRole]_vars

\* The self checks keep a super admin in charge as long as requests do not race: the
\* last active one loses its access only to a request of another super admin, which was
\* active when it was let in and has been deactivated or removed since; or to a
\* caller with another word for its role, who never counted as one.
LastSuperAdminOnlyByRace ==
  [][ActiveSuperAdmins # {} /\ ActiveSuperAdmins' = {}
       => \E r \in Request :
            /\ pc[r] \in {"write", "delete"} /\ pc'[r] = "done"
            /\ \/ /\ job[r].callerRole = "super_admin"
                  /\ Exists(job[r].caller) => ~users[job[r].caller].isActive
               \/ job[r].kind = "toggle" /\ job[r].callerRole \in Variant]_vars

\* create: of accounts with exactly the word of an administrator's role there are no
\* more than its quota, unless two creations of that role were between their count and
\* their insert at the same time. Other words are inserted without a count.
QuotaUnlessOverlap ==
  \A role \in AdminRole :
    role \notin overlapped => Cardinality(WithRole(role)) <= Limit[role]

\* resetPassword, changePassword and create write password and flag together: an
\* account that is asked to change its password still has the default one.
FirstLoginMeansDefault ==
  \A i \in Rows : users[i].isFirstLogin => users[i].password = "default"

\* Every reachable state is well typed and keeps the quotas and the first-login flags.
AccountsAreSound == TypeOK /\ QuotaUnlessOverlap /\ FirstLoginMeansDefault

\* Access ends as the checks of toggleActive and remove want it, whatever happens
\* between a check and its write.
EndsAreAllowed == SelfNeverLocksOut /\ OnlySuperAdminsEndAdmins

============================================================================
