-------------------------- MODULE UserAdminProofs ---------------------------
(***************************************************************************)
(* Proofs about UserAdmin, for any accounts, customers, requests and limits. *)
(***************************************************************************)
EXTENDS UserAdmin, FiniteSetTheorems, TLAPS

---------------------------------------------------------------------------
(* The invariant *)

\* An id that was issued is never issued again, and a request is about such an id, and
\* from one; its caller still has the role it had when it was let in, if it has a row.
Issued ==
  /\ Rows \subseteq issued
  /\ \A r \in Request : pc[r] # "idle" => job[r].target \in issued /\ job[r].caller \in issued

CallersKept ==
  \A r \in Request : pc[r] # "idle" /\ Exists(job[r].caller) => users[job[r].caller].role = job[r].callerRole

\* Whom RolesGuard takes for an administrator and toggleActive does not refuse.
MayToggle(word) == word = "super_admin" \/ (word \in Variant /\ Normalized(word) \in AdminRole)

EndsAdmin(r) == Exists(job[r].target) /\ users[job[r].target].role \in AdminRole

\* What the guards of the route and the checks of the handler have settled by the
\* time it writes, although the target's row may have changed since it was read.
Checked(r) ==
  /\ pc[r] = "count" => job[r].role \in AdminRole
  /\ pc[r] = "read" => job[r].kind # "create" /\ (job[r].kind = "remove" => job[r].target # job[r].caller)
  /\ pc[r] = "write" => job[r].kind \notin {"create", "remove"}
  /\ pc[r] \in {"read", "write"} /\ job[r].kind = "toggle" => Normalized(job[r].callerRole) \in AdminRole
  /\ pc[r] = "write" /\ job[r].kind = "toggle" =>
       /\ job[r].target = job[r].caller => ~seen[r]
       /\ EndsAdmin(r) => MayToggle(job[r].callerRole)
  /\ pc[r] = "delete" =>
       /\ job[r].kind = "remove" /\ job[r].target # job[r].caller
       /\ EndsAdmin(r) => job[r].callerRole = "super_admin"

AdminInv == TypeOK /\ Issued /\ CallersKept /\ (\A r \in Request : Checked(r)) /\ FirstLoginMeansDefault

\* An account that has an id keeps its role as long as it has a row.
RolesStay == \A i \in issued : Exists(i)' => Exists(i) /\ users'[i].role = users[i].role

---------------------------------------------------------------------------
(* Types *)

LEMMA RequestsAreJobs ==
  ASSUME TypeOK, NEW k \in Kinds, NEW caller \in Id, Exists(caller), NEW j \in Requests(k, caller)
  PROVE  j \in Job
<1>1. users[caller].role \in Word
  BY DEF TypeOK, Exists, UserRow
<1>2. k \in Operations
  BY UserAdminAssumption
<1>3. j = [kind |-> k, caller |-> caller, callerRole |-> users[caller].role, target |-> j.target,
           role |-> j.role, listed |-> j.listed, list |-> j.list, typed |-> j.typed]
  BY DEF Requests
<1>4. j.target \in issued \cup {caller}
  BY DEF Requests
<1>5. j.role \in Word /\ j.listed \in BOOLEAN /\ j.typed \in Password
  BY DEF Requests, Word, Role, Password
<1>6. j.list \in SUBSET Customer
  BY DEF Requests
<1> QED
  BY <1>1, <1>2, <1>3, <1>4, <1>5, <1>6 DEF Job, TypeOK

LEMMA NewRowOK ==
  ASSUME NEW role \in Word
  PROVE  NewRow(role) \in UserRow /\ NewRow(role).role = role
BY DEF NewRow, UserRow, Password

LEMMA InitTyped == Init => TypeOK
<1> SUFFICES ASSUME Init PROVE TypeOK
  OBVIOUS
<1>1. users \in [Id -> UserRow \cup {NoRow}]
  <2>1. ASSUME NEW i \in Id, users[i] # NoRow PROVE users[i] \in UserRow
    <3>1. PICK role \in Word, active \in BOOLEAN : users[i] = [NewRow(role) EXCEPT !.isActive = active]
      BY <2>1 DEF Init
    <3> QED
      BY <3>1 DEF NewRow, UserRow, Password
  <2>2. users = [i \in Id |-> users[i]]
    BY DEF Init
  <2> QED
    BY <2>1, <2>2
<1>2. issued \subseteq Id
  BY DEF Init, Rows
<1>3. job \in [Request -> Job]
  BY DEF Init, Job, Operations, Word, Role, Password, ActiveSuperAdmins, WithRole, Rows
<1> QED
  BY <1>1, <1>2, <1>3 DEF Init, TypeOK

LEMMA WriteRowTyped ==
  ASSUME TypeOK, NEW r \in Request, NEW to \in Steps \cup Final, NEW row,
         Exists(job[r].target) => row \in UserRow,
         WriteRow(r, to, row)
  PROVE  TypeOK'
BY DEF TypeOK, WriteRow, Step, Steps, Final

LEMMA Target ==
  ASSUME TypeOK, NEW r \in Request
  PROVE  /\ job[r] \in Job /\ job[r].target \in Id /\ job[r].caller \in Id
         /\ Exists(job[r].target) => users[job[r].target] \in UserRow
BY DEF TypeOK, Job, Exists

LEMMA TypeStep == AdminInv /\ [Next]_vars => TypeOK'
<1> SUFFICES ASSUME TypeOK, \A r \in Request : Checked(r), [Next]_vars PROVE TypeOK'
  BY DEF AdminInv
<1>1. ASSUME NEW r \in Request, NEW k \in Kinds, NEW caller \in Id, Arrive(r, k, caller) PROVE TypeOK'
  <2>1. PICK j \in Requests(k, caller) : job' = [job EXCEPT ![r] = j]
    BY <1>1 DEF Arrive
  <2>2. j \in Job
    BY <1>1, <2>1, RequestsAreJobs DEF Arrive
  <2>3. job' \in [Request -> Job]
    BY <2>1, <2>2 DEF TypeOK
  <2>4. pc' \in [Request -> {"idle"} \cup Steps \cup Final]
    BY <1>1 DEF Arrive, Step, TypeOK, Steps
  <2> QED
    BY <1>1, <2>3, <2>4 DEF Arrive, TypeOK
<1>2. ASSUME NEW r \in Request, CountRole(r) PROVE TypeOK'
  <2>1. pc[r] = "count" /\ pc' \in [Request -> {"idle"} \cup Steps \cup Final]
    BY <1>2 DEF CountRole, Step, TypeOK, Steps, Final
  <2>2. overlapped' \subseteq AdminRole
    BY <1>2, <2>1 DEF CountRole, TypeOK, Checked
  <2> QED
    BY <1>2, <2>1, <2>2 DEF CountRole, TypeOK
<1>3. ASSUME NEW r \in Request, Insert(r) PROVE TypeOK'
  <2>1. PICK i \in Id \ issued : /\ users' = [users EXCEPT ![i] = NewRow(job[r].role)]
                                 /\ issued' = issued \cup {i}
                                 /\ job' = [job EXCEPT ![r].target = i]
    BY <1>3 DEF Insert
  <2>2. job[r] \in Job /\ NewRow(job[r].role) \in UserRow
    BY NewRowOK, Target DEF Job
  <2>3. job' \in [Request -> Job]
    BY <2>1, <2>2 DEF TypeOK, Job
  <2>4. users' \in [Id -> UserRow \cup {NoRow}] /\ issued' \subseteq Id
    BY <2>1, <2>2 DEF TypeOK
  <2> QED
    BY <1>3, <2>3, <2>4 DEF Insert, Step, TypeOK, Steps, Final
<1>4. ASSUME NEW r \in Request, ReadTarget(r) PROVE TypeOK'
  <2>1. Exists(job[r].target) => users[job[r].target].isActive \in BOOLEAN
    BY Target DEF UserRow
  <2>2. seen' \in [Request -> BOOLEAN]
    BY <1>4, <2>1 DEF ReadTarget, TypeOK
  <2> QED
    BY <1>4, <2>2 DEF ReadTarget, Step, TypeOK, Steps, Final
<1>5. ASSUME NEW r \in Request, ToggleWrite(r) PROVE TypeOK'
  <2>1. Exists(job[r].target) => [users[job[r].target] EXCEPT !.isActive = ~seen[r]] \in UserRow
    BY Target DEF UserRow, TypeOK
  <2> QED
    BY <1>5, <2>1, WriteRowTyped DEF ToggleWrite, Final
<1>6. ASSUME NEW r \in Request, ResetWrite(r) PROVE TypeOK'
  <2>1. Exists(job[r].target) =>
          [users[job[r].target] EXCEPT !.password = "default", !.isFirstLogin = TRUE] \in UserRow
    BY Target DEF UserRow, Password
  <2> QED
    BY <1>6, <2>1, WriteRowTyped DEF ResetWrite, Final
<1>7. ASSUME NEW r \in Request, ChangeWrite(r) PROVE TypeOK'
  <2>1. Exists(job[r].target) =>
          [users[job[r].target] EXCEPT !.password = "own", !.isFirstLogin = FALSE] \in UserRow
    BY Target DEF UserRow, Password
  <2> QED
    BY <1>7, <2>1, WriteRowTyped DEF ChangeWrite, Final
<1>8. ASSUME NEW r \in Request, UpdateWrite(r) PROVE TypeOK'
  BY <1>8, Target, WriteRowTyped DEF UpdateWrite, Final, Steps
<1>9. ASSUME NEW r \in Request, Unassign(r) PROVE TypeOK'
  BY <1>9 DEF Unassign, Step, TypeOK, Steps, Final
<1>10. ASSUME NEW r \in Request, Assign(r) PROVE TypeOK'
  <2>1. {job[r].target} \X job[r].list \subseteq Id \X Customer
    BY Target DEF Job
  <2> QED
    BY <1>10, <2>1 DEF Assign, Step, TypeOK, Steps, Final
<1>11. ASSUME NEW r \in Request, Delete(r) PROVE TypeOK'
  BY <1>11 DEF Delete, Step, TypeOK, Steps, Final
<1>12. ASSUME NEW r \in Request, Abort(r) PROVE TypeOK'
  BY <1>12 DEF Abort, TypeOK, Steps, Final
<1>13. CASE Restart
  <2>1. pc' \in [Request -> {"idle"} \cup Steps \cup Final]
    BY <1>13 DEF Restart, TypeOK, Final
  <2>2. users' \in [Id -> UserRow \cup {NoRow}] /\ issued' \subseteq Id
    BY <1>13, NewRowOK DEF Restart, TypeOK, Word, Role
  <2> QED
    BY <1>13, <2>1, <2>2 DEF Restart, TypeOK
<1>14. CASE UNCHANGED vars
  BY <1>14 DEF vars, TypeOK
<1> QED
  BY <1>1, <1>2, <1>3, <1>4, <1>5, <1>6, <1>7, <1>8, <1>9, <1>10, <1>11, <1>12, <1>13, <1>14
     DEF Next, HandlerStep

---------------------------------------------------------------------------
(* Roles and checks *)

LEMMA RolesKept == AdminInv /\ [Next]_vars => RolesStay
<1> SUFFICES ASSUME TypeOK, [Next]_vars, NEW i \in issued, Exists(i)'
             PROVE  Exists(i) /\ users'[i].role = users[i].role
  BY DEF AdminInv, RolesStay
<1>0. i \in Id /\ (Exists(i) => users[i] \in UserRow)
  BY DEF TypeOK, Exists
<1>1. CASE UNCHANGED users
  BY <1>1 DEF Exists
<1>2. ASSUME NEW j \in Id \ issued, NEW role, users' = [users EXCEPT ![j] = NewRow(role)]
      PROVE  Exists(i) /\ users'[i].role = users[i].role
  BY <1>0, <1>2 DEF Exists, TypeOK
<1>3. ASSUME NEW r \in Request, ToggleWrite(r) \/ ResetWrite(r) \/ ChangeWrite(r) \/ UpdateWrite(r)
      PROVE  Exists(i) /\ users'[i].role = users[i].role
  <2>1. PICK row : /\ users' = IF Exists(job[r].target) THEN [users EXCEPT ![job[r].target] = row] ELSE users
                   /\ Exists(job[r].target) => row.role = users[job[r].target].role
    BY <1>3, Target DEF ToggleWrite, ResetWrite, ChangeWrite, UpdateWrite, WriteRow, UserRow
  <2> QED
    BY <1>0, <2>1, Target DEF Exists, TypeOK
<1>4. ASSUME NEW r \in Request, Delete(r)
      PROVE  Exists(i) /\ users'[i].role = users[i].role
  BY <1>0, <1>4, Target DEF Delete, Exists, TypeOK
<1>5. ASSUME NEW r \in Request, Insert(r)
      PROVE  Exists(i) /\ users'[i].role = users[i].role
  BY <1>2, <1>5 DEF Insert
<1>6. CASE Restart
  BY <1>1, <1>2, <1>6 DEF Restart
<1>7. ASSUME NEW r \in Request, CountRole(r) \/ ReadTarget(r) \/ Unassign(r) \/ Assign(r) \/ Abort(r)
      PROVE  Exists(i) /\ users'[i].role = users[i].role
  BY <1>1, <1>7 DEF CountRole, ReadTarget, Unassign, Assign, Abort
<1>8. ASSUME NEW r \in Request, NEW k \in Kinds, NEW caller \in Id, Arrive(r, k, caller)
      PROVE  Exists(i) /\ users'[i].role = users[i].role
  BY <1>1, <1>8 DEF Arrive
<1> QED
  BY <1>1, <1>3, <1>4, <1>5, <1>6, <1>7, <1>8 DEF Next, HandlerStep, vars

LEMMA IssuedStep == AdminInv /\ [Next]_vars => Issued'
<1> SUFFICES ASSUME TypeOK, Issued, \A r \in Request : Checked(r), [Next]_vars PROVE Issued'
  BY DEF AdminInv
<1>1. ASSUME NEW r \in Request, NEW k \in Kinds, NEW caller \in Id, Arrive(r, k, caller) PROVE Issued'
  <2>1. PICK j \in Requests(k, caller) : job' = [job EXCEPT ![r] = j]
    BY <1>1 DEF Arrive
  <2>2. caller \in issued
    BY <1>1 DEF Arrive, Issued, Rows
  <2>3. j.target \in issued /\ j.caller \in issued
    BY <2>1, <2>2 DEF Requests
  <2> QED
    BY <1>1, <2>1, <2>3 DEF Arrive, Step, Issued, TypeOK, Rows, Exists
<1>2. ASSUME NEW r \in Request, Insert(r) PROVE Issued'
  <2>1. PICK i \in Id \ issued : /\ users' = [users EXCEPT ![i] = NewRow(job[r].role)]
                                 /\ issued' = issued \cup {i}
                                 /\ job' = [job EXCEPT ![r].target = i]
    BY <1>2 DEF Insert
  <2>2. Rows' \subseteq issued'
    BY <2>1 DEF Rows, Exists, Issued, TypeOK
  <2>3. ASSUME NEW q \in Request, pc'[q] # "idle" PROVE job'[q].target \in issued' /\ job'[q].caller \in issued'
    <3>1. CASE q = r
      BY <1>2, <2>1, <3>1, Target DEF Insert, Step, Issued, TypeOK, Job
    <3>2. CASE q # r
      BY <1>2, <2>1, <2>3, <3>2 DEF Insert, Step, Issued, TypeOK
    <3> QED
      BY <3>1, <3>2
  <2> QED
    BY <2>2, <2>3 DEF Issued
<1>3. ASSUME NEW r \in Request,
             \/ CountRole(r) \/ ReadTarget(r) \/ Unassign(r) \/ Assign(r) \/ Abort(r)
             \/ ToggleWrite(r) \/ ResetWrite(r) \/ ChangeWrite(r) \/ UpdateWrite(r) \/ Delete(r)
      PROVE  Issued'
  <2>1. UNCHANGED <<issued, job>> /\ \A q \in Request : pc'[q] # "idle" => pc[q] # "idle"
    BY <1>3 DEF CountRole, ReadTarget, Unassign, Assign, Abort, ToggleWrite, ResetWrite, ChangeWrite,
                UpdateWrite, Delete, WriteRow, Step, TypeOK, Steps
  <2>2. Rows' \subseteq Rows
    BY <1>3, Target DEF CountRole, ReadTarget, Unassign, Assign, Abort, ToggleWrite, ResetWrite, ChangeWrite,
                UpdateWrite, Delete, WriteRow, TypeOK, Rows, Exists
  <2> QED
    BY <2>1, <2>2 DEF Issued
<1>4. CASE Restart
  <2>1. Rows' \subseteq issued' /\ issued \subseteq issued'
    BY <1>4 DEF Restart, Rows, Exists, Issued, TypeOK
  <2> QED
    BY <1>4, <2>1 DEF Restart, Issued, TypeOK, Steps
<1>5. CASE UNCHANGED vars
  BY <1>5 DEF vars, Issued, Rows, Exists
<1> QED
  BY <1>1, <1>2, <1>3, <1>4, <1>5 DEF Next, HandlerStep

LEMMA CallersStep == AdminInv /\ [Next]_vars => CallersKept'
<1> SUFFICES ASSUME TypeOK, Issued, CallersKept, RolesStay, [Next]_vars,
                    NEW q \in Request, pc'[q] # "idle", Exists(job[q].caller)'
             PROVE  users'[job'[q].caller].role = job'[q].callerRole
  BY RolesKept DEF AdminInv, CallersKept, Exists
<1>1. ASSUME pc[q] # "idle", job'[q].caller = job[q].caller, job'[q].callerRole = job[q].callerRole
      PROVE  users'[job'[q].caller].role = job'[q].callerRole
  BY <1>1 DEF CallersKept, Issued, RolesStay, Exists
<1>2. ASSUME NEW r \in Request, NEW k \in Kinds, NEW caller \in Id, Arrive(r, k, caller)
      PROVE  users'[job'[q].caller].role = job'[q].callerRole
  <2>1. PICK j \in Requests(k, caller) : job' = [job EXCEPT ![r] = j]
    BY <1>2 DEF Arrive
  <2>2. CASE q = r
    <3>1. job'[q] = j /\ j.caller = caller /\ j.callerRole = users[caller].role
      BY <2>1, <2>2 DEF TypeOK, Requests
    <3> QED
      BY <1>2, <3>1 DEF Arrive
  <2>3. CASE q # r
    BY <1>1, <1>2, <2>1, <2>3 DEF Arrive, Step, TypeOK
  <2> QED
    BY <2>2, <2>3
<1>3. ASSUME NEW r \in Request, Insert(r) PROVE users'[job'[q].caller].role = job'[q].callerRole
  <2>1. PICK i \in Id \ issued : job' = [job EXCEPT ![r].target = i]
    BY <1>3 DEF Insert
  <2>2. job'[q].caller = job[q].caller /\ job'[q].callerRole = job[q].callerRole
    BY <2>1 DEF TypeOK, Job
  <2>3. pc[q] # "idle"
    BY <1>3 DEF Insert, Step, TypeOK
  <2> QED
    BY <1>1, <2>2, <2>3
<1>4. ASSUME NEW r \in Request,
             \/ CountRole(r) \/ ReadTarget(r) \/ Unassign(r) \/ Assign(r) \/ Abort(r)
             \/ ToggleWrite(r) \/ ResetWrite(r) \/ ChangeWrite(r) \/ UpdateWrite(r) \/ Delete(r)
      PROVE  users'[job'[q].caller].role = job'[q].callerRole
  <2>1. UNCHANGED job /\ pc[q] # "idle"
    BY <1>4 DEF CountRole, ReadTarget, Unassign, Assign, Abort, ToggleWrite, ResetWrite, ChangeWrite,
                UpdateWrite, Delete, WriteRow, Step, TypeOK, Steps
  <2> QED
    BY <1>1, <2>1
<1>5. CASE Restart
  BY <1>1, <1>5 DEF Restart, Steps
<1>6. CASE UNCHANGED vars
  BY <1>1, <1>6 DEF vars
<1> QED
  BY <1>2, <1>3, <1>4, <1>5, <1>6 DEF Next, HandlerStep

\* Where neither request, place nor row has been touched, what was checked stays checked.
LEMMA CheckedStays ==
  ASSUME Issued, RolesStay, NEW q \in Request, Checked(q), UNCHANGED <<job[q], pc[q], seen[q]>>
  PROVE  Checked(q)'
<1>1. pc[q] # "idle" /\ EndsAdmin(q)' => EndsAdmin(q)
  BY DEF EndsAdmin, Issued, RolesStay
<1> QED
  BY <1>1 DEF Checked

LEMMA CheckedStep == AdminInv /\ [Next]_vars => \A q \in Request : Checked(q)'
<1> SUFFICES ASSUME TypeOK, Issued, \A r \in Request : Checked(r), RolesStay, [Next]_vars, NEW q \in Request
             PROVE  Checked(q)'
  BY RolesKept DEF AdminInv
<1>1. ASSUME NEW r \in Request, NEW k \in Kinds, NEW caller \in Id, Arrive(r, k, caller) PROVE Checked(q)'
  <2>1. PICK j \in Requests(k, caller) : 
          /\ job' = [job EXCEPT ![r] = j]
          /\ pc' = [pc EXCEPT ![r] = IF k # "create" THEN "read" ELSE IF j.role \in AdminRole THEN "count" ELSE "insert"]
    BY <1>1 DEF Arrive, Step
  <2>2. CASE q = r
    <3>1. job'[q] = j /\ j.kind = k /\ j.caller = caller /\ (k = "remove" => j.target # j.caller)
      BY <2>1, <2>2 DEF TypeOK, Requests
    <3>2. k = "toggle" => Normalized(j.callerRole) \in AdminRole
      BY <1>1, <2>1 DEF Arrive, Requests, Admitted, RolesFor
    <3> QED
      BY <2>1, <2>2, <3>1, <3>2 DEF TypeOK, Checked
  <2>3. CASE q # r
    BY <1>1, <2>1, <2>3, CheckedStays DEF Arrive, TypeOK
  <2> QED
    BY <2>2, <2>3
<1>2. ASSUME NEW r \in Request, CountRole(r) PROVE Checked(q)'
  BY <1>2, CheckedStays DEF CountRole, Step, TypeOK, Checked
<1>3. ASSUME NEW r \in Request, Insert(r) PROVE Checked(q)'
  BY <1>3, CheckedStays DEF Insert, Step, TypeOK, Checked
<1>4. ASSUME NEW r \in Request, ReadTarget(r) PROVE Checked(q)'
  <2>1. CASE q = r /\ Exists(job[r].target) /\ Allowed(r)
    <3>1. /\ pc[q] = "read" /\ pc'[q] = IF job[q].kind = "remove" THEN "delete" ELSE "write"
          /\ UNCHANGED <<job, users>> /\ (seen'[q] => users[job[q].target].isActive)
      BY <1>4, <2>1 DEF ReadTarget, Step, TypeOK
    <3>2. Normalized(job[q].callerRole) \in AdminRole /\ job[q].callerRole # "admin" => MayToggle(job[q].callerRole)
      BY DEF TypeOK, Job, Word, Role, AdminRole, Normalized, MayToggle
    <3>3. EndsAdmin(q)' = EndsAdmin(q)
      BY <3>1 DEF EndsAdmin, Exists
    <3> QED
      BY <2>1, <3>1, <3>2, <3>3 DEF Checked, Allowed, ToggleAllowed, RemoveAllowed, EndsAdmin
  <2>2. CASE q = r /\ ~(Exists(job[r].target) /\ Allowed(r))
    BY <1>4, <2>2 DEF ReadTarget, Step, TypeOK, Checked
  <2>3. CASE q # r
    BY <1>4, <2>3, CheckedStays DEF ReadTarget, Step, TypeOK
  <2> QED
    BY <2>1, <2>2, <2>3
<1>5. ASSUME NEW r \in Request,
             \/ ToggleWrite(r) \/ ResetWrite(r) \/ ChangeWrite(r) \/ UpdateWrite(r)
      PROVE  Checked(q)'
  BY <1>5, CheckedStays DEF ToggleWrite, ResetWrite, ChangeWrite, UpdateWrite, WriteRow, Step, TypeOK, Checked
<1>6. ASSUME NEW r \in Request, Unassign(r) \/ Assign(r) \/ Delete(r) \/ Abort(r) PROVE Checked(q)'
  BY <1>6, CheckedStays DEF Unassign, Assign, Delete, Abort, Step, TypeOK, Checked
<1>7. CASE Restart
  <2>1. CASE pc[q] \in Steps
    BY <1>7, <2>1 DEF Restart, Checked
  <2>2. CASE pc[q] \notin Steps
    BY <1>7, <2>2, CheckedStays DEF Restart
  <2> QED
    BY <2>1, <2>2
<1>8. CASE UNCHANGED vars
  BY <1>8, CheckedStays DEF vars
<1> QED
  BY <1>1, <1>2, <1>3, <1>4, <1>5, <1>6, <1>7, <1>8 DEF Next, HandlerStep

LEMMA FirstLoginStep == AdminInv /\ [Next]_vars => FirstLoginMeansDefault'
<1> SUFFICES ASSUME TypeOK, FirstLoginMeansDefault, [Next]_vars, NEW i \in Id, Exists(i)', users'[i].isFirstLogin
             PROVE  users'[i].password = "default"
  BY DEF AdminInv, FirstLoginMeansDefault, Rows
<1>1. CASE users'[i] = users[i]
  BY <1>1 DEF FirstLoginMeansDefault, Rows, Exists
<1>2. ASSUME NEW j \in Id, NEW role, users' = [users EXCEPT ![j] = NewRow(role)] PROVE users'[i].password = "default"
  BY <1>1, <1>2 DEF NewRow, TypeOK
<1>3. ASSUME NEW r \in Request, ToggleWrite(r) \/ UpdateWrite(r) PROVE users'[i].password = "default"
  BY <1>1, <1>3, Target DEF ToggleWrite, UpdateWrite, WriteRow, FirstLoginMeansDefault, Rows, Exists, TypeOK, UserRow
<1>4. ASSUME NEW r \in Request, ResetWrite(r) \/ ChangeWrite(r) PROVE users'[i].password = "default"
  BY <1>1, <1>4, Target DEF ResetWrite, ChangeWrite, WriteRow, TypeOK, UserRow
<1>5. ASSUME NEW r \in Request, Delete(r) PROVE users'[i].password = "default"
  BY <1>1, <1>5, Target DEF Delete, Exists, TypeOK
<1>6. ASSUME NEW r \in Request, Insert(r) PROVE users'[i].password = "default"
  BY <1>2, <1>6 DEF Insert
<1>7. CASE Restart
  BY <1>1, <1>2, <1>7 DEF Restart
<1>8. ASSUME NEW r \in Request, CountRole(r) \/ ReadTarget(r) \/ Unassign(r) \/ Assign(r) \/ Abort(r)
      PROVE  users'[i].password = "default"
  BY <1>1, <1>8 DEF CountRole, ReadTarget, Unassign, Assign, Abort
<1>9. ASSUME NEW r \in Request, NEW k \in Kinds, NEW caller \in Id, Arrive(r, k, caller)
      PROVE  users'[i].password = "default"
  BY <1>1, <1>9 DEF Arrive
<1> QED
  BY <1>1, <1>3, <1>4, <1>5, <1>6, <1>7, <1>8, <1>9 DEF Next, HandlerStep, vars

LEMMA AdminInvariant == Spec => []AdminInv
<1>1. Init => AdminInv
  <2> SUFFICES ASSUME Init PROVE AdminInv
    OBVIOUS
  <2>1. Issued /\ CallersKept /\ \A r \in Request : Checked(r)
    BY DEF Init, Issued, CallersKept, Checked
  <2>2. ASSUME NEW i \in Rows PROVE users[i].password = "default"
    <3>1. PICK role \in Word, active \in BOOLEAN : users[i] = [NewRow(role) EXCEPT !.isActive = active]
      BY DEF Init, Rows, Exists
    <3> QED
      BY <3>1 DEF NewRow
  <2> QED
    BY <2>1, <2>2, InitTyped DEF AdminInv, FirstLoginMeansDefault
<1>2. AdminInv /\ [Next]_vars => AdminInv'
  BY TypeStep, IssuedStep, CallersStep, CheckedStep, FirstLoginStep DEF AdminInv
<1> QED
  BY <1>1, <1>2, PTL DEF Spec

---------------------------------------------------------------------------
(* What the invariant says of a step *)

\* Who loses its access loses it to the write of one request about it.
LEMMA EndedByOne ==
  ASSUME AdminInv, [Next]_vars, NEW i \in Id, LosesAccess(i)
  PROVE  \E r \in Request :
           /\ job[r].target = i /\ pc'[r] = "done" /\ \A q \in Request \ {r} : pc'[q] = pc[q]
           /\ \/ pc[r] = "write" /\ job[r].kind = "toggle" /\ seen[r]
              \/ pc[r] = "delete"
           /\ \A j \in Id \ {i} : users'[j] = users[j]
<1> USE DEF AdminInv
<1>1. Exists(i) /\ users[i] \in UserRow /\ users[i].isActive /\ ~(Exists(i)' /\ users'[i].isActive)
  BY DEF LosesAccess, TypeOK, Exists
<1>2. users'[i] # users[i]
  BY <1>1 DEF Exists
<1>3. ASSUME NEW r \in Request, ToggleWrite(r)
      PROVE  /\ job[r].target = i /\ pc'[r] = "done" /\ \A q \in Request \ {r} : pc'[q] = pc[q]
             /\ pc[r] = "write" /\ job[r].kind = "toggle" /\ seen[r]
             /\ \A j \in Id \ {i} : users'[j] = users[j]
  <2>1. job[r].target = i
    BY <1>2, <1>3, Target DEF ToggleWrite, WriteRow, TypeOK
  <2>2. users'[i].isActive = ~seen[r] /\ users' = [users EXCEPT ![i] = [users[i] EXCEPT !.isActive = ~seen[r]]]
    BY <1>1, <1>3, <2>1 DEF ToggleWrite, WriteRow, TypeOK, UserRow
  <2>3. users'[i] \in UserRow
    BY <1>1, <2>2 DEF UserRow, TypeOK
  <2>4. Exists(i)'
    BY <2>3, UserAdminAssumption DEF Exists
  <2> QED
    BY <1>1, <1>3, <2>1, <2>2, <2>4 DEF ToggleWrite, WriteRow, Step, TypeOK
<1>4. ASSUME NEW r \in Request, Delete(r)
      PROVE  /\ job[r].target = i /\ pc'[r] = "done" /\ \A q \in Request \ {r} : pc'[q] = pc[q]
             /\ pc[r] = "delete"
             /\ \A j \in Id \ {i} : users'[j] = users[j]
  <2>1. job[r].target = i
    BY <1>2, <1>4, Target DEF Delete, TypeOK
  <2> QED
    BY <1>1, <1>4, <2>1 DEF Delete, Step, TypeOK
<1>5. ASSUME NEW r \in Request, ResetWrite(r) \/ ChangeWrite(r) \/ UpdateWrite(r) PROVE FALSE
  <2>1. CASE ~Exists(job[r].target)
    BY <1>2, <1>5, <2>1 DEF ResetWrite, ChangeWrite, UpdateWrite, WriteRow
  <2>2. CASE Exists(job[r].target)
    <3> DEFINE t == job[r].target
    <3>1. users[t] \in UserRow /\ t \in Id
      BY <2>2, Target
    <3>2. PICK row \in UserRow : row.isActive = users[t].isActive /\ users' = [users EXCEPT ![t] = row]
      <4>1. /\ [users[t] EXCEPT !.password = "default", !.isFirstLogin = TRUE] \in UserRow
            /\ [users[t] EXCEPT !.password = "own", !.isFirstLogin = FALSE] \in UserRow
        BY <3>1 DEF UserRow, Password
      <4>2. CASE ResetWrite(r)
        BY <2>2, <3>1, <4>1, <4>2 DEF ResetWrite, WriteRow, UserRow
      <4>3. CASE ChangeWrite(r)
        BY <2>2, <3>1, <4>1, <4>3 DEF ChangeWrite, WriteRow, UserRow
      <4>4. CASE UpdateWrite(r)
        BY <2>2, <3>1, <4>4 DEF UpdateWrite, WriteRow
      <4> QED
        BY <1>5, <4>2, <4>3, <4>4
    <3>3. t = i /\ users'[i] \in UserRow /\ users'[i].isActive
      BY <1>1, <1>2, <3>1, <3>2 DEF TypeOK
    <3> QED
      BY <1>1, <3>3, UserAdminAssumption DEF Exists
  <2> QED
    BY <2>1, <2>2
<1>6. ASSUME NEW j \in Id \ issued, NEW row, users' = [users EXCEPT ![j] = row] PROVE FALSE
  BY <1>1, <1>2, <1>6 DEF TypeOK, Issued, Rows
<1>7. ASSUME NEW r \in Request, Insert(r) PROVE FALSE
  BY <1>6, <1>7 DEF Insert
<1>8. CASE Restart
  BY <1>2, <1>6, <1>8 DEF Restart
<1>9. ASSUME NEW r \in Request, CountRole(r) \/ ReadTarget(r) \/ Unassign(r) \/ Assign(r) \/ Abort(r)
      PROVE  FALSE
  BY <1>2, <1>9 DEF CountRole, ReadTarget, Unassign, Assign, Abort
<1>10. ASSUME NEW r \in Request, NEW k \in Kinds, NEW caller \in Id, Arrive(r, k, caller) PROVE FALSE
  BY <1>2, <1>10 DEF Arrive
<1> QED
  BY <1>2, <1>3, <1>4, <1>5, <1>7, <1>8, <1>9, <1>10 DEF Next, HandlerStep, vars

\* Nobody ends the own access, and administrators lose theirs to super admins only.
LEMMA EndedRightly ==
  ASSUME AdminInv, [Next]_vars, NEW i \in Id, LosesAccess(i)
  PROVE  \E r \in Request :
           /\ job[r].target = i /\ pc[r] \in {"write", "delete"} /\ pc'[r] = "done"
           /\ \A q \in Request \ {r} : pc'[q] = pc[q]
           /\ job[r].caller # i
           /\ users[i].role \in AdminRole =>
                job[r].callerRole = "super_admin" \/ (job[r].kind = "toggle" /\ MayToggle(job[r].callerRole))
           /\ \A j \in Id \ {i} : users'[j] = users[j]
<1>1. PICK r \in Request :
        /\ job[r].target = i /\ pc'[r] = "done" /\ \A q \in Request \ {r} : pc'[q] = pc[q]
        /\ \/ pc[r] = "write" /\ job[r].kind = "toggle" /\ seen[r]
           \/ pc[r] = "delete"
        /\ \A j \in Id \ {i} : users'[j] = users[j]
  BY EndedByOne
<1>2. Checked(r) /\ Exists(i)
  BY DEF AdminInv, LosesAccess
<1> QED
  BY <1>1, <1>2 DEF Checked, EndsAdmin

---------------------------------------------------------------------------
(* The properties *)

\* However the requests of several administrators overlap, nobody ends the own access
\* and administrators lose theirs to super admins only.
THEOREM EndsAreAlwaysAllowed == Spec => EndsAreAllowed
<1>1. AdminInv /\ [Next]_vars =>
        [\A r \in Request : pc'[r] # pc[r] /\ pc[r] \in {"write", "delete"} => ~LosesAccess(job[r].caller)]_vars
  <2> SUFFICES ASSUME AdminInv, [Next]_vars, NEW r \in Request, pc'[r] # pc[r], pc[r] \in {"write", "delete"},
                      LosesAccess(job[r].caller)
               PROVE  FALSE
    OBVIOUS
  <2>1. job[r].caller \in Id
    BY Target DEF AdminInv
  <2>2. PICK q \in Request : job[q].caller # job[r].caller /\ \A p \in Request \ {q} : pc'[p] = pc[p]
    BY <2>1, EndedRightly
  <2> QED
    BY <2>2
<1>2. AdminInv /\ [Next]_vars =>
        [\A i \in Id : Exists(i) /\ users[i].role \in AdminRole /\ LosesAccess(i)
           => \E r \in Request :
                /\ pc[r] \in {"write", "delete"} /\ pc'[r] = "done" /\ job[r].target = i
                /\ \/ job[r].callerRole = "super_admin"
                   \/ /\ job[r].kind = "toggle" /\ job[r].callerRole \in Variant
                      /\ Normalized(job[r].callerRole) \in AdminRole]_vars
  BY EndedRightly DEF MayToggle
<1> QED
  BY <1>1, <1>2, AdminInvariant, PTL DEF Spec, EndsAreAllowed, SelfNeverLocksOut, OnlySuperAdminsEndAdmins

\* The last super admin falls to another one that has itself been ended since, or to a
\* caller the services take for no administrator.
THEOREM LastSuperAdminAlwaysByRace == Spec => LastSuperAdminOnlyByRace
<1>1. AdminInv /\ [Next]_vars =>
        [ActiveSuperAdmins # {} /\ ActiveSuperAdmins' = {}
           => \E r \in Request :
                /\ pc[r] \in {"write", "delete"} /\ pc'[r] = "done"
                /\ \/ /\ job[r].callerRole = "super_admin"
                      /\ Exists(job[r].caller) => ~users[job[r].caller].isActive
                   \/ job[r].kind = "toggle" /\ job[r].callerRole \in Variant]_vars
  <2> SUFFICES ASSUME AdminInv, [Next]_vars, NEW i \in ActiveSuperAdmins, ActiveSuperAdmins' = {}
               PROVE  \E r \in Request :
                        /\ pc[r] \in {"write", "delete"} /\ pc'[r] = "done"
                        /\ \/ /\ job[r].callerRole = "super_admin"
                              /\ Exists(job[r].caller) => ~users[job[r].caller].isActive
                           \/ job[r].kind = "toggle" /\ job[r].callerRole \in Variant
    OBVIOUS
  <2>0. RolesStay /\ Rows \subseteq issued
    BY RolesKept DEF AdminInv, Issued
  <2>1. ASSUME NEW j \in ActiveSuperAdmins PROVE j \in Id /\ LosesAccess(j) /\ users[j].role = "super_admin"
    BY <2>0, <2>1 DEF ActiveSuperAdmins, WithRole, Rows, RolesStay, LosesAccess
  <2>2. PICK r \in Request :
          /\ pc[r] \in {"write", "delete"} /\ pc'[r] = "done" /\ job[r].caller # i
          /\ job[r].callerRole = "super_admin" \/ (job[r].kind = "toggle" /\ MayToggle(job[r].callerRole))
          /\ \A j \in Id \ {i} : users'[j] = users[j]
    BY <2>1, EndedRightly DEF AdminRole
  <2>3. job[r].caller \notin ActiveSuperAdmins
    BY <2>1, <2>2 DEF LosesAccess, Exists
  <2>4. CASE job[r].callerRole = "super_admin"
    <3>1. Exists(job[r].caller) => users[job[r].caller].role = "super_admin"
      BY <2>2, <2>4 DEF AdminInv, CallersKept
    <3>2. job[r].caller \in Id
      BY Target DEF AdminInv
    <3> QED
      BY <2>2, <2>3, <2>4, <3>1, <3>2 DEF ActiveSuperAdmins, WithRole, Rows
  <2> QED
    BY <2>2, <2>4 DEF MayToggle
<1> QED
  BY <1>1, AdminInvariant, PTL DEF Spec, LastSuperAdminOnlyByRace

---------------------------------------------------------------------------
(* The quota *)

\* Of a role whose creations have not overlapped, at most one request is between its
\* count and its insert, and there is room for it.
Room(role) ==
  role \notin overlapped =>
    /\ Cardinality(WithRole(role)) <= Limit[role]
    /\ Creating(role) # {} => Cardinality(WithRole(role)) < Limit[role]
    /\ \A p, q \in Creating(role) : p = q

LEMMA OneMore ==
  ASSUME NEW S, IsFiniteSet(S), NEW T, NEW x, T \subseteq S \cup {x}
  PROVE  Cardinality(T) \in Nat /\ Cardinality(T) <= Cardinality(S) + 1
<1>1. IsFiniteSet(S \cup {x}) /\ Cardinality(S) \in Nat
  BY FS_AddElement, FS_CardinalityType
<1>2. Cardinality(S \cup {x}) = Cardinality(S) \/ Cardinality(S \cup {x}) = Cardinality(S) + 1
  BY FS_AddElement
<1>3. Cardinality(T) \in Nat /\ Cardinality(T) <= Cardinality(S \cup {x})
  BY <1>1, FS_Subset, FS_CardinalityType
<1> QED
  BY <1>1, <1>2, <1>3

LEMMA RolesAreFinite ==
  ASSUME NEW role
  PROVE  IsFiniteSet(WithRole(role)) /\ Cardinality(WithRole(role)) \in Nat
<1>1. WithRole(role) \subseteq Id
  BY DEF WithRole, Rows
<1> QED
  BY <1>1, UserAdminAssumption, FS_Subset, FS_CardinalityType

\* The count finds every account with exactly the word, and may find more.
LEMMA MoreAreCounted ==
  ASSUME NEW role \in AdminRole
  PROVE  Cardinality(Counted(role)) \in Nat /\ Cardinality(WithRole(role)) <= Cardinality(Counted(role))
<1>1. WithRole(role) \subseteq Counted(role)
  BY DEF WithRole, Counted, Matched, AdminRole, Role
<1>2. Counted(role) \subseteq Id
  BY DEF Counted, Rows
<1> QED
  BY <1>1, <1>2, UserAdminAssumption, FS_Subset, FS_CardinalityType

\* Without a new creation and without a new row there is still room.
LEMMA RoomStays ==
  ASSUME NEW role \in AdminRole, Room(role), overlapped \subseteq overlapped',
         Creating(role)' \subseteq Creating(role), WithRole(role)' \subseteq WithRole(role)
  PROVE  Room(role)'
<1>1. Limit[role] \in Nat
  BY UserAdminAssumption
<1>2. Cardinality(WithRole(role)') <= Cardinality(WithRole(role)) /\ Cardinality(WithRole(role)') \in Nat
  BY RolesAreFinite, FS_Subset, FS_CardinalityType
<1> QED
  BY <1>1, <1>2, RolesAreFinite DEF Room

LEMMA RoomStep ==
  ASSUME AdminInv, [Next]_vars, NEW role \in AdminRole, Room(role)
  PROVE  Room(role)'
<1> USE DEF AdminInv
<1>0. Limit[role] \in Nat \ {0} /\ Limit'[role] = Limit[role]
  BY UserAdminAssumption
<1>1. ASSUME NEW r \in Request, NEW k \in Kinds, NEW caller \in Id, Arrive(r, k, caller) PROVE Room(role)'
  <2>1. PICK j \in Requests(k, caller) :
          /\ job' = [job EXCEPT ![r] = j] /\ pc[r] = "idle"
          /\ pc' = [pc EXCEPT ![r] = IF k # "create" THEN "read" ELSE IF j.role \in AdminRole THEN "count" ELSE "insert"]
    BY <1>1 DEF Arrive, Step
  <2>2. Creating(role)' \subseteq Creating(role)
    BY <2>1 DEF Creating, TypeOK
  <2>3. WithRole(role)' \subseteq WithRole(role)
    BY <1>1 DEF Arrive, WithRole, Rows, Exists
  <2> QED
    BY <1>1, <2>2, <2>3, RoomStays DEF Arrive
<1>2. ASSUME NEW r \in Request, CountRole(r) PROVE Room(role)'
  <2>1. UNCHANGED <<users, job>> /\ WithRole(role)' = WithRole(role) /\ overlapped \subseteq overlapped'
    BY <1>2 DEF CountRole, WithRole, Rows, Exists
  <2>2. CASE job[r].role = role /\ ~LimitReached(role)
    <3>1. Cardinality(WithRole(role)) < Limit[role]
      BY <1>0, <2>2, MoreAreCounted, RolesAreFinite DEF LimitReached
    <3>2. Creating(role)' \subseteq Creating(role) \cup {r}
      BY <1>2, <2>1 DEF CountRole, Step, Creating, TypeOK
    <3>3. role \notin overlapped' => Creating(role) = {}
      BY <1>2, <2>2 DEF CountRole
    <3> QED
      BY <1>0, <2>1, <3>1, <3>2, <3>3, RolesAreFinite DEF Room
  <2>3. CASE job[r].role # role \/ LimitReached(role)
    <3>1. Creating(role)' \subseteq Creating(role)
      BY <1>2, <2>1, <2>3 DEF CountRole, Step, Creating, TypeOK
    <3> QED
      BY <2>1, <3>1, RoomStays
  <2> QED
    BY <2>2, <2>3
<1>3. ASSUME NEW r \in Request, Insert(r) PROVE Room(role)'
  <2>1. PICK i \in Id \ issued : /\ users' = [users EXCEPT ![i] = NewRow(job[r].role)]
                                 /\ job' = [job EXCEPT ![r].target = i]
    BY <1>3 DEF Insert
  <2>2. UNCHANGED overlapped /\ pc[r] = "insert" /\ job[r] \in Job
    BY <1>3 DEF Insert, Step, TypeOK
  <2>3. Creating(role)' = Creating(role) \ {r}
    BY <1>3, <2>1, <2>2 DEF Insert, Step, Creating, TypeOK, Job
  <2>4. WithRole(role)' \subseteq WithRole(role) \cup (IF job[r].role = role THEN {i} ELSE {})
    BY <2>1 DEF WithRole, Rows, Exists, TypeOK, NewRow
  <2>5. CASE job[r].role # role
    BY <2>2, <2>3, <2>4, <2>5, RoomStays
  <2>6. CASE job[r].role = role
    <3>1. r \in Creating(role)
      BY <2>2, <2>6 DEF Creating
    <3>2. Cardinality(WithRole(role)') <= Cardinality(WithRole(role)) + 1 /\ Cardinality(WithRole(role)') \in Nat
      BY <2>4, <2>6, RolesAreFinite, OneMore
    <3>3. role \notin overlapped => Creating(role)' = {}
      BY <2>3, <3>1 DEF Room
    <3> QED
      BY <1>0, <2>2, <3>1, <3>2, <3>3, RolesAreFinite DEF Room
  <2> QED
    BY <2>5, <2>6
<1>4. ASSUME NEW r \in Request,
             \/ ToggleWrite(r) \/ ResetWrite(r) \/ ChangeWrite(r) \/ UpdateWrite(r) \/ ReadTarget(r)
             \/ Unassign(r) \/ Assign(r) \/ Delete(r) \/ Abort(r)
      PROVE  Room(role)'
  <2>1. UNCHANGED <<job, overlapped, issued>> /\ \A q \in Request : pc'[q] = "insert" => pc[q] = "insert"
    BY <1>4 DEF ToggleWrite, ResetWrite, ChangeWrite, UpdateWrite, WriteRow, ReadTarget, Unassign, Assign,
                Delete, Abort, Step, TypeOK
  <2>2. Creating(role)' \subseteq Creating(role)
    BY <2>1 DEF Creating
  <2>3. Rows' \subseteq Rows
    BY <1>4, Target DEF ToggleWrite, ResetWrite, ChangeWrite, UpdateWrite, WriteRow, ReadTarget, Unassign, Assign,
                Delete, Abort, TypeOK, Rows, Exists
  <2>4. WithRole(role)' \subseteq WithRole(role)
    BY <2>1, <2>3, RolesKept DEF WithRole, Rows, RolesStay, Issued
  <2> QED
    BY <2>1, <2>2, <2>4, RoomStays
<1>5. CASE Restart
  <2>1. Creating(role)' = {} /\ UNCHANGED overlapped
    BY <1>5 DEF Restart, Creating, Steps, TypeOK
  <2>2. CASE UNCHANGED users
    BY <2>1, <2>2, RoomStays DEF WithRole, Rows, Exists
  <2>3. ASSUME NEW i \in Id, Rows = {}, users' = [users EXCEPT ![i] = NewRow("super_admin")] PROVE Room(role)'
    <3>1. WithRole(role)' \subseteq {} \cup {i}
      BY <2>3 DEF WithRole, Rows, Exists, TypeOK
    <3>2. Cardinality(WithRole(role)') <= 1 /\ Cardinality(WithRole(role)') \in Nat
      <4>1. IsFiniteSet({}) /\ Cardinality({}) = 0
        BY FS_EmptySet
      <4>2. Cardinality(WithRole(role)') \in Nat /\ Cardinality(WithRole(role)') <= Cardinality({}) + 1
        BY <3>1, <4>1, OneMore
      <4> QED
        BY <4>1, <4>2
    <3> QED
      BY <1>0, <2>1, <3>2 DEF Room
  <2> QED
    BY <1>5, <2>2, <2>3 DEF Restart
<1>6. CASE UNCHANGED vars
  <2>1. Creating(role)' = Creating(role) /\ WithRole(role)' = WithRole(role) /\ UNCHANGED overlapped
    BY <1>6 DEF vars, Creating, WithRole, Rows, Exists
  <2> QED
    BY <2>1, RoomStays
<1> QED
  BY <1>1, <1>2, <1>3, <1>4, <1>5, <1>6 DEF Next, HandlerStep

\* Accounts are well typed, the quotas hold but for overlapping creations, and who is
\* asked to change the password has the default one.
THEOREM AccountsAreAlwaysSound == Spec => []AccountsAreSound
<1>1. Init => \A role \in AdminRole : Room(role)
  BY DEF Init, Room, Creating
<1>2. AdminInv /\ (\A role \in AdminRole : Room(role)) /\ [Next]_vars => (\A role \in AdminRole : Room(role))'
  BY RoomStep
<1>3. AdminInv /\ (\A role \in AdminRole : Room(role)) => AccountsAreSound
  BY DEF AdminInv, Room, AccountsAreSound, QuotaUnlessOverlap
<1> QED
  BY <1>1, <1>2, <1>3, AdminInvariant, PTL DEF Spec

=============================================================================
