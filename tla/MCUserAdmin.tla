---------------------------- MODULE MCUserAdmin -----------------------------
(* Values of the constants of UserAdmin for TLC. *)
EXTENDS UserAdmin, TLC

TwoAndOne == [role \in AdminRole |-> IF role = "admin" THEN 1 ELSE 2]

\* Another case, read and found as the role; a blank in front, which only the guard removes.
ReadAs == "Super_Admin" :> "super_admin" @@ " admin" :> "admin"
FoundAs == "Super_Admin" :> "super_admin" @@ " admin" :> "none"

\* No property is about the assignments: one request at a time that makes any is enough.
OneAssigns == Cardinality({r \in Request : pc[r] # "idle" /\ job[r].list # {}}) <= 1

Symmetry == Permutations(Request) \cup Permutations(Id)

============================================================================
