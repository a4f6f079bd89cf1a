---------------------------- MODULE MCDocuments -----------------------------
(* Bounds and symmetry of the constants of Documents for TLC. *)
EXTENDS Documents, TLC

Symmetry == Permutations(Request) \cup Permutations(Key)

\* Forms are loaded while the date is the first one, and do not outlive the customer's
\* row: a later date, or none, puts nothing older back.
OldForms == forms \subseteq {1} /\ (forms = {} \/ customer.exists)

============================================================================
