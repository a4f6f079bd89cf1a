------------------------------- MODULE MCAuth ------------------------------
(* Values of the constants of Auth for TLC. *)
EXTENDS Auth, FiniteSets, TLC

\* Settings rows: limits, lock times (in ticks) and the two switches.
Row(prevent, enabled, limit, lock) ==
  [preventDuplicateLogin |-> prevent, loginFailureLimitEnabled |-> enabled,
   loginFailureLimit |-> limit, accountLockMinutes |-> lock]

\* Either duplicate logins are prevented, or the administrator lowers or raises the limit
\* and the lock time.
Limits == {Row(FALSE, TRUE, 1, 1), Row(FALSE, TRUE, 2, 2)}
PreventedOrLimits == {Row(TRUE, TRUE, 2, 1)} \cup Limits
KeepsPrevention == settings'.preventDuplicateLogin = settings.preventDuplicateLogin
\* Sessions matter in the first case, in the second only logins, none of them forced.
LoginsUnderLimits ==
  settings \in Limits => \A r \in Request : pc[r] # "idle" => job[r].kind = "login" /\ ~job[r].force

\* Two accounts are at work beside each other with a login each.
Started == {r \in Request : pc[r] # "idle"}
AccountsBesideEachOther ==
  Cardinality({job[r].user : r \in Started}) > 1 => settings \notin Limits /\ Cardinality(Started) = 2
IdleAccountsStay ==
  \A u \in User : u \in {job[r].user : r \in Started} \/ (users[u].isActive /\ u \notin removed)
FewAtOnce == IdleAccountsStay /\ LoginsUnderLimits /\ AccountsBesideEachOther

\* The administrator turns the prevention of duplicate logins on and off.
Toggled == {Row(TRUE, TRUE, 1, 1), Row(FALSE, TRUE, 1, 1)}

Symmetry == Permutations(Request) \cup Permutations(User)

============================================================================
