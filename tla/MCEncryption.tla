---------------------------- MODULE MCEncryption ----------------------------
(* Values of the constants of Encryption for TLC. *)
EXTENDS Encryption, TLC

Symmetry == Permutations(Tab) \cup Permutations(Key)

None == [opens |-> 0, edits |-> 0, saves |-> 0, removals |-> 0, migrations |-> 0, crashes |-> 0, keys |-> 0,
         settings |-> 0, exports |-> 0, supports |-> 0, fails |-> FALSE, row |-> TRUE]

\* Two tabs save over one row, which may come and go.
Saving == [None EXCEPT !.opens = 2, !.edits = 2, !.saves = 2, !.removals = 1]
Failing == [None EXCEPT !.opens = 2, !.edits = 1, !.saves = 2, !.fails = TRUE]
\* The script under saves, broken off and run again.
Migrating == [None EXCEPT !.opens = 2, !.edits = 1, !.saves = 2, !.migrations = 3, !.crashes = 1]
SavingSettings == [None EXCEPT !.migrations = 2, !.crashes = 1, !.settings = 3, !.fails = TRUE]
\* Another key in between.
Rekeying == [None EXCEPT !.opens = 1, !.edits = 1, !.saves = 1, !.migrations = 1, !.keys = 1, !.exports = 1]
Exporting == [None EXCEPT !.exports = 2, !.supports = 1, !.removals = 1, !.fails = TRUE]

All == {Saving, Failing, Migrating, SavingSettings, Rekeying, Exporting}

=============================================================================
