----------------------------- MODULE MCCustomers ----------------------------
(* Values of the constants of Customers for TLC. *)
EXTENDS Customers

None == [opens |-> 0, edits |-> 0, saves |-> 0, adds |-> 0, removals |-> 0, news |-> 0, uploads |-> 0,
         deletes |-> 0, fails |-> FALSE, before |-> 0, templates |-> 0, downloads |-> 0, foreign |-> 0]

\* Two forms over one row, with a report and a new customer in between.
Forms == [None EXCEPT !.opens = 4, !.edits = 2, !.saves = 2, !.uploads = 1, !.news = 1]
\* One form, twice saved, with answers that are lost.
Lost == [None EXCEPT !.opens = 3, !.edits = 2, !.saves = 2, !.fails = TRUE]
\* Targets added on one page or two, and removed.
Adding == [None EXCEPT !.opens = 4, !.adds = 2]
Dropping == [None EXCEPT !.opens = 2, !.adds = 2, !.removals = 1, !.edits = 1, !.saves = 1]
\* The customer is removed meanwhile.
Ending == [None EXCEPT !.opens = 4, !.adds = 1, !.saves = 1, !.deletes = 1]
\* Templates of two targets; of a renamed customer; of targets that are removed.
Filing == [None EXCEPT !.before = 2, !.templates = 2, !.downloads = 1, !.fails = TRUE]
Refiling == [None EXCEPT !.before = 1, !.templates = 3, !.downloads = 1]
Renaming == [None EXCEPT !.opens = 2, !.before = 1, !.edits = 1, !.saves = 1, !.news = 1, !.templates = 1,
                         !.downloads = 1, !.foreign = 1]
Removing == [None EXCEPT !.opens = 2, !.before = 1, !.removals = 1, !.templates = 2]
\* The name of the removed customer is used again.
Succeeding == [None EXCEPT !.opens = 2, !.before = 1, !.deletes = 1, !.news = 1, !.templates = 1,
                           !.downloads = 1, !.foreign = 1]

All == {Forms, Lost, Adding, Dropping, Ending, Filing, Refiling, Renaming, Removing, Succeeding}

=============================================================================
