------------------------------ MODULE MCOffice ------------------------------
(* Values of the constants of Office for TLC. *)
EXTENDS Office

None == [opens |-> 0, leaves |-> 0, writes |-> 0, fails |-> 0, filters |-> 0, moves |-> 0, enters |-> 0,
         dialogs |-> 0, closes |-> 0, changes |-> 0, kinds |-> {}, filled |-> {}, marks |-> {"open", "done"}, bell |-> FALSE, role |-> "admin"]

\* Two pages write the same table, or one page writes while it loads.
TwoPages == [None EXCEPT !.opens = 2, !.writes = 2, !.kinds = {"notice"}, !.filled = {"notice"}, !.marks = {"done"}]
OnePage == [None EXCEPT !.opens = 1, !.writes = 2, !.kinds = {"minutes"}, !.filled = {"minutes"}]
Failing == [None EXCEPT !.opens = 1, !.writes = 2, !.fails = 1, !.kinds = {"support"}, !.filled = {"support"}]
Filtering == [None EXCEPT !.opens = 1, !.writes = 1, !.filters = 2, !.kinds = {"support"}, !.filled = {"support"}]
\* The bell over the page of its own browser or of another.
Ringing == [None EXCEPT !.opens = 1, !.writes = 2, !.kinds = {"support"}, !.filled = {"support"}, !.marks = {"held"}, !.bell = TRUE]
Leaving == [None EXCEPT !.opens = 1, !.leaves = 1, !.writes = 1, !.fails = 1, !.kinds = {"support"}, !.filled = {"support"},
                        !.marks = {"impossible", "done"}, !.bell = TRUE]
Staffing == [None EXCEPT !.moves = 2, !.fails = 2, !.filled = {"support"}, !.bell = TRUE, !.role = "user"]
\* The popup in two tabs; notices come and go.
Reading == [None EXCEPT !.enters = 2, !.closes = 2, !.filled = {"notice"}]
Posting == [None EXCEPT !.enters = 1, !.closes = 1, !.opens = 1, !.writes = 1,
                        !.kinds = {"notice"}, !.filled = {"notice"}, !.marks = {"done"}]
Losing == [None EXCEPT !.enters = 1, !.dialogs = 1, !.closes = 2, !.fails = 1, !.filled = {"notice"}]
Changing == [None EXCEPT !.enters = 1, !.closes = 1, !.changes = 1, !.filled = {"notice"}]

All == {TwoPages, OnePage, Failing, Filtering, Ringing, Leaving, Staffing, Reading, Posting, Losing, Changing}

=============================================================================
