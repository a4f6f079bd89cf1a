---------------------------- MODULE MCInspection ----------------------------
(* Values of the constants of Inspection for TLC. *)
EXTENDS Inspection, TLC

\* October 2024: the year turns after three months.
October == 2024 * 12 + 9

\* Two months of one quarterly pattern in each year, one outside of it, and the
\* month in which a half-yearly and a yearly inspection can be due.
Months == {October - 3, October, October + 1, October + 2, October + 3, October + 5}

\* The first and the last month, two that fit no quarterly table entry.
FourMonths == {1, 2, 8, 12}

Symmetry == Permutations(Target)

=============================================================================
