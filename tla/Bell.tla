-------------------------------- MODULE Bell --------------------------------
(***************************************************************************)
(* NotificationBell.tsx: how many support logs are pending, read by         *)
(* getPendingNotifications in one query per status, kept by react-query and  *)
(* read again every minute and after each write of this browser's pages.     *)
(* Modelled for one customer, whom the user may look after or not.           *)
(***************************************************************************)
EXTENDS Records

CONSTANT Mine  \* the pages of the bell's own browser

VARIABLES
  assigned,  \* the user looks after the customer
  bell,      \* what is shown; known: there has been an answer; upto, lag and absorbed are history
  query,     \* the fetch at work, or none
  told       \* history: the latest of the writes the bell was told of

ring == <<assigned, bell, query, told>>

Zero == [s \in Status |-> 0]
Fresh == [step |-> 0, counts |-> Zero, tries |-> 0, upto |-> written["support"]]

Query == [step : 0 .. 4, counts : [Status -> Nat], tries : 0 .. 1, upto : Nat]

ASSUME BellAssumption == none \notin Query

BellOK ==
  /\ assigned \in BOOLEAN /\ told \in Nat /\ query \in Query \cup {none}
  /\ bell \in [counts : [Status -> Nat], known : BOOLEAN, upto : Nat, lag : BOOLEAN, absorbed : BOOLEAN]

BellInit ==
  /\ assigned \in (IF scenario.moves > 0 THEN BOOLEAN ELSE {TRUE})
  /\ bell = [counts |-> Zero, known |-> FALSE, upto |-> 0, lag |-> FALSE, absorbed |-> FALSE]
  /\ query = (IF scenario.bell THEN Fresh ELSE none) /\ told = 0

Number(s) == Cardinality({r \in rows["support"] : r.mark = s})
Seen == scenario.role # "user" \/ assigned

Still == UNCHANGED <<scenario, tables, lists>>

\* The customer's staff is changed.
Reassigned ==
  /\ scenario.role = "user" /\ Once("moves") /\ assigned' = ~assigned
  /\ written' = [written EXCEPT !["support"] = @ + 1]
  /\ UNCHANGED <<scenario, rows, lastRow, views, lists, bell, query, told>>

\* The service: whose customers, then one query per status.
ReadAssigned ==
  /\ query # none /\ query.step = 0
  /\ query' = [query EXCEPT !.step = IF Seen THEN 1 ELSE 4]
  /\ UNCHANGED <<assigned, bell, told, count>> /\ Still

ReadStatus ==
  /\ query # none /\ query.step \in 1 .. 3
  /\ query' = [query EXCEPT !.step = @ + 1, !.counts[Pending[query.step]] = Number(Pending[query.step])]
  /\ UNCHANGED <<assigned, bell, told, count>> /\ Still

BellAnswered ==
  /\ query # none /\ query.step = 4 /\ query' = none
  /\ bell' = [bell EXCEPT !.counts = query.counts, !.known = TRUE, !.upto = query.upto, !.lag = FALSE]
  /\ UNCHANGED <<assigned, told, count>> /\ Still

\* One more try, then the old numbers stay.
BellFailed ==
  /\ query # none /\ Once("fails")
  /\ IF query.tries = 0
     THEN query' = [Fresh EXCEPT !.tries = 1] /\ UNCHANGED bell
     ELSE query' = none /\ bell' = [bell EXCEPT !.lag = TRUE]
  /\ UNCHANGED <<assigned, told>> /\ Still

Slip_Refetch ==  \* only as long as there is no answer
  /\ scenario.bell /\ query = none /\ ~bell.known /\ query' = Fresh
  /\ UNCHANGED <<assigned, bell, told, count>> /\ Still

\* Every minute.
Refetch ==
  /\ scenario.bell /\ query = none /\ query' = Fresh
  /\ bell' = [bell EXCEPT !.absorbed = FALSE]
  /\ UNCHANGED <<assigned, told, count>> /\ Still

\* react-query: a fetch at work is broken off for a new one, but the very first is waited for.
Invalidated ==
  IF ~scenario.bell THEN UNCHANGED <<query, bell>>
  ELSE IF query = none THEN query' = Fresh /\ bell' = [bell EXCEPT !.absorbed = FALSE]
  ELSE IF bell.known THEN query' = Fresh /\ UNCHANGED bell
  ELSE UNCHANGED query /\ bell' = [bell EXCEPT !.absorbed = TRUE]

Slip_Told(l) ==  \* not invalidated
  /\ told' = IF l.call # 0 /\ l.kind = "support" /\ l.page \in Mine /\ l.at > told THEN l.at ELSE told
  /\ UNCHANGED <<assigned, query, bell>>

\* The end of handleAdd, handleUpdate and handleDelete of CustomerSupportLogsPage, after
\* the list was loaded or failed to load, also when the page was left meanwhile.
Told(l) ==
  /\ UNCHANGED assigned
  /\ IF l.call # 0 /\ l.kind = "support" /\ l.page \in Mine
     THEN Invalidated /\ told' = IF l.at > told THEN l.at ELSE told
     ELSE UNCHANGED <<query, bell, told>>

---------------------------------------------------------------------------
(* Properties *)

Truth == [s \in Status |-> IF Seen THEN Number(s) ELSE 0]

\* A bell at rest has counted every write it was told of, and when nobody has written since
\* it began to count, it is right: unless its last fetch failed, or it was told while its
\* first fetch was at work.
BellShowsTold ==
  scenario.bell /\ query = none /\ bell.known /\ ~bell.lag =>
    /\ ~bell.absorbed => told <= bell.upto
    /\ bell.upto = written["support"] => bell.counts = Truth

\* In the end the bell is right, whoever wrote and whatever failed.
BellCatchesUp == scenario.bell => <>[](bell.counts = Truth)

=============================================================================
