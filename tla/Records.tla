------------------------------- MODULE Records ------------------------------
(***************************************************************************)
(* Three pages that list rows and write them: NoticesPage,                  *)
(* CustomerSupportLogsPage and CustomerMeetingMinutesPage, of one customer,  *)
(* over the services of the same names. All three await the write, close     *)
(* their dialog and load the list anew. With one customer a page is left and  *)
(* opened again or stays; that the bell leads from the support logs of one    *)
(* customer to another's in the same mounted page, where the answer of a      *)
(* delete loads the former customer's list, is not modelled.                 *)
(*                                                                          *)
(* Of a row the model keeps one mark: actionStatus of a support log, which   *)
(* version of the text it is for the others. What a dialog holds is chosen   *)
(* when it is submitted. Looking at a row and exporting keep no state.       *)
(***************************************************************************)
EXTENDS Naturals, FiniteSets

CONSTANTS
  Page,       \* pages that may be on display, each in some browser
  Scenarios,  \* what happens how often, in one behaviour
  none

VARIABLES
  scenario,   \* chosen once
  rows,       \* per kind of page: its table
  lastRow,    \* ids given so far
  views,      \* user_notice_views of the one reader of Popups
  pages,      \* the pages; upto, acked, lag and crowded are history
  calls,      \* writes on their way
  loads,      \* lists being loaded
  written,    \* history: writes stored so far, per kind
  count       \* history: how often each kind of step was taken

tables == <<rows, lastRow, views, written>>
lists == <<pages, calls, loads>>

Kind == {"notice", "support", "minutes"}
Pending == <<"open", "impossible", "held">>
Status == {Pending[i] : i \in 1 .. 3}
Mark == Status \cup {"done"}
Row == [id : Nat \ {0}, mark : Mark]

Steps == {"opens", "leaves", "writes", "fails", "filters", "moves", "enters", "dialogs", "closes", "changes"}
Once(c) == count[c] < scenario[c] /\ count' = [count EXCEPT ![c] = @ + 1]

ASSUME RecordsAssumption ==
  /\ Scenarios \subseteq [opens : Nat, leaves : Nat, writes : Nat, fails : Nat, filters : Nat, moves : Nat,
                          enters : Nat, dialogs : Nat, closes : Nat, changes : Nat, kinds : SUBSET Kind,
                          filled : SUBSET Kind, marks : SUBSET Mark, bell : BOOLEAN, role : {"admin", "user"}]
  /\ none \notin Row \cup Kind

Display == [kind : Kind \cup {none}, mount : Nat, list : SUBSET Row, table : SUBSET Row, filter : Mark \cup {""},
            chosen : Row \cup {none}, dialog : {"none", "menu", "create", "edit"},
            upto : Nat, acked : Nat, lag : BOOLEAN, crowded : BOOLEAN]
Call == [n : Nat, page : Page, kind : Kind, mount : Nat, op : {"create", "edit", "delete"}, id : Nat, mark : Mark,
         at : Nat, step : {"sent", "found", "written", "failed"}]
Load == [page : Page, kind : Kind, mount : Nat, call : Nat, at : Nat, upto : Nat, got : SUBSET Row,
         step : {"asked", "answered"}]

RecordsOK ==
  /\ scenario \in Scenarios
  /\ rows \in [Kind -> SUBSET Row] /\ lastRow \in Nat /\ views \subseteq {r.id : r \in rows["notice"]}
  /\ \A k \in Kind : IsFiniteSet(rows[k]) /\ \A r, q \in rows[k] : r.id = q.id => r = q
  /\ written \in [Kind -> Nat] /\ count \in [Steps -> Nat]
  /\ pages \in [Page -> Display] /\ calls \subseteq Call /\ loads \subseteq Load
  /\ \A p \in Page : pages[p].table \in {pages[p].list, {r \in pages[p].list : r.mark = pages[p].filter}}

Blank == [kind |-> none, mount |-> 0, list |-> {}, table |-> {}, filter |-> "", chosen |-> none, dialog |-> "none",
          upto |-> 0, acked |-> 0, lag |-> TRUE, crowded |-> FALSE]

\* One notice, one support log, or neither.
RecordsInit ==
  /\ scenario \in Scenarios
  /\ rows = [k \in Kind |-> IF k \in scenario.filled THEN {[id |-> 1, mark |-> "open"]} ELSE {}]
  /\ lastRow = 1 /\ views = {}
  /\ pages = [p \in Page |-> Blank] /\ calls = {} /\ loads = {}
  /\ written = [k \in Kind |-> 0] /\ count = [c \in Steps |-> 0]

Fetch(p, kind, mount, call, at) ==
  [page |-> p, kind |-> kind, mount |-> mount, call |-> call, at |-> at,
   upto |-> written[kind], got |-> {}, step |-> "asked"]
Live(x) == pages[x.page].kind # none /\ pages[x.page].mount = x.mount
Loading(p) == \E l \in loads : l.page = p /\ Live(l)

---------------------------------------------------------------------------
(* The pages *)

OpenPage(p, k) ==
  /\ pages[p].kind = none /\ k \in scenario.kinds /\ Once("opens")
  /\ pages' = [pages EXCEPT ![p] = [Blank EXCEPT !.kind = k, !.mount = pages[p].mount + 1]]
  /\ loads' = loads \cup {Fetch(p, k, pages[p].mount + 1, 0, 0)}
  /\ UNCHANGED <<scenario, tables, calls>>

\* A handler that awaits goes on without the page; the answer of a mere load is not taken.
LeavePage(p) ==
  /\ pages[p].kind # none /\ Once("leaves")
  /\ loads' = {l \in loads : l.page # p \/ l.call # 0}
  /\ pages' = [pages EXCEPT ![p] = [Blank EXCEPT !.mount = pages[p].mount]]
  /\ UNCHANGED <<scenario, tables, calls>>

\* Bound: dialogs are opened as long as there are writes left.
MayWrite == count["writes"] < scenario["writes"]
Turns(p, g) == pages' = [pages EXCEPT ![p] = g] /\ UNCHANGED <<scenario, tables, calls, loads, count>>

handleAddClick(p) ==
  /\ MayWrite /\ pages[p].kind # none /\ pages[p].dialog = "none"
  /\ Turns(p, [pages[p] EXCEPT !.dialog = "create"])

handleEditClick(p, r) ==
  /\ MayWrite /\ pages[p].kind \in {"support", "minutes"} /\ pages[p].dialog = "none"
  /\ Turns(p, [pages[p] EXCEPT !.dialog = "edit", !.chosen = r])

\* Notices are edited and removed from a menu or from the dialog that shows one.
handleMenuOpen(p, r) ==
  /\ MayWrite /\ pages[p].kind = "notice" /\ pages[p].dialog = "none"
  /\ Turns(p, [pages[p] EXCEPT !.dialog = "menu", !.chosen = r])
handleOpenEditDialog(p) ==
  /\ pages[p].dialog = "menu" /\ pages[p].chosen # none
  /\ Turns(p, [pages[p] EXCEPT !.dialog = "edit"])

CloseDialog(p) ==
  /\ pages[p].dialog # "none"
  /\ Turns(p, [pages[p] EXCEPT !.dialog = "none",
                               !.chosen = IF pages[p].kind = "notice" /\ pages[p].dialog = "edit" THEN none ELSE @])

\* Only the support logs have filters. A reload undoes the filter and leaves its field.
handleApplyFilter(p, m) ==
  /\ pages[p].kind = "support" /\ pages[p].dialog = "none" /\ Once("filters")
  /\ pages' = [pages EXCEPT ![p] = [@ EXCEPT !.filter = m, !.table = {r \in pages[p].list : r.mark = m}]]
  /\ UNCHANGED <<scenario, tables, calls, loads>>
handleResetFilter(p) ==
  /\ pages[p].filter # "" /\ pages[p].dialog = "none"
  /\ Turns(p, [pages[p] EXCEPT !.filter = "", !.table = pages[p].list])

Sends(p, op, id, m) ==
  /\ Once("writes")
  /\ calls' = calls \cup {[n |-> count'["writes"], page |-> p, kind |-> pages[p].kind, mount |-> pages[p].mount,
                           op |-> op, id |-> id, mark |-> m, at |-> 0, step |-> "sent"]}
  /\ UNCHANGED <<scenario, tables, loads>>

\* The buttons stay enabled: a second click sends a second call.
handleCreate(p, m) ==
  /\ pages[p].dialog = "create" /\ Sends(p, "create", 0, m) /\ UNCHANGED pages
handleUpdate(p, m) ==
  /\ pages[p].dialog = "edit" /\ pages[p].chosen # none
  /\ Sends(p, "edit", pages[p].chosen.id, m) /\ UNCHANGED pages

\* The dialog that shows a notice is closed first, the menu stays.
handleDelete(p, r) ==
  /\ IF pages[p].kind = "notice"
     THEN /\ pages[p].dialog = "menu" /\ r = pages[p].chosen
          /\ \E d \in {"menu", "none"} : pages' = [pages EXCEPT ![p].dialog = d]
     ELSE pages[p].dialog = "none" /\ UNCHANGED pages
  /\ Sends(p, "delete", r.id, r.mark)

\* The answer of a write: the dialog it came from is closed, whatever it shows by now, and the list is loaded.
CallAnswered(c) ==
  /\ c.step = "written" /\ calls' = calls \ {c}
  /\ pages' = IF ~Live(c) THEN pages ELSE
       [pages EXCEPT ![c.page] =
          [pages[c.page] EXCEPT
                    !.dialog = IF @ = c.op \/ (c.op = "delete" /\ @ = "menu") THEN "none" ELSE @,
                    !.chosen = IF c.kind = "notice" /\ c.op # "create" THEN none ELSE @,
                    !.acked = IF c.at > @ THEN c.at ELSE @,
                    !.crowded = @ \/ Loading(c.page)]]
  /\ loads' = loads \cup {Fetch(c.page, c.kind, c.mount, c.n, c.at)}
  /\ UNCHANGED <<scenario, tables, count>>

\* A message only: nothing is loaded, though the row may have been written.
CallFailed(c) ==
  /\ c.step = "failed" /\ calls' = calls \ {c}
  /\ UNCHANGED <<scenario, tables, pages, loads, count>>

LoadAnswered(l) ==
  /\ l.step = "answered" /\ loads' = loads \ {l}
  /\ pages' = IF Live(l) THEN [pages EXCEPT ![l.page] = [@ EXCEPT !.list = l.got, !.table = l.got, !.upto = l.upto, !.lag = FALSE]]
                         ELSE pages
  /\ UNCHANGED <<scenario, tables, calls, count>>

LoadFailed(l) ==
  /\ Once("fails") /\ loads' = loads \ {l}
  /\ pages' = IF Live(l) THEN [pages EXCEPT ![l.page].lag = TRUE] ELSE pages
  /\ UNCHANGED <<scenario, tables, calls>>

---------------------------------------------------------------------------
(* The services *)

Goes(c, d) == calls' = (calls \ {c}) \cup {d} /\ UNCHANGED <<scenario, pages, loads>>
Kept(kind, id) == \E r \in rows[kind] : r.id = id

Stores(c, table) ==
  /\ rows' = [rows EXCEPT ![c.kind] = table] /\ written' = [written EXCEPT ![c.kind] = @ + 1]
  /\ Goes(c, [c EXCEPT !.step = "written", !.at = written[c.kind] + 1]) /\ UNCHANGED count

Created(c) ==
  /\ c.op = "create" /\ c.step = "sent" /\ lastRow' = lastRow + 1
  /\ Stores(c, rows[c.kind] \cup {[id |-> lastRow + 1, mark |-> c.mark]}) /\ UNCHANGED views

Found(c) ==
  /\ c.op # "create" /\ c.step = "sent"
  /\ Goes(c, [c EXCEPT !.step = IF Kept(c.kind, c.id) THEN "found" ELSE "failed"]) /\ UNCHANGED <<tables, count>>

Updated(c) ==
  /\ c.op = "edit" /\ c.step = "found" /\ Kept(c.kind, c.id)
  /\ Stores(c, {IF r.id = c.id THEN [r EXCEPT !.mark = c.mark] ELSE r : r \in rows[c.kind]})
  /\ UNCHANGED <<lastRow, views>>

\* Views go with their notice.
Removed(c) ==
  /\ c.op = "delete" /\ c.step = "found" /\ Kept(c.kind, c.id)
  /\ Stores(c, {r \in rows[c.kind] : r.id # c.id})
  /\ views' = IF c.kind = "notice" THEN views \ {c.id} ELSE views
  /\ UNCHANGED lastRow

\* The row went between the two queries.
Overtaken(c) ==
  /\ c.step = "found" /\ ~Kept(c.kind, c.id)
  /\ Goes(c, [c EXCEPT !.step = "failed"]) /\ UNCHANGED <<tables, count>>

\* The call is lost before the service, or its log entry or its answer after the write.
CallBreaks(c) ==
  /\ c.step \in {"sent", "written"} /\ Once("fails")
  /\ Goes(c, [c EXCEPT !.step = "failed"]) /\ UNCHANGED tables

findAll(l) ==
  /\ l.step = "asked"
  /\ loads' = (loads \ {l}) \cup {[l EXCEPT !.step = "answered", !.got = rows[l.kind]]}
  /\ UNCHANGED <<scenario, tables, pages, calls, count>>

---------------------------------------------------------------------------
(* Properties *)

AtRest(p) == ~Loading(p) /\ ~\E c \in calls : c.page = p /\ Live(c)

\* A page at rest shows every write it was told had succeeded, and when nobody has written
\* since it was read, exactly the rows: unless its last load failed or loads overlapped,
\* for then the older answer may come last.
ListsShowAcked ==
  \A p \in Page :
    LET g == pages[p] IN
      g.kind # none /\ AtRest(p) /\ ~g.lag /\ ~g.crowded =>
        /\ g.acked <= g.upto
        /\ g.upto = written[g.kind] => g.list = rows[g.kind]

=============================================================================
