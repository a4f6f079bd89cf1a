---------------------------- MODULE CustomerEdit ----------------------------
(***************************************************************************)
(* CustomersPage, CustomerDetailPage and CustomerEditPage over              *)
(* CustomersService and InspectionTargetsService: a page loads the row into *)
(* a form, the whole form is saved, targets are added and removed on the    *)
(* way, and meanwhile other tabs and uploads write the same row.            *)
(*                                                                          *)
(* A tab shows one page at a time; every page that is opened is a new mount *)
(* with a load of its own, and an answer for an older mount is dropped.     *)
(***************************************************************************)
EXTENDS CustomerTables

CONSTANT Tab

VARIABLES
  tab,       \* what each tab shows
  loads,     \* GET /customers/:id on their way
  saves,     \* PATCH /customers/:id on their way
  calls,     \* POST and DELETE of targets and of the customer on their way
  counts,    \* history: how often each kind of step was taken
  hurried,   \* history: a target was removed, or added while the list on the screen could be old
  mismatch   \* history: a save lost what was typed, or, from a row nobody had written since,
             \* changed what was not

pages == <<tab, loads, saves, calls, counts, hurried, mismatch>>

\* By the cards of the page: texts, dates of the contract, the date that is only shown,
\* the staff.
FreeField == {"notes"}
DateField == {"start"}
Fixed == {"last"}
StaffField == {"engineer"}
Field == {"name"} \cup FreeField \cup DateField \cup Fixed \cup StaffField

\* The fields that are texts have '' where the row has null; the choice of an engineer has null.
Form == [name : Name, start : Day \cup {empty}, last : Day \cup {empty},
         engineer : Text \cup {none}, notes : Text \cup {empty}]
Blank == [name |-> CHOOSE n \in Name : TRUE, start |-> empty, last |-> empty, engineer |-> none, notes |-> empty]

Counts == {"opens", "edits", "saves", "adds", "removals", "news", "uploads", "deletes"}
Once(c) == counts[c] < scenario[c] /\ counts' = [counts EXCEPT ![c] = @ + 1]

PagesOK ==
  /\ \A t \in Tab :
       /\ tab[t].page \in {"list", "detail", "edit"} /\ tab[t].mount \in Nat
       /\ tab[t].customer \in Customer \cup {none} /\ tab[t].form \in Form /\ tab[t].touched \subseteq Field
       /\ tab[t].loading \in BOOLEAN /\ tab[t].saving \in BOOLEAN /\ tab[t].version \in Nat
       /\ IsFiniteSet(tab[t].list)
       /\ tab[t].touched # {} => tab[t].page = "edit" /\ tab[t].customer # none
  /\ \A l \in loads : l.tab \in Tab /\ l.mount <= tab[l.tab].mount /\ l.step \in {"sent", "answered"}
  /\ \A s \in saves : s.tab \in Tab /\ s.step \in {"sent", "found", "checked", "stored", "refused"}
  /\ \A c \in calls : c.tab \in Tab /\ c.step \in {"sent", "done", "refused"}
  /\ counts \in [Counts -> Nat] /\ hurried \in BOOLEAN /\ mismatch \in BOOLEAN

Closed == [page |-> "list", mount |-> 0, customer |-> none, version |-> 0, form |-> Blank, touched |-> {},
           loading |-> FALSE, saving |-> FALSE, list |-> {}]

PagesInit ==
  /\ tab = [t \in Tab |-> Closed]
  /\ loads = {} /\ saves = {} /\ calls = {}
  /\ counts = [c \in Counts |-> 0]
  /\ hurried = FALSE /\ mismatch = FALSE

Set(t, fields) == [tab EXCEPT ![t] = fields]

Load(t, m) == [tab |-> t, mount |-> m, step |-> "sent", customer |-> none, version |-> 0, list |-> {}]

\* A page is mounted and its effect loads; the list of customers needs no row.
Shows(t, page) ==
  /\ tab' = Set(t, [Closed EXCEPT !.page = page, !.mount = tab[t].mount + 1, !.loading = page # "list"])
  /\ loads' = IF page = "list" THEN loads ELSE loads \cup {Load(t, tab[t].mount + 1)}

Ready(t) == tab[t].page = "edit" /\ ~tab[t].loading /\ tab[t].customer # none

---------------------------------------------------------------------------
(* The pages *)

\* A row of the list, or what a finished save and "cancel" lead to.
OpenDetail(t) ==
  /\ tab[t].page \in {"list", "edit"} /\ Once("opens")
  /\ Shows(t, "detail")
  /\ hurried' = (hurried \/ calls # {})
  /\ UNCHANGED <<scenario, tables, saves, calls, mismatch>>

OpenEdit(t) ==
  /\ tab[t].page = "detail" /\ tab[t].customer # none /\ Once("opens")
  /\ Shows(t, "edit")
  /\ hurried' = (hurried \/ calls # {})
  /\ UNCHANGED <<scenario, tables, saves, calls, mismatch>>

\* findOne: the row with its targets.
findOne(l) ==
  /\ l.step = "sent"
  /\ loads' = (loads \ {l}) \cup {[l EXCEPT !.step = "answered", !.customer = customer, !.version = version,
                                            !.list = targets]}
  /\ UNCHANGED <<scenario, tables, tab, saves, calls, counts, hurried, mismatch>>

OrEmpty(v) == IF v = none THEN empty ELSE v

\* A column that the form leaves out.
Slip_FormOf(c) == [c EXCEPT !.start = OrEmpty(@), !.last = OrEmpty(@), !.notes = OrEmpty(@), !.engineer = none]

\* What the form shows of a row.
FormOf(c) == [c EXCEPT !.start = OrEmpty(@), !.last = OrEmpty(@), !.notes = OrEmpty(@)]

\* The answer fills the form, whatever was typed since.
Loaded(l) ==
  /\ l.step = "answered" /\ l.customer # none
  /\ loads' = loads \ {l}
  /\ tab' = IF l.mount = tab[l.tab].mount
            THEN Set(l.tab, [tab[l.tab] EXCEPT !.customer = l.customer, !.form = FormOf(l.customer), !.touched = {},
                                               !.version = l.version, !.list = l.list, !.loading = FALSE])
            ELSE tab
  /\ UNCHANGED <<scenario, tables, saves, calls, counts, hurried, mismatch>>

\* Not found, or no answer: a page without a row says so and offers no form.
LoadFailed(l) ==
  /\ IF l.step = "answered" THEN l.customer = none ELSE scenario.fails
  /\ loads' = loads \ {l}
  /\ tab' = IF l.mount = tab[l.tab].mount THEN Set(l.tab, [tab[l.tab] EXCEPT !.loading = FALSE]) ELSE tab
  /\ hurried' = TRUE
  /\ UNCHANGED <<scenario, tables, saves, calls, counts, mismatch>>

\* A text field can be emptied, also with the contact it belongs to.
FreeValue == Text \cup {empty}

Values(f) ==
  CASE f = "name" -> Name
    [] f \in FreeField -> FreeValue
    [] f \in DateField -> Day \cup {empty}
    [] f \in StaffField -> Text \cup {none}
    [] f \in Fixed -> {}

handleChange(t, f, v) ==
  /\ Ready(t) /\ v \in Values(f) /\ v # tab[t].form[f] /\ Once("edits")
  /\ tab' = Set(t, [tab[t] EXCEPT !.form[f] = v, !.touched = @ \cup {f}])
  /\ UNCHANGED <<scenario, tables, loads, saves, calls, hurried, mismatch>>

\* The whole form is sent.
handleSave(t) ==
  /\ Ready(t) /\ ~tab[t].saving /\ Once("saves")
  /\ tab' = Set(t, [tab[t] EXCEPT !.saving = TRUE])
  /\ saves' = saves \cup {[tab |-> t, mount |-> tab[t].mount, form |-> tab[t].form, touched |-> tab[t].touched,
                           version |-> tab[t].version, step |-> "sent", before |-> none]}
  /\ UNCHANGED <<scenario, tables, loads, calls, hurried, mismatch>>

\* The user is led to the detail page, also one who has left the form meanwhile.
SaveAnswered(s) ==
  /\ s.step = "stored"
  /\ saves' = saves \ {s}
  /\ Shows(s.tab, "detail")
  /\ UNCHANGED <<scenario, tables, calls, counts, hurried, mismatch>>

\* An alert; the form stays.
SaveFailed(s) ==
  /\ s.step = "refused" \/ scenario.fails
  /\ saves' = saves \ {s}
  /\ tab' = IF s.mount = tab[s.tab].mount THEN Set(s.tab, [tab[s.tab] EXCEPT !.saving = FALSE]) ELSE tab
  /\ UNCHANGED <<scenario, tables, loads, calls, counts, hurried, mismatch>>

---------------------------------------------------------------------------
(* CustomersService.update *)

Moves(s, step) == saves' = (saves \ {s}) \cup {[s EXCEPT !.step = step]}

\* The row before the change.
Found(s) ==
  /\ s.step = "sent"
  /\ saves' = (saves \ {s}) \cup
       {IF customer = none THEN [s EXCEPT !.step = "refused"]
        ELSE [s EXCEPT !.step = IF s.form.name = customer.name THEN "checked" ELSE "found",
                       !.before = customer.name]}
  /\ UNCHANGED <<scenario, tables, tab, loads, calls, counts, hurried, mismatch>>

\* A new name must not be that of another customer.
NameChecked(s) ==
  /\ s.step = "found"
  /\ Moves(s, IF s.form.name \in others \cup (IF customer = none THEN {} ELSE {customer.name})
              THEN "refused" ELSE "checked")
  /\ UNCHANGED <<scenario, tables, tab, loads, calls, counts, hurried, mismatch>>

\* What is stored of a form: an empty date is not sent, so the old one stays; an empty
\* text is stored as ''.
Stored(form, old) ==
  [form EXCEPT !.start = IF @ = empty THEN old.start ELSE @, !.last = IF @ = empty THEN old.last ELSE @]

\* A date that is not sent: the user took it out of the form, or there was none.
Cleared(s, f) == f \in DateField \cup Fixed /\ s.form[f] = empty

\* Something else is stored than was typed, or, of a row that was not written meanwhile,
\* something changes that was not typed; null and '' are the same to the user.
Loses(s, new) ==
  \/ \E f \in s.touched : ~Cleared(s, f) /\ new[f] # s.form[f]
  \/ /\ s.version = version
     /\ \E f \in Field : (f \in s.touched => Cleared(s, f)) /\ OrEmpty(new[f]) # OrEmpty(customer[f])

\* The row is written, unless it is gone or the database knows the name.
Written(s) ==
  /\ s.step = "checked" /\ customer # none /\ s.form.name \notin others
  /\ Moves(s, "stored")
  /\ customer' = Stored(s.form, customer)
  /\ version' = version + 1
  /\ names' = names \cup {s.form.name}
  /\ mismatch' = (mismatch \/ Loses(s, customer'))
  /\ UNCHANGED <<scenario, others, targets, products, tab, loads, calls, counts, hurried>>

WriteRefused(s) ==
  /\ s.step = "checked" /\ (customer = none \/ s.form.name \in others)
  /\ Moves(s, "refused")
  /\ UNCHANGED <<scenario, tables, tab, loads, calls, counts, hurried, mismatch>>

---------------------------------------------------------------------------
(* Targets, and the customer's end *)

Call(t, kind, what) == [tab |-> t, mount |-> tab[t].mount, kind |-> kind, what |-> what, step |-> "sent"]

\* A list that a load is still to replace, or that is not the whole of the table.
Behind(t) == \/ \E l \in loads : l.tab = t /\ l.mount = tab[t].mount
             \/ \E c \in calls : c.kind \in {"add", "remove"}
             \/ \E u \in Tab \ {t} : tab[u].page = "edit"

\* The new target is to follow those on the screen; the dialog's button is never disabled.
handleAddInspectionTarget(t, p) ==
  /\ Ready(t) /\ Once("adds")
  /\ calls' = calls \cup {Call(t, "add", <<Cardinality(tab[t].list), p>>)}
  /\ hurried' = (hurried \/ Behind(t))
  /\ UNCHANGED <<scenario, tables, tab, loads, saves, mismatch>>

handleDeleteInspectionTarget(t, g) ==
  /\ Ready(t) /\ g \in tab[t].list /\ Once("removals")
  /\ calls' = calls \cup {Call(t, "remove", g.id)}
  /\ hurried' = TRUE
  /\ UNCHANGED <<scenario, tables, tab, loads, saves, mismatch>>

\* The name typed is compared with that on the screen.
handleDeleteCustomer(t) ==
  /\ Ready(t) /\ Once("deletes")
  /\ calls' = calls \cup {Call(t, "delete", tab[t].customer.name)}
  /\ UNCHANGED <<scenario, tables, tab, loads, saves, hurried, mismatch>>

Becomes(c, step) == calls' = (calls \ {c}) \cup {[c EXCEPT !.step = step]}

Slip_TargetCreated(c) ==  \* no foreign key
  /\ c.kind = "add" /\ c.step = "sent"
  /\ Becomes(c, "done") /\ Created(c.what[1], c.what[2])
  /\ UNCHANGED <<scenario, tab, loads, saves, counts, hurried, mismatch>>

TargetCreated(c) ==
  /\ c.kind = "add" /\ c.step = "sent"
  /\ IF customer = none THEN Becomes(c, "refused") /\ UNCHANGED tables
                        ELSE Becomes(c, "done") /\ Created(c.what[1], c.what[2])
  /\ UNCHANGED <<scenario, tab, loads, saves, counts, hurried, mismatch>>

\* Removed twice, it is not found.
TargetRemoved(c) ==
  /\ c.kind = "remove" /\ c.step = "sent"
  /\ Becomes(c, IF \E g \in targets : g.id = c.what THEN "done" ELSE "refused")
  /\ targets' = {g \in targets : g.id # c.what}
  /\ UNCHANGED <<scenario, customer, others, products, version, names, tab, loads, saves, counts, hurried, mismatch>>

\* The row is looked up, then deleted; who comes second gets an error either way.
CustomerDeleted(c) ==
  /\ c.kind = "delete" /\ c.step = "sent"
  /\ IF customer = none THEN Becomes(c, "refused") /\ UNCHANGED tables
                        ELSE Becomes(c, "done") /\ Deleted
  /\ UNCHANGED <<scenario, tab, loads, saves, counts, hurried, mismatch>>

\* After a target the page is loaded again; after the customer the list is shown, if
\* the page is still there.
CallAnswered(c) ==
  /\ c.step = "done"
  /\ calls' = calls \ {c}
  /\ CASE c.kind # "delete" -> loads' = loads \cup {Load(c.tab, c.mount)} /\ UNCHANGED tab
       [] c.kind = "delete" /\ c.mount = tab[c.tab].mount -> Shows(c.tab, "list")
       [] OTHER -> UNCHANGED <<tab, loads>>
  /\ UNCHANGED <<scenario, tables, saves, counts, hurried, mismatch>>

CallFailed(c) ==
  /\ c.step = "refused" \/ scenario.fails
  /\ calls' = calls \ {c}
  /\ hurried' = TRUE
  /\ UNCHANGED <<scenario, tables, tab, loads, saves, counts, mismatch>>

---------------------------------------------------------------------------
(* Everybody else *)

NameTaken(n) == n \in others \/ (customer # none /\ n = customer.name)

\* CustomersPage adds a customer; a name in use is refused by a query or by the database.
handleAddCustomer(n) ==
  /\ Once("news") /\ ~NameTaken(n)
  /\ others' = others \cup {n}
  /\ UNCHANGED <<scenario, customer, targets, products, version, names, tab, loads, saves, calls, hurried, mismatch>>

\* DocumentsService.uploadDocument of a report of day d (module Documents has its steps).
ReportUploaded(d) ==
  /\ customer # none /\ Once("uploads")
  /\ customer.last \in {none} \cup 1..(d - 1)
  /\ customer' = [customer EXCEPT !.last = d]
  /\ version' = version + 1
  /\ UNCHANGED <<scenario, others, targets, products, names, tab, loads, saves, calls, hurried, mismatch>>

---------------------------------------------------------------------------
(* Properties *)

\* What was typed into a form since it was filled last is stored as it was typed, but
\* for a date that was taken out. And if nobody wrote the row between the load that
\* filled the form and the save, every other column shows afterwards what it showed
\* before, the date that was taken out among them: no column is lost between the row,
\* the form, the values that are not sent and the nulls of the service.
OnlyTypedChanges == ~mismatch

\* While targets are only added, one at a time on one page, the numbers they are
\* sorted by are those of their creation.
OrderIsAge ==
  ~hurried => \A g, h \in targets : g.id < h.id => g.order < h.order

\* A removed customer leaves no target, also when one was being added.
NothingOutlivesCustomer == customer = none => targets = {}

=============================================================================
