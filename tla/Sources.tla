------------------------------- MODULE Sources ------------------------------
(***************************************************************************)
(* Source management of one customer: the detail and the edit page over     *)
(* CustomersService, with the access data of servers, whose passwords are    *)
(* stored encrypted, and the file of CustomersPage that puts a customer's    *)
(* source management and support logs together.                              *)
(*                                                                          *)
(* Of the columns and server rows the model keeps one mark, the edit they    *)
(* stem from, and of the access rows at most one.                            *)
(***************************************************************************)
EXTENDS Secrets, FiniteSets

CONSTANTS
  Tab,        \* browser tabs
  Scenarios   \* what happens how often, in one behaviour

VARIABLES
  scenario,   \* chosen once
  key,        \* ENCRYPTION_KEY of the running process
  customer,   \* whether the customer's row is there
  source,     \* the source_management row, or none
  access,     \* its server_access_info rows
  support,    \* whether the customer has support logs
  journal,    \* the passwords that stand in service_logs, as they stand there
  tab,        \* the page of each tab
  loads,      \* what a page is loading
  saves,      \* POST and PUT on their way
  book,       \* the export at work, or none
  file,       \* the last file
  count,      \* history: how often each kind of step was taken
  lastId,     \* ids given so far
  version,    \* history: saves stored so far
  unseen,     \* history: a row was replaced by a form that had never shown one
  meant,      \* history: the password that was saved last
  rekeyed     \* history: another key than the first was used

database == <<key, customer, source, access, support, journal, lastId, version, unseen, meant, rekeyed>>
browser == <<tab, loads, saves, book, file>>

Source == [id : Nat \ {0}, of : Nat]
ASSUME SourcesAssumption == none \notin Source

Access == [id : Nat \ {0}, source : Nat \ {0}, secret : Secret \cup {none}]
Form == [id : Nat, of : Nat, secret : Secret \cup {none}, seen : BOOLEAN]

Kinds == {"opens", "edits", "saves", "removals", "migrations", "crashes", "keys", "settings", "exports", "supports"}
Once(c) == count[c] < scenario[c] /\ count' = [count EXCEPT ![c] = @ + 1]

SourcesOK ==
  /\ scenario \in Scenarios /\ key \in Key /\ source \in Source \cup {none}
  /\ IsFiniteSet(access) /\ Cardinality(access) <= 1
  /\ \A a \in access : a \in Access /\ source # none /\ a.source = source.id
  /\ customer \in BOOLEAN /\ support \in BOOLEAN /\ journal \subseteq Secret
  /\ unseen \in BOOLEAN /\ rekeyed \in BOOLEAN /\ meant \in Text \cup {none}
  /\ \A t \in Tab : /\ tab[t].page \in {"none", "detail", "edit"} /\ tab[t].mount \in Nat
                    /\ tab[t].loading \in BOOLEAN /\ tab[t].saving \in BOOLEAN /\ tab[t].form \in Form
  /\ \A l \in loads : l.tab \in Tab /\ l.step \in {"customer", "source", "answered", "failed"}
  /\ \A s \in saves : s.tab \in Tab /\ s.kind \in {"post", "put"}
                      /\ s.step \in {"sent", "found", "stored", "logged", "refused"}
  /\ count \in [Kinds -> Nat] /\ lastId \in Nat /\ version \in Nat

\* The form of a page that has not been given a row.
Default == [id |-> 0, of |-> 0, secret |-> none, seen |-> FALSE]
Closed == [page |-> "none", mount |-> 0, loading |-> FALSE, saving |-> FALSE, form |-> Default]

\* A row of the time before encryption, a row of today, or none.
SourcesInit ==
  /\ scenario \in Scenarios /\ key \in Key
  /\ \E t \in Text :
       \/ /\ source = none /\ access = {} /\ meant = none /\ lastId = 0
       \/ /\ scenario.row /\ source = [id |-> 1, of |-> 0] /\ meant = t /\ lastId = 1
          /\ \/ access = {[id |-> 1, source |-> 1, secret |-> Plain(t)]}
             \/ access = {[id |-> 1, source |-> 1, secret |-> encrypt(Plain(t), key)]}
  /\ customer = TRUE /\ journal = {}
  /\ support \in IF scenario.exports > 0 THEN BOOLEAN ELSE {FALSE}
  /\ tab = [t \in Tab |-> Closed] /\ loads = {} /\ saves = {}
  /\ book = none /\ file = none
  /\ count = [c \in Kinds |-> 0]
  /\ version = 0 /\ unseen = FALSE /\ rekeyed = FALSE

Shows(t, page) ==
  /\ tab' = [tab EXCEPT ![t] = [Closed EXCEPT !.page = page, !.mount = tab[t].mount + 1, !.loading = TRUE]]
  /\ loads' = loads \cup {[tab |-> t, mount |-> tab[t].mount + 1, step |-> "customer", form |-> Default]}

---------------------------------------------------------------------------
(* The pages *)

Open(t, page) ==
  /\ tab[t].page # page /\ Once("opens")
  /\ Shows(t, page)
  /\ UNCHANGED <<scenario, database, saves, book, file>>

Turns(l, step) == loads' = (loads \ {l}) \cup {[l EXCEPT !.step = step]}

\* The name of the customer first; a failure of either request ends the load.
CustomerLoaded(l) ==
  /\ l.step = "customer"
  /\ \/ customer /\ Turns(l, "source")
     \/ (scenario.fails \/ ~customer) /\ Turns(l, "failed")
  /\ UNCHANGED <<scenario, database, tab, saves, book, file, count>>

Opens(a) == a.secret = none \/ Readable(a.secret, key)

\* The password a row read with its access rows has.
Stored == IF \E a \in access : a.secret # none THEN (CHOOSE a \in access : a.secret # none).secret ELSE none

\* What getSourceManagement answers; a password it cannot decrypt fails the request.
Answer ==
  IF source = none THEN Default
  ELSE [id |-> source.id, of |-> source.of, seen |-> TRUE,
        secret |-> IF Stored = none THEN none ELSE safeDecrypt(Stored, key)]

getSourceManagement(l) ==
  /\ l.step = "source"
  /\ IF \A a \in access : Opens(a)
     THEN loads' = (loads \ {l}) \cup {[l EXCEPT !.step = "answered", !.form = Answer]}
     ELSE Turns(l, "failed")
  /\ UNCHANGED <<scenario, database, tab, saves, book, file, count>>

\* A page whose load failed shows the form it began with.
Loaded(l) ==
  /\ l.step \in {"answered", "failed"}
  /\ loads' = loads \ {l}
  /\ tab' = IF l.mount # tab[l.tab].mount THEN tab
            ELSE [tab EXCEPT ![l.tab].loading = FALSE, ![l.tab].form = l.form]
  /\ UNCHANGED <<scenario, database, saves, book, file, count>>

Ready(t) == tab[t].page = "edit" /\ ~tab[t].loading

\* A column, or a server that is added, changed or taken out.
handleServerChange(t) ==
  /\ Ready(t) /\ Once("edits")
  /\ tab' = [tab EXCEPT ![t].form.of = count'["edits"]]
  /\ UNCHANGED <<scenario, database, loads, saves, book, file>>

\* The access data: added or changed, with a password as it is typed, or taken out.
handleAccessInfoChange(t, v) ==
  /\ Ready(t) /\ v # tab[t].form.secret /\ Once("edits")
  /\ tab' = [tab EXCEPT ![t].form.secret = v]
  /\ UNCHANGED <<scenario, database, loads, saves, book, file>>

Slip_handleSave(t) ==  \* always an update
  /\ Ready(t) /\ ~tab[t].saving /\ Once("saves")
  /\ tab' = [tab EXCEPT ![t].saving = TRUE]
  /\ saves' = saves \cup {[tab |-> t, mount |-> tab[t].mount, form |-> tab[t].form, kind |-> "put",
                           found |-> 0, was |-> none, step |-> "sent"]}
  /\ UNCHANGED <<scenario, database, loads, book, file>>

\* A form with an id is an update, one without a creation.
handleSave(t) ==
  /\ Ready(t) /\ ~tab[t].saving /\ Once("saves")
  /\ tab' = [tab EXCEPT ![t].saving = TRUE]
  /\ saves' = saves \cup {[tab |-> t, mount |-> tab[t].mount, form |-> tab[t].form,
                           kind |-> IF tab[t].form.id = 0 THEN "post" ELSE "put",
                           found |-> 0, was |-> none, step |-> "sent"]}
  /\ UNCHANGED <<scenario, database, loads, book, file>>

\* The user is led to the detail page.
SaveAnswered(s) ==
  /\ s.step = "logged"
  /\ saves' = saves \ {s}
  /\ Shows(s.tab, "detail")
  /\ UNCHANGED <<scenario, database, book, file, count>>

SaveFailed(s) ==
  /\ s.step = "refused" \/ scenario.fails
  /\ saves' = saves \ {s}
  /\ tab' = IF s.mount = tab[s.tab].mount THEN [tab EXCEPT ![s.tab].saving = FALSE] ELSE tab
  /\ UNCHANGED <<scenario, database, loads, book, file, count>>

---------------------------------------------------------------------------
(* CustomersService *)

Moves(s, step) == saves' = (saves \ {s}) \cup {[s EXCEPT !.step = step]}

\* Both want the customer; createSourceManagement wants no row, updateSourceManagement
\* one, which it reads with its access rows.
FoundSource(s) ==
  /\ s.step = "sent"
  /\ CASE customer /\ s.kind = "post" /\ source = none -> Moves(s, "found")
       [] customer /\ s.kind = "put" /\ source # none ->
            saves' = (saves \ {s}) \cup {[s EXCEPT !.step = "found", !.found = source.id, !.was = Stored]}
       [] OTHER -> Moves(s, "refused")
  /\ UNCHANGED <<scenario, database, tab, loads, book, file, count>>

Slip_Protected(v) == v  \* stored as it was typed

\* What is stored of a password.
Protected(v) == IF v = none THEN none ELSE encrypt(v, key)

Stores(s, id) ==
  /\ source' = [id |-> id, of |-> s.form.of]
  /\ lastId' = lastId + 1
  /\ access' = IF s.form.secret = none THEN {}
               ELSE {[id |-> lastId', source |-> id, secret |-> Protected(s.form.secret)]}
  /\ meant' = IF s.form.secret = none THEN none ELSE s.form.secret.text
  /\ version' = version + 1

\* A second row of the customer, or one of a customer that is gone, is refused by the
\* database.
SourceCreated(s) ==
  /\ s.step = "found" /\ s.kind = "post"
  /\ IF customer /\ source = none
     THEN Stores(s, lastId + 1) /\ Moves(s, "stored")
          /\ UNCHANGED <<key, customer, support, journal, unseen, rekeyed>>
     ELSE Moves(s, "refused") /\ UNCHANGED database
  /\ UNCHANGED <<scenario, tab, loads, book, file, count>>

\* One transaction: the server and access rows deleted, the columns written, the rows
\* created. It is undone when the row that was found is gone.
SourceUpdated(s) ==
  /\ s.step = "found" /\ s.kind = "put"
  /\ IF source # none /\ source.id = s.found
     THEN /\ Stores(s, source.id) /\ Moves(s, "stored")
          /\ unseen' = (unseen \/ ~s.form.seen)
          /\ UNCHANGED <<key, customer, support, journal, rekeyed>>
     ELSE Moves(s, "refused") /\ UNCHANGED database
  /\ UNCHANGED <<scenario, tab, loads, book, file, count>>

\* The log of an update keeps the rows that were found and the request itself, with the
\* password as it was typed; that of a creation has no access rows. The answer reads the
\* rows once more.
SourceLogged(s) ==
  /\ s.step = "stored"
  /\ journal' = IF s.kind = "post" THEN journal ELSE journal \cup ({s.was, s.form.secret} \ {none})
  /\ Moves(s, IF \A a \in access : Opens(a) THEN "logged" ELSE "refused")
  /\ UNCHANGED <<scenario, key, customer, source, access, support, lastId, version, unseen, meant, rekeyed>>
  /\ UNCHANGED <<tab, loads, book, file, count>>

\* The customer goes, and with it, by the foreign keys, all of this but the logs.
CustomerRemoved ==
  /\ customer /\ Once("removals")
  /\ customer' = FALSE
  /\ source' = none /\ access' = {} /\ meant' = none /\ support' = FALSE
  /\ UNCHANGED <<scenario, key, journal, lastId, version, unseen, rekeyed, browser>>

\* CustomerSupportLogsPage adds a log.
SupportAdded ==
  /\ customer /\ ~support /\ Once("supports")
  /\ support' = TRUE
  /\ UNCHANGED <<scenario, key, customer, source, access, journal, lastId, version, unseen, meant, rekeyed, browser>>

---------------------------------------------------------------------------
(* The export of CustomersPage: one request after the other, each with its own sheet *)

handleExportFullData ==
  /\ book = none /\ Once("exports")
  /\ book' = [step |-> "source", source |-> "", support |-> "", was |-> {source # none}, logs |-> {support}]
  /\ UNCHANGED <<scenario, database, tab, loads, saves, file>>

Slip_SourceSheet ==  \* an error is taken for an answer without data
  /\ book # none /\ book.step = "source"
  /\ \/ /\ \A a \in access : Opens(a)
        /\ book' = [book EXCEPT !.step = "support", !.source = IF source = none THEN "none" ELSE "data",
                                !.was = @ \cup {source # none}]
     \/ /\ scenario.fails \/ \E a \in access : ~Opens(a)
        /\ book' = [book EXCEPT !.step = "support", !.source = "none"]
  /\ UNCHANGED <<scenario, database, tab, loads, saves, file, count>>

\* A failure has a sheet that says so.
SourceSheet ==
  /\ book # none /\ book.step = "source"
  /\ \/ /\ \A a \in access : Opens(a)
        /\ book' = [book EXCEPT !.step = "support", !.source = IF source = none THEN "none" ELSE "data",
                                !.was = @ \cup {source # none}]
     \/ /\ scenario.fails \/ \E a \in access : ~Opens(a)
        /\ book' = [book EXCEPT !.step = "support", !.source = "failed"]
  /\ UNCHANGED <<scenario, database, tab, loads, saves, file, count>>

\* Here a failure reads like a customer without support logs.
SupportSheet ==
  /\ book # none /\ book.step = "support"
  /\ \/ book' = [book EXCEPT !.step = "write", !.support = IF support THEN "data" ELSE "none",
                             !.logs = @ \cup {support}]
     \/ scenario.fails /\ book' = [book EXCEPT !.step = "write", !.support = "none", !.logs = {FALSE}]
  /\ UNCHANGED <<scenario, database, tab, loads, saves, file, count>>

FileWritten ==
  /\ book # none /\ book.step = "write"
  /\ file' = book /\ book' = none
  /\ UNCHANGED <<scenario, database, tab, loads, saves, count>>

---------------------------------------------------------------------------
(* The process *)

\* A restart with another key in the environment; what was being served is given up.
Rekey(k) ==
  /\ k # key /\ Once("keys")
  /\ key' = k /\ rekeyed' = TRUE
  /\ saves' = {[s EXCEPT !.step = IF @ \in {"found", "stored"} THEN "refused" ELSE @] : s \in saves}
  /\ UNCHANGED <<scenario, customer, source, access, support, journal, lastId, version, unseen, meant>>
  /\ UNCHANGED <<tab, loads, book, file>>

---------------------------------------------------------------------------
(* Properties *)

\* A form that was never filled from a row never replaces one: a page whose load failed,
\* for a wrong key among other reasons, shows an empty form that can be saved, and only
\* a creation comes of it, which a row that is there refuses.
UnreadIsNotReplaced == ~unseen

\* A file says that there is no source management only if there was none at some moment
\* of the export.
NoneMeansNone ==
  file # none /\ file.source = "none" => FALSE \in file.was

=============================================================================
