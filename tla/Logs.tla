-------------------------------- MODULE Logs --------------------------------
(***************************************************************************)
(* The history pages (SystemLogsPage, UploadLogsPage, LoginLogsPage) over   *)
(* LogsService: entries of two tables are read one table after the other,   *)
(* merged, cut into pages and exported, while the program goes on writing    *)
(* entries and an administrator may delete an account with its attempts.    *)
(*                                                                          *)
(* A behaviour is about one of the three pages; their components are the    *)
(* same text with other names. The texts a filter searches are left out: a  *)
(* filter is a type and a pair of days. A moment is a natural number.       *)
(***************************************************************************)
EXTENDS Naturals, FiniteSets

CONSTANTS
  Filter,      \* what the form can hold: [type, from, to], none for a field left empty
  Limit,       \* entries per page
  Happening,   \* what may be written: [table, action, type, account]
  Scenarios,   \* the page, the choices and the bounds of one behaviour
  PerDay,      \* moments of a day; the day d begins at d * PerDay
  none

\* What an entry is: normal, a warning, an error or information.
LogType == {"ok", "warn", "error", "info"}

EmptyForm == [type |-> none, from |-> none, to |-> none]

ASSUME LogsAssumption ==
  /\ Scenarios \subseteq [kind : {"system", "upload", "login"}, filters : SUBSET Filter,
                          limits : SUBSET Limit, exports : BOOLEAN, removals : Nat,
                          writes : SUBSET Happening, entries : Nat, asks : Nat, pending : Nat]
  /\ PerDay \in Nat \ {0} /\ EmptyForm \in Filter
  /\ Limit \subseteq Nat \ {0}
  /\ Happening \subseteq [table : {"service", "attempt"}, action : {"login", "upload", "other"},
                          type : LogType, account : STRING]
  /\ \A h \in Happening : h.table = "attempt" => h.action = "login"

VARIABLES
  scenario,   \* chosen once
  entries,    \* rows of ServiceLog and LoginAttempt: what happened, and when
  clock,      \* the moment of the newest row
  removals,   \* history: accounts removed
  filters,    \* the form
  edited,     \* the form is another object than appliedFilters
  applied, page, limit, \* what the effect that fetches depends on
  asks,       \* requests for a page that are under way
  asked,      \* requests sent
  shown,      \* the answer displayed
  isLoading,  \* a spinner hides it
  error,      \* history: the last answer was an error
  overlapped, \* history: an answer came, or may come, after that of a later request
  walk,       \* history: the pages looked at in order since the first
  export,     \* the export under way
  exported    \* history: what the last file held, and what was shown before

table == <<entries, clock, removals>>
form == <<filters, edited, applied, page, limit>>
list == <<asks, asked, shown, isLoading, error, overlapped, walk>>
file == <<export, exported>>
histories == <<scenario, table, form, list, file>>

---------------------------------------------------------------------------
(* LogsService *)

\* createdAt between two midnights, and only if both days are given.
InDays(e, f) ==
  f.from # none /\ f.to # none => f.from * PerDay <= e.at /\ e.at <= f.to * PerDay

OfType(e, f) == f.type = none \/ e.type = f.type

\* getSystemLogs: both tables.
SystemWhere(f) == {e \in entries : InDays(e, f) /\ OfType(e, f)}

\* getUploadLogs: service entries whose action names an upload or a deletion.
UploadWhere(f) ==
  {e \in entries : InDays(e, f) /\ OfType(e, f) /\ e.table = "service" /\ e.action = "upload"}

\* getLoginLogs: attempts, and service entries whose action names a login or a logout.
LoginWhere(f) ==
  {e \in entries : InDays(e, f) /\ OfType(e, f) /\ e.action = "login"}

Where(f) ==
  CASE scenario.kind = "system" -> SystemWhere(f)
    [] scenario.kind = "upload" -> UploadWhere(f)
    [] scenario.kind = "login" -> LoginWhere(f)

ServiceRows(f) == {e \in Where(f) : e.table = "service"}
AttemptRows(f) == {e \in Where(f) : e.table = "attempt"}

\* Newest first; of one moment, service entries before attempts, as they are merged.
Before(e, x) == e.at > x.at \/ (e.at = x.at /\ e.table = "service" /\ x.table = "attempt")

\* How many of the rows come before e.
Position(e, rows) == Cardinality({x \in rows : Before(x, e)})

Slip_Slice(rows, p, l) ==  \* skip = page * limit
  {e \in rows : p * l <= Position(e, rows) /\ Position(e, rows) < (p + 1) * l}

\* slice((page - 1) * limit, page * limit) of the sorted entries.
Slice(rows, p, l) ==
  {e \in rows : (p - 1) * l <= Position(e, rows) /\ Position(e, rows) < p * l}

totalPages(total, l) == (total + l - 1) \div l

---------------------------------------------------------------------------

Rows == [table : {"service", "attempt"}, action : {"login", "upload", "other"},
         type : LogType, account : STRING \cup {none}, at : Nat]

PageRequest == [n : Nat, filter : Filter, page : Nat \ {0}, limit : Limit, step : {"sent", "half", "answered"},
            part : SUBSET Rows, rows : SUBSET Rows, removals : Nat, clean : BOOLEAN]
Answer == [filter : Filter \cup {none}, page : Nat, limit : Nat \ {0}, rows : SUBSET Rows, total : Nat, clean : BOOLEAN]
Walk == [n : Nat, filter : Filter \cup {none}, limit : Nat, base : SUBSET Rows, seen : SUBSET Rows, pages : Nat,
         removals : Nat, upto : Nat]
File == [step : {"idle", "sent", "half", "served"}, filter : Filter \cup {none}, part : SUBSET Rows, shown : SUBSET Rows]

LogsOK ==
  /\ scenario \in Scenarios
  /\ entries \subseteq Rows /\ IsFiniteSet(entries) /\ \A e \in entries : e.at <= clock
  /\ clock \in Nat /\ removals \in Nat /\ asked \in Nat
  /\ filters \in Filter /\ applied \in Filter /\ edited \in BOOLEAN
  /\ page \in Nat \ {0} /\ limit \in Limit
  /\ asks \subseteq PageRequest /\ \A a \in asks : a.n <= asked
  /\ shown \in Answer /\ walk \in Walk
  /\ isLoading \in BOOLEAN /\ error \in BOOLEAN /\ overlapped \in BOOLEAN
  /\ isLoading => asks # {}
  /\ export \in File /\ exported \in [rows : SUBSET Rows, shown : SUBSET Rows]

Ask(f, p, l, n) ==
  [n |-> n, filter |-> f, page |-> p, limit |-> l, step |-> "sent", part |-> {}, rows |-> {},
   removals |-> removals, clean |-> p = 1 \/ (asks = {} /\ ~overlapped /\ ~error)]

Idle == [step |-> "idle", filter |-> none, part |-> {}, shown |-> {}]

\* The first effect of the page asks with the initial state; 30 is the smallest size offered.
LogsInit ==
  /\ scenario \in Scenarios
  /\ entries = {} /\ clock = 0 /\ removals = 0
  /\ filters = EmptyForm /\ applied = EmptyForm /\ edited = TRUE
  /\ page = 1 /\ limit \in {l \in Limit : \A x \in Limit : l <= x}
  /\ asked = 1
  /\ shown = [filter |-> none, page |-> 0, limit |-> 1, rows |-> {}, total |-> 0, clean |-> TRUE]
  /\ isLoading = TRUE /\ error = FALSE /\ overlapped = FALSE
  /\ asks = {[n |-> 1, filter |-> applied, page |-> 1, limit |-> limit, step |-> "sent", part |-> {},
              rows |-> {}, removals |-> 0, clean |-> TRUE]}
  /\ walk = [n |-> 0, filter |-> none, limit |-> 0, base |-> {}, seen |-> {}, pages |-> 0, removals |-> 0,
             upto |-> 0]
  /\ export = Idle /\ exported = [rows |-> {}, shown |-> {}]

---------------------------------------------------------------------------
(* The rest of the program *)

\* A service entry or a login attempt is written; both may be of one moment. Assumed: no
\* two entries of one table have the same millisecond; the queries order by createdAt
\* alone, so that the order of such entries would be the database's at every read.
Happens(h) ==
  /\ h \in scenario.writes /\ Cardinality(entries) < scenario.entries
  /\ \E t \in {clock, clock + 1} :
       /\ \A e \in entries : e.table = h.table => e.at < t
       /\ entries' = entries \cup {[table |-> h.table, action |-> h.action, type |-> h.type,
                                     account |-> h.account, at |-> t]}
       /\ clock' = t
  /\ UNCHANGED <<scenario, removals, form, list, file>>

\* An account goes with its attempts; its service entries stay without a name.
AccountRemoved(u) ==
  /\ removals < scenario.removals /\ \E e \in entries : e.account = u
  /\ entries' = {IF e.account = u THEN [e EXCEPT !.account = none] ELSE e :
                   e \in {x \in entries : ~(x.table = "attempt" /\ x.account = u)}}
  /\ removals' = removals + 1
  /\ UNCHANGED <<scenario, clock, form, list, file>>

---------------------------------------------------------------------------
(* The page *)

\* The table: a spinner, the words that there is nothing, or the rows of the answer.
Displayed == IF isLoading THEN "spinner" ELSE IF shown.rows = {} THEN "none" ELSE "rows"

\* The effect: appliedFilters, page or limit changed.
fetchLogs(f, p, l) ==
  /\ asked < scenario.asks /\ Cardinality(asks) < scenario.pending
  /\ applied' = f /\ page' = p /\ limit' = l
  /\ asks' = asks \cup {Ask(f, p, l, asked + 1)} /\ asked' = asked + 1
  /\ isLoading' = TRUE
  /\ overlapped' = (overlapped \/ asks # {})
  /\ UNCHANGED <<shown, error, walk>>

FilterChange(f) ==
  /\ f \in scenario.filters /\ f # filters /\ filters' = f /\ edited' = TRUE
  /\ UNCHANGED <<scenario, table, applied, page, limit, list, file>>

\* Nothing is fetched when the form was not touched and the first page is shown.
Search ==
  /\ edited \/ page # 1
  /\ fetchLogs(filters, 1, limit)
  /\ edited' = FALSE
  /\ UNCHANGED <<scenario, table, filters, file>>

Reset ==
  /\ Cardinality(scenario.filters) > 1
  /\ filters' = EmptyForm
  /\ fetchLogs(filters', 1, limit)
  /\ edited' = FALSE
  /\ UNCHANGED <<scenario, table, file>>

\* The pagination offers the pages of the answer displayed.
PageChange(p) ==
  /\ p # page /\ p \in 1..totalPages(shown.total, shown.limit)
  /\ fetchLogs(applied, p, limit)
  /\ UNCHANGED <<scenario, table, filters, edited, file>>

Slip_LimitChange(l) ==  \* limit is missing in the dependencies of the effect
  /\ l \in scenario.limits /\ l # limit /\ limit' = l
  /\ page' = 1
  /\ IF page = 1 THEN UNCHANGED list ELSE fetchLogs(applied, 1, l)
  /\ UNCHANGED <<scenario, table, applied, filters, edited, file>>

LimitChange(l) ==
  /\ l \in scenario.limits /\ l # limit
  /\ fetchLogs(applied, 1, l)
  /\ UNCHANGED <<scenario, table, filters, edited, file>>

\* The service reads the service entries, then the attempts, and merges them.
ReadServices(a) ==
  /\ a.step = "sent"
  /\ asks' = (asks \ {a}) \cup {[a EXCEPT !.step = "half", !.part = ServiceRows(a.filter)]}
  /\ UNCHANGED <<scenario, table, form, asked, shown, isLoading, error, overlapped, walk, file>>

ReadAttempts(a) ==
  /\ a.step = "half"
  /\ asks' = (asks \ {a}) \cup {[a EXCEPT !.step = "answered", !.part = {},
                                          !.rows = a.part \cup AttemptRows(a.filter)]}
  /\ UNCHANGED <<scenario, table, form, asked, shown, isLoading, error, overlapped, walk, file>>

Over(a) == asks' = asks \ {a} /\ overlapped' = (asks' # {} \/ a.n # asked)

\* The page's rows are looked at: page 1 begins a walk, the page after the last one, asked for
\* when the last one was seen, continues it.
Walked(a, rows) ==
  LET pages == totalPages(Cardinality(a.rows), a.limit) IN
  CASE a.page = 1 ->
         [n |-> 1, filter |-> a.filter, limit |-> a.limit, base |-> a.rows, seen |-> rows,
          pages |-> pages, removals |-> a.removals, upto |-> asked]
    [] /\ walk.n > 0 /\ a.page = walk.n + 1 /\ a.n > walk.upto
       /\ a.filter = walk.filter /\ a.limit = walk.limit ->
         [walk EXCEPT !.n = a.page, !.seen = @ \cup rows, !.pages = pages, !.upto = asked]
    [] OTHER -> walk

\* Answers come in any order and the last to come is displayed.
Answered(a) ==
  /\ a.step = "answered"
  /\ Over(a)
  /\ LET rows == Slice(a.rows, a.page, a.limit) IN
       /\ shown' = [filter |-> a.filter, page |-> a.page, limit |-> a.limit, rows |-> rows,
                    total |-> Cardinality(a.rows), clean |-> a.clean]
       /\ walk' = Walked(a, rows)
  /\ isLoading' = FALSE /\ error' = FALSE
  /\ UNCHANGED <<scenario, table, form, asked, file>>

\* An error is alerted; what was displayed stays.
Failed(a) ==
  /\ Over(a)
  /\ isLoading' = FALSE /\ error' = TRUE
  /\ UNCHANGED <<scenario, table, form, asked, shown, walk, file>>

---------------------------------------------------------------------------
(* The Excel file *)

Export ==
  /\ scenario.exports /\ export.step = "idle"
  /\ export' = [step |-> "sent", filter |-> applied, part |-> {},
                shown |-> IF shown.filter = applied THEN shown.rows ELSE {}]
  /\ UNCHANGED <<scenario, table, form, list, exported>>

ExportServices ==
  /\ export.step = "sent"
  /\ export' = [export EXCEPT !.step = "half", !.part = ServiceRows(export.filter)]
  /\ UNCHANGED <<scenario, table, form, list, exported>>

\* A file is page 1 of 999999 entries.
FileLimit == 999999
Sheet(rows) == Slice(rows, 1, FileLimit)

\* The file is sent ...
ExportSent ==
  /\ export.step = "half"
  /\ exported' = [rows |-> Sheet(export.part \cup AttemptRows(export.filter)), shown |-> export.shown]
  /\ export' = [export EXCEPT !.step = "served"]
  /\ UNCHANGED <<scenario, table, form, list>>

\* ... and an entry says so; its action is among those the login page lists.
ExportEntry ==
  [table |-> "service", action |-> IF scenario.kind = "login" THEN "login" ELSE "other",
   type |-> "info", account |-> none, at |-> clock + 1]

\* A failure to write it is ignored.
ExportLogged ==
  /\ export.step = "served"
  /\ export' = Idle
  /\ \/ Cardinality(entries) < scenario.entries /\ entries' = entries \cup {ExportEntry} /\ clock' = clock + 1
     \/ UNCHANGED <<entries, clock>>
  /\ UNCHANGED <<scenario, removals, form, list, exported>>

ExportFailed ==
  /\ export.step \in {"sent", "half"}
  /\ export' = Idle
  /\ UNCHANGED <<scenario, table, form, list, exported>>

---------------------------------------------------------------------------

LogsNext ==
  \/ \E h \in Happening : Happens(h) \/ AccountRemoved(h.account)
  \/ \E f \in Filter : FilterChange(f)
  \/ Search
  \/ Reset
  \/ \E p \in 1..scenario.entries : PageChange(p)
  \/ \E l \in Limit : LimitChange(l)
  \/ \E a \in asks : ReadServices(a) \/ ReadAttempts(a) \/ Answered(a) \/ Failed(a)
  \/ Export
  \/ ExportServices
  \/ ExportSent
  \/ ExportLogged
  \/ ExportFailed

LogsSpec == LogsInit /\ [][LogsNext]_histories

---------------------------------------------------------------------------
(* Properties *)

\* Who looks at the pages one after the other, each asked for once the one before was
\* seen, has at the last page seen every entry that was there at the first, however many
\* entries are written in between and between the two reads of one page; only a removed
\* account makes entries move forward past a page's edge.
WalkLosesNothing ==
  walk.n > 0 /\ walk.n >= walk.pages /\ walk.removals = removals => walk.base \subseteq walk.seen

\* Rows that are displayed without a spinner are those of the filters, the page and
\* the page size on the screen, unless requests overlapped or the last one failed.
ShowsWhatIsAsked ==
  Displayed # "spinner" /\ ~overlapped /\ ~error =>
    shown.filter = applied /\ shown.page = page /\ shown.limit = limit

\* "No entries" means that there are none: no search, page size or click leads past
\* the last page, unless an account was removed or the page was chosen while the
\* pagination was still, or after an error, that of another search.
EmptyMeansNone ==
  shown.clean /\ removals = 0 /\ Displayed = "none" => shown.total = 0

\* A file holds all that was displayed when it was asked for, attempts of removed
\* accounts excepted (removed service entries lose their name only), as long as the
\* history is not longer than a file.
ExportHoldsShown ==
  removals = 0 /\ Cardinality(entries) <= FileLimit => exported.shown \subseteq exported.rows

\* Every reachable state is well typed, and neither page nor file says what is not so.
PagesTellTruth == LogsOK /\ ShowsWhatIsAsked /\ EmptyMeansNone /\ ExportHoldsShown

=============================================================================
