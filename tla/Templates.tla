----------------------------- MODULE Templates ------------------------------
(***************************************************************************)
(* The report templates of the inspection targets: CustomerDocumentsPage    *)
(* over InspectionTargetsService. A template is a file named after the      *)
(* customer and the product, and its path is a column of the target.        *)
(*                                                                          *)
(* The service works on the file system between two awaits without one of   *)
(* its own, so that no other request sees it between the unlink of the old   *)
(* file and the writing of the new one; but it can end there, and between    *)
(* the file and the row. Every upload is a file of its own content, its      *)
(* number.                                                                   *)
(***************************************************************************)
EXTENDS CustomerTables

VARIABLES
  files,      \* uploads/templates: the path of each file and the upload it holds
  view,       \* the page: the name and the targets it has loaded
  uploads,    \* uploads on their way
  sent,       \* uploads begun so far
  downloads,  \* downloads on their way
  latest,     \* history: the last upload whose path each target's row was given
  owner,      \* history: the target of each upload
  strange,    \* history: a download was answered with another target's file
  crowded,    \* history: targets of which two uploads were on their way at once
  broken,     \* history: targets whose last upload ended between the unlink and the row
  silent,     \* history: uploads that replaced a file without a question
  blind       \* history: uploads whose question could not be asked, or came too early

docs == <<files, view, uploads, sent, downloads, latest, owner, strange, crowded, broken, silent, blind>>

TemplatesOK ==
  /\ sent \in Nat
  /\ files \subseteq [path : Path, content : Nat] /\ \A f, g \in files : f.path = g.path => f = g
  /\ view.name \in Name \cup {none} /\ IsFiniteSet(view.list)
  /\ \A u \in uploads :
       /\ u.id \in 1..sent /\ u.path \in Path /\ u.old \in Path \cup {none} /\ u.asked \in BOOLEAN
       /\ u.step \in {"check", "ask", "sent", "found", "stored", "done", "refused"}
  /\ \A d \in downloads : d.step \in {"sent", "found"} /\ d.path \in Path \cup {none}
  /\ latest \in [DOMAIN latest -> 1..sent] /\ owner \in [1..sent -> 1..Len(products)]
  /\ strange \in BOOLEAN
  /\ crowded \subseteq 1..Len(products) /\ broken \subseteq 1..Len(products)
  /\ silent \subseteq 1..sent /\ blind \subseteq 1..sent

TemplatesInit ==
  /\ files = {} /\ uploads = {} /\ sent = 0 /\ downloads = {}
  /\ view = [name |-> none, list |-> {}]
  /\ latest = <<>> /\ owner = <<>> /\ strange = FALSE
  /\ crowded = {} /\ broken = {} /\ silent = {} /\ blind = {}

Holds(p) == \E f \in files : f.path = p
ContentOf(p) == (CHOOSE f \in files : f.path = p).content
RowOf(id) == CHOOSE g \in targets : g.id = id
Known(id) == \E g \in targets : g.id = id

---------------------------------------------------------------------------
(* The page *)

\* The customer and the targets are loaded when the page is opened ...
fetchData ==
  /\ scenario.templates > 0 /\ customer # none
  /\ view' = [name |-> customer.name, list |-> targets]
  /\ view' # view
  /\ UNCHANGED <<scenario, tables, files, uploads, sent, downloads, latest, owner, strange, crowded, broken, silent, blind>>

\* The kinds of file that may be chosen, the targets offered for upload, those for download.
Extension == {"pdf", "hwp"}
Chosen == view.list
CanDownload == {g \in view.list : g.template # none}

\* ... and the page asks whether the chosen target has a template.
handleSubmitUpload(g, ext) ==
  /\ view.name # none /\ g \in Chosen /\ ext \in Extension /\ sent < scenario.templates
  /\ sent' = sent + 1
  /\ uploads' = uploads \cup {[id |-> sent', target |-> g.id, path |-> <<view.name, g.product, ext>>,
                               old |-> none, asked |-> FALSE, step |-> "check"]}
  /\ owner' = Append(owner, g.id)
  /\ LET near == {u \in uploads : u.target = g.id \/ u.path = <<view.name, g.product, ext>>}
     IN crowded' = IF near = {} THEN crowded ELSE crowded \cup {g.id} \cup {u.target : u \in near}
  /\ UNCHANGED <<scenario, tables, files, view, downloads, latest, strange, broken, silent, blind>>

Goes(u, w) == uploads' = (uploads \ {u}) \cup {w}

Slip_checkExistingTemplate(u) ==  \* the answer is not looked at
  /\ u.step = "check"
  /\ Goes(u, [u EXCEPT !.step = "sent"])
  /\ UNCHANGED <<scenario, tables, files, view, sent, downloads, latest, owner, strange, crowded, broken, silent, blind>>

\* A target that has a template needs a confirmation.
checkExistingTemplate(u) ==
  /\ u.step = "check" /\ Known(u.target)
  /\ Goes(u, [u EXCEPT !.step = IF RowOf(u.target).template # none THEN "ask" ELSE "sent"])
  /\ UNCHANGED <<scenario, tables, files, view, sent, downloads, latest, owner, strange, crowded, broken, silent, blind>>

\* An error of the check, a removed target among them, counts as: no template.
CheckFailed(u) ==
  /\ u.step = "check" /\ (scenario.fails \/ ~Known(u.target))
  /\ Goes(u, [u EXCEPT !.step = "sent"])
  /\ blind' = blind \cup {u.id}
  /\ UNCHANGED <<scenario, tables, files, view, sent, downloads, latest, owner, strange, crowded, broken, silent>>

Confirm(u) ==
  /\ u.step = "ask"
  /\ \/ Goes(u, [u EXCEPT !.step = "sent", !.asked = TRUE])
     \/ uploads' = uploads \ {u}
  /\ UNCHANGED <<scenario, tables, files, view, sent, downloads, latest, owner, strange, crowded, broken, silent, blind>>

\* The targets are loaded again and the dialog is closed; an error is shown.
UploadAnswered(u) ==
  /\ u.step \in {"done", "refused"}
  /\ uploads' = uploads \ {u}
  /\ view' = IF u.step = "done" THEN [view EXCEPT !.list = targets] ELSE view
  /\ UNCHANGED <<scenario, tables, files, sent, downloads, latest, owner, strange, crowded, broken, silent, blind>>

---------------------------------------------------------------------------
(* uploadTemplate *)

FoundTarget(u) ==
  /\ u.step = "sent"
  /\ Goes(u, IF Known(u.target) THEN [u EXCEPT !.step = "found", !.old = RowOf(u.target).template]
                                ELSE [u EXCEPT !.step = "refused"])
  /\ UNCHANGED <<scenario, tables, files, view, sent, downloads, latest, owner, strange, crowded, broken, silent, blind>>

\* A template that is in use is replaced.
Replaces(u) == \E g \in targets : g.template \in {u.old, u.path} \ {none} /\ Holds(g.template)

Slip_StoredFile(u) ==  \* written first, then the old template unlinked
  /\ u.step = "found"
  /\ Goes(u, [u EXCEPT !.step = "stored"])
  /\ files' = {f \in files \cup {[path |-> u.path, content |-> u.id]} : f.path # u.old /\ (f.path # u.path \/ f.content = u.id)}
  /\ silent' = IF ~u.asked /\ Replaces(u) THEN silent \cup {u.id} ELSE silent
  /\ UNCHANGED <<scenario, tables, view, sent, downloads, latest, owner, strange, crowded, broken, blind>>

\* The old template is unlinked, if it is there, and the new one written.
StoredFile(u) ==
  /\ u.step = "found"
  /\ Goes(u, [u EXCEPT !.step = "stored"])
  /\ files' = {f \in files : f.path \notin {u.old, u.path}} \cup {[path |-> u.path, content |-> u.id]}
  /\ silent' = IF ~u.asked /\ Replaces(u) THEN silent \cup {u.id} ELSE silent
  /\ UNCHANGED <<scenario, tables, view, sent, downloads, latest, owner, strange, crowded, broken, blind>>

\* The path is written into the row; of a target that is gone the file stays.
RowUpdated(u) ==
  /\ u.step = "stored"
  /\ Goes(u, [u EXCEPT !.step = IF Known(u.target) THEN "done" ELSE "refused"])
  /\ targets' = {IF g.id = u.target THEN [g EXCEPT !.template = u.path] ELSE g : g \in targets}
  /\ latest' = IF Known(u.target) THEN [g \in DOMAIN latest \cup {u.target} |-> IF g = u.target THEN u.id ELSE latest[g]]
               ELSE latest
  /\ broken' = broken \ {u.target}
  /\ UNCHANGED <<scenario, customer, others, products, version, names, files, view, sent, downloads,
                 owner, strange, crowded, silent, blind>>

\* The disk is full, or the process ends, after the unlink: no new file, and the row as it was.
StoreFails(u) ==
  /\ u.step = "found" /\ scenario.fails
  /\ Goes(u, [u EXCEPT !.step = "refused"])
  /\ files' = {f \in files : f.path # u.old}
  /\ broken' = broken \cup {u.target}
  /\ silent' = IF ~u.asked /\ Replaces(u) THEN silent \cup {u.id} ELSE silent
  /\ UNCHANGED <<scenario, tables, view, sent, downloads, latest, owner, strange, crowded, blind>>

\* The row cannot be written, or the process ends before it: the file is there, or a part of it.
UpdateFails(u) ==
  /\ u.step = "stored" /\ scenario.fails
  /\ Goes(u, [u EXCEPT !.step = "refused"])
  /\ broken' = broken \cup {u.target}
  /\ UNCHANGED <<scenario, tables, files, view, sent, downloads, latest, owner, strange, crowded, silent, blind>>

\* The page of another customer writes a template of its own.
ForeignUpload(n, p) ==
  /\ scenario.foreign > 0 /\ n \in others
  /\ ~\E f \in files : f.path = <<n, p, "pdf">> /\ f.content = 0
  /\ files' = {f \in files : f.path # <<n, p, "pdf">>} \cup {[path |-> <<n, p, "pdf">>, content |-> 0]}
  /\ UNCHANGED <<scenario, tables, view, uploads, sent, downloads, latest, owner, strange, crowded, broken, silent, blind>>

---------------------------------------------------------------------------
(* downloadTemplate *)

handleDownloadTemplate(g) ==
  /\ scenario.downloads > 0 /\ downloads = {} /\ g \in CanDownload
  /\ downloads' = {[target |-> g.id, step |-> "sent", path |-> none]}
  /\ UNCHANGED <<scenario, tables, files, view, uploads, sent, latest, owner, strange, crowded, broken, silent, blind>>

\* The row; of no row, or none with a path, there is no template.
FoundPath(d) ==
  /\ d.step = "sent"
  /\ downloads' = IF Known(d.target) /\ RowOf(d.target).template # none
                  THEN {[d EXCEPT !.step = "found", !.path = RowOf(d.target).template]}
                  ELSE {}
  /\ UNCHANGED <<scenario, tables, files, view, uploads, sent, latest, owner, strange, crowded, broken, silent, blind>>

\* The bytes at the path, or an error when there are none.
Served(d) ==
  /\ d.step = "found"
  /\ downloads' = {}
  /\ strange' = (strange \/ (Holds(d.path) /\ (IF ContentOf(d.path) = 0 THEN TRUE ELSE owner[ContentOf(d.path)] # d.target)))
  /\ UNCHANGED <<scenario, tables, files, view, uploads, sent, latest, owner, crowded, broken, silent, blind>>

---------------------------------------------------------------------------
(* Properties *)

\* The path of a target leads to the file that was uploaded for it last, and every
\* download to a file of its target: a name is another target's only after a customer
\* was renamed, or took the name of a removed one, or when a product was used twice;
\* and a file is missing, or not the last one, only after two uploads for its target at
\* once, or since an upload that ended between the unlink and the row. The next upload
\* that succeeds mends the latter.
TemplatesAreOwn ==
  NothingShared =>
    /\ ~strange
    /\ \A g \in targets :
         g.template # none /\ g.id \notin crowded \cup broken /\ ~(\E u \in uploads : u.target = g.id /\ u.step = "stored") =>
           Holds(g.template) /\ ContentOf(g.template) = latest[g.id]

\* A template in use is replaced only after a question, unless the check failed, two
\* uploads were on their way at once, or names were shared as above.
NoneReplacedSilently ==
  NothingShared => \A u \in silent : u \in blind \/ owner[u] \in crowded

=============================================================================
