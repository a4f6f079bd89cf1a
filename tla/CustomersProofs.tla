--------------------------- MODULE CustomersProofs ---------------------------
(***************************************************************************)
(* Proofs about Customers, for any pages, names, products and numbers of     *)
(* steps.                                                                    *)
(*                                                                           *)
(* Three threads run through the inductive invariant: what a load, a form or *)
(* a save knows of the row is the row itself as long as nobody wrote it; while *)
(* targets are only added in order, a target's number follows from its id;   *)
(* and the path of a template says whose it is, so that only uploads for the *)
(* same target meet in one file.                                             *)
(***************************************************************************)
EXTENDS Customers, FiniteSetTheorems, SequenceTheorems, TLAPS

\* A target as some list has it: its product is that of its id.
Listed == {g \in Target : g.id <= Len(products) /\ g.product = products[g.id]}

TabState ==
  [page : {"list", "detail", "edit"}, mount : Nat, customer : Customer \cup {none}, version : Nat,
   form : Form, touched : SUBSET Field, loading : BOOLEAN, saving : BOOLEAN, list : SUBSET Target]
LoadState ==
  [tab : Tab, mount : Nat, step : {"sent", "answered"}, customer : Customer \cup {none},
   version : Nat, list : SUBSET Target]
SaveState ==
  [tab : Tab, mount : Nat, form : Form, touched : SUBSET Field, version : Nat,
   step : {"sent", "found", "checked", "stored", "refused"}, before : Name \cup {none}]
CallFits(c) ==
  /\ c = [tab |-> c.tab, mount |-> c.mount, kind |-> c.kind, what |-> c.what, step |-> c.step]
  /\ c.tab \in Tab /\ c.mount \in Nat /\ c.kind \in {"add", "remove", "delete"}
  /\ c.step \in {"sent", "done", "refused"}
  /\ c.kind = "add" => c.what \in Nat \X Product

\* What the pages hold and what they have sent is well typed ...
MessagesFit ==
  /\ tab \in [Tab -> TabState] /\ loads \subseteq LoadState /\ saves \subseteq SaveState
  /\ \A c \in calls : CallFits(c)

\* ... and the lists they have are of targets that were there.
ListsFit ==
  /\ targets \subseteq Listed /\ view.list \subseteq Listed
  /\ \A t \in Tab : tab[t].list \subseteq Listed /\ IsFiniteSet(tab[t].list)
  /\ \A l \in loads : l.list \subseteq Listed /\ IsFiniteSet(l.list)

\* A call belongs to a page that was opened.
CallsAreOfPages == \A c \in calls : c.mount <= tab[c.tab].mount

IdsAreOwn == \A g, h \in targets : g.id = h.id => g = h

---------------------------------------------------------------------------
(* The row *)

\* A form of that version of the row differs from it in what was typed only.
Agrees(form, touched, v) ==
  /\ v \in Nat /\ v <= version
  /\ v = version => customer # none /\ \A f \in Field \ touched : form[f] = FormOf(customer)[f]

FormsAgree ==
  /\ \A l \in loads : l.step = "answered" =>
       l.version \in Nat /\ l.version <= version /\ (l.version = version => l.customer = customer)
  /\ \A t \in Tab : tab[t].customer # none => Agrees(tab[t].form, tab[t].touched, tab[t].version)
  /\ \A s \in saves : Agrees(s.form, s.touched, s.version)
  /\ ~mismatch

---------------------------------------------------------------------------
(* The order of the targets *)

\* The list of the page is on its way.
Awaits(t, l) == l.tab = t /\ l.mount = tab[t].mount

\* The n-th target has the number n - 1, and whoever may add the next one has a list of
\* all of them.
AllThere ==
  /\ \A i \in 1..Len(products) : \E g \in targets : g.id = i
  /\ \A g \in targets : g.order = g.id - 1
  /\ \A c \in calls : c.kind = "add" /\ c.step = "sent" => c.what[1] = Len(products)
  /\ \A t \in Tab : tab[t].page = "edit" =>
       /\ \A l \in loads : Awaits(t, l) /\ l.step = "answered" => Cardinality(l.list) = Len(products)
       /\ tab[t].customer # none =>
            \/ Cardinality(tab[t].list) = Len(products)
            \/ \E l \in loads : Awaits(t, l)
            \/ \E c \in calls : c.kind = "add"

\* While targets are only added in order, one is on its way at most, and from the only
\* form there is.
InOrder ==
  ~hurried =>
    /\ \A c \in calls : c.kind # "remove"
    /\ \A c, d \in calls : c.kind = "add" /\ d.kind = "add" => c = d
    /\ \A c \in calls, t \in Tab : c.kind = "add" /\ tab[t].page = "edit" =>
         t = c.tab /\ c.mount = tab[t].mount /\ \A l \in loads : ~Awaits(t, l)
    /\ customer # none => AllThere

---------------------------------------------------------------------------
(* The templates *)

\* A path says by its name and its product whose it is.
Fits(p, id) ==
  /\ p \in Path /\ p[1] \in names
  /\ id \in 1..Len(products) /\ p[2] = products[id]

ViewState == [name : Name \cup {none}, list : SUBSET Target]
UploadState ==
  [id : Nat, target : Nat, path : Path, old : Path \cup {none}, asked : BOOLEAN,
   step : {"check", "ask", "sent", "found", "stored", "done", "refused"}]
DownloadState == [target : Nat, step : {"sent", "found"}, path : Path \cup {none}]

UploadFits(u) ==
  /\ u \in UploadState
  /\ Fits(u.path, u.target)
  /\ u.old # none => Fits(u.old, u.target)
  /\ owner[u.id] = u.target

DownloadFits(d) ==
  /\ d \in DownloadState
  /\ d.path # none => Fits(d.path, d.target)
  /\ d.step = "found" => d.path # none

PathsFit ==
  /\ names # {}
  /\ customer # none => customer.name \in names
  /\ view.name # none => view.name \in names
  /\ view \in ViewState
  /\ \A g \in targets : g.template # none => Fits(g.template, g.id)
  /\ \A u \in uploads : UploadFits(u)
  /\ \A d \in downloads : DownloadFits(d)
  /\ \A f \in files :
       \/ f.content = 0 /\ f.path[1] \in others
       \/ f.content \in 1..sent /\ Fits(f.path, owner[f.content])

\* Two uploads on their way for one target are noted.
CrowdsAreNoted ==
  \A u, v \in uploads :
    /\ u.id = v.id => u = v
    /\ u # v /\ u.target = v.target => u.target \in crowded

\* An upload that nobody was asked about goes to a target without a template.
AskedFirst ==
  \A u \in uploads :
    u.step \in {"sent", "found"} /\ ~u.asked /\ u.id \notin blind /\ u.target \notin crowded =>
      \A g \in targets : g.id = u.target => g.template = none

Keeps(p, content) == \E f \in files : f.path = p /\ f.content = content

\* What was stored last for a target is there, before its row says so and after.
FilesAreThere ==
  NothingShared =>
    /\ ~strange
    /\ \A u \in uploads : u.step = "stored" /\ u.target \notin crowded => Keeps(u.path, u.id)
    /\ \A g \in targets :
         g.template # none /\ g.id \notin crowded \cup broken /\ ~(\E u \in uploads : u.target = g.id /\ u.step = "stored") =>
           g.id \in DOMAIN latest /\ Keeps(g.template, latest[g.id])

IInv ==
  /\ TypeOK /\ NothingOutlivesCustomer
  /\ MessagesFit /\ ListsFit /\ CallsAreOfPages /\ IdsAreOwn /\ FormsAgree /\ InOrder
  /\ PathsFit /\ CrowdsAreNoted /\ AskedFirst /\ FilesAreThere /\ NoneReplacedSilently

---------------------------------------------------------------------------
(* Steps *)

\* A step is of the pages of the customer or of the page of the templates.
PagesNext ==
  \/ \E t \in Tab : OpenDetail(t)
  \/ \E t \in Tab : OpenEdit(t)
  \/ \E l \in loads : findOne(l)
  \/ \E l \in loads : Loaded(l)
  \/ \E l \in loads : LoadFailed(l)
  \/ \E t \in Tab, f \in Field : \E v \in Values(f) : handleChange(t, f, v)
  \/ \E t \in Tab : handleSave(t)
  \/ \E s \in saves : Found(s)
  \/ \E s \in saves : NameChecked(s)
  \/ \E s \in saves : Written(s)
  \/ \E s \in saves : WriteRefused(s)
  \/ \E s \in saves : SaveAnswered(s)
  \/ \E s \in saves : SaveFailed(s)
  \/ \E t \in Tab, p \in Product : handleAddInspectionTarget(t, p)
  \/ \E t \in Tab : \E g \in tab[t].list : handleDeleteInspectionTarget(t, g)
  \/ \E t \in Tab : handleDeleteCustomer(t)
  \/ \E c \in calls : TargetCreated(c)
  \/ \E c \in calls : TargetRemoved(c)
  \/ \E c \in calls : CustomerDeleted(c)
  \/ \E c \in calls : CallAnswered(c)
  \/ \E c \in calls : CallFailed(c)
  \/ \E n \in Name : handleAddCustomer(n)
  \/ \E d \in Day : ReportUploaded(d)

TemplatesNext ==
  \/ fetchData
  \/ \E g \in view.list, e \in Extension : handleSubmitUpload(g, e)
  \/ \E u \in uploads : checkExistingTemplate(u)
  \/ \E u \in uploads : CheckFailed(u)
  \/ \E u \in uploads : Confirm(u)
  \/ \E u \in uploads : FoundTarget(u)
  \/ \E u \in uploads : StoredFile(u)
  \/ \E u \in uploads : RowUpdated(u)
  \/ \E u \in uploads : StoreFails(u)
  \/ \E u \in uploads : UpdateFails(u)
  \/ \E u \in uploads : UploadAnswered(u)
  \/ \E n \in Name, p \in Product : ForeignUpload(n, p)
  \/ \E g \in view.list : handleDownloadTemplate(g)
  \/ \E d \in downloads : FoundPath(d)
  \/ \E d \in downloads : Served(d)

\* A step is one of a page or one of the templates, and leaves the other's variables alone.
LEMMA StepIsOfAPage ==
  ASSUME [Next]_vars
  PROVE  \/ PagesNext /\ UNCHANGED docs
         \/ TemplatesNext /\ UNCHANGED pages
         \/ UNCHANGED vars
  BY DEF Next, PagesNext, TemplatesNext

---------------------------------------------------------------------------
(* What a step does to the tables *)

\* A new target is the next one, and has no template.
Adding ==
  \E product \in Product, order \in Nat :
    /\ products' = Append(products, product)
    /\ targets' = targets \cup
         {[id |-> Len(products) + 1, order |-> order, product |-> product, template |-> none]}
    /\ customer # none

\* The pages add targets one by one, and forget no name.
Grows ==
  /\ scenario' = scenario /\ names \subseteq names' /\ others \subseteq others'
  /\ (products' = products /\ targets' \subseteq targets) \/ Adding
  /\ customer' # none => customer # none /\ customer'.name \in names'
  /\ customer' = none => targets' = {} \/ (customer = none /\ targets' \subseteq targets)

\* The steps of the customer's pages.
LEMMA PagesGrow ==
  ASSUME CustomerAssumption, TablesOK, MessagesFit, PathsFit, PagesNext
  PROVE  Grows
<1> DEFINE G == Grows
<1> SUFFICES G
  OBVIOUS
<1>a. customer # none => customer.name \in names
  BY DEF PathsFit
<1> USE DEF Grows, tables, docs, pages
<1>1. ASSUME NEW t \in Tab, OpenDetail(t) PROVE G
  BY <1>1, <1>a DEF OpenDetail, Once, Shows, Set, Closed, Load
<1>2. ASSUME NEW t \in Tab, OpenEdit(t) PROVE G
  BY <1>2, <1>a DEF OpenEdit, Once, Shows, Set, Closed, Load
<1>3. ASSUME NEW l \in loads, findOne(l) PROVE G
  BY <1>3, <1>a DEF findOne
<1>4. ASSUME NEW l \in loads, Loaded(l) PROVE G
  BY <1>4, <1>a DEF Loaded, Set, FormOf
<1>5. ASSUME NEW l \in loads, LoadFailed(l) PROVE G
  BY <1>5, <1>a DEF LoadFailed, Set
<1>6. ASSUME NEW t \in Tab, NEW f \in Field, NEW v \in Values(f), handleChange(t, f,
      v) PROVE G
  BY <1>6, <1>a DEF handleChange, Ready, Once, Set
<1>7. ASSUME NEW t \in Tab, handleSave(t) PROVE G
  BY <1>7, <1>a DEF handleSave, Ready, Once, Set
<1>8. ASSUME NEW s \in saves, Found(s) PROVE G
  BY <1>8, <1>a DEF Found
<1>9. ASSUME NEW s \in saves, NameChecked(s) PROVE G
  BY <1>9, <1>a DEF NameChecked, Moves
<1>10. ASSUME NEW s \in saves, Written(s) PROVE G
  <2>1. customer' = Stored(s.form, customer) /\ s.form \in Form
    BY <1>10 DEF Written, MessagesFit, SaveState
  <2>2. customer'.name = s.form.name
    BY <2>1 DEF Stored, Form
  <2>3. customer' \in Customer
    <3>1. customer \in Customer
      BY <1>10 DEF Written, TablesOK
    <3> QED
      BY <2>1, <3>1 DEF Stored, Form, Customer
  <2>4. customer' # none
    BY <2>3 DEF CustomerAssumption
  <2> QED
    BY <1>10, <2>2, <2>4 DEF Written
<1>11. ASSUME NEW s \in saves, WriteRefused(s) PROVE G
  BY <1>11, <1>a DEF WriteRefused, Moves
<1>12. ASSUME NEW s \in saves, SaveAnswered(s) PROVE G
  BY <1>12, <1>a DEF SaveAnswered, Shows, Set, Closed, Load
<1>13. ASSUME NEW s \in saves, SaveFailed(s) PROVE G
  BY <1>13, <1>a DEF SaveFailed, Set
<1>14. ASSUME NEW t \in Tab, NEW p \in Product, handleAddInspectionTarget(t, p)
      PROVE G
  BY <1>14, <1>a DEF handleAddInspectionTarget, Ready, Once, Call
<1>15. ASSUME NEW t \in Tab, NEW g \in tab[t].list, handleDeleteInspectionTarget(t,
      g) PROVE G
  BY <1>15, <1>a DEF handleDeleteInspectionTarget, Ready, Once, Call
<1>16. ASSUME NEW t \in Tab, handleDeleteCustomer(t) PROVE G
  BY <1>16, <1>a DEF handleDeleteCustomer, Ready, Once, Call
<1>17. ASSUME NEW c \in calls, TargetCreated(c) PROVE G
  <2>1. CASE customer = none
    BY <1>17, <2>1 DEF TargetCreated
  <2>2. CASE customer # none
    <3>1. c.what \in Nat \X Product
      BY <1>17 DEF TargetCreated, MessagesFit, CallFits
    <3>2. c.what[1] \in Nat /\ c.what[2] \in Product
      BY <3>1
    <3>3. Len(products') = Len(products) + 1 /\ products' = Append(products, c.what[2])
      BY <1>17, <2>2, <3>2, AppendProperties DEF TargetCreated, Created, TablesOK
    <3>4. targets' = targets \cup {[id |-> Len(products) + 1, order |-> c.what[1],
                                    product |-> c.what[2], template |-> none]}
      BY <1>17, <2>2, <3>3 DEF TargetCreated, Created
    <3>5. Adding
      BY <2>2, <3>2, <3>3, <3>4 DEF Adding
    <3> QED
      BY <1>17, <2>2, <3>5, <1>a DEF TargetCreated, Created
  <2> QED
    BY <2>1, <2>2
<1>18. ASSUME NEW c \in calls, TargetRemoved(c) PROVE G
  BY <1>18, <1>a DEF TargetRemoved, Becomes
<1>19. ASSUME NEW c \in calls, CustomerDeleted(c) PROVE G
  BY <1>19, <1>a DEF CustomerDeleted, Becomes, Deleted
<1>20. ASSUME NEW c \in calls, CallAnswered(c) PROVE G
  BY <1>20, <1>a DEF CallAnswered, Shows, Set, Closed, Load
<1>21. ASSUME NEW c \in calls, CallFailed(c) PROVE G
  BY <1>21, <1>a DEF CallFailed
<1>22. ASSUME NEW n \in Name, handleAddCustomer(n) PROVE G
  BY <1>22, <1>a DEF handleAddCustomer, Once
<1>23. ASSUME NEW d \in Day, ReportUploaded(d) PROVE G
  <2>1. customer \in Customer
    BY <1>23 DEF ReportUploaded, TablesOK
  <2>2. customer'.name = customer.name
    BY <1>23, <2>1 DEF ReportUploaded, Customer
  <2>3. customer # none /\ customer' = [customer EXCEPT !.last = d]
    BY <1>23 DEF ReportUploaded
  <2>4. customer' \in Customer
    BY <1>23, <2>1, <2>3 DEF Customer
  <2>5. customer' # none
    BY <2>4 DEF CustomerAssumption
  <2> QED
    BY <1>23, <1>a, <2>2, <2>3, <2>5 DEF ReportUploaded
<1> HIDE DEF G, Grows, tables, docs, pages
<1> QED
  BY <1>1, <1>2, <1>3, <1>4, <1>5, <1>6, <1>7, <1>8, <1>9, <1>10, <1>11, <1>12,
     <1>13, <1>14, <1>15, <1>16, <1>17, <1>18, <1>19, <1>20, <1>21, <1>22, <1>23 DEF
     PagesNext

\* The page of the templates writes the path of one target.
LEMMA TemplatesOnly ==
  ASSUME TemplatesNext
  PROVE  /\ UNCHANGED <<scenario, customer, others, products, version, names>>
         /\ UNCHANGED targets \/ \E u \in uploads : RowUpdated(u)

<1> DEFINE G ==
       /\ UNCHANGED <<scenario, customer, others, products, version, names>>
       /\ UNCHANGED targets \/ \E u \in uploads : RowUpdated(u)
<1> SUFFICES G
  OBVIOUS
<1> USE DEF tables, docs, pages
<1>1. ASSUME fetchData PROVE G
  BY <1>1 DEF fetchData
<1>2. ASSUME NEW g \in view.list, NEW e \in Extension, handleSubmitUpload(g, e)
      PROVE G
  BY <1>2 DEF handleSubmitUpload
<1>3. ASSUME NEW u \in uploads, checkExistingTemplate(u) PROVE G
  BY <1>3 DEF checkExistingTemplate, Goes
<1>4. ASSUME NEW u \in uploads, CheckFailed(u) PROVE G
  BY <1>4 DEF CheckFailed, Goes
<1>5. ASSUME NEW u \in uploads, Confirm(u) PROVE G
  BY <1>5 DEF Confirm, Goes
<1>6. ASSUME NEW u \in uploads, FoundTarget(u) PROVE G
  BY <1>6 DEF FoundTarget, Goes
<1>7. ASSUME NEW u \in uploads, StoredFile(u) PROVE G
  BY <1>7 DEF StoredFile, Goes
<1>8. ASSUME NEW u \in uploads, RowUpdated(u) PROVE G
  BY <1>8 DEF RowUpdated
<1>9. ASSUME NEW u \in uploads, UploadAnswered(u) PROVE G
  BY <1>9 DEF UploadAnswered
<1>10. ASSUME NEW n \in Name, NEW p \in Product, ForeignUpload(n, p) PROVE G
  BY <1>10 DEF ForeignUpload
<1>11. ASSUME NEW g \in view.list, handleDownloadTemplate(g) PROVE G
  BY <1>11 DEF handleDownloadTemplate
<1>12. ASSUME NEW d \in downloads, FoundPath(d) PROVE G
  BY <1>12 DEF FoundPath
<1>13. ASSUME NEW d \in downloads, Served(d) PROVE G
  BY <1>13 DEF Served
<1>14. ASSUME NEW u \in uploads, StoreFails(u) PROVE G
  BY <1>14 DEF StoreFails, Goes
<1>15. ASSUME NEW u \in uploads, UpdateFails(u) PROVE G
  BY <1>15 DEF UpdateFails, Goes
<1> HIDE DEF G, tables, docs, pages
<1> QED
  BY <1>1, <1>2, <1>3, <1>4, <1>5, <1>6, <1>7, <1>8, <1>9, <1>10, <1>11, <1>12,
     <1>13, <1>14, <1>15 DEF TemplatesNext

\* After it every target is one of before, with its new path if it is the upload's.
LEMMA RowsUpdated ==
  ASSUME TablesOK, ListsFit, IdsAreOwn, NEW u \in uploads, UploadFits(u), RowUpdated(u)
  PROVE  /\ \A h \in targets' : \E g \in targets :
              /\ h.id = g.id /\ h.order = g.order /\ h.product = g.product
              /\ h.template = IF g.id = u.target THEN u.path ELSE g.template
         /\ \A g \in targets : \E h \in targets' : h.id = g.id
         /\ IsFiniteSet(targets')
         /\ \A h \in targets' : h \in Listed
         /\ \A g, h \in targets' : g.id = h.id => g = h
<1> DEFINE Of(g) == IF g.id = u.target THEN [g EXCEPT !.template = u.path] ELSE g
<1>1. targets' = {Of(g) : g \in targets}
  BY DEF RowUpdated
<1>2. u.path \in Path
  BY DEF UploadFits, Fits
<1>3. ASSUME NEW g \in targets
      PROVE  /\ Of(g) \in Target /\ Of(g).id = g.id /\ Of(g).order = g.order
             /\ Of(g).product = g.product
             /\ Of(g).template = IF g.id = u.target THEN u.path ELSE g.template
  BY <1>2 DEF TablesOK, Target
<1> HIDE DEF Of
<1>4. IsFiniteSet(targets')
  <2> DEFINE F == [g \in targets |-> Of(g)]
  <2>1. F \in Surjection(targets, targets')
    BY <1>1 DEF Surjection
  <2> HIDE DEF F
  <2> QED
    BY <2>1, FS_Surjection DEF TablesOK
<1>5. \A h \in targets' : h \in Listed
  BY <1>1, <1>3 DEF ListsFit, Listed
<1> QED
  BY <1>1, <1>3, <1>4, <1>5 DEF IdsAreOwn

\* A new row is a row, and a new version of it.
LEMMA RowTyped ==
  ASSUME TablesOK, MessagesFit, PagesNext
  PROVE  /\ customer' \in Customer \cup {none} /\ version' \in Nat
         /\ (customer' = customer /\ version' = version) \/ version' = version + 1
         /\ names' \subseteq Name /\ others' \subseteq Name
<1> DEFINE G ==
       /\ customer' \in Customer \cup {none} /\ version' \in Nat
       /\ (customer' = customer /\ version' = version) \/ version' = version + 1
       /\ names' \subseteq Name /\ others' \subseteq Name
<1> SUFFICES G
  OBVIOUS
<1>a. /\ customer \in Customer \cup {none} /\ version \in Nat
      /\ names \subseteq Name /\ others \subseteq Name
  BY DEF TablesOK
<1> USE DEF tables, docs, pages
<1>1. ASSUME NEW t \in Tab, OpenDetail(t) PROVE G
  BY <1>1, <1>a DEF OpenDetail, Once, Shows, Set, Closed, Load
<1>2. ASSUME NEW t \in Tab, OpenEdit(t) PROVE G
  BY <1>2, <1>a DEF OpenEdit, Once, Shows, Set, Closed, Load
<1>3. ASSUME NEW l \in loads, findOne(l) PROVE G
  BY <1>3, <1>a DEF findOne
<1>4. ASSUME NEW l \in loads, Loaded(l) PROVE G
  BY <1>4, <1>a DEF Loaded, Set, FormOf
<1>5. ASSUME NEW l \in loads, LoadFailed(l) PROVE G
  BY <1>5, <1>a DEF LoadFailed, Set
<1>6. ASSUME NEW t \in Tab, NEW f \in Field, NEW v \in Values(f), handleChange(t, f,
      v) PROVE G
  BY <1>6, <1>a DEF handleChange, Ready, Once, Set
<1>7. ASSUME NEW t \in Tab, handleSave(t) PROVE G
  BY <1>7, <1>a DEF handleSave, Ready, Once, Set
<1>8. ASSUME NEW s \in saves, Found(s) PROVE G
  BY <1>8, <1>a DEF Found
<1>9. ASSUME NEW s \in saves, NameChecked(s) PROVE G
  BY <1>9, <1>a DEF NameChecked, Moves
<1>10. ASSUME NEW s \in saves, Written(s) PROVE G
  <2>1. s.form \in Form /\ customer \in Customer
    BY <1>10, <1>a DEF Written, MessagesFit, SaveState
  <2>2. Stored(s.form, customer) \in Customer
    BY <2>1 DEF Stored, Form, Customer
  <2>3. s.form.name \in Name
    BY <2>1 DEF Form
  <2> QED
    BY <1>10, <1>a, <2>2, <2>3 DEF Written
<1>11. ASSUME NEW s \in saves, WriteRefused(s) PROVE G
  BY <1>11, <1>a DEF WriteRefused, Moves
<1>12. ASSUME NEW s \in saves, SaveAnswered(s) PROVE G
  BY <1>12, <1>a DEF SaveAnswered, Shows, Set, Closed, Load
<1>13. ASSUME NEW s \in saves, SaveFailed(s) PROVE G
  BY <1>13, <1>a DEF SaveFailed, Set
<1>14. ASSUME NEW t \in Tab, NEW p \in Product, handleAddInspectionTarget(t, p)
      PROVE G
  BY <1>14, <1>a DEF handleAddInspectionTarget, Ready, Once, Call
<1>15. ASSUME NEW t \in Tab, NEW g \in tab[t].list, handleDeleteInspectionTarget(t,
      g) PROVE G
  BY <1>15, <1>a DEF handleDeleteInspectionTarget, Ready, Once, Call
<1>16. ASSUME NEW t \in Tab, handleDeleteCustomer(t) PROVE G
  BY <1>16, <1>a DEF handleDeleteCustomer, Ready, Once, Call
<1>17. ASSUME NEW c \in calls, TargetCreated(c) PROVE G
  BY <1>17, <1>a DEF TargetCreated, Becomes, Created
<1>18. ASSUME NEW c \in calls, TargetRemoved(c) PROVE G
  BY <1>18, <1>a DEF TargetRemoved, Becomes
<1>19. ASSUME NEW c \in calls, CustomerDeleted(c) PROVE G
  BY <1>19, <1>a DEF CustomerDeleted, Becomes, Deleted
<1>20. ASSUME NEW c \in calls, CallAnswered(c) PROVE G
  BY <1>20, <1>a DEF CallAnswered, Shows, Set, Closed, Load
<1>21. ASSUME NEW c \in calls, CallFailed(c) PROVE G
  BY <1>21, <1>a DEF CallFailed
<1>22. ASSUME NEW n \in Name, handleAddCustomer(n) PROVE G
  BY <1>22, <1>a DEF handleAddCustomer, Once
<1>23. ASSUME NEW d \in Day, ReportUploaded(d) PROVE G
  <2>1. customer \in Customer
    BY <1>23, <1>a DEF ReportUploaded
  <2>2. [customer EXCEPT !.last = d] \in Customer
    BY <2>1 DEF Customer
  <2> QED
    BY <1>23, <1>a, <2>2 DEF ReportUploaded
<1> HIDE DEF G, tables, docs, pages
<1> QED
  BY <1>1, <1>2, <1>3, <1>4, <1>5, <1>6, <1>7, <1>8, <1>9, <1>10, <1>11, <1>12,
     <1>13, <1>14, <1>15, <1>16, <1>17, <1>18, <1>19, <1>20, <1>21, <1>22, <1>23 DEF
     PagesNext

\* What is listed stays listed.
LEMMA ListedGrows ==
  ASSUME TablesOK, Adding \/ products' = products
  PROVE  Listed \subseteq Listed' /\ Len(products) \in Nat /\ Len(products') \in Nat
         /\ \A i \in 1..Len(products) : i \in 1..Len(products') /\ products'[i] = products[i]
<1>1. CASE products' = products
  <2>1. Len(products) \in Nat
    BY LenProperties DEF TablesOK
  <2> QED
    BY <1>1, <2>1 DEF Listed
<1>2. CASE Adding
  <2>1. PICK product \in Product : products' = Append(products, product)
    BY <1>2 DEF Adding
  <2>2. products \in Seq(Product)
    BY DEF TablesOK
  <2>3. /\ Len(products') = Len(products) + 1 /\ Len(products) \in Nat
        /\ \A i \in 1..Len(products) : products'[i] = products[i]
    BY <2>1, <2>2, AppendProperties, LenProperties
  <2>4. ASSUME NEW g \in Listed PROVE g \in Listed'
    <3>1. g \in Target /\ g.id \in Nat \ {0} /\ g.id <= Len(products) /\ g.product = products[g.id]
      BY DEF Listed, Target
    <3>2. g.id \in 1..Len(products) /\ g.id <= Len(products')
      BY <2>3, <3>1
    <3> QED
      BY <3>1, <3>2, <2>3 DEF Listed
  <2> QED
    BY <2>3, <2>4
<1> QED
  BY <1>1, <1>2

\* The tables stay in order.
LEMMA TablesKept ==
  ASSUME CustomerAssumption, TablesOK, MessagesFit, ListsFit, IdsAreOwn, NothingOutlivesCustomer, PathsFit,
         [Next]_vars
  PROVE  /\ TablesOK' /\ IdsAreOwn' /\ NothingOutlivesCustomer' /\ targets' \subseteq Listed'
         /\ Adding \/ products' = products
<1>1. CASE UNCHANGED <<scenario, tables>>
  BY <1>1 DEF tables, TablesOK, IdsAreOwn, NothingOutlivesCustomer, ListsFit, Listed
<1>2. CASE PagesNext
  <2>1. Grows
    BY <1>2, PagesGrow
  <2>2. /\ customer' \in Customer \cup {none} /\ version' \in Nat
        /\ names' \subseteq Name /\ others' \subseteq Name
    BY <1>2, RowTyped
  <2>3. NothingOutlivesCustomer'
    BY <2>1 DEF Grows, Adding, NothingOutlivesCustomer
  <2>4. CASE products' = products /\ targets' \subseteq targets
    <3>1. IsFiniteSet(targets')
      BY <2>4, FS_Subset DEF TablesOK
    <3> QED
      BY <2>1, <2>2, <2>3, <2>4, <3>1 DEF Grows, TablesOK, IdsAreOwn, ListsFit, Listed
  <2>5. CASE Adding
    <3>1. PICK product \in Product, order \in Nat :
            /\ products' = Append(products, product)
            /\ targets' = targets \cup
                 {[id |-> Len(products) + 1, order |-> order, product |-> product, template |-> none]}
      BY <2>5 DEF Adding
    <3> DEFINE new == [id |-> Len(products) + 1, order |-> order, product |-> product,
                       template |-> none]
    <3>2. products \in Seq(Product) /\ IsFiniteSet(targets) /\ \A g \in targets : g \in Target
      BY DEF TablesOK
    <3>3. /\ products' \in Seq(Product) /\ Len(products') = Len(products) + 1
          /\ products'[Len(products) + 1] = product /\ Len(products) \in Nat
      BY <3>1, <3>2, AppendProperties, LenProperties
    <3>4. new \in Target /\ new.id = Len(products) + 1 /\ new.product = product
      BY <3>3 DEF Target
    <3> HIDE DEF new
    <3>5. targets' = targets \cup {new}
      BY <3>1 DEF new
    <3>6. IsFiniteSet(targets')
      BY <3>2, <3>5, FS_AddElement
    <3>7. targets \subseteq Listed' /\ \A g \in targets : g.id <= Len(products)
      BY <2>5, ListedGrows DEF ListsFit, Listed
    <3>8. new \in Listed'
      BY <3>3, <3>4 DEF Listed
    <3>9. \A g \in targets : g.id \in Nat
      BY <3>2 DEF Target
    <3>10. targets' \subseteq Listed'
      BY <3>5, <3>7, <3>8
    <3>11. IdsAreOwn'
      BY <3>3, <3>4, <3>5, <3>7, <3>9 DEF IdsAreOwn
    <3>12. \A g \in targets' : g \in Target /\ g.id <= Len(products')
      BY <3>10 DEF Listed
    <3> QED
      BY <2>1, <2>2, <2>3, <2>5, <3>3, <3>6, <3>10, <3>11, <3>12 DEF Grows, TablesOK
  <2> QED
    BY <2>1, <2>4, <2>5 DEF Grows
<1>3. ASSUME NEW u \in uploads, RowUpdated(u),
             UNCHANGED <<scenario, customer, others, products, version, names>>
      PROVE  /\ TablesOK' /\ IdsAreOwn' /\ NothingOutlivesCustomer' /\ targets' \subseteq Listed'
             /\ products' = products
  <2>1. UploadFits(u)
    BY DEF PathsFit
  <2>2. /\ IsFiniteSet(targets') /\ \A h \in targets' : h \in Listed
        /\ \A h \in targets' : \E g \in targets : h.id = g.id
        /\ \A g, h \in targets' : g.id = h.id => g = h
    BY <1>3, <2>1, RowsUpdated
  <2>3. TablesOK' /\ targets' \subseteq Listed'
    BY <1>3, <2>2 DEF TablesOK, Listed
  <2> QED
    BY <1>3, <2>2, <2>3 DEF IdsAreOwn, NothingOutlivesCustomer
<1> QED
  BY StepIsOfAPage, TemplatesOnly, <1>1, <1>2, <1>3 DEF vars, tables

---------------------------------------------------------------------------
(* What is on its way *)

\* A page that is just opened.
LEMMA ShownFits ==
  ASSUME MessagesFit, Name # {}, NEW t \in Tab, NEW page \in {"list", "detail", "edit"}, Shows(t, page)
  PROVE  tab' \in [Tab -> TabState] /\ loads' \subseteq LoadState
<1> DEFINE r == [Closed EXCEPT !.page = page, !.mount = tab[t].mount + 1, !.loading = page # "list"]
           l == Load(t, tab[t].mount + 1)
<1>1. tab[t].mount + 1 \in Nat
  BY DEF MessagesFit, TabState
<1>2. (CHOOSE n \in Name : TRUE) \in Name
  OBVIOUS
<1>3. Blank \in Form
  BY <1>2 DEF Blank, Form
<1>4. r \in TabState
  <2>1. (page # "list") \in BOOLEAN
    OBVIOUS
  <2> QED
    BY <1>1, <1>3, <2>1 DEF Closed, TabState
<1>5. l \in LoadState
  BY <1>1 DEF Load, LoadState
<1>6. tab' = [tab EXCEPT ![t] = r] /\ loads' \subseteq loads \cup {l}
  BY DEF Shows, Set
<1> HIDE DEF r, l
<1> QED
  BY <1>4, <1>5, <1>6 DEF MessagesFit

\* A row fills a form.
LEMMA FormFits ==
  ASSUME NEW c \in Customer
  PROVE  /\ FormOf(c) \in Form
         /\ FormOf(c).name = c.name /\ FormOf(c).engineer = c.engineer
         /\ FormOf(c).start = OrEmpty(c.start) /\ FormOf(c).last = OrEmpty(c.last)
         /\ FormOf(c).notes = OrEmpty(c.notes)
<1>1. /\ FormOf(c).name = c.name /\ FormOf(c).engineer = c.engineer
      /\ FormOf(c).start = OrEmpty(c.start) /\ FormOf(c).last = OrEmpty(c.last)
      /\ FormOf(c).notes = OrEmpty(c.notes)
  BY DEF FormOf, Customer
<1>2. /\ OrEmpty(c.start) \in Day \cup {empty} /\ OrEmpty(c.last) \in Day \cup {empty}
      /\ OrEmpty(c.notes) \in Text \cup {empty}
  BY DEF OrEmpty, Customer
<1>3. FormOf(c) \in Form
  BY <1>2 DEF FormOf, Form, Customer
<1> QED
  BY <1>1, <1>3

\* Every step of the pages keeps the types of what is on its way.
LEMMA MessagesKept ==
  ASSUME CustomerAssumption, TablesOK, MessagesFit, ListsFit, Name # {}, PagesNext
  PROVE  /\ tab' \in [Tab -> TabState] /\ loads' \subseteq LoadState /\ saves' \subseteq SaveState
         /\ \A c \in calls' : CallFits(c)
<1> DEFINE G ==
       /\ tab' \in [Tab -> TabState] /\ loads' \subseteq LoadState /\ saves' \subseteq SaveState
       /\ \A c \in calls' : CallFits(c)
<1> SUFFICES G
  OBVIOUS
<1>a. /\ tab \in [Tab -> TabState] /\ loads \subseteq LoadState /\ saves \subseteq SaveState
      /\ \A c \in calls : CallFits(c)
  BY DEF MessagesFit
<1>b. \A t \in Tab : t \in Tab /\ tab[t].mount \in Nat
  BY <1>a DEF TabState
<1>1. ASSUME NEW t \in Tab, OpenDetail(t) PROVE G
  <2>1. tab' \in [Tab -> TabState] /\ loads' \subseteq LoadState
    BY <1>1, ShownFits DEF OpenDetail
  <2> QED
    BY <1>1, <1>a, <2>1 DEF OpenDetail
<1>2. ASSUME NEW t \in Tab, OpenEdit(t) PROVE G
  <2>1. tab' \in [Tab -> TabState] /\ loads' \subseteq LoadState
    BY <1>2, ShownFits DEF OpenEdit
  <2> QED
    BY <1>2, <1>a, <2>1 DEF OpenEdit
<1>3. ASSUME NEW l \in loads, findOne(l) PROVE G
  <2> DEFINE r == [l EXCEPT !.step = "answered", !.customer = customer, !.version = version,
                           !.list = targets]
  <2>1. l \in LoadState /\ customer \in Customer \cup {none} /\ version \in Nat /\ targets \in SUBSET Target
    BY <1>a DEF TablesOK
  <2>2. r \in LoadState
    BY <2>1 DEF LoadState
  <2>3. loads' \subseteq loads \cup {r}
    BY <1>3 DEF findOne
  <2> HIDE DEF r
  <2> QED
    BY <1>3, <1>a, <2>2, <2>3 DEF findOne
<1>4. ASSUME NEW l \in loads, Loaded(l) PROVE G
  <2> DEFINE r == [tab[l.tab] EXCEPT !.customer = l.customer, !.form = FormOf(l.customer), !.touched = {},
                                     !.version = l.version, !.list = l.list, !.loading = FALSE]
  <2>1. l \in LoadState /\ l.tab \in Tab /\ l.customer # none
    BY <1>4, <1>a DEF Loaded, LoadState
  <2>2. /\ l.customer \in Customer /\ l.version \in Nat /\ l.list \in SUBSET Target
        /\ FormOf(l.customer) \in Form
    BY <2>1, FormFits DEF LoadState
  <2>3. tab[l.tab] \in TabState
    BY <1>a, <2>1
  <2>4. r \in TabState
    BY <2>2, <2>3 DEF TabState
  <2>5. loads' \subseteq loads /\ (tab' = tab \/ tab' = [tab EXCEPT ![l.tab] = r])
    BY <1>4 DEF Loaded, Set
  <2> HIDE DEF r
  <2> QED
    BY <1>4, <1>a, <2>1, <2>4, <2>5 DEF Loaded
<1>5. ASSUME NEW l \in loads, LoadFailed(l) PROVE G
  <2> DEFINE r == [tab[l.tab] EXCEPT !.loading = FALSE]
  <2>1. l.tab \in Tab
    BY <1>a DEF LoadState
  <2>2. tab[l.tab] \in TabState
    BY <1>a, <2>1
  <2>3. r \in TabState
    BY <2>2 DEF TabState
  <2>4. loads' \subseteq loads /\ (tab' = tab \/ tab' = [tab EXCEPT ![l.tab] = r])
    BY <1>5 DEF LoadFailed, Set
  <2> HIDE DEF r
  <2> QED
    BY <1>5, <1>a, <2>1, <2>3, <2>4 DEF LoadFailed
<1>6. ASSUME NEW t \in Tab, NEW f \in Field, NEW v \in Values(f), handleChange(t, f,
      v) PROVE G
  <2> DEFINE r == [tab[t] EXCEPT !.form[f] = v, !.touched = @ \cup {f}]
  <2>1. tab[t] \in TabState /\ tab[t].form \in Form /\ tab[t].touched \subseteq Field
    BY <1>a DEF TabState
  <2>2. [tab[t].form EXCEPT ![f] = v] \in Form
    BY <2>1, <1>6 DEF Form, Field, Values, FreeField, DateField, Fixed, StaffField, FreeValue
  <2>3. r = [tab[t] EXCEPT !.form = [tab[t].form EXCEPT ![f] = v], !.touched = tab[t].touched \cup {f}]
    BY <2>1 DEF TabState
  <2>4. r \in TabState
    BY <2>1, <2>2, <2>3 DEF TabState
  <2>5. tab' = [tab EXCEPT ![t] = r]
    BY <1>6 DEF handleChange, Set
  <2> HIDE DEF r
  <2> QED
    BY <1>6, <1>a, <2>4, <2>5 DEF handleChange
<1>7. ASSUME NEW t \in Tab, handleSave(t) PROVE G
  <2> DEFINE r == [tab[t] EXCEPT !.saving = TRUE]
             s == [tab |-> t, mount |-> tab[t].mount, form |-> tab[t].form, touched |-> tab[t].touched,
                   version |-> tab[t].version, step |-> "sent", before |-> none]
  <2>1. r \in TabState
    BY <1>a DEF TabState
  <2>2. s \in SaveState
    BY <1>a DEF TabState, SaveState
  <2>3. tab' = [tab EXCEPT ![t] = r] /\ saves' = saves \cup {s}
    BY <1>7 DEF handleSave, Set
  <2> HIDE DEF r, s
  <2> QED
    BY <1>7, <1>a, <2>1, <2>2, <2>3 DEF handleSave
<1>8. ASSUME NEW s \in saves, Found(s) PROVE G
  <2>1. [s EXCEPT !.step = "refused"] \in SaveState
    BY <1>a DEF SaveState
  <2>2. ASSUME customer # none, NEW step \in {"checked", "found"}
        PROVE  [s EXCEPT !.step = step, !.before = customer.name] \in SaveState
    <3>1. customer.name \in Name
      BY <2>2 DEF TablesOK, Customer
    <3> QED
      BY <1>a, <3>1 DEF SaveState
  <2>3. saves' \subseteq saves \cup
          {IF customer = none THEN [s EXCEPT !.step = "refused"]
           ELSE [s EXCEPT !.step = IF s.form.name = customer.name THEN "checked" ELSE "found",
                          !.before = customer.name]}
    BY <1>8 DEF Found
  <2> QED
    BY <1>8, <1>a, <2>1, <2>2, <2>3 DEF Found
<1>9. ASSUME NEW s \in saves, NameChecked(s) PROVE G
  <2>1. ASSUME NEW step \in {"checked", "stored", "refused"} PROVE [s EXCEPT !.step = step] \in SaveState
    BY <1>a DEF SaveState
  <2>2. PICK step \in {"checked", "stored", "refused"} : Moves(s, step)
    BY <1>9 DEF NameChecked
  <2>3. saves' \subseteq saves \cup {[s EXCEPT !.step = step]}
    BY <2>2 DEF Moves
  <2> QED
    BY <1>9, <1>a, <2>1, <2>2, <2>3 DEF NameChecked
<1>10. ASSUME NEW s \in saves, Written(s) PROVE G
  <2>1. ASSUME NEW step \in {"checked", "stored", "refused"} PROVE [s EXCEPT !.step = step] \in SaveState
    BY <1>a DEF SaveState
  <2>2. PICK step \in {"checked", "stored", "refused"} : Moves(s, step)
    BY <1>10 DEF Written
  <2>3. saves' \subseteq saves \cup {[s EXCEPT !.step = step]}
    BY <2>2 DEF Moves
  <2> QED
    BY <1>10, <1>a, <2>1, <2>2, <2>3 DEF Written
<1>11. ASSUME NEW s \in saves, WriteRefused(s) PROVE G
  <2>1. ASSUME NEW step \in {"checked", "stored", "refused"} PROVE [s EXCEPT !.step = step] \in SaveState
    BY <1>a DEF SaveState
  <2>2. PICK step \in {"checked", "stored", "refused"} : Moves(s, step)
    BY <1>11 DEF WriteRefused
  <2>3. saves' \subseteq saves \cup {[s EXCEPT !.step = step]}
    BY <2>2 DEF Moves
  <2> QED
    BY <1>11, <1>a, <2>1, <2>2, <2>3 DEF WriteRefused
<1>12. ASSUME NEW s \in saves, SaveAnswered(s) PROVE G
  <2>1. s.tab \in Tab
    BY <1>a DEF SaveState
  <2>2. tab' \in [Tab -> TabState] /\ loads' \subseteq LoadState
    BY <1>12, <2>1, ShownFits DEF SaveAnswered
  <2> QED
    BY <1>12, <1>a, <2>2 DEF SaveAnswered
<1>13. ASSUME NEW s \in saves, SaveFailed(s) PROVE G
  <2> DEFINE r == [tab[s.tab] EXCEPT !.saving = FALSE]
  <2>1. s.tab \in Tab
    BY <1>a DEF SaveState
  <2>2. tab[s.tab] \in TabState
    BY <1>a, <2>1
  <2>3. r \in TabState
    BY <2>2 DEF TabState
  <2>4. tab' = tab \/ tab' = [tab EXCEPT ![s.tab] = r]
    BY <1>13 DEF SaveFailed, Set
  <2> HIDE DEF r
  <2> QED
    BY <1>13, <1>a, <2>1, <2>3, <2>4 DEF SaveFailed
<1>14. ASSUME NEW t \in Tab, NEW p \in Product, handleAddInspectionTarget(t, p)
      PROVE G
  <2> DEFINE c == Call(t, "add", <<Cardinality(tab[t].list), p>>)
  <2>1. Cardinality(tab[t].list) \in Nat
    BY FS_CardinalityType DEF ListsFit
  <2>2. CallFits(c)
    BY <1>b, <2>1 DEF Call, CallFits
  <2>3. calls' = calls \cup {c}
    BY <1>14 DEF handleAddInspectionTarget
  <2> HIDE DEF c
  <2> QED
    BY <1>14, <1>a, <2>2, <2>3 DEF handleAddInspectionTarget
<1>15. ASSUME NEW t \in Tab, NEW g \in tab[t].list, handleDeleteInspectionTarget(t,
      g) PROVE G
  <2> DEFINE c == Call(t, "remove", g.id)
  <2>2. CallFits(c)
    BY <1>b DEF Call, CallFits
  <2>3. calls' = calls \cup {c}
    BY <1>15 DEF handleDeleteInspectionTarget
  <2> HIDE DEF c
  <2> QED
    BY <1>15, <1>a, <2>2, <2>3 DEF handleDeleteInspectionTarget
<1>16. ASSUME NEW t \in Tab, handleDeleteCustomer(t) PROVE G
  <2> DEFINE c == Call(t, "delete", tab[t].customer.name)
  <2>2. CallFits(c)
    BY <1>b DEF Call, CallFits
  <2>3. calls' = calls \cup {c}
    BY <1>16 DEF handleDeleteCustomer
  <2> HIDE DEF c
  <2> QED
    BY <1>16, <1>a, <2>2, <2>3 DEF handleDeleteCustomer
<1>17. ASSUME NEW c \in calls, TargetCreated(c) PROVE G
  <2>1. ASSUME NEW step \in {"done", "refused"} PROVE CallFits([c EXCEPT !.step = step])
    BY <1>a DEF CallFits
  <2>2. PICK step \in {"done", "refused"} : Becomes(c, step)
    BY <1>17 DEF TargetCreated
  <2>3. calls' \subseteq calls \cup {[c EXCEPT !.step = step]}
    BY <2>2 DEF Becomes
  <2> QED
    BY <1>17, <1>a, <2>1, <2>2, <2>3 DEF TargetCreated
<1>18. ASSUME NEW c \in calls, TargetRemoved(c) PROVE G
  <2>1. ASSUME NEW step \in {"done", "refused"} PROVE CallFits([c EXCEPT !.step = step])
    BY <1>a DEF CallFits
  <2>2. PICK step \in {"done", "refused"} : Becomes(c, step)
    BY <1>18 DEF TargetRemoved
  <2>3. calls' \subseteq calls \cup {[c EXCEPT !.step = step]}
    BY <2>2 DEF Becomes
  <2> QED
    BY <1>18, <1>a, <2>1, <2>2, <2>3 DEF TargetRemoved
<1>19. ASSUME NEW c \in calls, CustomerDeleted(c) PROVE G
  <2>1. ASSUME NEW step \in {"done", "refused"} PROVE CallFits([c EXCEPT !.step = step])
    BY <1>a DEF CallFits
  <2>2. PICK step \in {"done", "refused"} : Becomes(c, step)
    BY <1>19 DEF CustomerDeleted
  <2>3. calls' \subseteq calls \cup {[c EXCEPT !.step = step]}
    BY <2>2 DEF Becomes
  <2> QED
    BY <1>19, <1>a, <2>1, <2>2, <2>3 DEF CustomerDeleted
<1>20. ASSUME NEW c \in calls, CallAnswered(c) PROVE G
  <2>1. c.tab \in Tab /\ c.mount \in Nat
    BY <1>a DEF CallFits
  <2>2. Load(c.tab, c.mount) \in LoadState
    BY <2>1 DEF Load, LoadState
  <2>3. CASE c.kind # "delete"
    BY <1>20, <1>a, <2>2, <2>3 DEF CallAnswered
  <2>4. CASE c.kind = "delete" /\ c.mount = tab[c.tab].mount
    <3>1. tab' \in [Tab -> TabState] /\ loads' \subseteq LoadState
      BY <1>20, <2>1, <2>4, ShownFits DEF CallAnswered
    <3> QED
      BY <1>20, <1>a, <3>1 DEF CallAnswered
  <2>5. CASE c.kind = "delete" /\ c.mount # tab[c.tab].mount
    BY <1>20, <1>a, <2>5 DEF CallAnswered
  <2> QED
    BY <2>3, <2>4, <2>5
<1>21. ASSUME NEW c \in calls, CallFailed(c) PROVE G
  BY <1>21, <1>a DEF CallFailed
<1>22. ASSUME NEW n \in Name, handleAddCustomer(n) PROVE G
  BY <1>22, <1>a DEF handleAddCustomer, Once
<1>23. ASSUME NEW d \in Day, ReportUploaded(d) PROVE G
  BY <1>23, <1>a DEF ReportUploaded, Once
<1> HIDE DEF G
<1> QED
  BY <1>1, <1>2, <1>3, <1>4, <1>5, <1>6, <1>7, <1>8, <1>9, <1>10, <1>11, <1>12,
     <1>13, <1>14, <1>15, <1>16, <1>17, <1>18, <1>19, <1>20, <1>21, <1>22, <1>23 DEF
     PagesNext

---------------------------------------------------------------------------
(* What a step does to the pages *)

\* A page is opened, keeps its row, or is filled by an answer.
Opened(t) ==
  /\ tab'[t].mount = tab[t].mount + 1 /\ tab'[t].customer = none
  /\ tab'[t].touched = {} /\ tab'[t].list = {}
Stays(t) ==
  /\ tab'[t].mount = tab[t].mount /\ tab'[t].page = tab[t].page
  /\ tab'[t].customer = tab[t].customer /\ tab'[t].version = tab[t].version
  /\ tab'[t].list = tab[t].list
  /\ \/ tab'[t].form = tab[t].form /\ tab'[t].touched = tab[t].touched
     \/ /\ tab[t].page = "edit" /\ tab[t].customer # none
        /\ \E f \in Field : /\ tab'[t].touched = tab[t].touched \cup {f}
                            /\ \A g \in Field \ {f} : tab'[t].form[g] = tab[t].form[g]
Filled(t) ==
  \E l \in loads :
    /\ l.tab = t /\ l.mount = tab[t].mount /\ l.step = "answered" /\ l.customer # none
    /\ tab'[t].mount = tab[t].mount /\ tab'[t].page = tab[t].page
    /\ tab'[t].customer = l.customer /\ tab'[t].version = l.version /\ tab'[t].list = l.list
    /\ tab'[t].form = FormOf(l.customer) /\ tab'[t].touched = {}
    /\ loads' = loads \ {l} /\ UNCHANGED <<tables, calls>>

TabsMove == \A t \in Tab : Opened(t) \/ Stays(t) \/ Filled(t)

\* A load is new, or answered with the row as it is.
LoadsMove ==
  \A l \in loads' :
    \/ l \in loads
    \/ l.step = "sent" /\ l.list = {} /\ l.mount <= tab'[l.tab].mount
    \/ \E k \in loads :
         /\ l.tab = k.tab /\ l.mount = k.mount /\ l.step = "answered" /\ l.customer = customer
         /\ l.version = version /\ l.list = targets /\ UNCHANGED <<tables, calls, tab>>

\* What an opened page shows.
LEMMA ShownIs ==
  ASSUME MessagesFit, NEW t \in Tab, NEW page \in {"list", "detail", "edit"}, Shows(t, page)
  PROVE  /\ tab'[t].page = page /\ Opened(t)
         /\ \A u \in Tab \ {t} : tab'[u] = tab[u]
         /\ loads' = IF page = "list" THEN loads ELSE loads \cup {Load(t, tab'[t].mount)}
  BY DEF MessagesFit, Shows, Set, Closed, Opened

\* A page that the step is not about.
LEMMA OthersStay ==
  ASSUME NEW t \in Tab, tab'[t] = tab[t]
  PROVE  Stays(t)
  BY DEF Stays


\* Steps after which every page shows the row it showed.
StayingNext ==
  \/ \E l \in loads : LoadFailed(l)
  \/ \E t \in Tab, f \in Field : \E v \in Values(f) : handleChange(t, f, v)
  \/ \E t \in Tab : handleSave(t)
  \/ \E s \in saves : SaveFailed(s)

\* They keep page, row and list.
LEMMA PagesStay ==
  ASSUME MessagesFit, StayingNext
  PROVE  \A q \in Tab : Stays(q)
<1> DEFINE G == \A q \in Tab : Stays(q)
<1> SUFFICES G
  OBVIOUS
<1>a. /\ tab \in [Tab -> TabState] /\ loads \subseteq LoadState /\ saves \subseteq SaveState
      /\ \A c \in calls : CallFits(c)
  BY DEF MessagesFit
<1>1. ASSUME NEW l \in loads, LoadFailed(l) PROVE G
  <2>1. l.tab \in Tab
    BY <1>a DEF LoadState
  <2>2. tab[l.tab] \in TabState
    BY <1>a, <2>1
  <2>3. tab'[l.tab] = tab[l.tab] \/ tab'[l.tab] = [tab[l.tab] EXCEPT !.loading = FALSE]
    BY <1>1, <1>a, <2>1 DEF LoadFailed, Set
  <2>4. \A q \in Tab \ {l.tab} : tab'[q] = tab[q]
    BY <1>1, <1>a, <2>1 DEF LoadFailed, Set
  <2>5. Stays(l.tab)
    BY <2>2, <2>3 DEF Stays, TabState
  <2> QED
    BY <2>4, <2>5, OthersStay
<1>2. ASSUME NEW t \in Tab, NEW f \in Field, NEW v \in Values(f), handleChange(t, f,
      v) PROVE G
  <2> DEFINE F == tab[t].form
             N == [F EXCEPT ![f] = v]
  <2>1. tab[t] \in TabState /\ F \in Form
    BY <1>a DEF TabState
  <2>2. tab' = [tab EXCEPT ![t] = [tab[t] EXCEPT !.form[f] = v, !.touched = @ \cup {f}]]
    BY <1>2 DEF handleChange, Set
  <2>3. tab'[t] = [tab[t] EXCEPT !.form = N, !.touched = tab[t].touched \cup {f}]
    BY <1>a, <2>1, <2>2 DEF TabState
  <2> HIDE DEF N
  <2>4. /\ tab'[t].form = N /\ tab'[t].touched = tab[t].touched \cup {f}
        /\ tab'[t].mount = tab[t].mount /\ tab'[t].page = tab[t].page /\ tab'[t].list = tab[t].list
        /\ tab'[t].customer = tab[t].customer /\ tab'[t].version = tab[t].version
    BY <2>1, <2>3 DEF TabState
  <2>5. \A g \in Field : g # f => N[g] = F[g]
    <3>1. F = [g \in Field |-> F[g]]
      BY <2>1 DEF Form, Field, FreeField, DateField, Fixed, StaffField
    <3> HIDE DEF F
    <3> QED
      BY <3>1 DEF N
  <2>6. \A g \in Field \ {f} : tab'[t].form[g] = tab[t].form[g]
    BY <2>4, <2>5
  <2>7. Stays(t)
    BY <1>2, <2>4, <2>6 DEF Stays, handleChange, Ready
  <2>8. \A q \in Tab \ {t} : tab'[q] = tab[q]
    BY <2>2
  <2> QED
    BY <2>7, <2>8, OthersStay
<1>3. ASSUME NEW t \in Tab, handleSave(t) PROVE G
  <2>1. t \in Tab
    BY <1>a
  <2>2. tab[t] \in TabState
    BY <1>a, <2>1
  <2>3. tab'[t] = tab[t] \/ tab'[t] = [tab[t] EXCEPT !.saving = TRUE]
    BY <1>3, <1>a, <2>1 DEF handleSave, Set
  <2>4. \A q \in Tab \ {t} : tab'[q] = tab[q]
    BY <1>3, <1>a, <2>1 DEF handleSave, Set
  <2>5. Stays(t)
    BY <2>2, <2>3 DEF Stays, TabState
  <2> QED
    BY <2>4, <2>5, OthersStay
<1>4. ASSUME NEW s \in saves, SaveFailed(s) PROVE G
  <2>1. s.tab \in Tab
    BY <1>a DEF SaveState
  <2>2. tab[s.tab] \in TabState
    BY <1>a, <2>1
  <2>3. tab'[s.tab] = tab[s.tab] \/ tab'[s.tab] = [tab[s.tab] EXCEPT !.saving = FALSE]
    BY <1>4, <1>a, <2>1 DEF SaveFailed, Set
  <2>4. \A q \in Tab \ {s.tab} : tab'[q] = tab[q]
    BY <1>4, <1>a, <2>1 DEF SaveFailed, Set
  <2>5. Stays(s.tab)
    BY <2>2, <2>3 DEF Stays, TabState
  <2> QED
    BY <2>4, <2>5, OthersStay
<1> HIDE DEF G
<1> QED
  BY <1>1, <1>2, <1>3, <1>4 DEF StayingNext

\* Every step of the pages.
LEMMA TabsMoved ==
  ASSUME MessagesFit, PagesNext
  PROVE  TabsMove
<1> DEFINE G == TabsMove
<1> SUFFICES G
  OBVIOUS
<1>a. /\ tab \in [Tab -> TabState] /\ loads \subseteq LoadState /\ saves \subseteq SaveState
      /\ \A c \in calls : CallFits(c)
  BY DEF MessagesFit
<1> USE DEF TabsMove
<1>1. ASSUME NEW t \in Tab, OpenDetail(t) PROVE G
  <2>1. Opened(t) /\ \A u \in Tab \ {t} : tab'[u] = tab[u]
    BY <1>1, ShownIs DEF OpenDetail
  <2> QED
    BY <2>1, OthersStay
<1>2. ASSUME NEW t \in Tab, OpenEdit(t) PROVE G
  <2>1. Opened(t) /\ \A u \in Tab \ {t} : tab'[u] = tab[u]
    BY <1>2, ShownIs DEF OpenEdit
  <2> QED
    BY <2>1, OthersStay
<1>3. ASSUME NEW l \in loads, findOne(l) PROVE G
  BY <1>3, OthersStay DEF findOne
<1>4. ASSUME NEW l \in loads, Loaded(l) PROVE G
  <2>1. l \in LoadState /\ l.tab \in Tab
    BY <1>a DEF LoadState
  <2>2. tab[l.tab] \in TabState
    BY <1>a, <2>1
  <2>3. CASE l.mount # tab[l.tab].mount
    BY <1>4, <2>3, OthersStay DEF Loaded
  <2>4. CASE l.mount = tab[l.tab].mount
    <3> DEFINE F == FormOf(l.customer)
               r == [tab[l.tab] EXCEPT !.customer = l.customer, !.form = F, !.touched = {},
                                       !.version = l.version, !.list = l.list, !.loading = FALSE]
    <3>1. tab' = [tab EXCEPT ![l.tab] = r]
      BY <1>4, <2>4 DEF Loaded, Set
    <3> HIDE DEF F
    <3>2. /\ r.mount = tab[l.tab].mount /\ r.page = tab[l.tab].page
          /\ r.customer = l.customer /\ r.version = l.version
          /\ r.list = l.list /\ r.form = F /\ r.touched = {}
      BY <2>2 DEF TabState
    <3> HIDE DEF r
    <3>a. tab'[l.tab] = r
      BY <1>a, <2>1, <3>1
    <3>3. /\ tab'[l.tab].mount = tab[l.tab].mount /\ tab'[l.tab].page = tab[l.tab].page
          /\ tab'[l.tab].customer = l.customer /\ tab'[l.tab].version = l.version
          /\ tab'[l.tab].list = l.list /\ tab'[l.tab].form = FormOf(l.customer) /\ tab'[l.tab].touched = {}
      BY <3>2, <3>a DEF F
    <3>4. Filled(l.tab)
      BY <1>4, <2>4, <3>3 DEF Filled, Loaded
    <3>5. \A q \in Tab \ {l.tab} : tab'[q] = tab[q]
      BY <1>a, <3>1
    <3> QED
      BY <3>4, <3>5, OthersStay
  <2> QED
    BY <2>3, <2>4
<1>5. ASSUME NEW l \in loads, LoadFailed(l) PROVE G
  BY <1>5, PagesStay DEF StayingNext
<1>6. ASSUME NEW t \in Tab, NEW f \in Field, NEW v \in Values(f), handleChange(t, f,
      v) PROVE G
  BY <1>6, PagesStay DEF StayingNext
<1>7. ASSUME NEW t \in Tab, handleSave(t) PROVE G
  BY <1>7, PagesStay DEF StayingNext
<1>8. ASSUME NEW s \in saves, Found(s) PROVE G
  BY <1>8, OthersStay DEF Found
<1>9. ASSUME NEW s \in saves, NameChecked(s) PROVE G
  BY <1>9, OthersStay DEF NameChecked, Moves
<1>10. ASSUME NEW s \in saves, Written(s) PROVE G
  BY <1>10, OthersStay DEF Written, Moves, Stored
<1>11. ASSUME NEW s \in saves, WriteRefused(s) PROVE G
  BY <1>11, OthersStay DEF WriteRefused, Moves
<1>12. ASSUME NEW s \in saves, SaveAnswered(s) PROVE G
  <2>1. s.tab \in Tab
    BY <1>a DEF SaveState
  <2>2. Opened(s.tab) /\ \A u \in Tab \ {s.tab} : tab'[u] = tab[u]
    BY <1>12, <2>1, ShownIs DEF SaveAnswered
  <2> QED
    BY <2>2, OthersStay
<1>13. ASSUME NEW s \in saves, SaveFailed(s) PROVE G
  BY <1>13, PagesStay DEF StayingNext
<1>14. ASSUME NEW t \in Tab, NEW p \in Product, handleAddInspectionTarget(t, p)
      PROVE G
  BY <1>14, OthersStay DEF handleAddInspectionTarget, Ready, Once, Call
<1>15. ASSUME NEW t \in Tab, NEW g \in tab[t].list, handleDeleteInspectionTarget(t,
      g) PROVE G
  BY <1>15, OthersStay DEF handleDeleteInspectionTarget, Ready, Once, Call
<1>16. ASSUME NEW t \in Tab, handleDeleteCustomer(t) PROVE G
  BY <1>16, OthersStay DEF handleDeleteCustomer, Ready, Once, Call
<1>17. ASSUME NEW c \in calls, TargetCreated(c) PROVE G
  BY <1>17, OthersStay DEF TargetCreated, Becomes, Created
<1>18. ASSUME NEW c \in calls, TargetRemoved(c) PROVE G
  BY <1>18, OthersStay DEF TargetRemoved, Becomes
<1>19. ASSUME NEW c \in calls, CustomerDeleted(c) PROVE G
  BY <1>19, OthersStay DEF CustomerDeleted, Becomes, Deleted
<1>20. ASSUME NEW c \in calls, CallAnswered(c) PROVE G
  <2>1. c.tab \in Tab
    BY <1>a DEF CallFits
  <2>2. CASE tab' = tab
    BY <2>2, OthersStay
  <2>3. CASE Shows(c.tab, "list")
    <3>1. Opened(c.tab) /\ \A u \in Tab \ {c.tab} : tab'[u] = tab[u]
      BY <2>1, <2>3, ShownIs
    <3> QED
      BY <3>1, OthersStay
  <2> QED
    BY <1>20, <2>2, <2>3 DEF CallAnswered
<1>21. ASSUME NEW c \in calls, CallFailed(c) PROVE G
  BY <1>21, OthersStay DEF CallFailed
<1>22. ASSUME NEW n \in Name, handleAddCustomer(n) PROVE G
  BY <1>22, OthersStay DEF handleAddCustomer, Once
<1>23. ASSUME NEW d \in Day, ReportUploaded(d) PROVE G
  BY <1>23, OthersStay DEF ReportUploaded, Once
<1> HIDE DEF G, TabsMove
<1> QED
  BY <1>1, <1>2, <1>3, <1>4, <1>5, <1>6, <1>7, <1>8, <1>9, <1>10, <1>11, <1>12,
     <1>13, <1>14, <1>15, <1>16, <1>17, <1>18, <1>19, <1>20, <1>21, <1>22, <1>23 DEF
     PagesNext

\* Every step of the pages.
LEMMA LoadsMoved ==
  ASSUME MessagesFit, CallsAreOfPages, PagesNext
  PROVE  LoadsMove
<1> DEFINE G == LoadsMove
<1> SUFFICES G
  OBVIOUS
<1>a. /\ tab \in [Tab -> TabState] /\ loads \subseteq LoadState /\ saves \subseteq SaveState
      /\ \A c \in calls : CallFits(c)
  BY DEF MessagesFit
<1>b. \A t \in Tab : tab[t].mount \in Nat
  BY <1>a DEF TabState
<1> USE DEF LoadsMove
<1>1. ASSUME NEW t \in Tab, OpenDetail(t) PROVE G
  <2>1. loads' = loads \cup {Load(t, tab'[t].mount)} /\ tab'[t].mount = tab[t].mount + 1
    BY <1>1, ShownIs DEF OpenDetail, Opened
  <2> QED
    BY <1>b, <2>1 DEF Load
<1>2. ASSUME NEW t \in Tab, OpenEdit(t) PROVE G
  <2>1. loads' = loads \cup {Load(t, tab'[t].mount)} /\ tab'[t].mount = tab[t].mount + 1
    BY <1>2, ShownIs DEF OpenEdit, Opened
  <2> QED
    BY <1>b, <2>1 DEF Load
<1>3. ASSUME NEW l \in loads, findOne(l) PROVE G
  <2> DEFINE r == [l EXCEPT !.step = "answered", !.customer = customer, !.version = version,
                           !.list = targets]
  <2>1. l \in LoadState /\ loads' \subseteq loads \cup {r} /\ UNCHANGED <<tables, calls, tab>>
    BY <1>3, <1>a DEF findOne
  <2>2. /\ r.tab = l.tab /\ r.mount = l.mount /\ r.step = "answered" /\ r.customer = customer
        /\ r.version = version /\ r.list = targets
    BY <2>1 DEF LoadState
  <2> HIDE DEF r
  <2> QED
    BY <2>1, <2>2
<1>4. ASSUME NEW l \in loads, Loaded(l) PROVE G
  BY <1>4 DEF Loaded, Set, FormOf
<1>5. ASSUME NEW l \in loads, LoadFailed(l) PROVE G
  BY <1>5 DEF LoadFailed, Set
<1>6. ASSUME NEW t \in Tab, NEW f \in Field, NEW v \in Values(f), handleChange(t, f,
      v) PROVE G
  BY <1>6 DEF handleChange, Ready, Once, Set
<1>7. ASSUME NEW t \in Tab, handleSave(t) PROVE G
  BY <1>7 DEF handleSave, Ready, Once, Set
<1>8. ASSUME NEW s \in saves, Found(s) PROVE G
  BY <1>8 DEF Found
<1>9. ASSUME NEW s \in saves, NameChecked(s) PROVE G
  BY <1>9 DEF NameChecked, Moves
<1>10. ASSUME NEW s \in saves, Written(s) PROVE G
  BY <1>10 DEF Written, Moves, Stored
<1>11. ASSUME NEW s \in saves, WriteRefused(s) PROVE G
  BY <1>11 DEF WriteRefused, Moves
<1>12. ASSUME NEW s \in saves, SaveAnswered(s) PROVE G
  <2>1. s.tab \in Tab
    BY <1>a DEF SaveState
  <2>2. loads' = loads \cup {Load(s.tab, tab'[s.tab].mount)} /\ tab'[s.tab].mount = tab[s.tab].mount + 1
    BY <1>12, <2>1, ShownIs DEF SaveAnswered, Opened
  <2> QED
    BY <1>b, <2>1, <2>2 DEF Load
<1>13. ASSUME NEW s \in saves, SaveFailed(s) PROVE G
  BY <1>13 DEF SaveFailed, Set
<1>14. ASSUME NEW t \in Tab, NEW p \in Product, handleAddInspectionTarget(t, p)
      PROVE G
  BY <1>14 DEF handleAddInspectionTarget, Ready, Once, Call
<1>15. ASSUME NEW t \in Tab, NEW g \in tab[t].list, handleDeleteInspectionTarget(t,
      g) PROVE G
  BY <1>15 DEF handleDeleteInspectionTarget, Ready, Once, Call
<1>16. ASSUME NEW t \in Tab, handleDeleteCustomer(t) PROVE G
  BY <1>16 DEF handleDeleteCustomer, Ready, Once, Call
<1>17. ASSUME NEW c \in calls, TargetCreated(c) PROVE G
  BY <1>17 DEF TargetCreated, Becomes, Created
<1>18. ASSUME NEW c \in calls, TargetRemoved(c) PROVE G
  BY <1>18 DEF TargetRemoved, Becomes
<1>19. ASSUME NEW c \in calls, CustomerDeleted(c) PROVE G
  BY <1>19 DEF CustomerDeleted, Becomes, Deleted
<1>20. ASSUME NEW c \in calls, CallAnswered(c) PROVE G
  <2>1. c.tab \in Tab /\ c.mount <= tab[c.tab].mount
    BY <1>a DEF CallFits, CallsAreOfPages
  <2>2. CASE c.kind # "delete"
    BY <1>20, <2>1, <2>2 DEF CallAnswered, Load
  <2>3. CASE c.kind = "delete" /\ c.mount = tab[c.tab].mount
    BY <1>20, <2>3 DEF CallAnswered, Shows
  <2>4. CASE c.kind = "delete" /\ c.mount # tab[c.tab].mount
    BY <1>20, <2>4 DEF CallAnswered
  <2> QED
    BY <2>2, <2>3, <2>4
<1>21. ASSUME NEW c \in calls, CallFailed(c) PROVE G
  BY <1>21 DEF CallFailed
<1>22. ASSUME NEW n \in Name, handleAddCustomer(n) PROVE G
  BY <1>22 DEF handleAddCustomer, Once
<1>23. ASSUME NEW d \in Day, ReportUploaded(d) PROVE G
  BY <1>23 DEF ReportUploaded, Once
<1> HIDE DEF G, LoadsMove
<1> QED
  BY <1>1, <1>2, <1>3, <1>4, <1>5, <1>6, <1>7, <1>8, <1>9, <1>10, <1>11, <1>12,
     <1>13, <1>14, <1>15, <1>16, <1>17, <1>18, <1>19, <1>20, <1>21, <1>22, <1>23 DEF
     PagesNext

\* The lists of the view are those of the pages, or the table.
LEMMA ViewMoved ==
  ASSUME CustomerAssumption, TablesOK, PathsFit, TemplatesNext
  PROVE  /\ view' \in ViewState
         /\ view'.list \in {view.list, targets}
         /\ view'.name = view.name \/ (customer # none /\ view'.name = customer.name)
<1> DEFINE G ==
       /\ view' \in ViewState
       /\ view'.list \in {view.list, targets}
       /\ view'.name = view.name \/ (customer # none /\ view'.name = customer.name)
<1> SUFFICES G
  OBVIOUS
<1>a. view \in ViewState /\ targets \in SUBSET Target /\ (customer # none => customer.name \in Name)
  BY DEF PathsFit, TablesOK, Customer
<1> USE DEF tables, docs, pages
<1>1. ASSUME fetchData PROVE G
  <2>1. view' = [name |-> customer.name, list |-> targets] /\ customer # none
    BY <1>1 DEF fetchData
  <2> QED
    BY <1>a, <2>1 DEF ViewState
<1>2. ASSUME NEW g \in view.list, NEW e \in Extension, handleSubmitUpload(g, e)
      PROVE G
  BY <1>2, <1>a DEF handleSubmitUpload
<1>3. ASSUME NEW u \in uploads, checkExistingTemplate(u) PROVE G
  BY <1>3, <1>a DEF checkExistingTemplate, Goes
<1>4. ASSUME NEW u \in uploads, CheckFailed(u) PROVE G
  BY <1>4, <1>a DEF CheckFailed, Goes
<1>5. ASSUME NEW u \in uploads, Confirm(u) PROVE G
  BY <1>5, <1>a DEF Confirm, Goes
<1>6. ASSUME NEW u \in uploads, FoundTarget(u) PROVE G
  BY <1>6, <1>a DEF FoundTarget, Goes
<1>7. ASSUME NEW u \in uploads, StoredFile(u) PROVE G
  BY <1>7, <1>a DEF StoredFile, Goes
<1>8. ASSUME NEW u \in uploads, RowUpdated(u) PROVE G
  BY <1>8, <1>a DEF RowUpdated, Goes
<1>9. ASSUME NEW u \in uploads, UploadAnswered(u) PROVE G
  <2>1. view' = view \/ view' = [view EXCEPT !.list = targets]
    BY <1>9 DEF UploadAnswered
  <2> QED
    BY <1>a, <2>1 DEF ViewState
<1>10. ASSUME NEW n \in Name, NEW p \in Product, ForeignUpload(n, p) PROVE G
  BY <1>10, <1>a DEF ForeignUpload
<1>11. ASSUME NEW g \in view.list, handleDownloadTemplate(g) PROVE G
  BY <1>11, <1>a DEF handleDownloadTemplate
<1>12. ASSUME NEW d \in downloads, FoundPath(d) PROVE G
  BY <1>12, <1>a DEF FoundPath
<1>13. ASSUME NEW d \in downloads, Served(d) PROVE G
  BY <1>13, <1>a DEF Served
<1>14. ASSUME NEW u \in uploads, StoreFails(u) PROVE G
  BY <1>14, <1>a DEF StoreFails, Goes
<1>15. ASSUME NEW u \in uploads, UpdateFails(u) PROVE G
  BY <1>15, <1>a DEF UpdateFails, Goes
<1> HIDE DEF G, tables, docs, pages
<1> QED
  BY <1>1, <1>2, <1>3, <1>4, <1>5, <1>6, <1>7, <1>8, <1>9, <1>10, <1>11, <1>12,
     <1>13, <1>14, <1>15 DEF TemplatesNext

\* The lists stay lists of targets that were there.
LEMMA ListsKept ==
  ASSUME CustomerAssumption, TablesOK, TemplatesOK, MessagesFit, ListsFit, CallsAreOfPages, IdsAreOwn,
         NothingOutlivesCustomer, PathsFit, [Next]_vars
  PROVE  ListsFit' /\ IsFiniteSet(view'.list)
<1>1. /\ targets' \subseteq Listed' /\ TablesOK /\ IsFiniteSet(view.list) /\ IsFiniteSet(targets)
      /\ Adding \/ products' = products
  BY TablesKept DEF TemplatesOK, TablesOK
<1>2. Listed \subseteq Listed'
  BY <1>1, ListedGrows
<1>3. targets \subseteq Listed' /\ view.list \subseteq Listed'
  BY <1>2 DEF ListsFit
<1>4. \A t \in Tab : tab[t].list \subseteq Listed' /\ IsFiniteSet(tab[t].list)
  BY <1>2 DEF ListsFit
<1>5. \A l \in loads : l.list \subseteq Listed' /\ IsFiniteSet(l.list)
  BY <1>2 DEF ListsFit
<1>6. IsFiniteSet({})
  BY FS_EmptySet
<1> HIDE DEF Listed
<1>7. CASE PagesNext /\ UNCHANGED docs
  <2>1. TabsMove /\ LoadsMove
    BY <1>7, TabsMoved, LoadsMoved
  <2>2. \A t \in Tab : tab'[t].list \subseteq Listed' /\ IsFiniteSet(tab'[t].list)
    <3>1. \A t \in Tab : tab'[t].list = {} \/ tab'[t].list = tab[t].list
                         \/ \E l \in loads : tab'[t].list = l.list
      BY <2>1 DEF TabsMove, Opened, Stays, Filled
    <3> QED
      BY <3>1, <1>4, <1>5, <1>6
  <2>3. \A l \in loads' : l.list \subseteq Listed' /\ IsFiniteSet(l.list)
    BY <2>1, <1>1, <1>3, <1>5, <1>6 DEF LoadsMove
  <2> QED
    BY <1>1, <1>3, <1>7, <2>2, <2>3 DEF ListsFit, docs
<1>8. CASE TemplatesNext /\ UNCHANGED pages
  <2>1. view'.list \subseteq Listed' /\ IsFiniteSet(view'.list)
    BY <1>1, <1>3, <1>8, ViewMoved
  <2> QED
    BY <1>1, <1>4, <1>5, <1>8, <2>1 DEF ListsFit, pages
<1>9. CASE UNCHANGED vars
  BY <1>1, <1>3, <1>4, <1>5, <1>9 DEF ListsFit, vars, docs, pages
<1> QED
  BY <1>7, <1>8, <1>9, StepIsOfAPage

\* A call is new, from a page as it is, or the database has answered it; a save holds the
\* form of a page as it is.
CallsMove ==
  \A c \in calls' :
    \/ c \in calls
    \/ /\ c.tab \in Tab /\ c.mount = tab[c.tab].mount
       /\ c.step = "sent" /\ UNCHANGED <<tables, tab, loads>>
    \/ \E d \in calls :
         /\ c.tab = d.tab /\ c.mount = d.mount /\ c.kind = d.kind /\ c.what = d.what
         /\ d.step = "sent" /\ c.step # "sent"
SavesMove ==
  \A s \in saves' :
    \/ \E k \in saves : s.form = k.form /\ s.touched = k.touched /\ s.version = k.version
    \/ \E t \in Tab :
         /\ s.form = tab[t].form /\ s.touched = tab[t].touched /\ s.version = tab[t].version
         /\ tab[t].customer # none /\ UNCHANGED tables

\* Every step of the pages.
LEMMA CallsMoved ==
  ASSUME MessagesFit, PagesNext
  PROVE  CallsMove
<1> DEFINE G == CallsMove
<1> SUFFICES G
  OBVIOUS
<1>a. \A c \in calls : CallFits(c)
  BY DEF MessagesFit
<1> USE DEF CallsMove, tables, docs, pages
<1>1. ASSUME NEW t \in Tab, OpenDetail(t) PROVE G
  BY <1>1 DEF OpenDetail, Once, Shows, Set, Closed, Load
<1>2. ASSUME NEW t \in Tab, OpenEdit(t) PROVE G
  BY <1>2 DEF OpenEdit, Once, Shows, Set, Closed, Load
<1>3. ASSUME NEW l \in loads, findOne(l) PROVE G
  BY <1>3 DEF findOne
<1>4. ASSUME NEW l \in loads, Loaded(l) PROVE G
  BY <1>4 DEF Loaded, Set, FormOf
<1>5. ASSUME NEW l \in loads, LoadFailed(l) PROVE G
  BY <1>5 DEF LoadFailed, Set
<1>6. ASSUME NEW t \in Tab, NEW f \in Field, NEW v \in Values(f), handleChange(t, f,
      v) PROVE G
  BY <1>6 DEF handleChange, Ready, Once, Set
<1>7. ASSUME NEW t \in Tab, handleSave(t) PROVE G
  BY <1>7 DEF handleSave, Ready, Once, Set
<1>8. ASSUME NEW s \in saves, Found(s) PROVE G
  BY <1>8 DEF Found
<1>9. ASSUME NEW s \in saves, NameChecked(s) PROVE G
  BY <1>9 DEF NameChecked, Moves
<1>10. ASSUME NEW s \in saves, Written(s) PROVE G
  BY <1>10 DEF Written, Moves, Stored
<1>11. ASSUME NEW s \in saves, WriteRefused(s) PROVE G
  BY <1>11 DEF WriteRefused, Moves
<1>12. ASSUME NEW s \in saves, SaveAnswered(s) PROVE G
  BY <1>12 DEF SaveAnswered, Shows, Set, Closed, Load
<1>13. ASSUME NEW s \in saves, SaveFailed(s) PROVE G
  BY <1>13 DEF SaveFailed, Set
<1>14. ASSUME NEW t \in Tab, NEW p \in Product, handleAddInspectionTarget(t, p)
      PROVE G
  BY <1>14 DEF handleAddInspectionTarget, Ready, Once, Call
<1>15. ASSUME NEW t \in Tab, NEW g \in tab[t].list, handleDeleteInspectionTarget(t,
      g) PROVE G
  BY <1>15 DEF handleDeleteInspectionTarget, Ready, Once, Call
<1>16. ASSUME NEW t \in Tab, handleDeleteCustomer(t) PROVE G
  BY <1>16 DEF handleDeleteCustomer, Ready, Once, Call
<1>17. ASSUME NEW c \in calls, TargetCreated(c) PROVE G
  <2>1. ASSUME NEW step \in {"done", "refused"}
        PROVE  LET d == [c EXCEPT !.step = step]
               IN  d.tab = c.tab /\ d.mount = c.mount /\ d.kind = c.kind /\ d.what = c.what /\ d.step # "sent"
    BY <1>a DEF CallFits
  <2>2. PICK step \in {"done", "refused"} : Becomes(c, step)
    BY <1>17 DEF TargetCreated
  <2>3. calls' \subseteq calls \cup {[c EXCEPT !.step = step]} /\ c.step = "sent"
    BY <1>17, <2>2 DEF Becomes, TargetCreated
  <2> QED
    BY <1>a, <2>1, <2>2, <2>3
<1>18. ASSUME NEW c \in calls, TargetRemoved(c) PROVE G
  <2>1. ASSUME NEW step \in {"done", "refused"}
        PROVE  LET d == [c EXCEPT !.step = step]
               IN  d.tab = c.tab /\ d.mount = c.mount /\ d.kind = c.kind /\ d.what = c.what /\ d.step # "sent"
    BY <1>a DEF CallFits
  <2>2. PICK step \in {"done", "refused"} : Becomes(c, step)
    BY <1>18 DEF TargetRemoved
  <2>3. calls' \subseteq calls \cup {[c EXCEPT !.step = step]} /\ c.step = "sent"
    BY <1>18, <2>2 DEF Becomes, TargetRemoved
  <2> QED
    BY <1>a, <2>1, <2>2, <2>3
<1>19. ASSUME NEW c \in calls, CustomerDeleted(c) PROVE G
  <2>1. ASSUME NEW step \in {"done", "refused"}
        PROVE  LET d == [c EXCEPT !.step = step]
               IN  d.tab = c.tab /\ d.mount = c.mount /\ d.kind = c.kind /\ d.what = c.what /\ d.step # "sent"
    BY <1>a DEF CallFits
  <2>2. PICK step \in {"done", "refused"} : Becomes(c, step)
    BY <1>19 DEF CustomerDeleted
  <2>3. calls' \subseteq calls \cup {[c EXCEPT !.step = step]} /\ c.step = "sent"
    BY <1>19, <2>2 DEF Becomes, CustomerDeleted
  <2> QED
    BY <1>a, <2>1, <2>2, <2>3
<1>20. ASSUME NEW c \in calls, CallAnswered(c) PROVE G
  BY <1>20 DEF CallAnswered, Shows, Set, Closed, Load
<1>21. ASSUME NEW c \in calls, CallFailed(c) PROVE G
  BY <1>21 DEF CallFailed
<1>22. ASSUME NEW n \in Name, handleAddCustomer(n) PROVE G
  BY <1>22 DEF handleAddCustomer, Once
<1>23. ASSUME NEW d \in Day, ReportUploaded(d) PROVE G
  BY <1>23 DEF ReportUploaded, Once
<1> HIDE DEF G, CallsMove, tables, docs, pages
<1> QED
  BY <1>1, <1>2, <1>3, <1>4, <1>5, <1>6, <1>7, <1>8, <1>9, <1>10, <1>11, <1>12,
     <1>13, <1>14, <1>15, <1>16, <1>17, <1>18, <1>19, <1>20, <1>21, <1>22, <1>23 DEF
     PagesNext

\* Every step of the pages.
LEMMA SavesMoved ==
  ASSUME MessagesFit, PagesNext
  PROVE  SavesMove
<1> DEFINE G == SavesMove
<1> SUFFICES G
  OBVIOUS
<1>a. saves \subseteq SaveState
  BY DEF MessagesFit
<1> USE DEF SavesMove, tables, docs, pages
<1>1. ASSUME NEW t \in Tab, OpenDetail(t) PROVE G
  BY <1>1 DEF OpenDetail, Once, Shows, Set, Closed, Load
<1>2. ASSUME NEW t \in Tab, OpenEdit(t) PROVE G
  BY <1>2 DEF OpenEdit, Once, Shows, Set, Closed, Load
<1>3. ASSUME NEW l \in loads, findOne(l) PROVE G
  BY <1>3 DEF findOne
<1>4. ASSUME NEW l \in loads, Loaded(l) PROVE G
  BY <1>4 DEF Loaded, Set, FormOf
<1>5. ASSUME NEW l \in loads, LoadFailed(l) PROVE G
  BY <1>5 DEF LoadFailed, Set
<1>6. ASSUME NEW t \in Tab, NEW f \in Field, NEW v \in Values(f), handleChange(t, f,
      v) PROVE G
  BY <1>6 DEF handleChange, Ready, Once, Set
<1>7. ASSUME NEW t \in Tab, handleSave(t) PROVE G
  BY <1>7 DEF handleSave, Ready, Once, Set
<1>8. ASSUME NEW s \in saves, Found(s) PROVE G
  <2>1. ASSUME NEW step \in {"checked", "found"}
        PROVE  LET k == [s EXCEPT !.step = step, !.before = customer.name]
               IN  k.form = s.form /\ k.touched = s.touched /\ k.version = s.version
    BY <1>a DEF SaveState
  <2>2. LET k == [s EXCEPT !.step = "refused"]
        IN  k.form = s.form /\ k.touched = s.touched /\ k.version = s.version
    BY <1>a DEF SaveState
  <2>3. saves' = (saves \ {s}) \cup
          {IF customer = none THEN [s EXCEPT !.step = "refused"]
           ELSE [s EXCEPT !.step = IF s.form.name = customer.name THEN "checked" ELSE "found",
                          !.before = customer.name]}
    BY <1>8 DEF Found
  <2> QED
    BY <2>1, <2>2, <2>3
<1>9. ASSUME NEW s \in saves, NameChecked(s) PROVE G
  <2>1. ASSUME NEW step \in {"checked", "stored", "refused"}
        PROVE  LET k == [s EXCEPT !.step = step]
               IN  k.form = s.form /\ k.touched = s.touched /\ k.version = s.version
    BY <1>a DEF SaveState
  <2>2. PICK step \in {"checked", "stored", "refused"} : Moves(s, step)
    BY <1>9 DEF NameChecked
  <2>3. saves' \subseteq saves \cup {[s EXCEPT !.step = step]}
    BY <2>2 DEF Moves
  <2> QED
    BY <2>1, <2>2, <2>3
<1>10. ASSUME NEW s \in saves, Written(s) PROVE G
  <2>1. ASSUME NEW step \in {"checked", "stored", "refused"}
        PROVE  LET k == [s EXCEPT !.step = step]
               IN  k.form = s.form /\ k.touched = s.touched /\ k.version = s.version
    BY <1>a DEF SaveState
  <2>2. PICK step \in {"checked", "stored", "refused"} : Moves(s, step)
    BY <1>10 DEF Written
  <2>3. saves' \subseteq saves \cup {[s EXCEPT !.step = step]}
    BY <2>2 DEF Moves
  <2> QED
    BY <2>1, <2>2, <2>3
<1>11. ASSUME NEW s \in saves, WriteRefused(s) PROVE G
  <2>1. ASSUME NEW step \in {"checked", "stored", "refused"}
        PROVE  LET k == [s EXCEPT !.step = step]
               IN  k.form = s.form /\ k.touched = s.touched /\ k.version = s.version
    BY <1>a DEF SaveState
  <2>2. PICK step \in {"checked", "stored", "refused"} : Moves(s, step)
    BY <1>11 DEF WriteRefused
  <2>3. saves' \subseteq saves \cup {[s EXCEPT !.step = step]}
    BY <2>2 DEF Moves
  <2> QED
    BY <2>1, <2>2, <2>3
<1>12. ASSUME NEW s \in saves, SaveAnswered(s) PROVE G
  BY <1>12 DEF SaveAnswered, Shows, Set, Closed, Load
<1>13. ASSUME NEW s \in saves, SaveFailed(s) PROVE G
  BY <1>13 DEF SaveFailed, Set
<1>14. ASSUME NEW t \in Tab, NEW p \in Product, handleAddInspectionTarget(t, p)
      PROVE G
  BY <1>14 DEF handleAddInspectionTarget, Ready, Once, Call
<1>15. ASSUME NEW t \in Tab, NEW g \in tab[t].list, handleDeleteInspectionTarget(t,
      g) PROVE G
  BY <1>15 DEF handleDeleteInspectionTarget, Ready, Once, Call
<1>16. ASSUME NEW t \in Tab, handleDeleteCustomer(t) PROVE G
  BY <1>16 DEF handleDeleteCustomer, Ready, Once, Call
<1>17. ASSUME NEW c \in calls, TargetCreated(c) PROVE G
  BY <1>17 DEF TargetCreated, Becomes, Created
<1>18. ASSUME NEW c \in calls, TargetRemoved(c) PROVE G
  BY <1>18 DEF TargetRemoved, Becomes
<1>19. ASSUME NEW c \in calls, CustomerDeleted(c) PROVE G
  BY <1>19 DEF CustomerDeleted, Becomes, Deleted
<1>20. ASSUME NEW c \in calls, CallAnswered(c) PROVE G
  BY <1>20 DEF CallAnswered, Shows, Set, Closed, Load
<1>21. ASSUME NEW c \in calls, CallFailed(c) PROVE G
  BY <1>21 DEF CallFailed
<1>22. ASSUME NEW n \in Name, handleAddCustomer(n) PROVE G
  BY <1>22 DEF handleAddCustomer, Once
<1>23. ASSUME NEW d \in Day, ReportUploaded(d) PROVE G
  BY <1>23 DEF ReportUploaded, Once
<1> HIDE DEF G, SavesMove, tables, docs, pages
<1> QED
  BY <1>1, <1>2, <1>3, <1>4, <1>5, <1>6, <1>7, <1>8, <1>9, <1>10, <1>11, <1>12,
     <1>13, <1>14, <1>15, <1>16, <1>17, <1>18, <1>19, <1>20, <1>21, <1>22, <1>23 DEF
     PagesNext

\* The counters.
LEMMA OnceTyped ==
  ASSUME counts \in [Counts -> Nat], NEW n \in Counts, Once(n)
  PROVE  counts' \in [Counts -> Nat]
  BY DEF Once

\* The histories of the pages keep their types.
LEMMA HistoriesKept ==
  ASSUME PagesOK, PagesNext
  PROVE  counts' \in [Counts -> Nat] /\ hurried' \in BOOLEAN /\ mismatch' \in BOOLEAN
<1> DEFINE G == counts' \in [Counts -> Nat] /\ hurried' \in BOOLEAN /\ mismatch' \in BOOLEAN
<1> SUFFICES G
  OBVIOUS
<1>a. counts \in [Counts -> Nat] /\ hurried \in BOOLEAN /\ mismatch \in BOOLEAN
  BY DEF PagesOK
<1>b. /\ "opens" \in Counts /\ "edits" \in Counts /\ "saves" \in Counts /\ "adds" \in Counts
      /\ "removals" \in Counts /\ "deletes" \in Counts /\ "news" \in Counts /\ "uploads" \in Counts
  BY DEF Counts
<1>c. TRUE \in BOOLEAN
  OBVIOUS
<1>1. ASSUME NEW t \in Tab, OpenDetail(t) PROVE G
  <2>1. Once("opens")
    BY <1>1 DEF OpenDetail
  <2>2. counts' \in [Counts -> Nat]
    BY <1>a, <1>b, <2>1, OnceTyped
  <2>3. hurried' \in BOOLEAN /\ mismatch' = mismatch
    BY <1>1, <1>a DEF OpenDetail, Behind
  <2> QED
    BY <1>a, <2>2, <2>3
<1>2. ASSUME NEW t \in Tab, OpenEdit(t) PROVE G
  <2>1. Once("opens")
    BY <1>2 DEF OpenEdit
  <2>2. counts' \in [Counts -> Nat]
    BY <1>a, <1>b, <2>1, OnceTyped
  <2>3. hurried' \in BOOLEAN /\ mismatch' = mismatch
    BY <1>2, <1>a DEF OpenEdit, Behind
  <2> QED
    BY <1>a, <2>2, <2>3
<1>3. ASSUME NEW l \in loads, findOne(l) PROVE G
  BY <1>3, <1>a, <1>c DEF findOne
<1>4. ASSUME NEW l \in loads, Loaded(l) PROVE G
  BY <1>4, <1>a, <1>c DEF Loaded, Set, FormOf
<1>5. ASSUME NEW l \in loads, LoadFailed(l) PROVE G
  BY <1>5, <1>a, <1>c DEF LoadFailed, Set
<1>6. ASSUME NEW t \in Tab, NEW f \in Field, NEW v \in Values(f), handleChange(t, f,
      v) PROVE G
  <2>1. Once("edits")
    BY <1>6 DEF handleChange
  <2>2. counts' \in [Counts -> Nat]
    BY <1>a, <1>b, <2>1, OnceTyped
  <2>3. hurried' \in BOOLEAN /\ mismatch' = mismatch
    BY <1>6, <1>a DEF handleChange, Behind
  <2> QED
    BY <1>a, <2>2, <2>3
<1>7. ASSUME NEW t \in Tab, handleSave(t) PROVE G
  <2>1. Once("saves")
    BY <1>7 DEF handleSave
  <2>2. counts' \in [Counts -> Nat]
    BY <1>a, <1>b, <2>1, OnceTyped
  <2>3. hurried' \in BOOLEAN /\ mismatch' = mismatch
    BY <1>7, <1>a DEF handleSave, Behind
  <2> QED
    BY <1>a, <2>2, <2>3
<1>8. ASSUME NEW s \in saves, Found(s) PROVE G
  BY <1>8, <1>a, <1>c DEF Found
<1>9. ASSUME NEW s \in saves, NameChecked(s) PROVE G
  BY <1>9, <1>a, <1>c DEF NameChecked, Moves
<1>10. ASSUME NEW s \in saves, Written(s) PROVE G
  <2>1. mismatch' \in BOOLEAN
    BY <1>10 DEF Written
  <2>2. counts' = counts /\ hurried' = hurried
    BY <1>10 DEF Written
  <2> QED
    BY <1>a, <2>1, <2>2
<1>11. ASSUME NEW s \in saves, WriteRefused(s) PROVE G
  BY <1>11, <1>a, <1>c DEF WriteRefused, Moves
<1>12. ASSUME NEW s \in saves, SaveAnswered(s) PROVE G
  BY <1>12, <1>a, <1>c DEF SaveAnswered, Shows, Set, Closed, Load
<1>13. ASSUME NEW s \in saves, SaveFailed(s) PROVE G
  BY <1>13, <1>a, <1>c DEF SaveFailed, Set
<1>14. ASSUME NEW t \in Tab, NEW p \in Product, handleAddInspectionTarget(t, p)
      PROVE G
  <2>1. Once("adds")
    BY <1>14 DEF handleAddInspectionTarget
  <2>2. counts' \in [Counts -> Nat]
    BY <1>a, <1>b, <2>1, OnceTyped
  <2>3. hurried' \in BOOLEAN /\ mismatch' = mismatch
    BY <1>14, <1>a DEF handleAddInspectionTarget, Behind
  <2> QED
    BY <1>a, <2>2, <2>3
<1>15. ASSUME NEW t \in Tab, NEW g \in tab[t].list, handleDeleteInspectionTarget(t,
      g) PROVE G
  <2>1. Once("removals")
    BY <1>15 DEF handleDeleteInspectionTarget
  <2>2. counts' \in [Counts -> Nat]
    BY <1>a, <1>b, <2>1, OnceTyped
  <2>3. hurried' \in BOOLEAN /\ mismatch' = mismatch
    BY <1>15, <1>a DEF handleDeleteInspectionTarget, Behind
  <2> QED
    BY <1>a, <2>2, <2>3
<1>16. ASSUME NEW t \in Tab, handleDeleteCustomer(t) PROVE G
  <2>1. Once("deletes")
    BY <1>16 DEF handleDeleteCustomer
  <2>2. counts' \in [Counts -> Nat]
    BY <1>a, <1>b, <2>1, OnceTyped
  <2>3. hurried' \in BOOLEAN /\ mismatch' = mismatch
    BY <1>16, <1>a DEF handleDeleteCustomer, Behind
  <2> QED
    BY <1>a, <2>2, <2>3
<1>17. ASSUME NEW c \in calls, TargetCreated(c) PROVE G
  BY <1>17, <1>a, <1>c DEF TargetCreated, Becomes, Created
<1>18. ASSUME NEW c \in calls, TargetRemoved(c) PROVE G
  BY <1>18, <1>a, <1>c DEF TargetRemoved, Becomes
<1>19. ASSUME NEW c \in calls, CustomerDeleted(c) PROVE G
  BY <1>19, <1>a, <1>c DEF CustomerDeleted, Becomes, Deleted
<1>20. ASSUME NEW c \in calls, CallAnswered(c) PROVE G
  BY <1>20, <1>a, <1>c DEF CallAnswered, Shows, Set, Closed, Load
<1>21. ASSUME NEW c \in calls, CallFailed(c) PROVE G
  BY <1>21, <1>a, <1>c DEF CallFailed
<1>22. ASSUME NEW n \in Name, handleAddCustomer(n) PROVE G
  <2>1. Once("news")
    BY <1>22 DEF handleAddCustomer
  <2>2. counts' \in [Counts -> Nat]
    BY <1>a, <1>b, <2>1, OnceTyped
  <2>3. hurried' \in BOOLEAN /\ mismatch' = mismatch
    BY <1>22, <1>a DEF handleAddCustomer, Behind
  <2> QED
    BY <1>a, <2>2, <2>3
<1>23. ASSUME NEW d \in Day, ReportUploaded(d) PROVE G
  <2>1. Once("uploads")
    BY <1>23 DEF ReportUploaded
  <2>2. counts' \in [Counts -> Nat]
    BY <1>a, <1>b, <2>1, OnceTyped
  <2>3. hurried' \in BOOLEAN /\ mismatch' = mismatch
    BY <1>23, <1>a DEF ReportUploaded, Behind
  <2> QED
    BY <1>a, <2>2, <2>3
<1> HIDE DEF G
<1> QED
  BY <1>1, <1>2, <1>3, <1>4, <1>5, <1>6, <1>7, <1>8, <1>9, <1>10, <1>11, <1>12,
     <1>13, <1>14, <1>15, <1>16, <1>17, <1>18, <1>19, <1>20, <1>21, <1>22, <1>23 DEF
     PagesNext

\* The pages keep their types.
LEMMA PagesKept ==
  ASSUME PagesOK, MessagesFit, ListsFit, CallsAreOfPages, MessagesFit', ListsFit', PagesNext
  PROVE  PagesOK' /\ CallsAreOfPages'
<1>1. TabsMove /\ LoadsMove /\ CallsMove
  BY TabsMoved, LoadsMoved, CallsMoved
<1>2. \A t \in Tab : tab[t].mount \in Nat /\ tab'[t].mount \in Nat
  BY DEF MessagesFit, TabState
<1>3. \A t \in Tab : tab[t].mount <= tab'[t].mount
  BY <1>1, <1>2 DEF TabsMove, Opened, Stays, Filled
<1>4. \A t \in Tab : tab'[t].touched # {} => tab'[t].page = "edit" /\ tab'[t].customer # none
  BY <1>1 DEF TabsMove, Opened, Stays, Filled, PagesOK
<1>5. \A l \in loads' : l.mount <= tab'[l.tab].mount
  <2>1. \A l \in loads : l.tab \in Tab /\ l.mount \in Nat /\ l.mount <= tab[l.tab].mount
    BY DEF MessagesFit, LoadState, PagesOK
  <2>2. \A l \in loads : l.mount <= tab'[l.tab].mount
    BY <2>1, <1>2, <1>3
  <2> QED
    BY <1>1, <2>2 DEF LoadsMove
<1>6. CallsAreOfPages'
  <2>1. \A c \in calls : c.tab \in Tab /\ c.mount \in Nat /\ c.mount <= tab[c.tab].mount
    BY DEF MessagesFit, CallFits, CallsAreOfPages
  <2>2. \A c \in calls : c.mount <= tab'[c.tab].mount
    BY <2>1, <1>2, <1>3
  <2> QED
    BY <1>1, <1>2, <1>3, <2>2 DEF CallsMove, CallsAreOfPages
<1>7. counts' \in [Counts -> Nat] /\ hurried' \in BOOLEAN /\ mismatch' \in BOOLEAN
  BY HistoriesKept
<1>8. \A t \in Tab : tab'[t] \in TabState /\ IsFiniteSet(tab'[t].list)
  BY DEF MessagesFit, ListsFit
<1>9. /\ \A l \in loads' : l.tab \in Tab /\ l.step \in {"sent", "answered"}
      /\ \A s \in saves' : s.tab \in Tab /\ s.step \in {"sent", "found", "checked", "stored", "refused"}
      /\ \A c \in calls' : c.tab \in Tab /\ c.step \in {"sent", "done", "refused"}
  BY DEF MessagesFit, LoadState, SaveState, CallFits
<1> QED
  BY <1>4, <1>5, <1>6, <1>7, <1>8, <1>9 DEF PagesOK, TabState

---------------------------------------------------------------------------
(* What a form knows of the row *)

\* As long as the version is the same, so is the row.
LEMMA SameVersion ==
  ASSUME TablesOK, (customer' = customer /\ version' = version) \/ version' = version + 1
  PROVE  /\ version' \in Nat /\ version <= version'
         /\ \A v \in Nat : v <= version => v <= version' /\ (v = version' => v = version /\ customer' = customer)
  BY DEF TablesOK

\* A form that agrees with the row agrees with it after any step.
LEMMA StillAgrees ==
  ASSUME TablesOK, (customer' = customer /\ version' = version) \/ version' = version + 1,
         NEW form, NEW touched, NEW v, Agrees(form, touched, v)
  PROVE  /\ v \in Nat /\ v <= version'
         /\ v = version' => customer' # none /\ \A f \in Field \ touched : form[f] = FormOf(customer')[f]
  BY SameVersion DEF Agrees

\* A save writes what was typed, and of a form that agrees nothing else.
LEMMA WritesWhatWasTyped ==
  ASSUME CustomerAssumption, NEW s, s.form \in Form, customer \in Customer, s.touched \subseteq Field,
         s.version = version => \A f \in Field \ s.touched : s.form[f] = FormOf(customer)[f]
  PROVE  ~Loses(s, Stored(s.form, customer))
<1> DEFINE F == s.form
           N == Stored(F, customer)
<1>1. F \in Form
  OBVIOUS
<1>2. /\ N.name = F.name /\ N.notes = F.notes /\ N.engineer = F.engineer
      /\ N.start = (IF F.start = empty THEN customer.start ELSE F.start)
      /\ N.last = (IF F.last = empty THEN customer.last ELSE F.last)
  BY <1>1 DEF Stored, Form
<1> HIDE DEF N
<1>3. ASSUME NEW c \in Customer
      PROVE  /\ FormOf(c).name = c.name /\ FormOf(c).engineer = c.engineer
             /\ FormOf(c).start = OrEmpty(c.start) /\ FormOf(c).last = OrEmpty(c.last)
             /\ FormOf(c).notes = OrEmpty(c.notes)
  BY FormFits
<1>4. /\ F.start # empty => OrEmpty(F.start) = F.start /\ F.start # none
      /\ F.last # empty => OrEmpty(F.last) = F.last /\ F.last # none
      /\ OrEmpty(F.notes) = F.notes
  BY <1>1 DEF Form, OrEmpty, CustomerAssumption
<1>5. \A f \in Field : f \in {"name", "notes", "start", "last", "engineer"}
  BY DEF Field, FreeField, DateField, Fixed, StaffField
<1>6. /\ Cleared(s, "start") <=> F.start = empty
      /\ Cleared(s, "last") <=> F.last = empty
      /\ ~Cleared(s, "name") /\ ~Cleared(s, "notes") /\ ~Cleared(s, "engineer")
  BY DEF Cleared, DateField, Fixed
<1>7. ASSUME NEW f \in s.touched, ~Cleared(s, f) PROVE N[f] = F[f]
  BY <1>2, <1>5, <1>6, <1>7
<1>8. ASSUME s.version = version, NEW f \in Field, f \in s.touched => Cleared(s, f)
      PROVE  OrEmpty(N[f]) = OrEmpty(customer[f])
  <2>1. CASE f = "name"
    BY <1>2, <1>3, <1>6, <1>8, <2>1
  <2>2. CASE f = "engineer"
    BY <1>2, <1>3, <1>6, <1>8, <2>2
  <2>3. CASE f = "notes"
    BY <1>2, <1>3, <1>4, <1>6, <1>8, <2>3
  <2>4. CASE f = "start"
    BY <1>2, <1>3, <1>4, <1>6, <1>8, <2>4
  <2>5. CASE f = "last"
    BY <1>2, <1>3, <1>4, <1>6, <1>8, <2>5
  <2> QED
    BY <1>5, <2>1, <2>2, <2>3, <2>4, <2>5
<1> QED
  BY <1>7, <1>8 DEF Loses, N

\* Only a write of the row can show that a save changed more.
LEMMA OnlyWritesMismatch ==
  ASSUME PagesNext
  PROVE  mismatch' = mismatch \/ \E s \in saves : Written(s)
<1> DEFINE G == mismatch' = mismatch \/ \E s \in saves : Written(s)
<1> SUFFICES G
  OBVIOUS
<1> USE DEF pages
<1>1. ASSUME NEW t \in Tab, OpenDetail(t) PROVE G
  BY <1>1 DEF OpenDetail, Once, Shows, Set, Closed, Load
<1>2. ASSUME NEW t \in Tab, OpenEdit(t) PROVE G
  BY <1>2 DEF OpenEdit, Once, Shows, Set, Closed, Load
<1>3. ASSUME NEW l \in loads, findOne(l) PROVE G
  BY <1>3 DEF findOne
<1>4. ASSUME NEW l \in loads, Loaded(l) PROVE G
  BY <1>4 DEF Loaded, Set, FormOf
<1>5. ASSUME NEW l \in loads, LoadFailed(l) PROVE G
  BY <1>5 DEF LoadFailed, Set
<1>6. ASSUME NEW t \in Tab, NEW f \in Field, NEW v \in Values(f), handleChange(t, f,
      v) PROVE G
  BY <1>6 DEF handleChange, Ready, Once, Set
<1>7. ASSUME NEW t \in Tab, handleSave(t) PROVE G
  BY <1>7 DEF handleSave, Ready, Once, Set
<1>8. ASSUME NEW s \in saves, Found(s) PROVE G
  BY <1>8 DEF Found
<1>9. ASSUME NEW s \in saves, NameChecked(s) PROVE G
  BY <1>9 DEF NameChecked, Moves
<1>10. ASSUME NEW s \in saves, Written(s) PROVE G
  BY <1>10
<1>11. ASSUME NEW s \in saves, WriteRefused(s) PROVE G
  BY <1>11 DEF WriteRefused, Moves
<1>12. ASSUME NEW s \in saves, SaveAnswered(s) PROVE G
  BY <1>12 DEF SaveAnswered, Shows, Set, Closed, Load
<1>13. ASSUME NEW s \in saves, SaveFailed(s) PROVE G
  BY <1>13 DEF SaveFailed, Set
<1>14. ASSUME NEW t \in Tab, NEW p \in Product, handleAddInspectionTarget(t, p)
      PROVE G
  BY <1>14 DEF handleAddInspectionTarget, Ready, Once, Call
<1>15. ASSUME NEW t \in Tab, NEW g \in tab[t].list, handleDeleteInspectionTarget(t,
      g) PROVE G
  BY <1>15 DEF handleDeleteInspectionTarget, Ready, Once, Call
<1>16. ASSUME NEW t \in Tab, handleDeleteCustomer(t) PROVE G
  BY <1>16 DEF handleDeleteCustomer, Ready, Once, Call
<1>17. ASSUME NEW c \in calls, TargetCreated(c) PROVE G
  BY <1>17 DEF TargetCreated, Becomes, Created
<1>18. ASSUME NEW c \in calls, TargetRemoved(c) PROVE G
  BY <1>18 DEF TargetRemoved, Becomes
<1>19. ASSUME NEW c \in calls, CustomerDeleted(c) PROVE G
  BY <1>19 DEF CustomerDeleted, Becomes, Deleted
<1>20. ASSUME NEW c \in calls, CallAnswered(c) PROVE G
  BY <1>20 DEF CallAnswered, Shows, Set, Closed, Load
<1>21. ASSUME NEW c \in calls, CallFailed(c) PROVE G
  BY <1>21 DEF CallFailed
<1>22. ASSUME NEW n \in Name, handleAddCustomer(n) PROVE G
  BY <1>22 DEF handleAddCustomer, Once
<1>23. ASSUME NEW d \in Day, ReportUploaded(d) PROVE G
  BY <1>23 DEF ReportUploaded, Once
<1> HIDE DEF G, pages
<1> QED
  BY <1>1, <1>2, <1>3, <1>4, <1>5, <1>6, <1>7, <1>8, <1>9, <1>10, <1>11, <1>12,
     <1>13, <1>14, <1>15, <1>16, <1>17, <1>18, <1>19, <1>20, <1>21, <1>22, <1>23 DEF
     PagesNext

\* What is known of the row stays true, and no save changes what was not typed.
LEMMA FormsKept ==
  ASSUME CustomerAssumption, TablesOK, MessagesFit, CallsAreOfPages, FormsAgree, PagesNext
  PROVE  FormsAgree'
<1> DEFINE After(form, touched, v) ==
             /\ v \in Nat /\ v <= version'
             /\ v = version' => customer' # none /\ \A f \in Field \ touched : form[f] = FormOf(customer')[f]
<1>1. TabsMove /\ LoadsMove /\ SavesMove
  BY TabsMoved, LoadsMoved, SavesMoved
<1>2. (customer' = customer /\ version' = version) \/ version' = version + 1
  BY RowTyped
<1>3. ASSUME NEW form, NEW touched, NEW v, Agrees(form, touched, v)
      PROVE  After(form, touched, v)
  BY <1>2, <1>3, StillAgrees
<1>4. \A v \in Nat : v <= version => v <= version' /\ (v = version' => v = version /\ customer' = customer)
  BY <1>2, SameVersion
<1>5. version \in Nat
  BY DEF TablesOK
<1>6. ASSUME NEW l \in loads', l.step = "answered"
      PROVE  l.version \in Nat /\ l.version <= version' /\ (l.version = version' => l.customer = customer')
  <2>1. CASE l \in loads
    <3>1. l.version \in Nat /\ l.version <= version /\ (l.version = version => l.customer = customer)
      BY <1>6, <2>1 DEF FormsAgree
    <3> QED
      BY <3>1, <1>4
  <2>2. CASE l.customer = customer /\ l.version = version /\ UNCHANGED tables
    BY <2>2, <1>5 DEF tables
  <2> QED
    BY <1>1, <1>6, <2>1, <2>2 DEF LoadsMove
<1>7. ASSUME NEW t \in Tab, tab'[t].customer # none
      PROVE  After(tab'[t].form, tab'[t].touched, tab'[t].version)
  <2>1. CASE Stays(t)
    <3>1. Agrees(tab[t].form, tab[t].touched, tab[t].version)
      BY <1>7, <2>1 DEF Stays, FormsAgree
    <3>2. After(tab[t].form, tab[t].touched, tab[t].version)
      BY <3>1, <1>3
    <3> QED
      BY <2>1, <3>2 DEF Stays
  <2>2. CASE Filled(t)
    <3>1. PICK l \in loads :
            /\ l.step = "answered" /\ l.customer # none
            /\ tab'[t].form = FormOf(l.customer) /\ tab'[t].version = l.version
            /\ UNCHANGED tables
      BY <2>2 DEF Filled
    <3>2. l.version \in Nat /\ l.version <= version /\ (l.version = version => l.customer = customer)
      BY <3>1 DEF FormsAgree
    <3>3. version' = version /\ customer' = customer
      BY <3>1 DEF tables
    <3> QED
      BY <3>1, <3>2, <3>3
  <2>3. ~Opened(t)
    BY <1>7 DEF Opened
  <2> QED
    BY <1>1, <2>1, <2>2, <2>3 DEF TabsMove
<1>8. ASSUME NEW s \in saves' PROVE After(s.form, s.touched, s.version)
  <2>1. CASE \E k \in saves : s.form = k.form /\ s.touched = k.touched /\ s.version = k.version
    <3>1. PICK k \in saves : s.form = k.form /\ s.touched = k.touched /\ s.version = k.version
      BY <2>1
    <3>2. After(k.form, k.touched, k.version)
      BY <1>3 DEF FormsAgree
    <3> QED
      BY <3>1, <3>2
  <2>2. CASE \E t \in Tab : /\ s.form = tab[t].form /\ s.touched = tab[t].touched /\ s.version = tab[t].version
                            /\ tab[t].customer # none
    <3>1. PICK t \in Tab : /\ s.form = tab[t].form /\ s.touched = tab[t].touched
                           /\ s.version = tab[t].version /\ tab[t].customer # none
      BY <2>2
    <3>2. After(tab[t].form, tab[t].touched, tab[t].version)
      BY <3>1, <1>3 DEF FormsAgree
    <3> QED
      BY <3>1, <3>2
  <2> QED
    BY <1>1, <2>1, <2>2 DEF SavesMove
<1>9. ~mismatch'
  <2>1. CASE mismatch' = mismatch
    BY <2>1 DEF FormsAgree
  <2>2. ASSUME NEW s \in saves, Written(s) PROVE ~mismatch'
    <3>1. s.form \in Form /\ s.touched \subseteq Field
      BY DEF MessagesFit, SaveState
    <3>2. customer \in Customer /\ customer' = Stored(s.form, customer)
      BY <2>2 DEF Written, TablesOK
    <3>3. s.version = version => \A f \in Field \ s.touched : s.form[f] = FormOf(customer)[f]
      BY DEF FormsAgree, Agrees
    <3>4. ~Loses(s, customer')
      BY <3>1, <3>2, <3>3, WritesWhatWasTyped
    <3> QED
      BY <2>2, <3>4 DEF Written, FormsAgree
  <2> QED
    BY <2>1, <2>2, OnlyWritesMismatch
<1> QED
  BY <1>6, <1>7, <1>8, <1>9 DEF FormsAgree, Agrees

---------------------------------------------------------------------------
(* The order of the targets *)

\* With the ids 1 to n there are n targets.
LEMMA AsManyAsCreated ==
  ASSUME TablesOK, IdsAreOwn, \A i \in 1..Len(products) : \E g \in targets : g.id = i
  PROVE  Cardinality(targets) = Len(products)
<1> DEFINE F == [g \in targets |-> g.id]
<1>1. Len(products) \in Nat
  BY LenProperties DEF TablesOK
<1>2. \A g \in targets : g.id \in 1..Len(products)
  BY <1>1 DEF TablesOK, Target
<1>3. F \in Bijection(targets, 1..Len(products))
  <2>1. F \in [targets -> 1..Len(products)]
    BY <1>2
  <2>2. \A g, h \in targets : F[g] = F[h] => g = h
    BY DEF IdsAreOwn
  <2>3. \A i \in 1..Len(products) : \E g \in targets : F[g] = i
    OBVIOUS
  <2> HIDE DEF F
  <2>4. F \in Injection(targets, 1..Len(products))
    BY <2>1, <2>2 DEF Injection, IsInjective
  <2>5. F \in Surjection(targets, 1..Len(products))
    BY <2>1, <2>3 DEF Surjection
  <2> QED
    BY <2>4, <2>5 DEF Bijection
<1>4. Cardinality(1..Len(products)) = Len(products)
  <2>1. ASSUME NEW n \in Nat PROVE Cardinality(1..n) = n
    BY FS_Interval
  <2> QED
    BY <1>1, <2>1
<1> HIDE DEF F
<1> QED
  BY <1>3, <1>4, FS_Bijection DEF TablesOK, ExistsBijection

\* A step that adds nothing, and opens no form and fills none.
Calm ==
  /\ ~hurried' => ~hurried
  /\ \A t \in Tab : tab'[t].page = "edit" =>
       /\ tab[t].page = "edit" /\ tab'[t].mount = tab[t].mount
       /\ tab'[t].customer = tab[t].customer /\ tab'[t].list = tab[t].list
  /\ loads \subseteq loads' /\ \A l \in loads' : l \in loads \/ tab'[l.tab].page # "edit"
  /\ \A c \in calls : c.kind # "delete" => c \in calls'
  /\ \A c \in calls' : c.kind # "delete" => c \in calls
  /\ customer' # none =>
       /\ customer # none /\ products' = products
       /\ \A h \in targets' : \E g \in targets : h.id = g.id /\ h.order = g.order
       /\ \A g \in targets : \E h \in targets' : h.id = g.id

\* It keeps the order.
LEMMA CalmKeeps ==
  ASSUME InOrder, Calm
  PROVE  InOrder'
<1> SUFFICES ASSUME ~hurried' PROVE InOrder'
  BY DEF InOrder
<1>1. ~hurried
  BY DEF Calm
<1>2. \A c \in calls' : c.kind # "remove"
  BY <1>1 DEF Calm, InOrder
<1>3. \A c, d \in calls' : c.kind = "add" /\ d.kind = "add" => c = d
  BY <1>1 DEF Calm, InOrder
<1>4. ASSUME NEW t \in Tab, tab'[t].page = "edit", NEW l \in loads', l.tab = t, l.mount = tab'[t].mount
      PROVE  l \in loads /\ Awaits(t, l)
  BY <1>4 DEF Calm, Awaits
<1>5. ASSUME NEW c \in calls', NEW t \in Tab, c.kind = "add", tab'[t].page = "edit"
      PROVE  t = c.tab /\ c.mount = tab'[t].mount /\ \A l \in loads' : ~(l.tab = t /\ l.mount = tab'[t].mount)
  BY <1>1, <1>4, <1>5 DEF Calm, InOrder
<1>6. ASSUME customer' # none PROVE AllThere'
  <2>1. AllThere /\ products' = products
    BY <1>1, <1>6 DEF InOrder, Calm
  <2>2. /\ \A i \in 1..Len(products) : \E g \in targets' : g.id = i
        /\ \A g \in targets' : g.order = g.id - 1
    BY <1>6, <2>1 DEF Calm, AllThere
  <2>3. \A c \in calls' : c.kind = "add" /\ c.step = "sent" => c.what[1] = Len(products)
    BY <2>1 DEF Calm, AllThere
  <2>4. ASSUME NEW t \in Tab, tab'[t].page = "edit", NEW l \in loads', l.tab = t, l.mount = tab'[t].mount,
               l.step = "answered"
        PROVE  Cardinality(l.list) = Len(products)
    BY <1>4, <2>1, <2>4 DEF Calm, AllThere
  <2>5. ASSUME NEW t \in Tab, tab'[t].page = "edit", tab'[t].customer # none
        PROVE  \/ Cardinality(tab'[t].list) = Len(products)
               \/ \E l \in loads' : l.tab = t /\ l.mount = tab'[t].mount
               \/ \E c \in calls' : c.kind = "add"
    BY <2>1, <2>5 DEF Calm, AllThere, Awaits
  <2> QED
    BY <2>1, <2>2, <2>3, <2>4, <2>5 DEF AllThere, Awaits
<1> QED
  BY <1>2, <1>3, <1>5, <1>6 DEF InOrder, Awaits

\* The order stays.
LEMMA OrderKept ==
  ASSUME TablesOK, PagesOK, MessagesFit, IdsAreOwn, InOrder, PagesNext
  PROVE  InOrder'
<1>a. /\ tab \in [Tab -> TabState] /\ loads \subseteq LoadState /\ saves \subseteq SaveState
      /\ \A c \in calls : CallFits(c)
  BY DEF MessagesFit
<1>1. ASSUME NEW t \in Tab, OpenDetail(t) PROVE InOrder'
  <2>1. /\ tab'[t].page = "detail" /\ \A u \in Tab \ {t} : tab'[u] = tab[u]
        /\ loads' = loads \cup {Load(t, tab'[t].mount)}
    BY <1>1, ShownIs DEF OpenDetail
  <2>2. \A m : Load(t, m).tab = t
    BY DEF Load
  <2>3. Calm
    BY <1>1, <2>1, <2>2 DEF Calm, tables, OpenDetail
  <2> QED
    BY <2>3, CalmKeeps
<1>2. ASSUME NEW t \in Tab, OpenEdit(t) PROVE InOrder'
  <2> SUFFICES ASSUME ~hurried' PROVE InOrder'
    BY DEF InOrder
  <2>1. ~hurried /\ calls = {} /\ calls' = {} /\ UNCHANGED tables
    BY <1>2 DEF OpenEdit
  <2>2. /\ \A u \in Tab \ {t} : tab'[u] = tab[u]
        /\ tab'[t].mount = tab[t].mount + 1
        /\ loads' = loads \cup {Load(t, tab'[t].mount)}
    BY <1>2, ShownIs DEF OpenEdit, Opened
  <2>3. Load(t, tab'[t].mount).tab = t /\ Load(t, tab'[t].mount).mount = tab'[t].mount
        /\ Load(t, tab'[t].mount).step = "sent"
    BY DEF Load
  <2>4. ASSUME NEW l \in loads', l.tab = t, l.mount = tab'[t].mount PROVE l.step = "sent"
    <3>1. ASSUME l \in loads PROVE FALSE
      <4>1. l.mount <= tab[t].mount /\ tab[t].mount \in Nat
        BY <1>a, <3>1, <2>4 DEF PagesOK, TabState
      <4> QED
        BY <2>2, <2>4, <4>1
    <3> QED
      BY <2>2, <2>3, <3>1
  <2>5. ASSUME NEW u \in Tab, u # t, NEW l \in loads', l.tab = u PROVE l \in loads
    BY <2>2, <2>3, <2>5
  <2>6. Load(t, tab'[t].mount) \in loads'
    BY <2>2
  <2>7. ASSUME customer # none PROVE AllThere'
    <3>1. AllThere
      BY <2>1, <2>7 DEF InOrder
    <3>2. /\ \A i \in 1..Len(products) : \E g \in targets : g.id = i
          /\ \A g \in targets : g.order = g.id - 1
      BY <3>1 DEF AllThere
    <3>3. ASSUME NEW u \in Tab, tab'[u].page = "edit", NEW l \in loads', l.tab = u, l.mount = tab'[u].mount,
                 l.step = "answered"
          PROVE  Cardinality(l.list) = Len(products)
      <4>1. u # t
        BY <2>4, <3>3
      <4>2. tab'[u] = tab[u] /\ l \in loads
        BY <2>2, <2>5, <3>3, <4>1
      <4> QED
        BY <3>1, <3>3, <4>2 DEF AllThere, Awaits
    <3>4. ASSUME NEW u \in Tab, tab'[u].page = "edit", tab'[u].customer # none
          PROVE  \/ Cardinality(tab'[u].list) = Len(products)
                 \/ \E l \in loads' : l.tab = u /\ l.mount = tab'[u].mount
      <4>1. CASE u = t
        BY <2>3, <2>6, <4>1
      <4>2. CASE u # t
        BY <2>1, <2>2, <3>1, <3>4, <4>2 DEF AllThere, Awaits
      <4> QED
        BY <4>1, <4>2
    <3> QED
      BY <2>1, <3>2, <3>3, <3>4 DEF AllThere, Awaits, tables
  <2> QED
    BY <2>1, <2>7 DEF InOrder, tables
<1>3. ASSUME NEW l \in loads, findOne(l) PROVE InOrder'
  <2> SUFFICES ASSUME ~hurried' PROVE InOrder'
    BY DEF InOrder
  <2> DEFINE r == [l EXCEPT !.step = "answered", !.customer = customer, !.version = version,
                           !.list = targets]
  <2>1. ~hurried /\ calls' = calls /\ tab' = tab /\ UNCHANGED tables /\ loads' = (loads \ {l}) \cup {r}
    BY <1>3 DEF findOne
  <2>2. r.tab = l.tab /\ r.mount = l.mount /\ r.list = targets
    BY <1>a DEF LoadState
  <2> HIDE DEF r
  <2>3. \A t \in Tab : (\E k \in loads' : k.tab = t /\ k.mount = tab[t].mount)
                   <=> (\E k \in loads : k.tab = t /\ k.mount = tab[t].mount)
    BY <2>1, <2>2
  <2>4. ASSUME customer # none PROVE AllThere'
    <3>1. AllThere
      BY <2>1, <2>4 DEF InOrder
    <3>2. /\ \A i \in 1..Len(products) : \E g \in targets : g.id = i
          /\ \A g \in targets : g.order = g.id - 1
      BY <3>1 DEF AllThere
    <3>3. Cardinality(targets) = Len(products)
      BY <3>2, AsManyAsCreated
    <3>4. ASSUME NEW u \in Tab, tab[u].page = "edit", NEW k \in loads', k.tab = u, k.mount = tab[u].mount,
                 k.step = "answered"
          PROVE  Cardinality(k.list) = Len(products)
      BY <2>1, <2>2, <3>1, <3>3, <3>4 DEF AllThere, Awaits
    <3>5. ASSUME NEW u \in Tab, tab[u].page = "edit", tab[u].customer # none
          PROVE  \/ Cardinality(tab[u].list) = Len(products)
                 \/ \E k \in loads' : k.tab = u /\ k.mount = tab[u].mount
                 \/ \E c \in calls : c.kind = "add"
      BY <2>3, <3>1, <3>5 DEF AllThere, Awaits
    <3>6. \A c \in calls : c.kind = "add" /\ c.step = "sent" => c.what[1] = Len(products)
      BY <3>1 DEF AllThere
    <3> QED
      BY <2>1, <3>2, <3>4, <3>5, <3>6 DEF AllThere, Awaits, tables
  <2> QED
    BY <2>1, <2>3, <2>4 DEF InOrder, Awaits, tables
<1>4. ASSUME NEW l \in loads, Loaded(l) PROVE InOrder'
  <2> SUFFICES ASSUME ~hurried' PROVE InOrder'
    BY DEF InOrder
  <2>1. ~hurried /\ calls' = calls /\ UNCHANGED tables /\ loads' = loads \ {l} /\ l.step = "answered"
    BY <1>4 DEF Loaded
  <2>2. l.tab \in Tab
    BY <1>a DEF LoadState
  <2>3. \A t \in Tab \ {l.tab} : tab'[t] = tab[t]
    BY <1>4, <1>a, <2>2 DEF Loaded, Set
  <2>4. l.mount # tab[l.tab].mount => tab' = tab
    BY <1>4 DEF Loaded
  <2>5. tab'[l.tab].page = tab[l.tab].page /\ tab'[l.tab].mount = tab[l.tab].mount
    <3>1. tab[l.tab] \in TabState
      BY <1>a, <2>2
    <3>2. tab'[l.tab] = tab[l.tab] \/
          tab'[l.tab] = [tab[l.tab] EXCEPT !.customer = l.customer, !.form = FormOf(l.customer), !.touched = {},
                                           !.version = l.version, !.list = l.list, !.loading = FALSE]
      BY <1>4, <1>a, <2>2 DEF Loaded, Set
    <3> QED
      BY <3>1, <3>2 DEF TabState
  <2>6. l.mount = tab[l.tab].mount => tab'[l.tab].list = l.list
    <3>1. tab[l.tab] \in TabState
      BY <1>a, <2>2
    <3>2. l.mount = tab[l.tab].mount =>
          tab'[l.tab] = [tab[l.tab] EXCEPT !.customer = l.customer, !.form = FormOf(l.customer), !.touched = {},
                                           !.version = l.version, !.list = l.list, !.loading = FALSE]
      BY <1>4, <1>a, <2>2 DEF Loaded, Set
    <3> QED
      BY <3>1, <3>2 DEF TabState
  <2>7. \A t \in Tab : tab'[t].page = tab[t].page /\ tab'[t].mount = tab[t].mount
    BY <2>3, <2>5
  <2>8. ASSUME customer # none PROVE AllThere'
    <3>1. AllThere
      BY <2>1, <2>8 DEF InOrder
    <3>2. /\ \A i \in 1..Len(products) : \E g \in targets : g.id = i
          /\ \A g \in targets : g.order = g.id - 1
          /\ \A c \in calls : c.kind = "add" /\ c.step = "sent" => c.what[1] = Len(products)
      BY <3>1 DEF AllThere
    <3>3. ASSUME NEW u \in Tab, tab[u].page = "edit", NEW k \in loads, k.tab = u, k.mount = tab[u].mount,
                 k.step = "answered"
          PROVE  Cardinality(k.list) = Len(products)
      BY <3>1, <3>3 DEF AllThere, Awaits
    <3>4. ASSUME NEW u \in Tab, tab[u].page = "edit", tab'[u].customer # none
          PROVE  \/ Cardinality(tab'[u].list) = Len(products)
                 \/ \E k \in loads' : k.tab = u /\ k.mount = tab[u].mount
                 \/ \E c \in calls : c.kind = "add"
      <4>1. CASE u = l.tab /\ l.mount = tab[u].mount
        BY <2>1, <2>6, <3>3, <3>4, <4>1
      <4>2. CASE ~(u = l.tab /\ l.mount = tab[u].mount)
        <5>1. tab'[u] = tab[u]
          BY <2>3, <2>4, <4>2
        <5>2. \/ Cardinality(tab[u].list) = Len(products)
              \/ \E k \in loads : k.tab = u /\ k.mount = tab[u].mount
              \/ \E c \in calls : c.kind = "add"
          BY <3>1, <3>4, <5>1 DEF AllThere, Awaits
        <5> QED
          BY <2>1, <4>2, <5>1, <5>2
      <4> QED
        BY <4>1, <4>2
    <3> QED
      BY <2>1, <2>7, <3>2, <3>3, <3>4 DEF AllThere, Awaits, tables
  <2> QED
    BY <2>1, <2>7, <2>8 DEF InOrder, Awaits, tables
<1>5. ASSUME NEW l \in loads, LoadFailed(l) PROVE InOrder'
  <2>1. hurried'
    BY <1>5 DEF LoadFailed
  <2> QED
    BY <2>1 DEF InOrder
<1>6. ASSUME NEW t \in Tab, NEW f \in Field, NEW v \in Values(f), handleChange(t, f,
      v) PROVE InOrder'
  <2>1. \A q \in Tab : Stays(q)
    BY <1>6, PagesStay DEF StayingNext
  <2>2. Calm
    BY <1>6, <2>1 DEF Calm, Stays, tables, handleChange
  <2> QED
    BY <2>2, CalmKeeps
<1>7. ASSUME NEW t \in Tab, handleSave(t) PROVE InOrder'
  <2>1. \A q \in Tab : Stays(q)
    BY <1>7, PagesStay DEF StayingNext
  <2>2. Calm
    BY <1>7, <2>1 DEF Calm, Stays, tables, handleSave
  <2> QED
    BY <2>2, CalmKeeps
<1>8. ASSUME NEW s \in saves, Found(s) PROVE InOrder'
  <2>1. Calm
    BY <1>8 DEF Calm, tables, Found
  <2> QED
    BY <2>1, CalmKeeps
<1>9. ASSUME NEW s \in saves, NameChecked(s) PROVE InOrder'
  <2>1. Calm
    BY <1>9 DEF Calm, tables, NameChecked
  <2> QED
    BY <2>1, CalmKeeps
<1>10. ASSUME NEW s \in saves, Written(s) PROVE InOrder'
  <2>1. Calm
    BY <1>10 DEF Calm, tables, Written
  <2> QED
    BY <2>1, CalmKeeps
<1>11. ASSUME NEW s \in saves, WriteRefused(s) PROVE InOrder'
  <2>1. Calm
    BY <1>11 DEF Calm, tables, WriteRefused
  <2> QED
    BY <2>1, CalmKeeps
<1>12. ASSUME NEW s \in saves, SaveAnswered(s) PROVE InOrder'
  <2>0. s.tab \in Tab
    BY <1>a DEF SaveState
  <2>1. /\ tab'[s.tab].page = "detail" /\ \A u \in Tab \ {s.tab} : tab'[u] = tab[u]
        /\ loads' = loads \cup {Load(s.tab, tab'[s.tab].mount)}
    BY <1>12, ShownIs, <2>0 DEF SaveAnswered
  <2>2. \A m : Load(s.tab, m).tab = s.tab
    BY DEF Load
  <2>3. Calm
    BY <1>12, <2>0, <2>1, <2>2 DEF Calm, tables, SaveAnswered
  <2> QED
    BY <2>3, CalmKeeps
<1>13. ASSUME NEW s \in saves, SaveFailed(s) PROVE InOrder'
  <2>1. \A q \in Tab : Stays(q)
    BY <1>13, PagesStay DEF StayingNext
  <2>2. Calm
    BY <1>13, <2>1 DEF Calm, Stays, tables, SaveFailed
  <2> QED
    BY <2>2, CalmKeeps
<1>14. ASSUME NEW t \in Tab, NEW p \in Product, handleAddInspectionTarget(t, p)
      PROVE InOrder'
  <2> SUFFICES ASSUME ~hurried' PROVE InOrder'
    BY DEF InOrder
  <2> DEFINE c == Call(t, "add", <<Cardinality(tab[t].list), p>>)
  <2>1. /\ ~hurried /\ ~Behind(t) /\ Ready(t) /\ calls' = calls \cup {c}
        /\ tab' = tab /\ loads' = loads /\ UNCHANGED tables
    BY <1>14 DEF handleAddInspectionTarget
  <2>2. c.kind = "add" /\ c.tab = t /\ c.mount = tab[t].mount /\ c.what[1] = Cardinality(tab[t].list)
    BY DEF Call
  <2> HIDE DEF c
  <2>3. /\ \A l \in loads : ~Awaits(t, l)
        /\ \A d \in calls : d.kind # "add" /\ d.kind # "remove"
        /\ \A u \in Tab : tab[u].page = "edit" => u = t
    BY <2>1 DEF Behind, Awaits
  <2>4. ASSUME customer # none PROVE AllThere'
    <3>1. AllThere
      BY <2>1, <2>4 DEF InOrder
    <3>2. /\ \A i \in 1..Len(products) : \E g \in targets : g.id = i
          /\ \A g \in targets : g.order = g.id - 1
      BY <3>1 DEF AllThere
    <3>3. Cardinality(tab[t].list) = Len(products)
      BY <2>1, <2>3, <3>1 DEF AllThere, Ready
    <3> QED
      BY <2>1, <2>2, <2>3, <3>1, <3>2, <3>3 DEF AllThere, Awaits, tables
  <2> QED
    BY <2>1, <2>2, <2>3, <2>4 DEF InOrder, Awaits, tables
<1>15. ASSUME NEW t \in Tab, NEW g \in tab[t].list, handleDeleteInspectionTarget(t,
      g) PROVE InOrder'
  <2>1. hurried'
    BY <1>15 DEF handleDeleteInspectionTarget
  <2> QED
    BY <2>1 DEF InOrder
<1>16. ASSUME NEW t \in Tab, handleDeleteCustomer(t) PROVE InOrder'
  <2> DEFINE c == Call(t, "delete", tab[t].customer.name)
  <2>1. c.kind = "delete" /\ calls' = calls \cup {c}
    BY <1>16 DEF Call, handleDeleteCustomer
  <2> HIDE DEF c
  <2>2. Calm
    BY <1>16, <2>1 DEF Calm, tables, handleDeleteCustomer
  <2> QED
    BY <2>2, CalmKeeps
<1>17. ASSUME NEW c \in calls, TargetCreated(c) PROVE InOrder'
  <2> SUFFICES ASSUME ~hurried' PROVE InOrder'
    BY DEF InOrder
  <2>1. ~hurried /\ tab' = tab /\ loads' = loads /\ c.kind = "add" /\ c.step = "sent"
    BY <1>17 DEF TargetCreated
  <2>2. PICK step \in {"done", "refused"} : calls' = (calls \ {c}) \cup {[c EXCEPT !.step = step]}
    BY <1>17 DEF TargetCreated, Becomes
  <2> DEFINE d == [c EXCEPT !.step = step]
  <2>3. d.kind = "add" /\ d.tab = c.tab /\ d.mount = c.mount /\ d.step # "sent"
    BY <1>a, <2>1 DEF CallFits
  <2>4. calls' = (calls \ {c}) \cup {d}
    BY <2>2
  <2> HIDE DEF d
  <2>5. \A e \in calls : e.kind = "add" => e = c
    BY <2>1 DEF InOrder
  <2>6. \A e \in calls' : e.kind = "add" => e = d
    BY <2>4, <2>5
  <2>7. \A t \in Tab : tab[t].page = "edit" =>
          t = c.tab /\ c.mount = tab[t].mount /\ \A l \in loads : ~Awaits(t, l)
    BY <2>1 DEF InOrder
  <2>8. ASSUME customer' # none PROVE AllThere'
    <3>1. customer # none /\ UNCHANGED customer
      BY <1>17, <2>8 DEF TargetCreated, Created, tables
    <3>2. AllThere
      BY <2>1, <3>1 DEF InOrder
    <3>3. c.what \in Nat \X Product /\ c.what[1] = Len(products)
      BY <1>a, <2>1, <3>2 DEF CallFits, AllThere
    <3>4. products' = Append(products, c.what[2]) /\ products \in Seq(Product) /\ c.what[2] \in Product
      BY <1>17, <3>1, <3>3 DEF TargetCreated, Created, TablesOK
    <3>5. Len(products) \in Nat /\ Len(products') = Len(products) + 1
      BY <3>4, AppendProperties, LenProperties
    <3> DEFINE new == [id |-> Len(products) + 1, order |-> Len(products), product |-> c.what[2],
                       template |-> none]
    <3>6. targets' = targets \cup {new}
      BY <1>17, <3>1, <3>3, <3>5 DEF TargetCreated, Created
    <3>7. new.id = Len(products) + 1 /\ new.order = Len(products)
      OBVIOUS
    <3> HIDE DEF new
    <3>8. \A g \in targets' : g.order = g.id - 1
      BY <3>2, <3>5, <3>6, <3>7 DEF AllThere
    <3>9. ASSUME NEW i \in 1..Len(products') PROVE \E g \in targets' : g.id = i
      <4>1. i \in 1..Len(products) \/ i = Len(products) + 1
        BY <3>5
      <4> QED
        BY <3>2, <3>6, <3>7, <4>1 DEF AllThere
    <3> QED
      BY <2>1, <2>3, <2>4, <2>6, <2>7, <3>8, <3>9 DEF AllThere, Awaits
  <2> QED
    BY <2>1, <2>3, <2>4, <2>6, <2>7, <2>8 DEF InOrder, Awaits
<1>18. ASSUME NEW c \in calls, TargetRemoved(c) PROVE InOrder'
  <2>1. ~hurried' => ~hurried
    BY <1>18 DEF TargetRemoved
  <2>2. hurried
    BY <1>18 DEF TargetRemoved, InOrder
  <2> QED
    BY <2>1, <2>2 DEF InOrder
<1>19. ASSUME NEW c \in calls, CustomerDeleted(c) PROVE InOrder'
  <2>1. ASSUME NEW step PROVE [c EXCEPT !.step = step].kind = c.kind
    BY <1>a DEF CallFits
  <2>2. PICK step : calls' = (calls \ {c}) \cup {[c EXCEPT !.step = step]}
    BY <1>19 DEF CustomerDeleted, Becomes
  <2>3. \A d : d.kind # "delete" => (d \in calls' <=> d \in calls)
    BY <1>19, <2>1, <2>2 DEF CustomerDeleted
  <2>4. Calm
    BY <1>19, <2>3 DEF Calm, tables, CustomerDeleted, Deleted
  <2> QED
    BY <2>4, CalmKeeps
<1>20. ASSUME NEW c \in calls, CallAnswered(c) PROVE InOrder'
  <2> SUFFICES ASSUME ~hurried' PROVE InOrder'
    BY DEF InOrder
  <2>1. ~hurried /\ calls' = calls \ {c} /\ UNCHANGED tables /\ c.tab \in Tab /\ c.kind # "remove"
    BY <1>20, <1>a DEF CallAnswered, CallFits, InOrder
  <2>2. CASE c.kind = "add"
    <3> DEFINE l == Load(c.tab, c.mount)
    <3>1. tab' = tab /\ loads' = loads \cup {l}
      BY <1>20, <2>2 DEF CallAnswered
    <3>2. l.tab = c.tab /\ l.mount = c.mount /\ l.step = "sent"
      BY DEF Load
    <3> HIDE DEF l
    <3>3. \A d \in calls' : d.kind # "add" /\ d.kind # "remove"
      BY <2>1, <2>2 DEF InOrder
    <3>4. \A t \in Tab : tab[t].page = "edit" =>
            t = c.tab /\ c.mount = tab[t].mount /\ \A k \in loads : ~Awaits(t, k)
      BY <2>1, <2>2 DEF InOrder
    <3>5. ASSUME customer # none PROVE AllThere'
      <4>1. AllThere
        BY <2>1, <3>5 DEF InOrder
      <4>2. /\ \A i \in 1..Len(products) : \E g \in targets : g.id = i
            /\ \A g \in targets : g.order = g.id - 1
        BY <4>1 DEF AllThere
      <4> QED
        BY <2>1, <3>1, <3>2, <3>3, <3>4, <4>2 DEF AllThere, Awaits, tables
    <3> QED
      BY <2>1, <3>1, <3>3, <3>5 DEF InOrder, tables
  <2>3. CASE c.kind = "delete" /\ c.mount = tab[c.tab].mount
    <3>1. /\ tab'[c.tab].page = "list" /\ \A u \in Tab \ {c.tab} : tab'[u] = tab[u]
          /\ loads' = loads
      BY <1>20, <2>1, <2>3, ShownIs DEF CallAnswered
    <3>2. Calm
      BY <1>20, <2>1, <2>3, <3>1 DEF Calm, tables, CallAnswered
    <3> QED
      BY <3>2, CalmKeeps
  <2>4. CASE c.kind = "delete" /\ c.mount # tab[c.tab].mount
    <3>1. tab' = tab /\ loads' = loads
      BY <1>20, <2>4 DEF CallAnswered
    <3>2. Calm
      BY <1>20, <2>1, <2>4, <3>1 DEF Calm, tables
    <3> QED
      BY <3>2, CalmKeeps
  <2> QED
    BY <1>a, <2>1, <2>2, <2>3, <2>4 DEF CallFits
<1>21. ASSUME NEW c \in calls, CallFailed(c) PROVE InOrder'
  <2>1. hurried'
    BY <1>21 DEF CallFailed
  <2> QED
    BY <2>1 DEF InOrder
<1>22. ASSUME NEW n \in Name, handleAddCustomer(n) PROVE InOrder'
  <2>1. Calm
    BY <1>22 DEF Calm, tables, handleAddCustomer
  <2> QED
    BY <2>1, CalmKeeps
<1>23. ASSUME NEW d \in Day, ReportUploaded(d) PROVE InOrder'
  <2>1. Calm
    BY <1>23 DEF Calm, tables, ReportUploaded
  <2> QED
    BY <2>1, CalmKeeps
<1> QED
  BY <1>1, <1>2, <1>3, <1>4, <1>5, <1>6, <1>7, <1>8, <1>9, <1>10, <1>11, <1>12,
     <1>13, <1>14, <1>15, <1>16, <1>17, <1>18, <1>19, <1>20, <1>21, <1>22, <1>23 DEF
     PagesNext

\* The page of the templates disturbs nothing of it.
LEMMA OrderKeptByTemplates ==
  ASSUME TablesOK, ListsFit, IdsAreOwn, PathsFit, InOrder, TemplatesNext, UNCHANGED pages
  PROVE  InOrder'
<1>1. UNCHANGED targets \/ \E u \in uploads : RowUpdated(u)
  BY TemplatesOnly
<1>2. \A u \in uploads : UploadFits(u)
  BY DEF PathsFit
<1>3. /\ \A h \in targets' : \E g \in targets : h.id = g.id /\ h.order = g.order
      /\ \A g \in targets : \E h \in targets' : h.id = g.id
  BY <1>1, <1>2, RowsUpdated
<1>4. Calm
  BY <1>3, TemplatesOnly DEF Calm, pages
<1> QED
  BY <1>4, CalmKeeps

\* The numbers of the targets are those of their creation.
LEMMA OrderFollows ==
  ASSUME TablesOK, NothingOutlivesCustomer, InOrder
  PROVE  OrderIsAge
<1> SUFFICES ASSUME ~hurried, NEW g \in targets, NEW h \in targets, g.id < h.id
             PROVE  g.order < h.order
  BY DEF OrderIsAge
<1>1. AllThere
  BY DEF NothingOutlivesCustomer, InOrder
<1>2. g.id \in Nat /\ h.id \in Nat /\ g.order = g.id - 1 /\ h.order = h.id - 1
  BY <1>1 DEF AllThere, TablesOK, Target
<1> QED
  BY <1>2

---------------------------------------------------------------------------
(* What the pages of the customer leave of the templates *)

\* What was no stranger's stays so.
LEMMA FitsGrows ==
  ASSUME TablesOK, names \subseteq names', Adding \/ products' = products, NEW p, NEW id, Fits(p, id)
  PROVE  p \in Path /\ p[1] \in names' /\ id \in 1..Len(products') /\ p[2] = products'[id]
<1>1. /\ Len(products) \in Nat /\ Len(products') \in Nat
      /\ \A i \in 1..Len(products) : i \in 1..Len(products') /\ products'[i] = products[i]
  BY ListedGrows
<1> QED
  BY <1>1 DEF Fits

\* What is shared stays shared.
LEMMA SharedGrows ==
  ASSUME TablesOK, names \subseteq names', others \subseteq others', Adding \/ products' = products,
         TablesOK', NothingShared'
  PROVE  NothingShared
<1>1. /\ Len(products) \in Nat /\ Len(products') \in Nat
      /\ \A i \in 1..Len(products) : i \in 1..Len(products') /\ products'[i] = products[i]
  BY ListedGrows
<1>2. DOMAIN products = 1..Len(products) /\ DOMAIN products' = 1..Len(products')
  BY LenProperties DEF TablesOK
<1>3. \A i, j \in 1..Len(products') : products'[i] = products'[j] => i = j
  BY <1>2 DEF NothingShared
<1>4. \A i, j \in 1..Len(products) : products[i] = products[j] => i = j
  BY <1>1, <1>3
<1> QED
  BY <1>2, <1>4 DEF NothingShared

\* A target of after is one of before, or has no template.
LEMMA OldOrBlank ==
  ASSUME (products' = products /\ targets' \subseteq targets) \/ Adding, NEW g \in targets'
  PROVE  g \in targets \/ g.template = none
  BY DEF Adding

\* The pages leave every path with its target.
LEMMA PagesKeepPaths ==
  ASSUME CustomerAssumption, TablesOK, TablesOK', MessagesFit, PathsFit, PagesNext, UNCHANGED docs
  PROVE  PathsFit'
<1> DEFINE After(p, id) == p \in Path /\ p[1] \in names' /\ id \in 1..Len(products') /\ p[2] = products'[id]
<1>1. Grows
  BY PagesGrow
<1>2. ASSUME NEW p, NEW id, Fits(p, id) PROVE After(p, id)
  BY <1>1, <1>2, FitsGrows DEF Grows
<1>3. names' # {} /\ (customer' # none => customer'.name \in names')
  BY <1>1 DEF PathsFit, Grows
<1>4. (view.name # none => view.name \in names') /\ view \in ViewState
  BY <1>1 DEF PathsFit, Grows
<1>5. \A g \in targets' : g.template # none => After(g.template, g.id)
  BY <1>1, <1>2, OldOrBlank DEF Grows, PathsFit
<1>6. \A u \in uploads : /\ u \in UploadState /\ After(u.path, u.target) /\ owner[u.id] = u.target
                         /\ u.old # none => After(u.old, u.target)
  BY <1>2 DEF PathsFit, UploadFits
<1>7. \A d \in downloads : /\ d \in DownloadState /\ (d.step = "found" => d.path # none)
                           /\ d.path # none => After(d.path, d.target)
  BY <1>2 DEF PathsFit, DownloadFits
<1>8. \A f \in files : \/ f.content = 0 /\ f.path[1] \in others'
                       \/ f.content \in 1..sent /\ After(f.path, owner[f.content])
  BY <1>1, <1>2 DEF PathsFit, Grows
<1>9. UNCHANGED <<view, uploads, downloads, files, owner, sent>>
  BY DEF docs
<1>10. \A u \in uploads' : UploadFits(u)'
  BY <1>6, <1>9 DEF UploadFits, Fits
<1>11. \A d \in downloads' : DownloadFits(d)'
  BY <1>7, <1>9 DEF DownloadFits, Fits
<1>12. \A g \in targets' : g.template # none => Fits(g.template, g.id)'
  BY <1>5 DEF Fits
<1>13. \A f \in files' : \/ f.content = 0 /\ f.path[1] \in others'
                         \/ f.content \in 1..sent' /\ Fits(f.path, owner[f.content])'
  BY <1>8, <1>9 DEF Fits
<1> HIDE DEF After
<1> QED
  BY <1>3, <1>4, <1>9, <1>10, <1>11, <1>12, <1>13 DEF PathsFit

\* The rest of what is said of the templates.
LEMMA PagesKeepTemplates ==
  ASSUME CustomerAssumption, TablesOK, TablesOK', TemplatesOK, MessagesFit, PathsFit, CrowdsAreNoted,
         AskedFirst, FilesAreThere, NoneReplacedSilently, PagesNext, UNCHANGED docs
  PROVE  TemplatesOK' /\ CrowdsAreNoted' /\ AskedFirst' /\ FilesAreThere' /\ NoneReplacedSilently'
<1>1. Grows
  BY PagesGrow
<1>2. /\ Len(products) \in Nat /\ Len(products') \in Nat
      /\ \A i \in 1..Len(products) : i \in 1..Len(products')
  BY <1>1, ListedGrows DEF Grows
<1>3. NothingShared' => NothingShared
  BY <1>1, SharedGrows DEF Grows
<1>4. \A g \in targets' : g \in targets \/ g.template = none
  BY <1>1, OldOrBlank DEF Grows
<1>5. TemplatesOK'
  <2>1. owner \in [1..sent -> 1..Len(products')] /\ crowded \subseteq 1..Len(products') /\ broken \subseteq 1..Len(products')
    BY <1>2 DEF TemplatesOK
  <2> QED
    BY <2>1 DEF TemplatesOK, docs
<1>6. CrowdsAreNoted'
  BY DEF CrowdsAreNoted, docs
<1>7. AskedFirst'
  BY <1>4 DEF AskedFirst, docs
<1>8. FilesAreThere'
  <2> SUFFICES ASSUME NothingShared' PROVE FilesAreThere'
    BY DEF FilesAreThere
  <2>1. /\ ~strange
        /\ \A u \in uploads : u.step = "stored" /\ u.target \notin crowded => Keeps(u.path, u.id)
        /\ \A g \in targets :
             g.template # none /\ g.id \notin crowded \cup broken /\ ~(\E u \in uploads : u.target = g.id /\ u.step = "stored") =>
               g.id \in DOMAIN latest /\ Keeps(g.template, latest[g.id])
    BY <1>3 DEF FilesAreThere
  <2>2. UNCHANGED <<strange, uploads, crowded, broken, latest, files>>
    BY DEF docs
  <2> QED
    BY <1>4, <2>1, <2>2 DEF FilesAreThere, Keeps
<1>9. NoneReplacedSilently'
  BY <1>3 DEF NoneReplacedSilently, docs
<1> QED
  BY <1>5, <1>6, <1>7, <1>8, <1>9

---------------------------------------------------------------------------
(* The steps of an upload *)

\* The upload goes on as w.
Turns(u, w) ==
  /\ uploads' = (uploads \ {u}) \cup {w}
  /\ w \in UploadState /\ w.id = u.id /\ w.target = u.target /\ w.path = u.path

\* The row of an id.
LEMMA RowIs ==
  ASSUME IdsAreOwn, NEW id, Known(id)
  PROVE  RowOf(id) \in targets /\ \A g \in targets : g.id = id => g = RowOf(id)
  BY DEF Known, RowOf, IdsAreOwn

\* The check answers for the row of the target.
LEMMA CheckTurns ==
  ASSUME IdsAreOwn, PathsFit, NEW u \in uploads, checkExistingTemplate(u)
  PROVE  \E w : /\ Turns(u, w) /\ w.old = u.old /\ w.asked = u.asked
                /\ \/ w.step = "ask"
                   \/ w.step = "sent" /\ \A g \in targets : g.id = u.target => g.template = none
<1> DEFINE w == [u EXCEPT !.step = IF RowOf(u.target).template # none THEN "ask" ELSE "sent"]
<1>1. u \in UploadState
  BY DEF PathsFit, UploadFits
<1>2. uploads' = (uploads \ {u}) \cup {w}
  BY DEF checkExistingTemplate, Goes
<1>3. /\ w \in UploadState /\ w.id = u.id /\ w.target = u.target /\ w.path = u.path
      /\ w.old = u.old /\ w.asked = u.asked
      /\ w.step = IF RowOf(u.target).template # none THEN "ask" ELSE "sent"
  BY <1>1 DEF UploadState
<1>4. RowOf(u.target).template = none => \A g \in targets : g.id = u.target => g.template = none
  BY RowIs DEF checkExistingTemplate
<1> HIDE DEF w
<1> QED
  BY <1>2, <1>3, <1>4 DEF Turns

\* A check that fails counts as: none.
LEMMA FailedTurns ==
  ASSUME PathsFit, NEW u \in uploads, CheckFailed(u)
  PROVE  \E w : Turns(u, w) /\ w.old = u.old /\ w.asked = u.asked /\ w.step = "sent"
<1> DEFINE w == [u EXCEPT !.step = "sent"]
<1>1. u \in UploadState
  BY DEF PathsFit, UploadFits
<1>2. uploads' = (uploads \ {u}) \cup {w}
  BY DEF CheckFailed, Goes
<1>3. /\ w \in UploadState /\ w.id = u.id /\ w.target = u.target /\ w.path = u.path
      /\ w.old = u.old /\ w.asked = u.asked /\ w.step = "sent"
  BY <1>1 DEF UploadState
<1> HIDE DEF w
<1> QED
  BY <1>2, <1>3 DEF Turns

\* The user agrees, or gives it up.
LEMMA ConfirmTurns ==
  ASSUME PathsFit, NEW u \in uploads, Confirm(u)
  PROVE  \/ uploads' = uploads \ {u}
         \/ \E w : Turns(u, w) /\ w.old = u.old /\ w.asked /\ w.step = "sent"
<1> DEFINE w == [u EXCEPT !.step = "sent", !.asked = TRUE]
<1>1. u \in UploadState
  BY DEF PathsFit, UploadFits
<1>2. uploads' = uploads \ {u} \/ uploads' = (uploads \ {u}) \cup {w}
  BY DEF Confirm, Goes
<1>3. /\ w \in UploadState /\ w.id = u.id /\ w.target = u.target /\ w.path = u.path
      /\ w.old = u.old /\ w.asked /\ w.step = "sent"
  <2>1. TRUE \in BOOLEAN
    OBVIOUS
  <2> QED
    BY <1>1, <2>1 DEF UploadState
<1> HIDE DEF w
<1> QED
  BY <1>2, <1>3 DEF Turns

\* The service remembers the path of the row.
LEMMA FoundTurns ==
  ASSUME TablesOK, IdsAreOwn, PathsFit, NEW u \in uploads, FoundTarget(u)
  PROVE  \E w : /\ Turns(u, w) /\ w.asked = u.asked /\ u.step = "sent"
                /\ \/ w.step = "refused" /\ w.old = u.old
                   \/ w.step = "found" /\ (w.old # none => Fits(w.old, w.target))
<1>1. u \in UploadState /\ u.step = "sent"
  BY DEF PathsFit, UploadFits, FoundTarget
<1>2. CASE ~Known(u.target)
  <2> DEFINE w == [u EXCEPT !.step = "refused"]
  <2>1. uploads' = (uploads \ {u}) \cup {w}
    BY <1>2 DEF FoundTarget, Goes
  <2>2. /\ w \in UploadState /\ w.id = u.id /\ w.target = u.target /\ w.path = u.path
        /\ w.old = u.old /\ w.asked = u.asked /\ w.step = "refused"
    BY <1>1 DEF UploadState
  <2> HIDE DEF w
  <2> QED
    BY <1>1, <2>1, <2>2 DEF Turns
<1>3. CASE Known(u.target)
  <2> DEFINE w == [u EXCEPT !.step = "found", !.old = RowOf(u.target).template]
  <2>1. uploads' = (uploads \ {u}) \cup {w}
    BY <1>3 DEF FoundTarget, Goes
  <2>2. RowOf(u.target) \in targets /\ RowOf(u.target).id = u.target
    BY <1>3, RowIs DEF Known
  <2>3. /\ RowOf(u.target).template \in Path \cup {none}
        /\ RowOf(u.target).template # none => Fits(RowOf(u.target).template, u.target)
    BY <2>2 DEF TablesOK, Target, PathsFit
  <2>4. /\ w \in UploadState /\ w.id = u.id /\ w.target = u.target /\ w.path = u.path
        /\ w.old = RowOf(u.target).template /\ w.asked = u.asked /\ w.step = "found"
    BY <1>1, <2>3 DEF UploadState
  <2> HIDE DEF w
  <2> QED
    BY <1>1, <2>1, <2>3, <2>4 DEF Turns
<1> QED
  BY <1>2, <1>3

\* The file is written, then the row.
LEMMA StoredTurns ==
  ASSUME PathsFit, NEW u \in uploads, StoredFile(u)
  PROVE  \E w : Turns(u, w) /\ w.old = u.old /\ w.asked = u.asked /\ u.step = "found" /\ w.step = "stored"
<1> DEFINE w == [u EXCEPT !.step = "stored"]
<1>1. u \in UploadState
  BY DEF PathsFit, UploadFits
<1>2. uploads' = (uploads \ {u}) \cup {w} /\ u.step = "found"
  BY DEF StoredFile, Goes
<1>3. /\ w \in UploadState /\ w.id = u.id /\ w.target = u.target /\ w.path = u.path
      /\ w.old = u.old /\ w.asked = u.asked /\ w.step = "stored"
  BY <1>1 DEF UploadState
<1> HIDE DEF w
<1> QED
  BY <1>2, <1>3 DEF Turns

\* The row is written last.
LEMMA UpdatedTurns ==
  ASSUME PathsFit, NEW u \in uploads, RowUpdated(u)
  PROVE  \E w : /\ Turns(u, w) /\ w.old = u.old /\ w.asked = u.asked
                /\ u.step = "stored" /\ w.step \in {"done", "refused"}
<1> DEFINE w == [u EXCEPT !.step = IF Known(u.target) THEN "done" ELSE "refused"]
<1>1. u \in UploadState
  BY DEF PathsFit, UploadFits
<1>2. uploads' = (uploads \ {u}) \cup {w} /\ u.step = "stored"
  BY DEF RowUpdated, Goes
<1>3. /\ w \in UploadState /\ w.id = u.id /\ w.target = u.target /\ w.path = u.path
      /\ w.old = u.old /\ w.asked = u.asked /\ w.step \in {"done", "refused"}
  BY <1>1 DEF UploadState
<1> HIDE DEF w
<1> QED
  BY <1>2, <1>3 DEF Turns

\* An upload ends in between.
LEMMA BrokenTurns ==
  ASSUME PathsFit, NEW u \in uploads, StoreFails(u) \/ UpdateFails(u)
  PROVE  \E w : Turns(u, w) /\ w.old = u.old /\ w.asked = u.asked /\ w.step = "refused"
<1> DEFINE w == [u EXCEPT !.step = "refused"]
<1>1. u \in UploadState
  BY DEF PathsFit, UploadFits
<1>2. uploads' = (uploads \ {u}) \cup {w}
  BY DEF StoreFails, UpdateFails, Goes
<1>3. /\ w \in UploadState /\ w.id = u.id /\ w.target = u.target /\ w.path = u.path
      /\ w.old = u.old /\ w.asked = u.asked /\ w.step = "refused"
  BY <1>1 DEF UploadState
<1> HIDE DEF w
<1> QED
  BY <1>2, <1>3 DEF Turns

\* A function on 1..n as a sequence.
LEMMA Extended ==
  ASSUME NEW n \in Nat, NEW S, NEW f \in [1..n -> S], NEW x \in S
  PROVE  /\ Append(f, x) \in [1..(n + 1) -> S] /\ Append(f, x)[n + 1] = x
         /\ \A i \in 1..n : Append(f, x)[i] = f[i]
<1>1. f \in Seq(S) /\ Len(f) = n
  BY SeqDef, LenProperties
<1>2. /\ Append(f, x) \in Seq(S) /\ Len(Append(f, x)) = n + 1 /\ Append(f, x)[n + 1] = x
      /\ \A i \in 1..n : Append(f, x)[i] = f[i]
  BY <1>1, AppendProperties
<1> QED
  BY <1>2, LenProperties

\* A new upload.
LEMMA SubmitStarts ==
  ASSUME CustomerAssumption, TablesOK, TemplatesOK, ListsFit, PathsFit,
         NEW g \in view.list, NEW e \in Extension, handleSubmitUpload(g, e)
  PROVE  /\ sent' = sent + 1 /\ sent \in Nat
         /\ \E w : /\ uploads' = uploads \cup {w} /\ w \in UploadState /\ w.id = sent + 1
                   /\ w.target = g.id /\ Fits(w.path, g.id) /\ w.old = none /\ w.step = "check"
                   /\ \A u \in uploads : u.target = g.id => u.target \in crowded'
         /\ g.id \in 1..Len(products)
         /\ owner' \in [1..(sent + 1) -> 1..Len(products)]
         /\ owner'[sent + 1] = g.id /\ \A i \in 1..sent : owner'[i] = owner[i]
         /\ crowded \subseteq crowded' /\ crowded' \subseteq 1..Len(products)
<1>1. sent \in Nat /\ sent' = sent + 1
  BY DEF TemplatesOK, handleSubmitUpload
<1>2. Len(products) \in Nat /\ \A i \in 1..Len(products) : products[i] \in Product
  BY LenProperties, ElementOfSeq DEF TablesOK
<1>3. g.id \in 1..Len(products) /\ g.product = products[g.id]
  <2>1. g \in Target /\ g.id <= Len(products) /\ g.product = products[g.id]
    BY DEF ListsFit, Listed
  <2> QED
    BY <1>2, <2>1 DEF Target
<1>4. view.name \in Name /\ view.name \in names
  BY DEF handleSubmitUpload, PathsFit, ViewState
<1> DEFINE p == <<view.name, g.product, e>>
           w == [id |-> sent + 1, target |-> g.id, path |-> p, old |-> none, asked |-> FALSE, step |-> "check"]
<1>5. p \in Path /\ p[1] = view.name /\ p[2] = g.product
  BY <1>2, <1>3, <1>4 DEF Path, Extension
<1>6. uploads' = uploads \cup {w} /\ owner' = Append(owner, g.id)
  BY <1>1 DEF handleSubmitUpload
<1>7. Fits(p, g.id)
  BY <1>3, <1>4, <1>5 DEF Fits
<1>8. /\ crowded' = crowded
         \/ crowded' = crowded \cup {g.id} \cup {u.target : u \in {v \in uploads : v.target = g.id \/ v.path = p}}
      /\ (\E u \in uploads : u.target = g.id) =>
           crowded' = crowded \cup {g.id} \cup {u.target : u \in {v \in uploads : v.target = g.id \/ v.path = p}}
  BY DEF handleSubmitUpload
<1> HIDE DEF p
<1>9. w \in UploadState /\ w.id = sent + 1 /\ w.target = g.id /\ w.path = p /\ w.old = none /\ w.step = "check"
  <2>1. FALSE \in BOOLEAN /\ g.id \in Nat
    BY <1>2, <1>3
  <2> QED
    BY <1>1, <1>5, <2>1 DEF UploadState
<1> HIDE DEF w
<1>10. /\ owner' \in [1..(sent + 1) -> 1..Len(products)]
       /\ owner'[sent + 1] = g.id /\ \A i \in 1..sent : owner'[i] = owner[i]
  <2> DEFINE S == 1..Len(products)
  <2>1. owner \in [1..sent -> S] /\ g.id \in S
    BY <1>3 DEF TemplatesOK
  <2> HIDE DEF S
  <2>2. /\ Append(owner, g.id) \in [1..(sent + 1) -> S] /\ Append(owner, g.id)[sent + 1] = g.id
        /\ \A i \in 1..sent : Append(owner, g.id)[i] = owner[i]
    BY <1>1, <2>1, Extended
  <2> QED
    BY <1>6, <2>2 DEF S
<1>11. \A u \in uploads : u.target \in 1..Len(products)
  BY DEF PathsFit, UploadFits, Fits
<1>12. crowded \subseteq 1..Len(products)
  BY DEF TemplatesOK
<1>13. crowded \subseteq crowded' /\ crowded' \subseteq 1..Len(products)
  BY <1>3, <1>8, <1>11, <1>12
<1>14. \A u \in uploads : u.target = g.id => u.target \in crowded'
  BY <1>8
<1> QED
  BY <1>1, <1>3, <1>6, <1>7, <1>9, <1>10, <1>13, <1>14

---------------------------------------------------------------------------
(* What the page of the templates leaves of the paths *)

\* Whose an upload is, is never changed.
LEMMA OwnerMoved ==
  ASSUME CustomerAssumption, TablesOK, TemplatesOK, ListsFit, PathsFit, TemplatesNext
  PROVE  /\ sent' \in Nat /\ sent <= sent' /\ \A i \in 1..sent : i \in 1..sent' /\ owner'[i] = owner[i]
         /\ owner' \in [1..sent' -> 1..Len(products)]
<1> DEFINE G ==
       /\ sent' \in Nat /\ sent <= sent' /\ \A i \in 1..sent : i \in 1..sent' /\ owner'[i] = owner[i]
       /\ owner' \in [1..sent' -> 1..Len(products)]
<1> SUFFICES G
  OBVIOUS
<1>a. sent \in Nat /\ owner \in [1..sent -> 1..Len(products)]
  BY DEF TemplatesOK
<1>b. sent <= sent /\ \A i \in 1..sent : i \in 1..sent /\ owner[i] = owner[i]
  BY <1>a
<1>1. ASSUME fetchData PROVE G
  BY <1>1, <1>a, <1>b DEF fetchData
<1>2. ASSUME NEW g \in view.list, NEW e \in Extension, handleSubmitUpload(g, e)
      PROVE G
  <2>1. /\ sent' = sent + 1 /\ owner' \in [1..(sent + 1) -> 1..Len(products)]
        /\ \A i \in 1..sent : owner'[i] = owner[i]
    BY <1>2, SubmitStarts
  <2>2. \A i \in 1..sent : i \in 1..(sent + 1)
    BY <1>a
  <2> QED
    BY <1>a, <2>1, <2>2
<1>3. ASSUME NEW u \in uploads, checkExistingTemplate(u) PROVE G
  BY <1>3, <1>a, <1>b DEF checkExistingTemplate, Goes
<1>4. ASSUME NEW u \in uploads, CheckFailed(u) PROVE G
  BY <1>4, <1>a, <1>b DEF CheckFailed, Goes
<1>5. ASSUME NEW u \in uploads, Confirm(u) PROVE G
  BY <1>5, <1>a, <1>b DEF Confirm, Goes
<1>6. ASSUME NEW u \in uploads, FoundTarget(u) PROVE G
  BY <1>6, <1>a, <1>b DEF FoundTarget, Goes
<1>7. ASSUME NEW u \in uploads, StoredFile(u) PROVE G
  BY <1>7, <1>a, <1>b DEF StoredFile, Goes
<1>8. ASSUME NEW u \in uploads, RowUpdated(u) PROVE G
  BY <1>8, <1>a, <1>b DEF RowUpdated, Goes
<1>9. ASSUME NEW u \in uploads, UploadAnswered(u) PROVE G
  BY <1>9, <1>a, <1>b DEF UploadAnswered
<1>10. ASSUME NEW n \in Name, NEW p \in Product, ForeignUpload(n, p) PROVE G
  BY <1>10, <1>a, <1>b DEF ForeignUpload
<1>11. ASSUME NEW g \in view.list, handleDownloadTemplate(g) PROVE G
  BY <1>11, <1>a, <1>b DEF handleDownloadTemplate
<1>12. ASSUME NEW d \in downloads, FoundPath(d) PROVE G
  BY <1>12, <1>a, <1>b DEF FoundPath
<1>13. ASSUME NEW d \in downloads, Served(d) PROVE G
  BY <1>13, <1>a, <1>b DEF Served
<1>14. ASSUME NEW u \in uploads, StoreFails(u) PROVE G
  BY <1>14, <1>a, <1>b DEF StoreFails, Goes
<1>15. ASSUME NEW u \in uploads, UpdateFails(u) PROVE G
  BY <1>15, <1>a, <1>b DEF UpdateFails, Goes
<1> HIDE DEF G
<1> QED
  BY <1>1, <1>2, <1>3, <1>4, <1>5, <1>6, <1>7, <1>8, <1>9, <1>10, <1>11, <1>12,
     <1>13, <1>14, <1>15 DEF TemplatesNext

\* Every upload keeps to its target.
LEMMA UploadsKept ==
  ASSUME CustomerAssumption, TablesOK, TemplatesOK, ListsFit, IdsAreOwn, PathsFit, TemplatesNext
  PROVE  \A v \in uploads' :
           /\ v \in UploadState /\ v.id \in 1..sent' /\ Fits(v.path, v.target)
           /\ v.old # none => Fits(v.old, v.target)
           /\ owner'[v.id] = v.target
<1> DEFINE G ==
       \A v \in uploads' :
         /\ v \in UploadState /\ v.id \in 1..sent' /\ Fits(v.path, v.target)
         /\ v.old # none => Fits(v.old, v.target)
         /\ owner'[v.id] = v.target
<1> SUFFICES G
  OBVIOUS
<1> DEFINE W(v) == /\ v \in UploadState /\ v.id \in 1..sent' /\ Fits(v.path, v.target)
                   /\ v.old # none => Fits(v.old, v.target)
                   /\ owner'[v.id] = v.target
<1>a. \A v \in uploads : W(v)
  <2>1. \A v \in uploads : UploadFits(v) /\ v.id \in 1..sent
    BY DEF PathsFit, TemplatesOK
  <2> QED
    BY <2>1, OwnerMoved DEF UploadFits
<1>1. ASSUME fetchData PROVE G
  BY <1>1, <1>a DEF fetchData
<1>2. ASSUME NEW g \in view.list, NEW e \in Extension, handleSubmitUpload(g, e)
      PROVE G
  <2>1. PICK w : /\ uploads' = uploads \cup {w} /\ w \in UploadState /\ w.id = sent + 1
                 /\ w.target = g.id /\ Fits(w.path, g.id) /\ w.old = none
    BY <1>2, SubmitStarts
  <2>2. sent \in Nat /\ sent' = sent + 1 /\ owner'[sent + 1] = g.id
    BY <1>2, SubmitStarts
  <2>3. w.id \in 1..sent'
    BY <2>1, <2>2
  <2>4. W(w)
    BY <2>1, <2>2, <2>3
  <2> QED
    BY <1>a, <2>1, <2>4
<1>3. ASSUME NEW u \in uploads, checkExistingTemplate(u) PROVE G
  <2>1. PICK w : Turns(u, w) /\ w.old = u.old
    BY <1>3, CheckTurns
  <2> QED
    BY <1>a, <2>1 DEF Turns
<1>4. ASSUME NEW u \in uploads, CheckFailed(u) PROVE G
  <2>1. PICK w : Turns(u, w) /\ w.old = u.old
    BY <1>4, FailedTurns
  <2> QED
    BY <1>a, <2>1 DEF Turns
<1>5. ASSUME NEW u \in uploads, Confirm(u) PROVE G
  <2>1. CASE uploads' = uploads \ {u}
    BY <1>a, <2>1
  <2>2. CASE \E w : Turns(u, w) /\ w.old = u.old
    BY <1>a, <2>2 DEF Turns
  <2> QED
    BY <1>5, <2>1, <2>2, ConfirmTurns
<1>6. ASSUME NEW u \in uploads, FoundTarget(u) PROVE G
  <2>1. PICK w : /\ Turns(u, w)
                 /\ w.old = u.old \/ (w.old # none => Fits(w.old, w.target))
    BY <1>6, FoundTurns
  <2> QED
    BY <1>a, <2>1 DEF Turns
<1>7. ASSUME NEW u \in uploads, StoredFile(u) PROVE G
  <2>1. PICK w : Turns(u, w) /\ w.old = u.old
    BY <1>7, StoredTurns
  <2> QED
    BY <1>a, <2>1 DEF Turns
<1>8. ASSUME NEW u \in uploads, RowUpdated(u) PROVE G
  <2>1. PICK w : Turns(u, w) /\ w.old = u.old
    BY <1>8, UpdatedTurns
  <2> QED
    BY <1>a, <2>1 DEF Turns
<1>9. ASSUME NEW u \in uploads, UploadAnswered(u) PROVE G
  BY <1>9, <1>a DEF UploadAnswered
<1>10. ASSUME NEW n \in Name, NEW p \in Product, ForeignUpload(n, p) PROVE G
  BY <1>10, <1>a DEF ForeignUpload
<1>11. ASSUME NEW g \in view.list, handleDownloadTemplate(g) PROVE G
  BY <1>11, <1>a DEF handleDownloadTemplate
<1>12. ASSUME NEW d \in downloads, FoundPath(d) PROVE G
  BY <1>12, <1>a DEF FoundPath
<1>13. ASSUME NEW d \in downloads, Served(d) PROVE G
  BY <1>13, <1>a DEF Served
<1>14. ASSUME NEW u \in uploads, StoreFails(u) PROVE G
  <2>1. PICK w : Turns(u, w) /\ w.old = u.old
    BY <1>14, BrokenTurns
  <2> QED
    BY <1>a, <2>1 DEF Turns
<1>15. ASSUME NEW u \in uploads, UpdateFails(u) PROVE G
  <2>1. PICK w : Turns(u, w) /\ w.old = u.old
    BY <1>15, BrokenTurns
  <2> QED
    BY <1>a, <2>1 DEF Turns
<1> HIDE DEF G
<1> QED
  BY <1>1, <1>2, <1>3, <1>4, <1>5, <1>6, <1>7, <1>8, <1>9, <1>10, <1>11, <1>12,
     <1>13, <1>14, <1>15 DEF TemplatesNext

\* A file says whose it is, and there is one at a path.
LEMMA FilesKept ==
  ASSUME CustomerAssumption, TablesOK, TemplatesOK, ListsFit, IdsAreOwn, PathsFit, TemplatesNext
  PROVE  /\ files' \subseteq [path : Path, content : Nat] /\ \A f, g \in files' : f.path = g.path => f = g
         /\ \A f \in files' : \/ f.content = 0 /\ f.path[1] \in others
                              \/ f.content \in 1..sent' /\ Fits(f.path, owner'[f.content])
<1> DEFINE G ==
       /\ files' \subseteq [path : Path, content : Nat] /\ \A f, g \in files' : f.path = g.path => f = g
       /\ \A f \in files' : \/ f.content = 0 /\ f.path[1] \in others
                            \/ f.content \in 1..sent' /\ Fits(f.path, owner'[f.content])
<1> SUFFICES G
  OBVIOUS
<1>a. files \subseteq [path : Path, content : Nat] /\ \A f, g \in files : f.path = g.path => f = g
  BY DEF TemplatesOK
<1>b. \A f \in files : \/ f.content = 0 /\ f.path[1] \in others
                       \/ f.content \in 1..sent' /\ Fits(f.path, owner'[f.content])
  BY OwnerMoved DEF PathsFit
<1>1. ASSUME fetchData PROVE G
  BY <1>1, <1>a, <1>b DEF fetchData
<1>2. ASSUME NEW g \in view.list, NEW e \in Extension, handleSubmitUpload(g, e)
      PROVE G
  BY <1>2, <1>a, <1>b DEF handleSubmitUpload
<1>3. ASSUME NEW u \in uploads, checkExistingTemplate(u) PROVE G
  BY <1>3, <1>a, <1>b DEF checkExistingTemplate, Goes
<1>4. ASSUME NEW u \in uploads, CheckFailed(u) PROVE G
  BY <1>4, <1>a, <1>b DEF CheckFailed, Goes
<1>5. ASSUME NEW u \in uploads, Confirm(u) PROVE G
  BY <1>5, <1>a, <1>b DEF Confirm, Goes
<1>6. ASSUME NEW u \in uploads, FoundTarget(u) PROVE G
  BY <1>6, <1>a, <1>b DEF FoundTarget, Goes
<1>7. ASSUME NEW u \in uploads, StoredFile(u) PROVE G
  <2> DEFINE n == [path |-> u.path, content |-> u.id]
  <2>1. u \in UploadState /\ Fits(u.path, u.target) /\ owner'[u.id] = u.target /\ u.id \in 1..sent'
    <3>1. UploadFits(u) /\ u.id \in 1..sent
      BY DEF PathsFit, TemplatesOK
    <3> QED
      BY <3>1, OwnerMoved DEF UploadFits
  <2>2. n \in [path : Path, content : Nat] /\ n.path = u.path /\ n.content = u.id
    BY <2>1 DEF UploadState
  <2>3. files' = {f \in files : f.path \notin {u.old, u.path}} \cup {n}
    BY <1>7 DEF StoredFile
  <2> HIDE DEF n
  <2> QED
    BY <1>a, <1>b, <2>1, <2>2, <2>3
<1>8. ASSUME NEW u \in uploads, RowUpdated(u) PROVE G
  BY <1>8, <1>a, <1>b DEF RowUpdated, Goes
<1>9. ASSUME NEW u \in uploads, UploadAnswered(u) PROVE G
  BY <1>9, <1>a, <1>b DEF UploadAnswered
<1>10. ASSUME NEW n \in Name, NEW p \in Product, ForeignUpload(n, p) PROVE G
  <2> DEFINE q == <<n, p, "pdf">>
             new == [path |-> q, content |-> 0]
  <2>1. q \in Path /\ q[1] = n /\ n \in others
    BY <1>10 DEF Path, ForeignUpload
  <2>2. files' = {f \in files : f.path # q} \cup {new}
    BY <1>10 DEF ForeignUpload
  <2> HIDE DEF q
  <2>3. new \in [path : Path, content : Nat] /\ new.path = q /\ new.content = 0
    BY <2>1
  <2> HIDE DEF new
  <2> QED
    BY <1>a, <1>b, <2>1, <2>2, <2>3
<1>11. ASSUME NEW g \in view.list, handleDownloadTemplate(g) PROVE G
  BY <1>11, <1>a, <1>b DEF handleDownloadTemplate
<1>12. ASSUME NEW d \in downloads, FoundPath(d) PROVE G
  BY <1>12, <1>a, <1>b DEF FoundPath
<1>13. ASSUME NEW d \in downloads, Served(d) PROVE G
  BY <1>13, <1>a, <1>b DEF Served
<1>14. ASSUME NEW u \in uploads, StoreFails(u) PROVE G
  BY <1>14, <1>a, <1>b DEF StoreFails
<1>15. ASSUME NEW u \in uploads, UpdateFails(u) PROVE G
  BY <1>15, <1>a, <1>b DEF UpdateFails
<1> HIDE DEF G
<1> QED
  BY <1>1, <1>2, <1>3, <1>4, <1>5, <1>6, <1>7, <1>8, <1>9, <1>10, <1>11, <1>12,
     <1>13, <1>14, <1>15 DEF TemplatesNext

\* A download has the path of its target.
LEMMA DownloadsKept ==
  ASSUME CustomerAssumption, TablesOK, ListsFit, IdsAreOwn, PathsFit, TemplatesNext
  PROVE  \A d \in downloads' : DownloadFits(d)
<1> DEFINE G == \A d \in downloads' : DownloadFits(d)
<1> SUFFICES G
  OBVIOUS
<1>a. \A d \in downloads : DownloadFits(d)
  BY DEF PathsFit
<1>1. ASSUME fetchData PROVE G
  BY <1>1, <1>a DEF fetchData
<1>2. ASSUME NEW g \in view.list, NEW e \in Extension, handleSubmitUpload(g, e)
      PROVE G
  BY <1>2, <1>a DEF handleSubmitUpload
<1>3. ASSUME NEW u \in uploads, checkExistingTemplate(u) PROVE G
  BY <1>3, <1>a DEF checkExistingTemplate, Goes
<1>4. ASSUME NEW u \in uploads, CheckFailed(u) PROVE G
  BY <1>4, <1>a DEF CheckFailed, Goes
<1>5. ASSUME NEW u \in uploads, Confirm(u) PROVE G
  BY <1>5, <1>a DEF Confirm, Goes
<1>6. ASSUME NEW u \in uploads, FoundTarget(u) PROVE G
  BY <1>6, <1>a DEF FoundTarget, Goes
<1>7. ASSUME NEW u \in uploads, StoredFile(u) PROVE G
  BY <1>7, <1>a DEF StoredFile, Goes
<1>8. ASSUME NEW u \in uploads, RowUpdated(u) PROVE G
  BY <1>8, <1>a DEF RowUpdated, Goes
<1>9. ASSUME NEW u \in uploads, UploadAnswered(u) PROVE G
  BY <1>9, <1>a DEF UploadAnswered
<1>10. ASSUME NEW n \in Name, NEW p \in Product, ForeignUpload(n, p) PROVE G
  BY <1>10, <1>a DEF ForeignUpload
<1>11. ASSUME NEW g \in view.list, handleDownloadTemplate(g) PROVE G
  <2> DEFINE d == [target |-> g.id, step |-> "sent", path |-> none]
  <2>1. g.id \in Nat
    BY DEF ListsFit, Listed, Target
  <2>2. d \in DownloadState /\ d.path = none /\ d.step = "sent"
    BY <2>1 DEF DownloadState
  <2>3. downloads' = {d}
    BY <1>11 DEF handleDownloadTemplate
  <2> HIDE DEF d
  <2> QED
    BY <2>2, <2>3 DEF DownloadFits
<1>12. ASSUME NEW d \in downloads, FoundPath(d) PROVE G
  <2>1. CASE ~(Known(d.target) /\ RowOf(d.target).template # none)
    BY <1>12, <2>1 DEF FoundPath
  <2>2. CASE Known(d.target) /\ RowOf(d.target).template # none
    <3> DEFINE t == RowOf(d.target).template
               r == [d EXCEPT !.step = "found", !.path = t]
    <3>1. RowOf(d.target) \in targets /\ RowOf(d.target).id = d.target
      BY <2>2, RowIs DEF Known
    <3>2. t \in Path /\ Fits(t, d.target) /\ t # none
      BY <2>2, <3>1 DEF TablesOK, Target, PathsFit
    <3>3. downloads' = {r}
      BY <1>12, <2>2 DEF FoundPath
    <3> HIDE DEF t
    <3>4. r \in DownloadState /\ r.path = t /\ r.target = d.target /\ r.step = "found"
      BY <1>a, <3>2 DEF DownloadFits, DownloadState
    <3> HIDE DEF r
    <3> QED
      BY <3>2, <3>3, <3>4 DEF DownloadFits
  <2> QED
    BY <2>1, <2>2
<1>13. ASSUME NEW d \in downloads, Served(d) PROVE G
  BY <1>13, <1>a DEF Served
<1>14. ASSUME NEW u \in uploads, StoreFails(u) PROVE G
  BY <1>14, <1>a DEF StoreFails, Goes
<1>15. ASSUME NEW u \in uploads, UpdateFails(u) PROVE G
  BY <1>15, <1>a DEF UpdateFails, Goes
<1> HIDE DEF G
<1> QED
  BY <1>1, <1>2, <1>3, <1>4, <1>5, <1>6, <1>7, <1>8, <1>9, <1>10, <1>11, <1>12,
     <1>13, <1>14, <1>15 DEF TemplatesNext

\* The paths stay in order.
LEMMA PathsKept ==
  ASSUME CustomerAssumption, TablesOK, TemplatesOK, ListsFit, IdsAreOwn, PathsFit, TemplatesNext
  PROVE  PathsFit'
<1>1. UNCHANGED <<customer, others, products, names>>
  BY TemplatesOnly
<1>2. view' \in ViewState /\ (view'.name # none => view'.name \in names)
  BY ViewMoved DEF PathsFit
<1>3. ASSUME NEW h \in targets', h.template # none PROVE Fits(h.template, h.id)
  <2>1. CASE targets' = targets
    BY <1>3, <2>1 DEF PathsFit
  <2>2. ASSUME NEW u \in uploads, RowUpdated(u) PROVE Fits(h.template, h.id)
    <3>1. UploadFits(u)
      BY DEF PathsFit
    <3>2. PICK g \in targets : /\ h.id = g.id
                               /\ h.template = IF g.id = u.target THEN u.path ELSE g.template
      BY <2>2, <3>1, RowsUpdated
    <3> QED
      BY <1>3, <3>1, <3>2 DEF PathsFit, UploadFits
  <2> QED
    BY <2>1, <2>2, TemplatesOnly
<1>4. \A u \in uploads' : UploadFits(u)'
  BY <1>1, UploadsKept DEF UploadFits, Fits
<1>5. \A d \in downloads' : DownloadFits(d)'
  BY <1>1, DownloadsKept DEF DownloadFits, Fits
<1>6. \A f \in files' : \/ f.content = 0 /\ f.path[1] \in others'
                        \/ f.content \in 1..sent' /\ Fits(f.path, owner[f.content])'
  BY <1>1, FilesKept DEF Fits
<1>7. \A h \in targets' : h.template # none => Fits(h.template, h.id)'
  BY <1>1, <1>3 DEF Fits
<1> QED
  BY <1>1, <1>2, <1>4, <1>5, <1>6, <1>7 DEF PathsFit

\* The histories of the templates keep their types.
LEMMA MemoriesKept ==
  ASSUME CustomerAssumption, TablesOK, TemplatesOK, ListsFit, PathsFit, TemplatesNext
  PROVE  /\ latest' \in [DOMAIN latest' -> 1..sent'] /\ strange' \in BOOLEAN
         /\ crowded' \subseteq 1..Len(products) /\ broken' \subseteq 1..Len(products)
         /\ silent' \subseteq 1..sent' /\ blind' \subseteq 1..sent'
<1> DEFINE G ==
       /\ latest' \in [DOMAIN latest' -> 1..sent'] /\ strange' \in BOOLEAN
       /\ crowded' \subseteq 1..Len(products) /\ broken' \subseteq 1..Len(products)
       /\ silent' \subseteq 1..sent' /\ blind' \subseteq 1..sent'
<1> SUFFICES G
  OBVIOUS
<1>a. /\ latest \in [DOMAIN latest -> 1..sent'] /\ strange \in BOOLEAN
      /\ crowded \subseteq 1..Len(products) /\ broken \subseteq 1..Len(products)
      /\ silent \subseteq 1..sent' /\ blind \subseteq 1..sent'
  BY OwnerMoved DEF TemplatesOK
<1>b. \A u \in uploads : u.id \in 1..sent'
  BY OwnerMoved DEF TemplatesOK
<1>1. ASSUME fetchData PROVE G
  BY <1>1, <1>a, <1>b DEF fetchData
<1>2. ASSUME NEW g \in view.list, NEW e \in Extension, handleSubmitUpload(g, e)
      PROVE G
  <2>1. crowded' \subseteq 1..Len(products)
    BY <1>2, SubmitStarts
  <2> QED
    BY <1>2, <1>a, <2>1 DEF handleSubmitUpload
<1>3. ASSUME NEW u \in uploads, checkExistingTemplate(u) PROVE G
  BY <1>3, <1>a, <1>b DEF checkExistingTemplate, Goes
<1>4. ASSUME NEW u \in uploads, CheckFailed(u) PROVE G
  BY <1>4, <1>a, <1>b DEF CheckFailed, Goes
<1>5. ASSUME NEW u \in uploads, Confirm(u) PROVE G
  BY <1>5, <1>a, <1>b DEF Confirm, Goes
<1>6. ASSUME NEW u \in uploads, FoundTarget(u) PROVE G
  BY <1>6, <1>a, <1>b DEF FoundTarget, Goes
<1>7. ASSUME NEW u \in uploads, StoredFile(u) PROVE G
  <2>1. silent' = silent \/ silent' = silent \cup {u.id}
    BY <1>7 DEF StoredFile
  <2> QED
    BY <1>7, <1>a, <1>b, <2>1 DEF StoredFile
<1>8. ASSUME NEW u \in uploads, RowUpdated(u) PROVE G
  <2>1. latest' \in [DOMAIN latest' -> 1..sent']
    <3>1. CASE latest' = latest
      BY <1>a, <3>1
    <3>2. CASE latest' = [g \in DOMAIN latest \cup {u.target} |-> IF g = u.target THEN u.id ELSE latest[g]]
      BY <1>a, <1>b, <3>2
    <3> QED
      BY <1>8, <3>1, <3>2 DEF RowUpdated
  <2> QED
    BY <1>8, <1>a, <2>1 DEF RowUpdated
<1>9. ASSUME NEW u \in uploads, UploadAnswered(u) PROVE G
  BY <1>9, <1>a, <1>b DEF UploadAnswered
<1>10. ASSUME NEW n \in Name, NEW p \in Product, ForeignUpload(n, p) PROVE G
  BY <1>10, <1>a, <1>b DEF ForeignUpload
<1>11. ASSUME NEW g \in view.list, handleDownloadTemplate(g) PROVE G
  BY <1>11, <1>a, <1>b DEF handleDownloadTemplate
<1>12. ASSUME NEW d \in downloads, FoundPath(d) PROVE G
  BY <1>12, <1>a, <1>b DEF FoundPath
<1>13. ASSUME NEW d \in downloads, Served(d) PROVE G
  <2>1. strange' \in BOOLEAN
    BY <1>13 DEF Served
  <2> QED
    BY <1>13, <1>a, <2>1 DEF Served
<1>14. ASSUME NEW u \in uploads, StoreFails(u) PROVE G
  <2>1. silent' = silent \/ silent' = silent \cup {u.id}
    BY <1>14 DEF StoreFails
  <2>2. u.target \in 1..Len(products)
    BY DEF PathsFit, UploadFits, Fits
  <2> QED
    BY <1>14, <1>a, <1>b, <2>1, <2>2 DEF StoreFails
<1>15. ASSUME NEW u \in uploads, UpdateFails(u) PROVE G
  <2>1. u.target \in 1..Len(products)
    BY DEF PathsFit, UploadFits, Fits
  <2> QED
    BY <1>15, <1>a, <1>b, <2>1 DEF UpdateFails
<1> HIDE DEF G
<1> QED
  BY <1>1, <1>2, <1>3, <1>4, <1>5, <1>6, <1>7, <1>8, <1>9, <1>10, <1>11, <1>12,
     <1>13, <1>14, <1>15 DEF TemplatesNext

\* The page of the templates keeps its types.
LEMMA TemplatesKept ==
  ASSUME CustomerAssumption, TablesOK, TemplatesOK, ListsFit, IdsAreOwn, PathsFit, TemplatesNext,
         IsFiniteSet(view'.list)
  PROVE  TemplatesOK'
<1>1. products' = products
  BY TemplatesOnly
<1>2. sent' \in Nat /\ owner' \in [1..sent' -> 1..Len(products)]
  BY OwnerMoved
<1>3. files' \subseteq [path : Path, content : Nat] /\ \A f, g \in files' : f.path = g.path => f = g
  BY FilesKept
<1>4. view'.name \in Name \cup {none}
  BY ViewMoved DEF ViewState
<1>5. \A u \in uploads' :
        /\ u.id \in 1..sent' /\ u.path \in Path /\ u.old \in Path \cup {none} /\ u.asked \in BOOLEAN
        /\ u.step \in {"check", "ask", "sent", "found", "stored", "done", "refused"}
  BY UploadsKept DEF UploadState
<1>6. \A d \in downloads' : d.step \in {"sent", "found"} /\ d.path \in Path \cup {none}
  BY DownloadsKept DEF DownloadFits, DownloadState
<1>7. /\ latest' \in [DOMAIN latest' -> 1..sent'] /\ strange' \in BOOLEAN
      /\ crowded' \subseteq 1..Len(products) /\ broken' \subseteq 1..Len(products)
      /\ silent' \subseteq 1..sent' /\ blind' \subseteq 1..sent'
  BY MemoriesKept
<1> QED
  BY <1>1, <1>2, <1>3, <1>4, <1>5, <1>6, <1>7 DEF TemplatesOK

---------------------------------------------------------------------------
(* Questions and files *)

\* Two uploads for one target are noted when the second begins.
LEMMA CrowdsKept ==
  ASSUME CustomerAssumption, TablesOK, TemplatesOK, ListsFit, IdsAreOwn, PathsFit, CrowdsAreNoted, TemplatesNext
  PROVE  \A u, v \in uploads' :
           /\ u.id = v.id => u = v
           /\ u # v /\ u.target = v.target => u.target \in crowded'
<1> DEFINE G ==
       \A u, v \in uploads' :
         /\ u.id = v.id => u = v
         /\ u # v /\ u.target = v.target => u.target \in crowded'
<1> SUFFICES G
  OBVIOUS
<1>a. \A u, v \in uploads :
        /\ u.id = v.id => u = v
        /\ u # v /\ u.target = v.target => u.target \in crowded
  BY DEF CrowdsAreNoted
<1>b. \A u \in uploads : u.id \in 1..sent
  BY DEF TemplatesOK
<1>1. ASSUME fetchData PROVE G
  BY <1>1, <1>a DEF fetchData
<1>2. ASSUME NEW g \in view.list, NEW e \in Extension, handleSubmitUpload(g, e)
      PROVE G
  <2>1. PICK w : /\ uploads' = uploads \cup {w} /\ w.id = sent + 1 /\ w.target = g.id
                 /\ \A u \in uploads : u.target = g.id => u.target \in crowded'
    BY <1>2, SubmitStarts
  <2>2. sent \in Nat /\ crowded \subseteq crowded'
    BY <1>2, SubmitStarts
  <2>3. \A u \in uploads : u.id # sent + 1
    BY <1>b, <2>2
  <2> QED
    BY <1>a, <2>1, <2>2, <2>3
<1>3. ASSUME NEW u \in uploads, checkExistingTemplate(u) PROVE G
  <2>1. PICK w : Turns(u, w)
    BY <1>3, CheckTurns
  <2>2. crowded' = crowded
    BY <1>3 DEF checkExistingTemplate
  <2> QED
    BY <1>a, <2>1, <2>2 DEF Turns
<1>4. ASSUME NEW u \in uploads, CheckFailed(u) PROVE G
  <2>1. PICK w : Turns(u, w)
    BY <1>4, FailedTurns
  <2>2. crowded' = crowded
    BY <1>4 DEF CheckFailed
  <2> QED
    BY <1>a, <2>1, <2>2 DEF Turns
<1>5. ASSUME NEW u \in uploads, Confirm(u) PROVE G
  <2>1. crowded' = crowded
    BY <1>5 DEF Confirm
  <2>2. CASE uploads' = uploads \ {u}
    BY <1>a, <2>1, <2>2
  <2>3. CASE \E w : Turns(u, w)
    BY <1>a, <2>1, <2>3 DEF Turns
  <2> QED
    BY <1>5, <2>2, <2>3, ConfirmTurns
<1>6. ASSUME NEW u \in uploads, FoundTarget(u) PROVE G
  <2>1. PICK w : Turns(u, w)
    BY <1>6, FoundTurns
  <2>2. crowded' = crowded
    BY <1>6 DEF FoundTarget
  <2> QED
    BY <1>a, <2>1, <2>2 DEF Turns
<1>7. ASSUME NEW u \in uploads, StoredFile(u) PROVE G
  <2>1. PICK w : Turns(u, w)
    BY <1>7, StoredTurns
  <2>2. crowded' = crowded
    BY <1>7 DEF StoredFile
  <2> QED
    BY <1>a, <2>1, <2>2 DEF Turns
<1>8. ASSUME NEW u \in uploads, RowUpdated(u) PROVE G
  <2>1. PICK w : Turns(u, w)
    BY <1>8, UpdatedTurns
  <2>2. crowded' = crowded
    BY <1>8 DEF RowUpdated
  <2> QED
    BY <1>a, <2>1, <2>2 DEF Turns
<1>9. ASSUME NEW u \in uploads, UploadAnswered(u) PROVE G
  BY <1>9, <1>a DEF UploadAnswered
<1>10. ASSUME NEW n \in Name, NEW p \in Product, ForeignUpload(n, p) PROVE G
  BY <1>10, <1>a DEF ForeignUpload
<1>11. ASSUME NEW g \in view.list, handleDownloadTemplate(g) PROVE G
  BY <1>11, <1>a DEF handleDownloadTemplate
<1>12. ASSUME NEW d \in downloads, FoundPath(d) PROVE G
  BY <1>12, <1>a DEF FoundPath
<1>13. ASSUME NEW d \in downloads, Served(d) PROVE G
  BY <1>13, <1>a DEF Served
<1>14. ASSUME NEW u \in uploads, StoreFails(u) PROVE G
  <2>1. PICK w : Turns(u, w)
    BY <1>14, BrokenTurns
  <2>2. crowded' = crowded
    BY <1>14 DEF StoreFails
  <2> QED
    BY <1>a, <2>1, <2>2 DEF Turns
<1>15. ASSUME NEW u \in uploads, UpdateFails(u) PROVE G
  <2>1. PICK w : Turns(u, w)
    BY <1>15, BrokenTurns
  <2>2. crowded' = crowded
    BY <1>15 DEF UpdateFails
  <2> QED
    BY <1>a, <2>1, <2>2 DEF Turns
<1> HIDE DEF G
<1> QED
  BY <1>1, <1>2, <1>3, <1>4, <1>5, <1>6, <1>7, <1>8, <1>9, <1>10, <1>11, <1>12,
     <1>13, <1>14, <1>15 DEF TemplatesNext

\* Nothing is sent to a target with a template without a question.
LEMMA AskedKept ==
  ASSUME CustomerAssumption, TablesOK, TemplatesOK, ListsFit, IdsAreOwn, PathsFit,
         CrowdsAreNoted, AskedFirst, TemplatesNext
  PROVE  \A v \in uploads' :
           v.step \in {"sent", "found"} /\ ~v.asked /\ v.id \notin blind' /\ v.target \notin crowded' =>
             \A g \in targets' : g.id = v.target => g.template = none
<1> DEFINE G ==
       \A v \in uploads' :
         v.step \in {"sent", "found"} /\ ~v.asked /\ v.id \notin blind' /\ v.target \notin crowded' =>
           \A g \in targets' : g.id = v.target => g.template = none
<1> SUFFICES G
  OBVIOUS
<1> DEFINE W(v) == v.step \in {"sent", "found"} /\ ~v.asked /\ v.id \notin blind' /\ v.target \notin crowded' =>
                      \A g \in targets' : g.id = v.target => g.template = none
<1>a. \A v \in uploads :
         v.step \in {"sent", "found"} /\ ~v.asked /\ v.id \notin blind /\ v.target \notin crowded =>
           \A g \in targets : g.id = v.target => g.template = none
  BY DEF AskedFirst
<1> USE DEF tables
<1>1. ASSUME fetchData PROVE G
  BY <1>1, <1>a DEF fetchData
<1>2. ASSUME NEW g \in view.list, NEW e \in Extension, handleSubmitUpload(g, e)
      PROVE G
  <2>1. PICK w : uploads' = uploads \cup {w} /\ w.step = "check"
    BY <1>2, SubmitStarts
  <2>2. crowded \subseteq crowded'
    BY <1>2, SubmitStarts
  <2>3. targets' = targets /\ blind' = blind
    BY <1>2 DEF handleSubmitUpload, tables
  <2> QED
    BY <1>a, <2>1, <2>2, <2>3
<1>3. ASSUME NEW u \in uploads, checkExistingTemplate(u) PROVE G
  <2>1. PICK w : Turns(u, w) /\ (w.step = "ask" \/ \A g \in targets : g.id = u.target => g.template = none)
    BY <1>3, CheckTurns
  <2>2. crowded' = crowded /\ targets' = targets /\ blind \subseteq blind'
    BY <1>3 DEF checkExistingTemplate, tables
  <2>3. W(w)
    BY <1>3, <1>a, <2>1, <2>2 DEF Turns, checkExistingTemplate
  <2> QED
    BY <1>a, <2>1, <2>2, <2>3 DEF Turns
<1>4. ASSUME NEW u \in uploads, CheckFailed(u) PROVE G
  <2>1. PICK w : Turns(u, w) /\ w.step = "sent"
    BY <1>4, FailedTurns
  <2>2. crowded' = crowded /\ targets' = targets /\ blind \subseteq blind'
    BY <1>4 DEF CheckFailed, tables
  <2>3. W(w)
    BY <1>4, <1>a, <2>1, <2>2 DEF Turns, CheckFailed
  <2> QED
    BY <1>a, <2>1, <2>2, <2>3 DEF Turns
<1>5. ASSUME NEW u \in uploads, Confirm(u) PROVE G
  <2>1. crowded' = crowded /\ targets' = targets /\ blind' = blind
    BY <1>5 DEF Confirm, tables
  <2>2. CASE uploads' = uploads \ {u}
    BY <1>a, <2>1, <2>2
  <2>3. CASE \E w : Turns(u, w) /\ w.asked
    BY <1>a, <2>1, <2>3 DEF Turns
  <2> QED
    BY <1>5, <2>2, <2>3, ConfirmTurns
<1>6. ASSUME NEW u \in uploads, FoundTarget(u) PROVE G
  <2>1. PICK w : Turns(u, w) /\ w.asked = u.asked /\ u.step = "sent"
    BY <1>6, FoundTurns
  <2>2. crowded' = crowded /\ targets' = targets /\ blind \subseteq blind'
    BY <1>6 DEF FoundTarget, tables
  <2>3. W(w)
    BY <1>6, <1>a, <2>1, <2>2 DEF Turns, FoundTarget
  <2> QED
    BY <1>a, <2>1, <2>2, <2>3 DEF Turns
<1>7. ASSUME NEW u \in uploads, StoredFile(u) PROVE G
  <2>1. PICK w : Turns(u, w) /\ w.step = "stored"
    BY <1>7, StoredTurns
  <2>2. crowded' = crowded /\ targets' = targets /\ blind \subseteq blind'
    BY <1>7 DEF StoredFile, tables
  <2>3. W(w)
    BY <1>7, <1>a, <2>1, <2>2 DEF Turns, StoredFile
  <2> QED
    BY <1>a, <2>1, <2>2, <2>3 DEF Turns
<1>8. ASSUME NEW u \in uploads, RowUpdated(u) PROVE G
  <2>1. PICK w : Turns(u, w) /\ w.step \in {"done", "refused"}
    BY <1>8, UpdatedTurns
  <2>2. crowded' = crowded /\ blind' = blind
    BY <1>8 DEF RowUpdated
  <2>3. \A h \in targets' : \E g \in targets :
          h.id = g.id /\ h.template = IF g.id = u.target THEN u.path ELSE g.template
    <3>1. UploadFits(u)
      BY DEF PathsFit
    <3> QED
      BY <1>8, <3>1, RowsUpdated
  <2>4. ASSUME NEW v \in uploads, v # u PROVE W(v)
    <3>1. CASE v.target = u.target
      BY <2>2, <2>4, <3>1 DEF CrowdsAreNoted
    <3>2. CASE v.target # u.target
      BY <1>a, <2>2, <2>3, <2>4, <3>2
    <3> QED
      BY <3>1, <3>2
  <2>5. W(w)
    BY <2>1
  <2>6. \A v \in uploads' : W(v)
    <3> HIDE DEF W
    <3> QED
      BY <2>1, <2>4, <2>5 DEF Turns
  <2> QED
    BY <2>6
<1>9. ASSUME NEW u \in uploads, UploadAnswered(u) PROVE G
  BY <1>9, <1>a DEF UploadAnswered
<1>10. ASSUME NEW n \in Name, NEW p \in Product, ForeignUpload(n, p) PROVE G
  BY <1>10, <1>a DEF ForeignUpload
<1>11. ASSUME NEW g \in view.list, handleDownloadTemplate(g) PROVE G
  BY <1>11, <1>a DEF handleDownloadTemplate
<1>12. ASSUME NEW d \in downloads, FoundPath(d) PROVE G
  BY <1>12, <1>a DEF FoundPath
<1>13. ASSUME NEW d \in downloads, Served(d) PROVE G
  BY <1>13, <1>a DEF Served
<1>14. ASSUME NEW u \in uploads, StoreFails(u) PROVE G
  <2>1. PICK w : Turns(u, w) /\ w.step = "refused"
    BY <1>14, BrokenTurns
  <2>2. crowded' = crowded /\ targets' = targets /\ blind' = blind
    BY <1>14 DEF StoreFails
  <2> QED
    BY <1>a, <2>1, <2>2 DEF Turns
<1>15. ASSUME NEW u \in uploads, UpdateFails(u) PROVE G
  <2>1. PICK w : Turns(u, w) /\ w.step = "refused"
    BY <1>15, BrokenTurns
  <2>2. crowded' = crowded /\ targets' = targets /\ blind' = blind
    BY <1>15 DEF UpdateFails
  <2> QED
    BY <1>a, <2>1, <2>2 DEF Turns
<1> HIDE DEF G, tables
<1> QED
  BY <1>1, <1>2, <1>3, <1>4, <1>5, <1>6, <1>7, <1>8, <1>9, <1>10, <1>11, <1>12,
     <1>13, <1>14, <1>15 DEF TemplatesNext

\* With nothing shared, a path is one target's.
LEMMA OnePathOneTarget ==
  ASSUME TablesOK, NothingShared, NEW p, NEW i, NEW j, Fits(p, i), Fits(p, j)
  PROVE  i = j
<1>1. DOMAIN products = 1..Len(products)
  BY LenProperties DEF TablesOK
<1> QED
  BY <1>1 DEF Fits, NothingShared

\* ... and no other customer's.
LEMMA NotForeign ==
  ASSUME NothingShared, NEW p, NEW i, Fits(p, i)
  PROVE  p[1] \notin others
  BY DEF Fits, NothingShared

\* An upload removes no file of another target, and no other customer's.
LEMMA OthersFilesStay ==
  ASSUME CustomerAssumption, TablesOK, NothingShared, PathsFit, NEW u \in uploads, StoredFile(u) \/ StoreFails(u),
         NEW p, NEW i, Fits(p, i), i # u.target, NEW n, Keeps(p, n)
  PROVE  \E f \in files' : f.path = p /\ f.content = n
<1>1. Fits(u.path, u.target) /\ (u.old # none => Fits(u.old, u.target))
  BY DEF PathsFit, UploadFits
<1>2. p # u.path /\ p # u.old
  <2>1. p # u.path
    BY <1>1, OnePathOneTarget
  <2>2. CASE u.old # none
    BY <1>1, <2>1, <2>2, OnePathOneTarget
  <2>3. CASE u.old = none
    BY <2>1, <2>3 DEF Fits, CustomerAssumption
  <2> QED
    BY <2>2, <2>3
<1> QED
  BY <1>2 DEF StoredFile, StoreFails, Keeps

\* The page of another customer removes none either.
LEMMA ForeignFilesStay ==
  ASSUME NothingShared, NEW n \in Name, NEW q \in Product, ForeignUpload(n, q),
         NEW p, NEW i, Fits(p, i), NEW c, Keeps(p, c)
  PROVE  \E f \in files' : f.path = p /\ f.content = c
<1>1. p[1] # n
  BY NotForeign DEF ForeignUpload
<1>2. p # <<n, q, "pdf">>
  BY <1>1
<1> QED
  BY <1>2 DEF ForeignUpload, Keeps

\* With nothing shared, what is served is the target's.
LEMMA ServesItsOwn ==
  ASSUME CustomerAssumption, TablesOK, TemplatesOK, PathsFit, NothingShared, ~strange,
         NEW d \in downloads, Served(d)
  PROVE  ~strange'
<1>1. d.step = "found" /\ Fits(d.path, d.target)
  BY DEF Served, PathsFit, DownloadFits
<1>2. ASSUME Holds(d.path)
      PROVE  ContentOf(d.path) # 0 /\ owner[ContentOf(d.path)] = d.target
  <2>1. PICK f \in files : f.path = d.path
    BY <1>2 DEF Holds
  <2>2. ContentOf(d.path) = f.content
    BY <2>1 DEF ContentOf, TemplatesOK
  <2>3. f.path[1] \notin others
    BY <1>1, <2>1, NotForeign
  <2>4. f.content \in 1..sent /\ Fits(f.path, owner[f.content])
    BY <2>3 DEF PathsFit
  <2>5. owner[f.content] = d.target
    BY <1>1, <2>1, <2>4, OnePathOneTarget
  <2>6. f.content # 0
    BY <2>4 DEF TemplatesOK
  <2> QED
    BY <2>2, <2>5, <2>6
<1> QED
  BY <1>2 DEF Served

\* What was stored is there until the row says so.
LEMMA StoredKept ==
  ASSUME CustomerAssumption, TablesOK, TemplatesOK, ListsFit, IdsAreOwn, PathsFit, CrowdsAreNoted, NothingShared,
         FilesAreThere, TemplatesNext
  PROVE  \A v \in uploads' : v.step = "stored" /\ v.target \notin crowded' =>
           \E f \in files' : f.path = v.path /\ f.content = v.id
<1> DEFINE G ==
       \A v \in uploads' : v.step = "stored" /\ v.target \notin crowded' =>
         \E f \in files' : f.path = v.path /\ f.content = v.id
<1> SUFFICES G
  OBVIOUS
<1>a. \A v \in uploads : v.step = "stored" /\ v.target \notin crowded => Keeps(v.path, v.id)
  BY DEF FilesAreThere
<1> USE DEF Keeps
<1>1. ASSUME fetchData PROVE G
  BY <1>1, <1>a DEF fetchData
<1>2. ASSUME NEW g \in view.list, NEW e \in Extension, handleSubmitUpload(g, e)
      PROVE G
  <2>1. PICK w : uploads' = uploads \cup {w} /\ w.step = "check"
    BY <1>2, SubmitStarts
  <2>2. crowded \subseteq crowded'
    BY <1>2, SubmitStarts
  <2>3. files' = files
    BY <1>2 DEF handleSubmitUpload
  <2> QED
    BY <1>a, <2>1, <2>2, <2>3
<1>3. ASSUME NEW u \in uploads, checkExistingTemplate(u) PROVE G
  <2>1. PICK w : Turns(u, w) /\ w.step # "stored"
    BY <1>3, CheckTurns
  <2>2. crowded' = crowded /\ files' = files
    BY <1>3 DEF checkExistingTemplate
  <2> QED
    BY <1>a, <2>1, <2>2 DEF Turns
<1>4. ASSUME NEW u \in uploads, CheckFailed(u) PROVE G
  <2>1. PICK w : Turns(u, w) /\ w.step # "stored"
    BY <1>4, FailedTurns
  <2>2. crowded' = crowded /\ files' = files
    BY <1>4 DEF CheckFailed
  <2> QED
    BY <1>a, <2>1, <2>2 DEF Turns
<1>5. ASSUME NEW u \in uploads, Confirm(u) PROVE G
  <2>1. crowded' = crowded /\ files' = files
    BY <1>5 DEF Confirm
  <2>2. CASE uploads' = uploads \ {u}
    BY <1>a, <2>1, <2>2
  <2>3. CASE \E w : Turns(u, w) /\ w.step = "sent"
    BY <1>a, <2>1, <2>3 DEF Turns
  <2> QED
    BY <1>5, <2>2, <2>3, ConfirmTurns
<1>6. ASSUME NEW u \in uploads, FoundTarget(u) PROVE G
  <2>1. PICK w : Turns(u, w) /\ w.step # "stored"
    BY <1>6, FoundTurns
  <2>2. crowded' = crowded /\ files' = files
    BY <1>6 DEF FoundTarget
  <2> QED
    BY <1>a, <2>1, <2>2 DEF Turns
<1>7. ASSUME NEW u \in uploads, StoredFile(u) PROVE G
  <2>1. PICK w : Turns(u, w) /\ u.step = "found"
    BY <1>7, StoredTurns
  <2>2. crowded' = crowded /\ [path |-> u.path, content |-> u.id] \in files'
    BY <1>7 DEF StoredFile
  <2>3. \E f \in files' : f.path = u.path /\ f.content = u.id
    BY <2>2
  <2>4. ASSUME NEW v \in uploads, v # u, v.step = "stored", v.target \notin crowded
        PROVE  \E f \in files' : f.path = v.path /\ f.content = v.id
    <3>1. v.target # u.target
      BY <2>4 DEF CrowdsAreNoted
    <3>2. Fits(v.path, v.target)
      BY DEF PathsFit, UploadFits
    <3> QED
      BY <1>7, <1>a, <2>4, <3>1, <3>2, OthersFilesStay
  <2> QED
    BY <2>1, <2>2, <2>3, <2>4 DEF Turns
<1>8. ASSUME NEW u \in uploads, RowUpdated(u) PROVE G
  <2>1. PICK w : Turns(u, w) /\ w.step # "stored"
    BY <1>8, UpdatedTurns
  <2>2. crowded' = crowded /\ files' = files
    BY <1>8 DEF RowUpdated
  <2> QED
    BY <1>a, <2>1, <2>2 DEF Turns
<1>9. ASSUME NEW u \in uploads, UploadAnswered(u) PROVE G
  BY <1>9, <1>a DEF UploadAnswered
<1>10. ASSUME NEW n \in Name, NEW p \in Product, ForeignUpload(n, p) PROVE G
  <2>1. uploads' = uploads /\ crowded' = crowded
    BY <1>10 DEF ForeignUpload
  <2>2. \A v \in uploads : Fits(v.path, v.target)
    BY DEF PathsFit, UploadFits
  <2> QED
    BY <1>10, <1>a, <2>1, <2>2, ForeignFilesStay
<1>11. ASSUME NEW g \in view.list, handleDownloadTemplate(g) PROVE G
  BY <1>11, <1>a DEF handleDownloadTemplate
<1>12. ASSUME NEW d \in downloads, FoundPath(d) PROVE G
  BY <1>12, <1>a DEF FoundPath
<1>13. ASSUME NEW d \in downloads, Served(d) PROVE G
  BY <1>13, <1>a DEF Served
<1>14. ASSUME NEW u \in uploads, StoreFails(u) PROVE G
  <2>1. PICK w : Turns(u, w) /\ w.step = "refused"
    BY <1>14, BrokenTurns
  <2>2. crowded' = crowded
    BY <1>14 DEF StoreFails
  <2>3. ASSUME NEW v \in uploads, v # u, v.step = "stored", v.target \notin crowded
        PROVE  \E f \in files' : f.path = v.path /\ f.content = v.id
    <3>1. v.target # u.target
      BY <2>3 DEF CrowdsAreNoted
    <3>2. Fits(v.path, v.target)
      BY DEF PathsFit, UploadFits
    <3> QED
      BY <1>14, <1>a, <2>3, <3>1, <3>2, OthersFilesStay
  <2> QED
    BY <2>1, <2>2, <2>3 DEF Turns
<1>15. ASSUME NEW u \in uploads, UpdateFails(u) PROVE G
  <2>1. PICK w : Turns(u, w) /\ w.step = "refused"
    BY <1>15, BrokenTurns
  <2>2. crowded' = crowded /\ files' = files
    BY <1>15 DEF UpdateFails
  <2> QED
    BY <1>a, <2>1, <2>2 DEF Turns
<1> HIDE DEF G, Keeps
<1> QED
  BY <1>1, <1>2, <1>3, <1>4, <1>5, <1>6, <1>7, <1>8, <1>9, <1>10, <1>11, <1>12,
     <1>13, <1>14, <1>15 DEF TemplatesNext

\* The row leads to what was stored last.
LEMMA RowsKept ==
  ASSUME CustomerAssumption, TablesOK, TemplatesOK, ListsFit, IdsAreOwn, PathsFit, CrowdsAreNoted, NothingShared,
         FilesAreThere, TemplatesNext
  PROVE  \A h \in targets' :
           h.template # none /\ h.id \notin crowded' \cup broken' /\ ~(\E v \in uploads' : v.target = h.id /\ v.step = "stored") =>
             h.id \in DOMAIN latest' /\ \E f \in files' : f.path = h.template /\ f.content = latest'[h.id]
<1> DEFINE G ==
       \A h \in targets' :
         h.template # none /\ h.id \notin crowded' \cup broken' /\ ~(\E v \in uploads' : v.target = h.id /\ v.step = "stored") =>
           h.id \in DOMAIN latest' /\ \E f \in files' : f.path = h.template /\ f.content = latest'[h.id]
<1> SUFFICES G
  OBVIOUS
<1>a. \A g \in targets :
        g.template # none /\ g.id \notin crowded \cup broken /\ ~(\E v \in uploads : v.target = g.id /\ v.step = "stored") =>
          g.id \in DOMAIN latest /\ \E f \in files : f.path = g.template /\ f.content = latest[g.id]
  BY DEF FilesAreThere, Keeps
<1> USE DEF tables
<1>1. ASSUME fetchData PROVE G
  BY <1>1, <1>a DEF fetchData
<1>2. ASSUME NEW g \in view.list, NEW e \in Extension, handleSubmitUpload(g, e)
      PROVE G
  <2>1. uploads \subseteq uploads' /\ crowded \subseteq crowded'
    BY <1>2, SubmitStarts
  <2>2. broken' = broken /\ files' = files /\ targets' = targets /\ latest' = latest
    BY <1>2 DEF handleSubmitUpload, tables
  <2> QED
    BY <1>a, <2>1, <2>2
<1>3. ASSUME NEW u \in uploads, checkExistingTemplate(u) PROVE G
  <2>1. PICK w : Turns(u, w)
    BY <1>3, CheckTurns
  <2>2. crowded' = crowded /\ broken' = broken /\ files' = files /\ targets' = targets /\ latest' = latest /\ u.step # "stored"
    BY <1>3 DEF checkExistingTemplate, tables
  <2>3. \A v \in uploads : v.step = "stored" => v \in uploads'
    BY <2>1, <2>2 DEF Turns
  <2> QED
    BY <1>a, <2>2, <2>3
<1>4. ASSUME NEW u \in uploads, CheckFailed(u) PROVE G
  <2>1. PICK w : Turns(u, w)
    BY <1>4, FailedTurns
  <2>2. crowded' = crowded /\ broken' = broken /\ files' = files /\ targets' = targets /\ latest' = latest /\ u.step # "stored"
    BY <1>4 DEF CheckFailed, tables
  <2>3. \A v \in uploads : v.step = "stored" => v \in uploads'
    BY <2>1, <2>2 DEF Turns
  <2> QED
    BY <1>a, <2>2, <2>3
<1>5. ASSUME NEW u \in uploads, Confirm(u) PROVE G
  <2>1. crowded' = crowded /\ broken' = broken /\ files' = files /\ targets' = targets /\ latest' = latest /\ u.step # "stored"
    BY <1>5 DEF Confirm, tables
  <2>2. \A v \in uploads : v.step = "stored" => v \in uploads'
    BY <1>5, <2>1, ConfirmTurns DEF Turns
  <2> QED
    BY <1>a, <2>1, <2>2
<1>6. ASSUME NEW u \in uploads, FoundTarget(u) PROVE G
  <2>1. PICK w : Turns(u, w)
    BY <1>6, FoundTurns
  <2>2. crowded' = crowded /\ broken' = broken /\ files' = files /\ targets' = targets /\ latest' = latest /\ u.step # "stored"
    BY <1>6 DEF FoundTarget, tables
  <2>3. \A v \in uploads : v.step = "stored" => v \in uploads'
    BY <2>1, <2>2 DEF Turns
  <2> QED
    BY <1>a, <2>2, <2>3
<1>7. ASSUME NEW u \in uploads, StoredFile(u) PROVE G
  <2>1. PICK w : Turns(u, w) /\ u.step = "found" /\ w.step = "stored"
    BY <1>7, StoredTurns
  <2>2. crowded' = crowded /\ broken' = broken /\ targets' = targets /\ latest' = latest
    BY <1>7 DEF StoredFile, tables
  <2>3. \A v \in uploads : v.step = "stored" => v \in uploads'
    BY <2>1 DEF Turns
  <2>4. ASSUME NEW g \in targets, g.template # none, g.id \notin crowded \cup broken,
               ~(\E v \in uploads' : v.target = g.id /\ v.step = "stored")
        PROVE  g.id \in DOMAIN latest /\ \E f \in files' : f.path = g.template /\ f.content = latest[g.id]
    <3>1. g.id \in DOMAIN latest /\ Keeps(g.template, latest[g.id])
      BY <1>a, <2>3, <2>4 DEF Keeps
    <3>2. g.id # u.target
      BY <2>1, <2>4 DEF Turns
    <3>3. Fits(g.template, g.id)
      BY <2>4 DEF PathsFit
    <3> QED
      BY <1>7, <3>1, <3>2, <3>3, OthersFilesStay
  <2> QED
    BY <2>2, <2>4
<1>8. ASSUME NEW u \in uploads, RowUpdated(u) PROVE G
  <2>1. PICK w : Turns(u, w) /\ u.step = "stored"
    BY <1>8, UpdatedTurns
  <2>2. crowded' = crowded /\ broken' = broken \ {u.target} /\ files' = files
    BY <1>8 DEF RowUpdated
  <2>3. ASSUME NEW h \in targets', h.template # none, h.id \notin crowded \cup broken',
               ~(\E v \in uploads' : v.target = h.id /\ v.step = "stored")
        PROVE  h.id \in DOMAIN latest' /\ \E f \in files : f.path = h.template /\ f.content = latest'[h.id]
    <3>1. UploadFits(u)
      BY DEF PathsFit
    <3>2. PICK g \in targets : /\ h.id = g.id
                               /\ h.template = IF g.id = u.target THEN u.path ELSE g.template
      BY <1>8, <3>1, RowsUpdated
    <3>3. CASE g.id = u.target
      <4>1. Known(u.target)
        BY <3>3 DEF Known
      <4>2. latest' = [k \in DOMAIN latest \cup {u.target} |-> IF k = u.target THEN u.id ELSE latest[k]]
        BY <1>8, <4>1 DEF RowUpdated
      <4>3. h.id \in DOMAIN latest' /\ latest'[h.id] = u.id /\ h.template = u.path
        BY <3>2, <3>3, <4>2
      <4>4. Keeps(u.path, u.id)
        BY <2>1, <2>3, <3>2, <3>3 DEF FilesAreThere
      <4> QED
        BY <4>3, <4>4 DEF Keeps
    <3>4. CASE g.id # u.target
      <4>1. ~(\E v \in uploads : v.target = g.id /\ v.step = "stored")
        BY <2>1, <2>3, <3>2, <3>4 DEF Turns
      <4>2. g.id \in DOMAIN latest /\ Keeps(g.template, latest[g.id]) /\ h.template = g.template
        BY <1>a, <2>2, <2>3, <3>2, <3>4, <4>1 DEF Keeps
      <4>3. g.id \in DOMAIN latest' /\ latest'[g.id] = latest[g.id]
        BY <1>8, <3>4, <4>2 DEF RowUpdated
      <4> QED
        BY <3>2, <4>2, <4>3 DEF Keeps
    <3> QED
      BY <3>3, <3>4
  <2> QED
    BY <2>2, <2>3
<1>9. ASSUME NEW u \in uploads, UploadAnswered(u) PROVE G
  <2>1. crowded' = crowded /\ broken' = broken /\ files' = files /\ targets' = targets /\ latest' = latest
    BY <1>9 DEF UploadAnswered, tables
  <2>2. \A v \in uploads : v.step = "stored" => v \in uploads'
    BY <1>9 DEF UploadAnswered
  <2> QED
    BY <1>a, <2>1, <2>2
<1>10. ASSUME NEW n \in Name, NEW p \in Product, ForeignUpload(n, p) PROVE G
  <2>1. uploads' = uploads /\ crowded' = crowded /\ broken' = broken /\ targets' = targets /\ latest' = latest
    BY <1>10 DEF ForeignUpload, tables
  <2>2. \A g \in targets : g.template # none => Fits(g.template, g.id)
    BY DEF PathsFit
  <2>3. ASSUME NEW g \in targets, g.template # none, g.id \notin crowded \cup broken,
               ~(\E v \in uploads : v.target = g.id /\ v.step = "stored")
        PROVE  g.id \in DOMAIN latest /\ \E f \in files' : f.path = g.template /\ f.content = latest[g.id]
    <3>1. g.id \in DOMAIN latest /\ Keeps(g.template, latest[g.id])
      BY <1>a, <2>3 DEF Keeps
    <3> QED
      BY <1>10, <2>2, <2>3, <3>1, ForeignFilesStay
  <2> QED
    BY <2>1, <2>3
<1>11. ASSUME NEW g \in view.list, handleDownloadTemplate(g) PROVE G
  BY <1>11, <1>a DEF handleDownloadTemplate
<1>12. ASSUME NEW d \in downloads, FoundPath(d) PROVE G
  BY <1>12, <1>a DEF FoundPath
<1>13. ASSUME NEW d \in downloads, Served(d) PROVE G
  BY <1>13, <1>a DEF Served
<1>14. ASSUME NEW u \in uploads, StoreFails(u) PROVE G
  <2>1. PICK w : Turns(u, w)
    BY <1>14, BrokenTurns
  <2>2. /\ crowded' = crowded /\ broken' = broken \cup {u.target} /\ targets' = targets /\ latest' = latest
        /\ u.step # "stored"
    BY <1>14 DEF StoreFails
  <2>3. \A v \in uploads : v.step = "stored" => v \in uploads'
    BY <2>1, <2>2 DEF Turns
  <2>4. ASSUME NEW g \in targets, g.template # none, g.id \notin crowded \cup broken',
               ~(\E v \in uploads' : v.target = g.id /\ v.step = "stored")
        PROVE  g.id \in DOMAIN latest /\ \E f \in files' : f.path = g.template /\ f.content = latest[g.id]
    <3>1. g.id \in DOMAIN latest /\ Keeps(g.template, latest[g.id])
      BY <1>a, <2>2, <2>3, <2>4 DEF Keeps
    <3>2. g.id # u.target
      BY <2>2, <2>4
    <3>3. Fits(g.template, g.id)
      BY <2>4 DEF PathsFit
    <3> QED
      BY <1>14, <3>1, <3>2, <3>3, OthersFilesStay
  <2> QED
    BY <2>2, <2>4
<1>15. ASSUME NEW u \in uploads, UpdateFails(u) PROVE G
  <2>1. PICK w : Turns(u, w)
    BY <1>15, BrokenTurns
  <2>2. /\ crowded' = crowded /\ broken' = broken \cup {u.target} /\ files' = files
        /\ targets' = targets /\ latest' = latest
    BY <1>15 DEF UpdateFails
  <2>3. \A v \in uploads : v.target # u.target /\ v.step = "stored" => v \in uploads'
    BY <2>1 DEF Turns
  <2> QED
    BY <1>a, <2>2, <2>3
<1> HIDE DEF G, tables
<1> QED
  BY <1>1, <1>2, <1>3, <1>4, <1>5, <1>6, <1>7, <1>8, <1>9, <1>10, <1>11, <1>12,
     <1>13, <1>14, <1>15 DEF TemplatesNext

\* No stranger's file is served.
LEMMA StrangeKept ==
  ASSUME CustomerAssumption, TablesOK, TemplatesOK, PathsFit, NothingShared, ~strange, TemplatesNext
  PROVE  ~strange'
<1> DEFINE G == ~strange'
<1> SUFFICES G
  OBVIOUS
<1>1. ASSUME fetchData PROVE G
  BY <1>1 DEF fetchData
<1>2. ASSUME NEW g \in view.list, NEW e \in Extension, handleSubmitUpload(g, e)
      PROVE G
  BY <1>2 DEF handleSubmitUpload
<1>3. ASSUME NEW u \in uploads, checkExistingTemplate(u) PROVE G
  BY <1>3 DEF checkExistingTemplate, Goes
<1>4. ASSUME NEW u \in uploads, CheckFailed(u) PROVE G
  BY <1>4 DEF CheckFailed, Goes
<1>5. ASSUME NEW u \in uploads, Confirm(u) PROVE G
  BY <1>5 DEF Confirm, Goes
<1>6. ASSUME NEW u \in uploads, FoundTarget(u) PROVE G
  BY <1>6 DEF FoundTarget, Goes
<1>7. ASSUME NEW u \in uploads, StoredFile(u) PROVE G
  BY <1>7 DEF StoredFile, Goes
<1>8. ASSUME NEW u \in uploads, RowUpdated(u) PROVE G
  BY <1>8 DEF RowUpdated, Goes
<1>9. ASSUME NEW u \in uploads, UploadAnswered(u) PROVE G
  BY <1>9 DEF UploadAnswered
<1>10. ASSUME NEW n \in Name, NEW p \in Product, ForeignUpload(n, p) PROVE G
  BY <1>10 DEF ForeignUpload
<1>11. ASSUME NEW g \in view.list, handleDownloadTemplate(g) PROVE G
  BY <1>11 DEF handleDownloadTemplate
<1>12. ASSUME NEW d \in downloads, FoundPath(d) PROVE G
  BY <1>12 DEF FoundPath
<1>13. ASSUME NEW d \in downloads, Served(d) PROVE G
  BY <1>13, ServesItsOwn
<1>14. ASSUME NEW u \in uploads, StoreFails(u) PROVE G
  BY <1>14 DEF StoreFails, Goes
<1>15. ASSUME NEW u \in uploads, UpdateFails(u) PROVE G
  BY <1>15 DEF UpdateFails, Goes
<1> HIDE DEF G
<1> QED
  BY <1>1, <1>2, <1>3, <1>4, <1>5, <1>6, <1>7, <1>8, <1>9, <1>10, <1>11, <1>12,
     <1>13, <1>14, <1>15 DEF TemplatesNext

\* A file in use is replaced after a question.
LEMMA SilentKept ==
  ASSUME CustomerAssumption, TablesOK, TemplatesOK, ListsFit, IdsAreOwn, PathsFit, CrowdsAreNoted, NothingShared,
         AskedFirst, NoneReplacedSilently, TemplatesNext
  PROVE  \A i \in silent' : i \in blind' \/ owner'[i] \in crowded'
<1> DEFINE G == \A i \in silent' : i \in blind' \/ owner'[i] \in crowded'
<1> SUFFICES G
  OBVIOUS
<1>a. \A i \in silent : i \in blind \/ owner[i] \in crowded
  BY DEF NoneReplacedSilently
<1>1. ASSUME fetchData PROVE G
  BY <1>1, <1>a DEF fetchData
<1>2. ASSUME NEW g \in view.list, NEW e \in Extension, handleSubmitUpload(g, e)
      PROVE G
  <2>1. (\A i \in 1..sent : owner'[i] = owner[i]) /\ crowded \subseteq crowded'
    BY <1>2, SubmitStarts
  <2>2. silent \subseteq 1..sent
    BY DEF TemplatesOK
  <2> QED
    BY <1>2, <1>a, <2>1, <2>2 DEF handleSubmitUpload
<1>3. ASSUME NEW u \in uploads, checkExistingTemplate(u) PROVE G
  BY <1>3, <1>a DEF checkExistingTemplate, Goes
<1>4. ASSUME NEW u \in uploads, CheckFailed(u) PROVE G
  BY <1>4, <1>a DEF CheckFailed, Goes
<1>5. ASSUME NEW u \in uploads, Confirm(u) PROVE G
  BY <1>5, <1>a DEF Confirm, Goes
<1>6. ASSUME NEW u \in uploads, FoundTarget(u) PROVE G
  BY <1>6, <1>a DEF FoundTarget, Goes
<1>7. ASSUME NEW u \in uploads, StoredFile(u) PROVE G
  <2>1. UNCHANGED <<owner, blind, crowded, targets>> /\ u.step = "found"
    BY <1>7 DEF StoredFile, tables
  <2>2. CASE silent' = silent
    BY <1>a, <2>1, <2>2
  <2>3. ASSUME ~u.asked, Replaces(u), u.id \notin blind, owner[u.id] \notin crowded PROVE FALSE
    <3>1. UploadFits(u)
      BY DEF PathsFit
    <3>2. \A g \in targets : g.id = u.target => g.template = none
      BY <2>1, <2>3, <3>1 DEF AskedFirst, UploadFits
    <3>3. PICK g \in targets : g.template \in {u.old, u.path} \ {none}
      BY <2>3 DEF Replaces
    <3>4. Fits(g.template, g.id)
      BY <3>3 DEF PathsFit
    <3>5. Fits(g.template, u.target)
      BY <3>1, <3>3 DEF UploadFits
    <3>6. g.id = u.target
      BY <3>4, <3>5, OnePathOneTarget
    <3> QED
      BY <3>2, <3>3, <3>6
  <2>4. silent' = silent \/ (~u.asked /\ Replaces(u) /\ silent' = silent \cup {u.id})
    BY <1>7 DEF StoredFile
  <2> QED
    BY <1>a, <2>1, <2>2, <2>3, <2>4
<1>8. ASSUME NEW u \in uploads, RowUpdated(u) PROVE G
  BY <1>8, <1>a DEF RowUpdated, Goes
<1>9. ASSUME NEW u \in uploads, UploadAnswered(u) PROVE G
  BY <1>9, <1>a DEF UploadAnswered
<1>10. ASSUME NEW n \in Name, NEW p \in Product, ForeignUpload(n, p) PROVE G
  BY <1>10, <1>a DEF ForeignUpload
<1>11. ASSUME NEW g \in view.list, handleDownloadTemplate(g) PROVE G
  BY <1>11, <1>a DEF handleDownloadTemplate
<1>12. ASSUME NEW d \in downloads, FoundPath(d) PROVE G
  BY <1>12, <1>a DEF FoundPath
<1>13. ASSUME NEW d \in downloads, Served(d) PROVE G
  BY <1>13, <1>a DEF Served
<1>14. ASSUME NEW u \in uploads, StoreFails(u) PROVE G
  <2>1. UNCHANGED <<owner, blind, crowded, targets>> /\ u.step = "found"
    BY <1>14 DEF StoreFails, tables
  <2>2. CASE silent' = silent
    BY <1>a, <2>1, <2>2
  <2>3. ASSUME ~u.asked, Replaces(u), u.id \notin blind, owner[u.id] \notin crowded PROVE FALSE
    <3>1. UploadFits(u)
      BY DEF PathsFit
    <3>2. \A g \in targets : g.id = u.target => g.template = none
      BY <2>1, <2>3, <3>1 DEF AskedFirst, UploadFits
    <3>3. PICK g \in targets : g.template \in {u.old, u.path} \ {none}
      BY <2>3 DEF Replaces
    <3>4. Fits(g.template, g.id)
      BY <3>3 DEF PathsFit
    <3>5. Fits(g.template, u.target)
      BY <3>1, <3>3 DEF UploadFits
    <3>6. g.id = u.target
      BY <3>4, <3>5, OnePathOneTarget
    <3> QED
      BY <3>2, <3>3, <3>6
  <2>4. silent' = silent \/ (~u.asked /\ Replaces(u) /\ silent' = silent \cup {u.id})
    BY <1>14 DEF StoreFails
  <2> QED
    BY <1>a, <2>1, <2>2, <2>3, <2>4
<1>15. ASSUME NEW u \in uploads, UpdateFails(u) PROVE G
  BY <1>15, <1>a DEF UpdateFails, Goes
<1> HIDE DEF G
<1> QED
  BY <1>1, <1>2, <1>3, <1>4, <1>5, <1>6, <1>7, <1>8, <1>9, <1>10, <1>11, <1>12,
     <1>13, <1>14, <1>15 DEF TemplatesNext

---------------------------------------------------------------------------
(* The invariant *)

\* At the beginning: a customer with some targets, and nothing on its way.
LEMMA TablesBegin ==
  ASSUME CustomerAssumption, TablesInit
  PROVE  /\ TablesOK /\ NothingOutlivesCustomer /\ targets \subseteq Listed /\ IdsAreOwn
         /\ customer # none /\ customer.name \in names /\ names # {} /\ Name # {}
         /\ \A i \in 1..Len(products) : \E g \in targets : g.id = i
         /\ \A g \in targets : g.order = g.id - 1 /\ g.template = none
<1> DEFINE n == scenario.before
           Row(i) == [id |-> i, order |-> i - 1, product |-> products[i], template |-> none]
<1>1. n \in Nat
  BY DEF CustomerAssumption, TablesInit
<1>2. products \in [1..n -> Product] /\ targets = {Row(i) : i \in 1..n}
  BY DEF TablesInit
<1>3. products \in Seq(Product) /\ Len(products) = n
  BY <1>1, <1>2, SeqDef, LenProperties
<1>4. ASSUME NEW i \in 1..n
      PROVE  /\ Row(i) \in Target /\ Row(i).id = i /\ Row(i).order = i - 1
             /\ Row(i).product = products[i] /\ Row(i).template = none
  <2>1. i \in Nat \ {0} /\ i - 1 \in Nat /\ products[i] \in Product
    BY <1>1, <1>2
  <2> QED
    BY <2>1 DEF Target
<1> HIDE DEF Row
<1>5. IsFiniteSet(targets)
  <2> DEFINE F == [i \in 1..n |-> Row(i)]
  <2>1. F \in Surjection(1..n, targets)
    BY <1>2 DEF Surjection
  <2>2. IsFiniteSet(1..n)
    BY <1>1, FS_Interval
  <2> HIDE DEF F
  <2> QED
    BY <2>1, <2>2, FS_Surjection
<1>6. PICK m \in Name :
        /\ customer = [name |-> m, start |-> none, last |-> none, engineer |-> none, notes |-> none]
        /\ names = {m}
  BY DEF TablesInit
<1>7. customer \in Customer /\ customer.name = m
  BY <1>6 DEF Customer
<1>8. customer # none
  BY <1>7 DEF CustomerAssumption
<1>9. \A g \in targets : g \in Target /\ g.id \in 1..n /\ g.product = products[g.id] /\ g = Row(g.id)
  BY <1>2, <1>4
<1>10. \A g \in targets : g.id <= Len(products)
  BY <1>1, <1>3, <1>9
<1>11. TablesOK
  BY <1>3, <1>5, <1>6, <1>7, <1>9, <1>10 DEF TablesOK, TablesInit
<1>12. targets \subseteq Listed
  BY <1>9, <1>10 DEF Listed
<1>13. IdsAreOwn
  BY <1>9 DEF IdsAreOwn
<1>14. \A i \in 1..Len(products) : \E g \in targets : g.id = i
  BY <1>2, <1>3, <1>4
<1>15. \A g \in targets : g.order = g.id - 1 /\ g.template = none
  BY <1>2, <1>4
<1> QED
  BY <1>6, <1>7, <1>8, <1>11, <1>12, <1>13, <1>14, <1>15 DEF NothingOutlivesCustomer

\* Every page is the list.
LEMMA PagesBegin ==
  ASSUME Name # {}, PagesInit
  PROVE  /\ PagesOK /\ MessagesFit /\ CallsAreOfPages
         /\ \A t \in Tab : tab[t].page = "list" /\ tab[t].customer = none /\ tab[t].list = {}
<1>1. (CHOOSE n \in Name : TRUE) \in Name
  OBVIOUS
<1>2. Blank \in Form
  BY <1>1 DEF Blank, Form
<1>3. Closed \in TabState
  <2>1. FALSE \in BOOLEAN
    OBVIOUS
  <2> QED
    BY <1>2, <2>1 DEF Closed, TabState
<1>4. Closed.page = "list" /\ Closed.customer = none /\ Closed.list = {} /\ Closed.touched = {}
  BY DEF Closed
<1>5. \A t \in Tab : tab[t] = Closed
  BY DEF PagesInit
<1>6. tab \in [Tab -> TabState]
  BY <1>3 DEF PagesInit
<1>7. MessagesFit /\ CallsAreOfPages
  BY <1>6 DEF PagesInit, MessagesFit, CallsAreOfPages
<1>8. IsFiniteSet({})
  BY FS_EmptySet
<1>9. \A t \in Tab : tab[t] \in TabState /\ tab[t].list = {} /\ tab[t].touched = {}
  BY <1>3, <1>4, <1>5
<1>10. counts \in [Counts -> Nat] /\ hurried \in BOOLEAN /\ mismatch \in BOOLEAN
  BY DEF PagesInit
<1>11. PagesOK
  BY <1>8, <1>9, <1>10 DEF PagesInit, PagesOK, TabState
<1> QED
  BY <1>4, <1>5, <1>7, <1>11

\* The invariant holds at the beginning ...
LEMMA IInvInit ==
  ASSUME CustomerAssumption, Init
  PROVE  IInv
<1>1. /\ TablesOK /\ NothingOutlivesCustomer /\ targets \subseteq Listed /\ IdsAreOwn
      /\ customer # none /\ customer.name \in names /\ names # {} /\ Name # {}
      /\ \A i \in 1..Len(products) : \E g \in targets : g.id = i
      /\ \A g \in targets : g.order = g.id - 1 /\ g.template = none
  BY TablesBegin DEF Init
<1>2. /\ PagesOK /\ MessagesFit /\ CallsAreOfPages
      /\ \A t \in Tab : tab[t].page = "list" /\ tab[t].customer = none /\ tab[t].list = {}
  BY <1>1, PagesBegin DEF Init
<1>3. IsFiniteSet({})
  BY FS_EmptySet
<1>4. /\ files = {} /\ uploads = {} /\ sent = 0 /\ downloads = {} /\ view = [name |-> none, list |-> {}]
      /\ latest = <<>> /\ owner = <<>> /\ strange = FALSE /\ crowded = {} /\ broken = {}
      /\ silent = {} /\ blind = {}
  BY DEF Init, TemplatesInit
<1>5. loads = {} /\ saves = {} /\ calls = {} /\ ~mismatch
  BY DEF Init, PagesInit
<1>6. view \in ViewState /\ view.name = none /\ view.list = {}
  BY <1>4 DEF ViewState
<1>7. TemplatesOK
  <2>1. ASSUME NEW S PROVE <<>> \in [{} -> S] /\ DOMAIN <<>> = {}
    OBVIOUS
  <2>2. 1..0 = {}
    OBVIOUS
  <2>3. latest \in [DOMAIN latest -> 1..sent] /\ owner \in [1..sent -> 1..Len(products)]
    BY <1>4, <2>1, <2>2
  <2>4. strange \in BOOLEAN /\ sent \in Nat
    BY <1>4
  <2> QED
    BY <1>3, <1>4, <1>6, <2>3, <2>4 DEF TemplatesOK
<1>8. ListsFit
  BY <1>1, <1>2, <1>3, <1>5, <1>6 DEF ListsFit
<1>9. FormsAgree
  BY <1>2, <1>5 DEF FormsAgree
<1>10. InOrder
  BY <1>1, <1>2, <1>5 DEF InOrder, AllThere
<1>11. PathsFit
  BY <1>1, <1>4, <1>6 DEF PathsFit
<1>12. CrowdsAreNoted /\ AskedFirst
  BY <1>4 DEF CrowdsAreNoted, AskedFirst
<1>13. FilesAreThere
  BY <1>1, <1>4 DEF FilesAreThere
<1>14. NoneReplacedSilently
  BY <1>4 DEF NoneReplacedSilently
<1> QED
  BY <1>1, <1>2, <1>7, <1>8, <1>9, <1>10, <1>11, <1>12, <1>13, <1>14 DEF IInv, TypeOK

\* A step of the page of the templates.
LEMMA TemplatesStep ==
  ASSUME CustomerAssumption, IInv, TemplatesNext, UNCHANGED pages, TablesOK', IsFiniteSet(view'.list)
  PROVE  /\ PagesOK' /\ TemplatesOK' /\ MessagesFit' /\ CallsAreOfPages' /\ FormsAgree' /\ InOrder'
         /\ PathsFit' /\ CrowdsAreNoted' /\ AskedFirst' /\ FilesAreThere' /\ NoneReplacedSilently'
<1> USE DEF IInv, TypeOK
<1>1. UNCHANGED <<scenario, customer, others, products, version, names>>
  BY TemplatesOnly
<1>2. PagesOK' /\ MessagesFit' /\ CallsAreOfPages' /\ FormsAgree'
  BY <1>1 DEF pages, PagesOK, MessagesFit, CallsAreOfPages, FormsAgree, Agrees
<1>3. InOrder'
  BY OrderKeptByTemplates
<1>4. TemplatesOK' /\ PathsFit'
  BY TemplatesKept, PathsKept
<1>5. CrowdsAreNoted'
  BY CrowdsKept DEF CrowdsAreNoted
<1>6. AskedFirst'
  BY AskedKept DEF AskedFirst
<1>7. NothingShared' <=> NothingShared
  BY <1>1 DEF NothingShared
<1>8. FilesAreThere'
  <2> SUFFICES ASSUME NothingShared PROVE FilesAreThere'
    BY <1>7 DEF FilesAreThere
  <2>1. ~strange
    BY DEF FilesAreThere
  <2>2. ~strange'
    BY <2>1, StrangeKept
  <2>3. /\ \A v \in uploads' : v.step = "stored" /\ v.target \notin crowded' =>
             \E f \in files' : f.path = v.path /\ f.content = v.id
        /\ \A h \in targets' :
             h.template # none /\ h.id \notin crowded' \cup broken' /\ ~(\E v \in uploads' : v.target = h.id /\ v.step = "stored") =>
               h.id \in DOMAIN latest' /\ \E f \in files' : f.path = h.template /\ f.content = latest'[h.id]
    BY StoredKept, RowsKept
  <2> QED
    BY <2>2, <2>3 DEF FilesAreThere, Keeps
<1>9. NoneReplacedSilently'
  <2> SUFFICES ASSUME NothingShared PROVE NoneReplacedSilently'
    BY <1>7 DEF NoneReplacedSilently
  <2> QED
    BY SilentKept DEF NoneReplacedSilently
<1> QED
  BY <1>2, <1>3, <1>4, <1>5, <1>6, <1>8, <1>9

\* ... and every step keeps it ...
LEMMA IInvStep ==
  ASSUME CustomerAssumption, IInv, [Next]_vars
  PROVE  IInv'
<1> USE DEF IInv, TypeOK
<1>1. TablesOK' /\ IdsAreOwn' /\ NothingOutlivesCustomer'
  BY TablesKept
<1>2. ListsFit' /\ IsFiniteSet(view'.list)
  BY ListsKept
<1>3. CASE PagesNext /\ UNCHANGED docs
  <2>1. Name # {}
    BY DEF PathsFit, TablesOK
  <2>2. MessagesFit'
    BY <1>3, <2>1, MessagesKept DEF MessagesFit
  <2>3. PagesOK' /\ CallsAreOfPages'
    BY <1>2, <1>3, <2>2, PagesKept
  <2>4. FormsAgree' /\ InOrder'
    BY <1>3, FormsKept, OrderKept
  <2>5. PathsFit' /\ TemplatesOK' /\ CrowdsAreNoted' /\ AskedFirst' /\ FilesAreThere' /\ NoneReplacedSilently'
    BY <1>1, <1>3, PagesKeepPaths, PagesKeepTemplates
  <2> QED
    BY <1>1, <1>2, <2>2, <2>3, <2>4, <2>5
<1>4. CASE TemplatesNext /\ UNCHANGED pages
  <2>1. /\ PagesOK' /\ TemplatesOK' /\ MessagesFit' /\ CallsAreOfPages' /\ FormsAgree' /\ InOrder'
        /\ PathsFit' /\ CrowdsAreNoted' /\ AskedFirst' /\ FilesAreThere' /\ NoneReplacedSilently'
    BY <1>1, <1>2, <1>4, TemplatesStep
  <2> QED
    BY <1>1, <1>2, <2>1
<1>5. CASE UNCHANGED vars
  <2> USE <1>5 DEF vars, tables, pages, docs
  <2>1. PagesOK' /\ MessagesFit' /\ CallsAreOfPages' /\ FormsAgree'
    BY DEF PagesOK, MessagesFit, CallsAreOfPages, FormsAgree, Agrees
  <2>2. TemplatesOK'
    BY DEF TemplatesOK
  <2>3. InOrder'
    BY DEF InOrder, AllThere, Awaits
  <2>4. PathsFit'
    BY DEF PathsFit, UploadFits, DownloadFits, Fits
  <2>5. CrowdsAreNoted' /\ AskedFirst'
    BY DEF CrowdsAreNoted, AskedFirst
  <2>6. FilesAreThere' /\ NoneReplacedSilently'
    BY DEF FilesAreThere, NoneReplacedSilently, NothingShared, Keeps
  <2> QED
    BY <1>1, <1>2, <2>1, <2>2, <2>3, <2>4, <2>5, <2>6
<1> QED
  BY <1>3, <1>4, <1>5, StepIsOfAPage

\* ... so it holds always.
THEOREM Inductive == Spec => []IInv
  BY IInvInit, IInvStep, CustomerAssumption, PTL DEF Spec

---------------------------------------------------------------------------
(* Theorems *)

\* The tables stay typed, no target outlives its customer, and the numbers the targets are
\* sorted by are those of their creation as long as they are only added in order.
THEOREM TablesStaySound == Spec => []TablesAreSound
<1>1. ASSUME IInv PROVE TablesAreSound
  BY <1>1, OrderFollows DEF IInv, TypeOK, TablesAreSound
<1> QED
  BY Inductive, <1>1, PTL

\* Every save stores what was typed since the form was filled last, but for a date that was
\* taken out; and if nobody wrote the row since, it leaves every other column as it showed,
\* that date's too, whoever else wrote before and whatever was loaded again.
THEOREM SavesWhatWasTyped == Spec => []OnlyTypedChanges
<1>1. ASSUME IInv PROVE OnlyTypedChanges
  BY <1>1 DEF IInv, FormsAgree, OnlyTypedChanges
<1> QED
  BY Inductive, <1>1, PTL

\* With no name or product used twice, every download is answered with a file of its target,
\* and every path leads to the file uploaded last, unless two uploads for the target ran at once
\* or the last one ended between the unlink and the row; for any names, products and uploads.
THEOREM TemplatesStayOwn == Spec => []TemplatesAreOwn
<1>1. ASSUME IInv PROVE TemplatesAreOwn
  <2> SUFFICES ASSUME NothingShared
               PROVE  /\ ~strange
                      /\ \A g \in targets :
                           g.template # none /\ g.id \notin crowded \cup broken
                           /\ ~(\E u \in uploads : u.target = g.id /\ u.step = "stored") =>
                             Holds(g.template) /\ ContentOf(g.template) = latest[g.id]
    BY DEF TemplatesAreOwn
  <2>1. ~strange
    BY <1>1 DEF IInv, FilesAreThere
  <2>2. ASSUME NEW g \in targets, g.template # none, g.id \notin crowded \cup broken,
               ~(\E u \in uploads : u.target = g.id /\ u.step = "stored")
        PROVE  Holds(g.template) /\ ContentOf(g.template) = latest[g.id]
    <3>1. PICK f \in files : f.path = g.template /\ f.content = latest[g.id]
      BY <1>1, <2>2 DEF IInv, FilesAreThere, Keeps
    <3>2. \A h \in files : h.path = g.template => h = f
      BY <1>1, <3>1 DEF IInv, TypeOK, TemplatesOK
    <3> QED
      BY <3>1, <3>2 DEF Holds, ContentOf
  <2> QED
    BY <2>1, <2>2
<1> QED
  BY Inductive, <1>1, PTL

\* No template in use is replaced without a question, except as the property says.
THEOREM AsksBeforeReplacing == Spec => []NoneReplacedSilently
<1>1. ASSUME IInv PROVE NoneReplacedSilently
  BY <1>1 DEF IInv
<1> QED
  BY Inductive, <1>1, PTL

=============================================================================
