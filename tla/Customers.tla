------------------------------ MODULE Customers -----------------------------
(***************************************************************************)
(* The pages of a customer together: CustomerEdit writes the rows whose     *)
(* name and targets Templates makes file names of, and removes them while    *)
(* uploads are on their way.                                                *)
(***************************************************************************)
EXTENDS CustomerEdit, Templates

vars == <<scenario, tables, pages, docs>>

TypeOK == TablesOK /\ PagesOK /\ TemplatesOK

Init == TablesInit /\ PagesInit /\ TemplatesInit

Next ==
  \/ \E t \in Tab : OpenDetail(t) /\ UNCHANGED docs
  \/ \E t \in Tab : OpenEdit(t) /\ UNCHANGED docs
  \/ \E l \in loads : findOne(l) /\ UNCHANGED docs
  \/ \E l \in loads : Loaded(l) /\ UNCHANGED docs
  \/ \E l \in loads : LoadFailed(l) /\ UNCHANGED docs
  \/ \E t \in Tab, f \in Field : \E v \in Values(f) : handleChange(t, f, v) /\ UNCHANGED docs
  \/ \E t \in Tab : handleSave(t) /\ UNCHANGED docs
  \/ \E s \in saves : Found(s) /\ UNCHANGED docs
  \/ \E s \in saves : NameChecked(s) /\ UNCHANGED docs
  \/ \E s \in saves : Written(s) /\ UNCHANGED docs
  \/ \E s \in saves : WriteRefused(s) /\ UNCHANGED docs
  \/ \E s \in saves : SaveAnswered(s) /\ UNCHANGED docs
  \/ \E s \in saves : SaveFailed(s) /\ UNCHANGED docs
  \/ \E t \in Tab, p \in Product : handleAddInspectionTarget(t, p) /\ UNCHANGED docs
  \/ \E t \in Tab : \E g \in tab[t].list : handleDeleteInspectionTarget(t, g) /\ UNCHANGED docs
  \/ \E t \in Tab : handleDeleteCustomer(t) /\ UNCHANGED docs
  \/ \E c \in calls : TargetCreated(c) /\ UNCHANGED docs
  \/ \E c \in calls : TargetRemoved(c) /\ UNCHANGED docs
  \/ \E c \in calls : CustomerDeleted(c) /\ UNCHANGED docs
  \/ \E c \in calls : CallAnswered(c) /\ UNCHANGED docs
  \/ \E c \in calls : CallFailed(c) /\ UNCHANGED docs
  \/ \E n \in Name : handleAddCustomer(n) /\ UNCHANGED docs
  \/ \E d \in Day : ReportUploaded(d) /\ UNCHANGED docs
  \/ fetchData /\ UNCHANGED pages
  \/ \E g \in view.list, e \in Extension : handleSubmitUpload(g, e) /\ UNCHANGED pages
  \/ \E u \in uploads : checkExistingTemplate(u) /\ UNCHANGED pages
  \/ \E u \in uploads : CheckFailed(u) /\ UNCHANGED pages
  \/ \E u \in uploads : Confirm(u) /\ UNCHANGED pages
  \/ \E u \in uploads : FoundTarget(u) /\ UNCHANGED pages
  \/ \E u \in uploads : StoredFile(u) /\ UNCHANGED pages
  \/ \E u \in uploads : RowUpdated(u) /\ UNCHANGED pages
  \/ \E u \in uploads : StoreFails(u) /\ UNCHANGED pages
  \/ \E u \in uploads : UpdateFails(u) /\ UNCHANGED pages
  \/ \E u \in uploads : UploadAnswered(u) /\ UNCHANGED pages
  \/ \E n \in Name, p \in Product : ForeignUpload(n, p) /\ UNCHANGED pages
  \/ \E g \in view.list : handleDownloadTemplate(g) /\ UNCHANGED pages
  \/ \E d \in downloads : FoundPath(d) /\ UNCHANGED pages
  \/ \E d \in downloads : Served(d) /\ UNCHANGED pages

Spec == Init /\ [][Next]_vars

---------------------------------------------------------------------------
(* Properties *)

\* Every reachable state is well typed, and the tables hang together.
TablesAreSound == TypeOK /\ NothingOutlivesCustomer /\ OrderIsAge

=============================================================================
