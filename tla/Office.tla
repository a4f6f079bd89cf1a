------------------------------- MODULE Office -------------------------------
(***************************************************************************)
(* What a signed-in user has before him: the pages of Records, the popup     *)
(* fed by the notices they write and the bell fed by their support logs.     *)
(***************************************************************************)
EXTENDS Popups, Bell

vars == <<scenario, tables, lists, count, layout, ring>>

TypeOK == RecordsOK /\ PopupsOK /\ BellOK

Init == RecordsInit /\ PopupsInit /\ BellInit

Apart == UNCHANGED <<layout, ring>>

Next ==
  \/ \E p \in Page, k \in Kind : OpenPage(p, k) /\ Apart
  \/ \E p \in Page : LeavePage(p) /\ Apart
  \/ \E p \in Page : handleAddClick(p) /\ Apart
  \/ \E p \in Page : \E r \in pages[p].table : handleEditClick(p, r) /\ Apart
  \/ \E p \in Page : \E r \in pages[p].table : handleMenuOpen(p, r) /\ Apart
  \/ \E p \in Page : handleOpenEditDialog(p) /\ Apart
  \/ \E p \in Page : CloseDialog(p) /\ Apart
  \/ \E p \in Page, m \in scenario.marks : handleApplyFilter(p, m) /\ Apart
  \/ \E p \in Page : handleResetFilter(p) /\ Apart
  \/ \E p \in Page, m \in scenario.marks : handleCreate(p, m) /\ Apart
  \/ \E p \in Page, m \in scenario.marks : handleUpdate(p, m) /\ Apart
  \/ \E p \in Page : \E r \in pages[p].table : handleDelete(p, r) /\ Apart
  \/ \E c \in calls : CallAnswered(c) /\ Apart
  \/ \E c \in calls : CallFailed(c) /\ Apart
  \/ \E c \in calls : Created(c) /\ Apart
  \/ \E c \in calls : Found(c) /\ Apart
  \/ \E c \in calls : Updated(c) /\ Apart
  \/ \E c \in calls : Removed(c) /\ Apart
  \/ \E c \in calls : Overtaken(c) /\ Apart
  \/ \E c \in calls : CallBreaks(c) /\ Apart
  \/ \E l \in loads : findAll(l) /\ Apart
  \/ \E l \in loads : LoadAnswered(l) /\ Told(l) /\ UNCHANGED layout
  \/ \E l \in loads : LoadFailed(l) /\ Told(l) /\ UNCHANGED layout
  \/ \E t \in Tab, d \in {"none", "forced"} : Enter(t, d) /\ UNCHANGED ring
  \/ \E t \in Tab : Leave(t) /\ UNCHANGED ring
  \/ \E t \in Tab : handlePasswordDialogOpen(t) /\ UNCHANGED ring
  \/ \E t \in Tab : handlePasswordDialogClose(t) /\ UNCHANGED ring
  \/ \E t \in Tab : handlePasswordChangeSuccess(t) /\ UNCHANGED ring
  \/ \E f \in fetches : Arrived(f) /\ UNCHANGED ring
  \/ \E f \in fetches : FetchLost(f) /\ UNCHANGED ring
  \/ \E t \in Tab : Tick(t) /\ UNCHANGED ring
  \/ \E t \in Tab : handleNoticePopupClose(t) /\ UNCHANGED ring
  \/ \E m \in marks : MarkAnswered(m) /\ UNCHANGED ring
  \/ \E m \in marks : MarkFailed(m) /\ UNCHANGED ring
  \/ \E f \in fetches : ReadViews(f) /\ UNCHANGED ring
  \/ \E f \in fetches : getUnreadNotices(f) /\ UNCHANGED ring
  \/ \E m \in marks : FoundNotice(m) /\ UNCHANGED ring
  \/ \E m \in marks : LookedUp(m) /\ UNCHANGED ring
  \/ \E m \in marks : MarkStored(m) /\ UNCHANGED ring
  \/ \E m \in marks : MarkLost(m) /\ UNCHANGED ring
  \/ Reassigned /\ UNCHANGED layout
  \/ ReadAssigned /\ UNCHANGED layout
  \/ ReadStatus /\ UNCHANGED layout
  \/ BellAnswered /\ UNCHANGED layout
  \/ BellFailed /\ UNCHANGED layout
  \/ Refetch /\ UNCHANGED layout

\* The bell is read again every minute and the service answers.
Fairness ==
  /\ WF_vars(Refetch /\ UNCHANGED layout)
  /\ WF_vars((ReadAssigned \/ ReadStatus) /\ UNCHANGED layout)
  /\ WF_vars(BellAnswered /\ UNCHANGED layout)

Spec == Init /\ [][Next]_vars /\ Fairness

---------------------------------------------------------------------------
(* Properties *)

\* Every reachable state is well typed, and a page and a bell at rest show what they were
\* told had been written.
ToldIsShown == TypeOK /\ ListsShowAcked /\ BellShowsTold

=============================================================================
