------------------------------- MODULE Popups -------------------------------
(***************************************************************************)
(* The popup of MainLayout.tsx, which shows the newest notice its user has   *)
(* not put away, beside the password dialog, over NoticesService. One user   *)
(* with a role that is shown notices, in several tabs.                       *)
(***************************************************************************)
EXTENDS Records

CONSTANT Tab  \* tabs of the reader

VARIABLES
  seats,    \* the layout of each tab; missed is history
  fetches,  \* unread notices being fetched
  marks,    \* notices being marked as read
  ticked,   \* history: notices whose box the user ticked
  carried   \* history: notices put beneath a box ticked for another

layout == <<seats, fetches, marks, ticked, carried>>

Away == [in |-> FALSE, mount |-> 0, dialog |-> "none", shown |-> none, open |-> FALSE, tick |-> FALSE, missed |-> FALSE,
         hidden |-> {}]

Seat == [in : BOOLEAN, mount : Nat, dialog : {"none", "own", "forced"}, shown : Row \cup {none}, open : BOOLEAN,
         tick : BOOLEAN, missed : BOOLEAN, hidden : SUBSET Nat]

Unread == [tab : Tab, mount : Nat, dialog : BOOLEAN, hidden : SUBSET Nat, viewed : SUBSET Nat, got : Row \cup {none},
           step : {"sent", "viewed", "answered"}, n : Nat]
MarkRead == [n : Nat, tab : Tab, mount : Nat, id : Nat, step : {"sent", "found", "looked", "stored", "failed"}]

PopupsOK ==
  /\ seats \in [Tab -> Seat] /\ \A t \in Tab : seats[t].open \/ seats[t].tick => seats[t].shown # none
  /\ fetches \subseteq Unread /\ marks \subseteq MarkRead
  /\ ticked \subseteq 1 .. lastRow /\ carried \subseteq 1 .. lastRow

PopupsInit ==
  /\ seats = [t \in Tab |-> Away] /\ fetches = {} /\ marks = {} /\ ticked = {} /\ carried = {}

Elsewhere == UNCHANGED <<scenario, tables, lists>>

\* The effect on [user, passwordDialogOpen]: the answer will be treated with the dialog as it is now.
Ask(t, mount, dialog) ==
  [tab |-> t, mount |-> mount, dialog |-> dialog, hidden |-> views, viewed |-> {}, got |-> none, step |-> "sent",
   n |-> count'["dialogs"] + count'["enters"] + count'["changes"]]
There(x) == seats[x.tab].in /\ seats[x.tab].mount = x.mount
Newest(S) == CHOOSE r \in S : \A q \in S : q.id <= r.id

---------------------------------------------------------------------------
(* The layout *)

\* The effects run once over the new user and again when the first has opened the dialog.
Enter(t, dialog) ==
  /\ ~seats[t].in /\ Once("enters") /\ dialog \in {"none", "forced"}
  /\ LET mount == seats[t].mount + 1 IN
       /\ seats' = [seats EXCEPT ![t] = [Away EXCEPT !.in = TRUE, !.mount = mount, !.dialog = dialog]]
       /\ fetches' = fetches \cup {Ask(t, mount, FALSE)}
                             \cup (IF dialog = "forced" THEN {Ask(t, mount, TRUE)} ELSE {})
  /\ UNCHANGED <<marks, ticked, carried>> /\ Elsewhere

\* Answers that come later are not taken.
Leave(t) ==
  /\ seats[t].in /\ fetches' = {f \in fetches : f.tab # t}
  /\ seats' = [seats EXCEPT ![t] = [Away EXCEPT !.mount = seats[t].mount]]
  /\ UNCHANGED <<marks, ticked, carried, count>> /\ Elsewhere

\* An open popup covers the menu the dialog is opened from.
handlePasswordDialogOpen(t) ==
  /\ seats[t].in /\ seats[t].dialog = "none" /\ ~seats[t].open /\ Once("dialogs")
  /\ seats' = [seats EXCEPT ![t].dialog = "own"]
  /\ fetches' = fetches \cup {Ask(t, seats[t].mount, TRUE)}
  /\ UNCHANGED <<marks, ticked, carried>> /\ Elsewhere

\* A notice that has been waiting behind the dialog is opened.
DialogClosed(t) ==
  /\ seats' = [seats EXCEPT ![t].dialog = "none", ![t].open = @ \/ seats[t].shown # none,
                            ![t].missed = IF seats[t].shown # none THEN FALSE ELSE @]
  /\ fetches' = fetches \cup {Ask(t, seats[t].mount, FALSE)}
  /\ UNCHANGED <<marks, ticked, carried>> /\ Elsewhere

\* A forced dialog cannot be closed, ...
handlePasswordDialogClose(t) == seats[t].dialog = "own" /\ count' = count /\ DialogClosed(t)

\* ... and what is changed is followed by a logout, that is Leave, when it has answered.
handlePasswordChangeSuccess(t) ==
  /\ seats[t].dialog # "none" /\ ~seats[t].open /\ Once("changes")
  /\ DialogClosed(t)

\* The newest of the unread, or nothing new. Two effects may open it: the answer's, if the
\* dialog was closed when it asked, and the one on [passwordDialogOpen, unreadNotices.length].
\* A box stays ticked as long as the popup stays mounted.
Arrived(f) ==
  /\ f.step = "answered" /\ fetches' = fetches \ {f}
  /\ LET s == seats[f.tab]
         opens == ~f.dialog \/ (s.shown = none /\ s.dialog = "none")
     IN IF There(f) /\ f.got # none
        THEN /\ seats' = [seats EXCEPT ![f.tab] = [s EXCEPT !.shown = f.got, !.hidden = f.hidden, !.open = @ \/ opens,
                                                            !.missed = IF s.open \/ opens THEN FALSE ELSE @]]
             /\ carried' = IF s.tick /\ s.shown.id # f.got.id THEN carried \cup {f.got.id} ELSE carried
        ELSE UNCHANGED <<seats, carried>>
  /\ UNCHANGED <<marks, ticked, count>> /\ Elsewhere

FetchLost(f) ==
  /\ Once("fails") /\ fetches' = fetches \ {f}
  /\ UNCHANGED <<seats, marks, ticked, carried>> /\ Elsewhere

Tick(t) ==
  /\ seats[t].open /\ seats' = [seats EXCEPT ![t].tick = ~@]
  /\ ticked' = IF seats[t].tick THEN ticked ELSE ticked \cup {seats[t].shown.id}
  /\ UNCHANGED <<fetches, marks, carried, count>> /\ Elsewhere

\* With the box ticked the popup stays open until the answer; it may be closed once more.
handleNoticePopupClose(t) ==
  /\ seats[t].open /\ Once("closes")
  /\ IF seats[t].tick
     THEN /\ marks' = marks \cup {[n |-> count'["closes"], tab |-> t, mount |-> seats[t].mount,
                                   id |-> seats[t].shown.id, step |-> "sent"]}
          /\ UNCHANGED seats
     ELSE seats' = [seats EXCEPT ![t].open = FALSE, ![t].shown = none, ![t].hidden = {}] /\ UNCHANGED marks
  /\ UNCHANGED <<fetches, ticked, carried>> /\ Elsewhere

\* Whatever the popup shows by now goes with it.
MarkAnswered(m) ==
  /\ m.step = "stored" /\ marks' = marks \ {m}
  /\ seats' = IF There(m) THEN [seats EXCEPT ![m.tab] = [@ EXCEPT !.open = FALSE, !.shown = none, !.hidden = {}, !.tick = FALSE]] ELSE seats
  /\ UNCHANGED <<fetches, ticked, carried, count>> /\ Elsewhere

\* The popup is closed, its notice and its box are kept.
MarkFailed(m) ==
  /\ m.step = "failed" /\ marks' = marks \ {m}
  /\ seats' = IF There(m) THEN [seats EXCEPT ![m.tab].open = FALSE, ![m.tab].missed = TRUE] ELSE seats
  /\ UNCHANGED <<fetches, ticked, carried, count>> /\ Elsewhere

---------------------------------------------------------------------------
(* NoticesService *)

Stage(m, step) == marks' = (marks \ {m}) \cup {[m EXCEPT !.step = step]}

\* getUnreadNotices: what was put away ...
ReadViews(f) ==
  /\ f.step = "sent"
  /\ fetches' = (fetches \ {f}) \cup {[f EXCEPT !.step = "viewed", !.viewed = views]}
  /\ UNCHANGED <<seats, marks, ticked, carried, count>> /\ Elsewhere

Slip_getUnreadNotices(f) ==  \* all notices
  /\ f.step = "viewed"
  /\ fetches' = (fetches \ {f}) \cup
       {[f EXCEPT !.step = "answered", !.got = IF rows["notice"] = {} THEN none ELSE Newest(rows["notice"])]}
  /\ UNCHANGED <<seats, marks, ticked, carried, count>> /\ Elsewhere

\* ... then the others.
getUnreadNotices(f) ==
  /\ f.step = "viewed"
  /\ LET unread == {r \in rows["notice"] : r.id \notin f.viewed} IN
       fetches' = (fetches \ {f}) \cup
         {[f EXCEPT !.step = "answered", !.got = IF unread = {} THEN none ELSE Newest(unread)]}
  /\ UNCHANGED <<seats, marks, ticked, carried, count>> /\ Elsewhere

\* markAsRead: the notice is there,
FoundNotice(m) ==
  /\ m.step = "sent" /\ Stage(m, IF Kept("notice", m.id) THEN "found" ELSE "failed")
  /\ UNCHANGED <<seats, fetches, ticked, carried, count>> /\ Elsewhere

\* and its view is looked up and stored. An insert fails when another call has come first
\* or the notice has gone.
LookedUp(m) ==
  /\ m.step = "found" /\ Stage(m, IF m.id \in views THEN "stored" ELSE "looked")
  /\ UNCHANGED <<seats, fetches, ticked, carried, count>> /\ Elsewhere

MarkStored(m) ==
  /\ m.step = "looked"
  /\ IF Kept("notice", m.id) /\ m.id \notin views
     THEN Stage(m, "stored") /\ views' = views \cup {m.id}
     ELSE Stage(m, "failed") /\ UNCHANGED views
  /\ UNCHANGED <<scenario, rows, lastRow, written, lists, seats, fetches, ticked, carried, count>>

MarkLost(m) ==
  /\ m.step \in {"sent", "stored"} /\ Once("fails") /\ Stage(m, "failed")
  /\ UNCHANGED <<seats, fetches, ticked, carried>> /\ Elsewhere

---------------------------------------------------------------------------
(* Properties *)

\* What counts as read is what the user ticked "do not show again" for, and not what was
\* merely closed: unless a newer notice had come beneath a ticked box.
OnlyTickedIsHidden == views \subseteq ticked \cup carried

\* A notice put away does not come back: what a popup shows was unread when the popup asked.
HiddenStaysHidden == \A t \in Tab : seats[t].shown # none => seats[t].shown.id \notin seats[t].hidden

\* No notice that was fetched waits unseen: without the password dialog it is open, unless
\* putting it away has failed.
NoneWaits == \A t \in Tab : seats[t].shown # none /\ seats[t].dialog = "none" => seats[t].open \/ seats[t].missed

NoticesAreKept == OnlyTickedIsHidden /\ HiddenStaysHidden /\ NoneWaits

=============================================================================
