----------------------------- MODULE OfficeProofs -----------------------------
(***************************************************************************)
(* Proofs about Office: the lists of Records, the popup and the bell, as one *)
(* inductive invariant. A write of any page is, for the three of them, a step *)
(* of the tables: what has not been written since is unchanged, and an id     *)
(* that is gone does not come back.                                         *)
(***************************************************************************)
EXTENDS Office, FiniteSetTheorems, TLAPS

(* The inductive invariant *)

TablesInv ==
  /\ scenario \in Scenarios
  /\ rows \in [Kind -> SUBSET Row] /\ lastRow \in Nat /\ views \subseteq {r.id : r \in rows["notice"]}
  /\ written \in [Kind -> Nat]
  /\ \A k \in Kind : IsFiniteSet(rows[k]) /\ \A r \in rows[k] : r.id <= lastRow
  /\ \A k \in Kind : \A r, q \in rows[k] : r.id = q.id => r = q

CountInv == count \in [Steps -> Nat]

\* The rows displayed are all of the list or those of the filter; a page that was left is blank.
PageShape(p) ==
  LET g == pages[p] IN
    /\ g.table \in {g.list, {r \in g.list : r.mark = g.filter}}
    /\ g.kind = none => g.dialog = "none" /\ g.filter = "" /\ g.table = {}

\* What a page shows is compared with what was written when it was read.
PageTold(p) ==
  LET g == pages[p] IN
    g.kind # none =>
      /\ g.acked <= written[g.kind]
      /\ ~g.lag => g.upto <= written[g.kind] /\ (g.upto = written[g.kind] => g.list = rows[g.kind])
      /\ ~g.lag /\ ~g.crowded /\ ~Loading(p) => g.acked <= g.upto

PageInv(p) == PageShape(p) /\ PageTold(p)

\* The same for an answer on its way; calls and loads outlive the page they came from.
CallInv(c) ==
  /\ c.at <= written[c.kind]
  /\ c.mount <= pages[c.page].mount /\ (Live(c) => c.kind = pages[c.page].kind)

LoadInv(l) ==
  /\ l.at <= written[l.kind] /\ l.upto <= written[l.kind]
  /\ l.step = "answered" /\ l.upto = written[l.kind] => l.got = rows[l.kind]
  /\ l.mount <= pages[l.page].mount /\ (Live(l) => l.kind = pages[l.page].kind)
  /\ Live(l) /\ ~pages[l.page].crowded => pages[l.page].acked <= l.upto

PagesInv == pages \in [Page -> Display] /\ \A p \in Page : PageInv(p)
CallsInv == calls \subseteq Call /\ \A c \in calls : CallInv(c)
LoadsInv == loads \subseteq Load /\ \A l \in loads : LoadInv(l)
ListsInv == PagesInv /\ CallsInv /\ LoadsInv

---------------------------------------------------------------------------
(* The tables *)

\* What is compared is stable: a table that was not written is the same, an id that is
\* gone stays away, and a view is lost only with its notice.
TablesStep ==
  /\ scenario' = scenario /\ lastRow <= lastRow'
  /\ \A k \in Kind : written[k] <= written'[k] /\ (written'[k] = written[k] => rows'[k] = rows[k])
  /\ \A x \in Nat : x <= lastRow /\ ~Kept("notice", x) => ~Kept("notice", x)'
  /\ \A x \in views : x \in views' \/ ~Kept("notice", x)'

\* The steps of a page's mount: a page shown again is a new mount.
PageStep(p) ==
  /\ pages[p].mount <= pages'[p].mount
  /\ pages'[p].kind # none /\ pages'[p].mount = pages[p].mount => pages'[p].kind = pages[p].kind

\* Nothing written, nothing to do.
LEMMA TablesSame == TablesInv /\ UNCHANGED <<scenario, tables>> => TablesInv' /\ TablesStep /\ views' \subseteq views
  BY DEF TablesInv, TablesStep, tables, Kept

\* A step that is counted.
LEMMA Counted ==
  ASSUME NEW c \in Steps, CountInv, Once(c)
  PROVE  CountInv'
  BY DEF CountInv, Once

\* A write of one kind is a step of the tables.
LEMMA StoredStep ==
  ASSUME TablesInv, NEW k \in Kind, NEW S \in SUBSET Row,
         rows' = [rows EXCEPT ![k] = S], written' = [written EXCEPT ![k] = @ + 1],
         scenario' = scenario, lastRow' \in Nat, lastRow <= lastRow',
         IsFiniteSet(S), \A r, q \in S : r.id = q.id => r = q, \A r \in S : r.id <= lastRow',
         \A r \in S : r.id <= lastRow => \E q \in rows[k] : q.id = r.id,
         views' \subseteq views,
         views' \subseteq {r.id : r \in rows'["notice"]},
         \A x \in views : x \in views' \/ ~Kept("notice", x)'
  PROVE  TablesInv' /\ TablesStep
<1>1. rows' \in [Kind -> SUBSET Row] /\ written' \in [Kind -> Nat]
  BY DEF TablesInv
<1>2. rows'[k] = S /\ written'[k] = written[k] + 1
  BY DEF TablesInv
<1>3. \A j \in Kind : j # k => rows'[j] = rows[j] /\ written'[j] = written[j]
  BY DEF TablesInv
<1>4. TablesInv'
  <2>1. ASSUME NEW j \in Kind
        PROVE  IsFiniteSet(rows'[j]) /\ (\A r \in rows'[j] : r.id <= lastRow') /\ \A r, q \in rows'[j] : r.id = q.id => r = q
    <3>1. CASE j = k
      BY <3>1, <1>2
    <3>2. CASE j # k
      <4>1. IsFiniteSet(rows[j]) /\ rows[j] \subseteq Row /\ (\A r \in rows[j] : r.id <= lastRow) /\ \A r, q \in rows[j] : r.id = q.id => r = q
        BY DEF TablesInv
      <4>2. lastRow \in Nat
        BY DEF TablesInv
      <4>3. \A r \in rows[j] : r.id \in Nat
        BY <4>1 DEF Row
      <4>4. \A r \in rows[j] : r.id <= lastRow'
        BY <4>1, <4>2, <4>3
      <4> QED BY <4>1, <4>4, <3>2, <1>3
    <3> QED BY <3>1, <3>2
  <2> QED BY <2>1, <1>1 DEF TablesInv
<1>5. \A j \in Kind : written[j] <= written'[j] /\ (written'[j] = written[j] => rows'[j] = rows[j])
  <2>1. \A j \in Kind : written[j] \in Nat
    BY DEF TablesInv
  <2> QED BY <2>1, <1>2, <1>3
<1>6. ASSUME NEW x \in Nat, x <= lastRow, ~Kept("notice", x)
      PROVE  ~Kept("notice", x)'
  <2>1. CASE k = "notice"
    BY <2>1, <1>2, <1>6 DEF Kept
  <2>2. CASE k # "notice"
    BY <2>2, <1>3, <1>6 DEF Kept, Kind
  <2> QED BY <2>1, <2>2
<1> QED BY <1>4, <1>5, <1>6 DEF TablesStep

LEMMA CreatedStep ==
  ASSUME TablesInv, NEW c \in Call, Created(c)
  PROVE  TablesInv' /\ TablesStep /\ views' \subseteq views /\ written' = [written EXCEPT ![c.kind] = @ + 1]
<1> DEFINE new == [id |-> lastRow + 1, mark |-> c.mark]
<1> DEFINE S == rows[c.kind] \cup {new}
<1>1. c.kind \in Kind /\ c.mark \in Mark
  BY DEF Call
<1>2. lastRow \in Nat /\ rows[c.kind] \subseteq Row /\ IsFiniteSet(rows[c.kind]) /\ \A r \in rows[c.kind] : r.id <= lastRow
  BY <1>1 DEF TablesInv
<1>3. new \in Row
  BY <1>1, <1>2 DEF Row
<1>4. /\ rows' = [rows EXCEPT ![c.kind] = S] /\ written' = [written EXCEPT ![c.kind] = @ + 1]
      /\ scenario' = scenario /\ lastRow' = lastRow + 1 /\ views' = views
  BY DEF Created, Stores, Goes
<1>5. IsFiniteSet(S)
  BY <1>2, FS_AddElement
<1>6. \A r \in rows[c.kind] : r.id \in Nat /\ r.id <= lastRow
  BY <1>2 DEF Row
<1>7. \A r, q \in rows[c.kind] : r.id = q.id => r = q
  BY <1>1 DEF TablesInv
<1>8. \A r, q \in S : r.id = q.id => r = q
  <2> TAKE r, q \in S
  <2>1. new.id = lastRow + 1
    OBVIOUS
  <2> HIDE DEF new
  <2> QED BY <2>1, <1>2, <1>6, <1>7
<1>9. \A r \in S : r.id <= lastRow' /\ (r.id <= lastRow => \E q \in rows[c.kind] : q.id = r.id)
  BY <1>2, <1>4, <1>6
<1>10. views' \subseteq {r.id : r \in rows'["notice"]}
  <2>1. rows["notice"] \subseteq rows'["notice"]
    BY <1>1, <1>4 DEF TablesInv, Kind
  <2> QED BY <2>1, <1>4 DEF TablesInv
<1> HIDE DEF S, new
<1>11. S \in SUBSET Row /\ lastRow' \in Nat /\ lastRow <= lastRow' /\ views' \subseteq views
  BY <1>2, <1>3, <1>4 DEF S
<1>12. \A x \in views : x \in views' \/ ~Kept("notice", x)'
  BY <1>4
<1>13. TablesInv' /\ TablesStep
  BY <1>1, <1>4, <1>5, <1>8, <1>9, <1>10, <1>11, <1>12, StoredStep
<1> QED BY <1>13, <1>4, <1>11

LEMMA UpdatedStep ==
  ASSUME TablesInv, NEW c \in Call, Updated(c)
  PROVE  TablesInv' /\ TablesStep /\ views' \subseteq views /\ written' = [written EXCEPT ![c.kind] = @ + 1]
<1> DEFINE S == {IF r.id = c.id THEN [r EXCEPT !.mark = c.mark] ELSE r : r \in rows[c.kind]}
<1>1. c.kind \in Kind /\ c.mark \in Mark
  BY DEF Call
<1>2. /\ lastRow \in Nat /\ rows[c.kind] \subseteq Row /\ IsFiniteSet(rows[c.kind])
      /\ \A r \in rows[c.kind] : r.id <= lastRow
      /\ \A r, q \in rows[c.kind] : r.id = q.id => r = q
  BY <1>1 DEF TablesInv
<1>3. /\ rows' = [rows EXCEPT ![c.kind] = S] /\ written' = [written EXCEPT ![c.kind] = @ + 1]
      /\ scenario' = scenario /\ lastRow' = lastRow /\ views' = views
  BY DEF Updated, Stores, Goes
<1>4. IsFiniteSet(S)
  <2> DEFINE f == [r \in rows[c.kind] |-> IF r.id = c.id THEN [r EXCEPT !.mark = c.mark] ELSE r]
  <2>1. f \in Surjection(rows[c.kind], S)
    BY DEF Surjection
  <2> QED BY <2>1, <1>2, FS_Surjection
<1>5. \A r \in rows[c.kind] : LET u == IF r.id = c.id THEN [r EXCEPT !.mark = c.mark] ELSE r IN
         u \in Row /\ u.id = r.id
  BY <1>1, <1>2 DEF Row
<1>6. \A u \in S : \E r \in rows[c.kind] : u = (IF r.id = c.id THEN [r EXCEPT !.mark = c.mark] ELSE r) /\ u.id = r.id
  BY <1>5
<1>7. \A r \in rows[c.kind] : \E u \in S : u.id = r.id
  BY <1>5
<1>8. \A r, q \in S : r.id = q.id => r = q
  BY <1>2, <1>6
<1>9. S \in SUBSET Row
  BY <1>5
<1> HIDE DEF S
<1>10. \A r \in S : r.id <= lastRow' /\ (r.id <= lastRow => \E q \in rows[c.kind] : q.id = r.id)
  BY <1>2, <1>3, <1>6
<1>11. views' \subseteq {r.id : r \in rows'["notice"]}
  <2>1. \A r \in rows["notice"] : \E u \in rows'["notice"] : u.id = r.id
    BY <1>1, <1>3, <1>7 DEF TablesInv, Kind
  <2> QED BY <2>1, <1>3 DEF TablesInv
<1>12. lastRow' \in Nat /\ lastRow <= lastRow' /\ views' \subseteq views
  BY <1>2, <1>3
<1>13. TablesInv' /\ TablesStep
  BY <1>1, <1>3, <1>4, <1>8, <1>9, <1>10, <1>11, <1>12, StoredStep
<1> QED BY <1>13, <1>3

LEMMA RemovedStep ==
  ASSUME TablesInv, NEW c \in Call, Removed(c)
  PROVE  TablesInv' /\ TablesStep /\ views' \subseteq views /\ written' = [written EXCEPT ![c.kind] = @ + 1]
<1> DEFINE S == {r \in rows[c.kind] : r.id # c.id}
<1>1. c.kind \in Kind
  BY DEF Call
<1>2. /\ lastRow \in Nat /\ rows[c.kind] \subseteq Row /\ IsFiniteSet(rows[c.kind])
      /\ \A r \in rows[c.kind] : r.id <= lastRow
      /\ \A r, q \in rows[c.kind] : r.id = q.id => r = q
  BY <1>1 DEF TablesInv
<1>3. /\ rows' = [rows EXCEPT ![c.kind] = S] /\ written' = [written EXCEPT ![c.kind] = @ + 1]
      /\ scenario' = scenario /\ lastRow' = lastRow
      /\ views' = IF c.kind = "notice" THEN views \ {c.id} ELSE views
  BY DEF Removed, Stores, Goes
<1>4. IsFiniteSet(S)
  BY <1>2, FS_Subset
<1>5. views' \subseteq {r.id : r \in rows'["notice"]} /\ \A x \in views : x \in views' \/ ~Kept("notice", x)'
  <2>1. views \subseteq {r.id : r \in rows["notice"]}
    BY DEF TablesInv
  <2>2. CASE c.kind = "notice"
    <3>1. rows'["notice"] = S
      BY <2>2, <1>1, <1>3 DEF TablesInv
    <3> QED BY <3>1, <2>1, <2>2, <1>3 DEF Kept
  <2>3. CASE c.kind # "notice"
    <3>1. rows'["notice"] = rows["notice"]
      BY <2>3, <1>1, <1>3 DEF TablesInv, Kind
    <3> QED BY <3>1, <2>1, <2>3, <1>3
  <2> QED BY <2>2, <2>3
<1>6. /\ S \in SUBSET Row /\ \A r, q \in S : r.id = q.id => r = q
      /\ \A r \in S : r.id <= lastRow' /\ (r.id <= lastRow => \E q \in rows[c.kind] : q.id = r.id)
  BY <1>2, <1>3
<1> HIDE DEF S
<1>7. lastRow' \in Nat /\ lastRow <= lastRow' /\ views' \subseteq views
  BY <1>2, <1>3
<1>8. TablesInv' /\ TablesStep
  BY <1>1, <1>3, <1>4, <1>5, <1>6, <1>7, StoredStep
<1> QED BY <1>8, <1>3, <1>7

---------------------------------------------------------------------------
(* The lists *)

LEMMA PageTyped ==
  ASSUME PagesInv, NEW p \in Page
  PROVE  /\ pages[p] \in Display /\ PageInv(p)
         /\ pages[p].mount \in Nat /\ pages[p].acked \in Nat /\ pages[p].upto \in Nat
         /\ pages[p].kind # none => pages[p].kind \in Kind
<1>1. pages[p] \in Display /\ PageInv(p)
  BY DEF PagesInv
<1> QED BY <1>1 DEF Display

LEMMA LoadTyped ==
  ASSUME LoadsInv, NEW l \in loads
  PROVE  /\ LoadInv(l) /\ l.page \in Page /\ l.kind \in Kind /\ l.mount \in Nat /\ l.at \in Nat /\ l.upto \in Nat
         /\ l \in Load
  BY DEF LoadsInv, Load

LEMMA CallTyped ==
  ASSUME CallsInv, NEW c \in calls
  PROVE  /\ CallInv(c) /\ c.page \in Page /\ c.kind \in Kind /\ c.mount \in Nat /\ c.at \in Nat /\ c.mark \in Mark
         /\ c \in Call
  BY DEF CallsInv, Call

\* A call on its way stays good while tables are written and pages come and go.
LEMMA CallStays ==
  ASSUME TablesInv, TablesInv', TablesStep, PagesInv, pages' \in [Page -> Display], \A p \in Page : PageStep(p),
         NEW c, c.page \in Page, c.kind \in Kind, c.mount \in Nat, c.at \in Nat, CallInv(c)
  PROVE  CallInv(c)'
<1> DEFINE p == c.page
<1>1. written[c.kind] \in Nat /\ written'[c.kind] \in Nat /\ written[c.kind] <= written'[c.kind]
  BY DEF TablesInv, TablesStep
<1>2. c.at <= written'[c.kind]
  BY <1>1 DEF CallInv
<1>3. pages[p].mount \in Nat /\ pages'[p].mount \in Nat /\ pages[p].mount <= pages'[p].mount
  BY PageTyped DEF Display, PageStep
<1>4. c.mount <= pages[p].mount
  BY DEF CallInv
<1>5. c.mount <= pages'[p].mount
  BY <1>3, <1>4
<1>6. ASSUME pages'[p].kind # none, pages'[p].mount = c.mount
      PROVE  c.kind = pages'[p].kind
  <2>1. pages'[p].mount = pages[p].mount
    BY <1>3, <1>4, <1>6
  <2>2. pages'[p].kind = pages[p].kind
    BY <2>1, <1>6 DEF PageStep
  <2> QED BY <2>1, <2>2, <1>6 DEF CallInv, Live
<1> QED BY <1>2, <1>5, <1>6 DEF CallInv, Live

LEMMA CallsStay ==
  ASSUME TablesInv, TablesInv', TablesStep, PagesInv, pages' \in [Page -> Display], \A p \in Page : PageStep(p),
         CallsInv, calls' \subseteq Call, \A c \in calls' : c \in calls \/ CallInv(c)'
  PROVE  CallsInv'
<1>2. ASSUME NEW c \in calls
      PROVE  CallInv(c)'
  BY <1>2, CallTyped, CallStays
<1> QED BY <1>2 DEF CallsInv

\* When the pages and the loads stay, they hold over any step of the tables.
LEMMA PagesStay ==
  ASSUME TablesInv, TablesInv', TablesStep, PagesInv, UNCHANGED <<pages, loads>>
  PROVE  PagesInv' /\ \A p \in Page : PageStep(p)
<1>1. pages' \in [Page -> Display]
  BY DEF PagesInv
<1>2. ASSUME NEW p \in Page
      PROVE  PageInv(p)' /\ PageStep(p)
  <2>1. Loading(p)' <=> Loading(p)
    BY DEF Loading, Live
  <2>2. pages[p].acked \in Nat /\ pages[p].upto \in Nat /\ pages[p].mount \in Nat /\ PageInv(p)
    BY PageTyped
  <2>3. pages[p].kind # none => pages[p].kind \in Kind
    BY PageTyped
  <2>4. \A k \in Kind : written[k] \in Nat /\ written'[k] \in Nat /\ written[k] <= written'[k]
                        /\ (written'[k] = written[k] => rows'[k] = rows[k])
    BY DEF TablesInv, TablesStep
  <2>5. pages'[p] = pages[p]
    OBVIOUS
  <2>6. PageShape(p)'
    BY <2>2, <2>5 DEF PageInv, PageShape
  <2>8. PageTold(p)'
    BY <2>1, <2>2, <2>3, <2>4, <2>5 DEF PageInv, PageTold
  <2>7. PageStep(p)
    BY <2>2, <2>5 DEF PageStep
  <2> QED BY <2>6, <2>7, <2>8 DEF PageInv
<1> QED BY <1>1, <1>2 DEF PagesInv

LEMMA LoadStays ==
  ASSUME TablesInv, TablesInv', TablesStep, NEW l \in Load, LoadInv(l), PagesInv,
         pages' \in [Page -> Display], PageStep(l.page),
         Live(l)' /\ ~pages'[l.page].crowded => pages'[l.page].acked = pages[l.page].acked /\ ~pages[l.page].crowded
  PROVE  LoadInv(l)'
<1> DEFINE p == l.page
<1>1. l.page \in Page /\ l.kind \in Kind /\ l.mount \in Nat /\ l.at \in Nat /\ l.upto \in Nat
  BY DEF Load
<1>2. /\ written[l.kind] \in Nat /\ written'[l.kind] \in Nat /\ written[l.kind] <= written'[l.kind]
      /\ written'[l.kind] = written[l.kind] => rows'[l.kind] = rows[l.kind]
  BY <1>1 DEF TablesInv, TablesStep
<1>3. /\ l.at <= written'[l.kind] /\ l.upto <= written'[l.kind]
      /\ l.step = "answered" /\ l.upto = written'[l.kind] => l.got = rows'[l.kind]
  BY <1>1, <1>2 DEF LoadInv
<1>4. pages[p].mount \in Nat /\ pages'[p].mount \in Nat /\ pages[p].mount <= pages'[p].mount
  BY <1>1, PageTyped DEF Display, PageStep
<1>5. l.mount <= pages[p].mount
  BY DEF LoadInv
<1>6. l.mount <= pages'[p].mount
  BY <1>1, <1>4, <1>5
<1>7. ASSUME Live(l)'
      PROVE  Live(l) /\ pages'[p].kind = pages[p].kind
  <2>1. pages'[p].kind # none /\ pages'[p].mount = l.mount
    BY <1>7 DEF Live
  <2>2. pages'[p].mount = pages[p].mount
    BY <2>1, <1>1, <1>4, <1>5
  <2>3. pages'[p].kind = pages[p].kind
    BY <2>1, <2>2 DEF PageStep
  <2> QED BY <2>1, <2>2, <2>3 DEF Live
<1>8. Live(l)' => l.kind = pages'[p].kind
  BY <1>7 DEF LoadInv
<1>9. Live(l)' /\ ~pages'[p].crowded => pages'[p].acked <= l.upto
  BY <1>7 DEF LoadInv
<1> QED BY <1>3, <1>6, <1>8, <1>9 DEF LoadInv

LEMMA LoadsStay ==
  ASSUME TablesInv, TablesInv', TablesStep, PagesInv, pages' \in [Page -> Display], \A p \in Page : PageStep(p),
         LoadsInv, loads' \subseteq Load, \A l \in loads' : l \in loads \/ LoadInv(l)',
         \A l \in loads : Live(l)' /\ ~pages'[l.page].crowded /\ l \in loads' =>
           pages'[l.page].acked = pages[l.page].acked /\ ~pages[l.page].crowded
  PROVE  LoadsInv'
<1>2. ASSUME NEW l \in loads, l \in loads'
      PROVE  LoadInv(l)'
  <2>1. l \in Load /\ LoadInv(l) /\ l.page \in Page
    BY LoadTyped
  <2> QED BY <2>1, <1>2, LoadStays
<1> QED BY <1>2 DEF LoadsInv

\* A step within one page that keeps what it was told and what it shows.
LEMMA PageTurned ==
  ASSUME TablesInv, PagesInv, LoadsInv, NEW p \in Page, NEW g \in Display, pages' = [pages EXCEPT ![p] = g],
         UNCHANGED <<scenario, tables, loads>>,
         g.kind = pages[p].kind, g.mount = pages[p].mount, g.list = pages[p].list, g.upto = pages[p].upto,
         g.acked = pages[p].acked, g.lag = pages[p].lag, g.crowded = pages[p].crowded,
         g.table \in {g.list, {r \in g.list : r.mark = g.filter}},
         g.kind # none
  PROVE  PagesInv' /\ LoadsInv' /\ (\A q \in Page : PageStep(q)) /\ pages' \in [Page -> Display]
<1>1. pages' \in [Page -> Display] /\ pages'[p] = g /\ \A q \in Page : q # p => pages'[q] = pages[q]
  BY DEF PagesInv
<1>2. \A q \in Page : /\ pages'[q].kind = pages[q].kind /\ pages'[q].mount = pages[q].mount
                      /\ pages'[q].list = pages[q].list /\ pages'[q].upto = pages[q].upto
                      /\ pages'[q].acked = pages[q].acked /\ pages'[q].lag = pages[q].lag
                      /\ pages'[q].crowded = pages[q].crowded
  BY <1>1
<1>3. \A l \in loads : Live(l)' <=> Live(l)
  BY <1>2, LoadTyped DEF Live
<1>4. TablesInv' /\ TablesStep
  BY TablesSame
<1>5. ASSUME NEW q \in Page
      PROVE  PageInv(q)' /\ PageStep(q)
  <2>1. Loading(q)' <=> Loading(q)
    BY <1>3 DEF Loading
  <2>2. PageInv(q) /\ pages[q].mount \in Nat
    BY PageTyped
  <2>3. PageStep(q)
    BY <1>2, <2>2 DEF PageStep
  <2>4. written' = written /\ rows' = rows
    BY DEF tables
  <2>5. PageShape(q)'
    <3>1. CASE q = p
      BY <3>1, <1>1 DEF PageShape
    <3>2. CASE q # p
      BY <3>2, <1>1, <2>2 DEF PageInv, PageShape
    <3> QED BY <3>1, <3>2
  <2>6. PageTold(q)'
    BY <1>2, <2>1, <2>2, <2>4 DEF PageInv, PageTold
  <2> QED BY <2>3, <2>5, <2>6 DEF PageInv
<1>6. PagesInv'
  BY <1>1, <1>5 DEF PagesInv
<1>7. LoadsInv'
  <2>1. \A l \in loads : pages'[l.page].acked = pages[l.page].acked /\ pages'[l.page].crowded = pages[l.page].crowded
    BY <1>2, LoadTyped
  <2>2. loads' = loads /\ loads \subseteq Load
    BY DEF LoadsInv
  <2> QED BY <1>1, <1>4, <1>5, <2>1, <2>2, LoadsStay
<1> QED BY <1>1, <1>5, <1>6, <1>7

\* What a step of Records keeps: the tables, the lists and the count, and what the popup and the bell rely on.
RecordsInv == TablesInv /\ CountInv /\ ListsInv
RecordsStep == RecordsInv' /\ TablesStep /\ views' \subseteq views

\* A page's own clicks.
LEMMA TurnsStep ==
  ASSUME RecordsInv, NEW p \in Page, NEW g \in Display, pages' = [pages EXCEPT ![p] = g],
         UNCHANGED <<scenario, tables, loads>>, CountInv', calls' \subseteq Call, \A c \in calls' : c \in calls \/ CallInv(c)',
         g.kind = pages[p].kind, g.mount = pages[p].mount, g.list = pages[p].list, g.upto = pages[p].upto,
         g.acked = pages[p].acked, g.lag = pages[p].lag, g.crowded = pages[p].crowded,
         g.table \in {g.list, {r \in g.list : r.mark = g.filter}},
         g.kind # none
  PROVE  RecordsStep
<1>1. TablesInv' /\ TablesStep /\ views' \subseteq views
  BY TablesSame DEF RecordsInv
<1>2. PagesInv' /\ LoadsInv' /\ (\A q \in Page : PageStep(q)) /\ pages' \in [Page -> Display]
  BY PageTurned DEF RecordsInv, ListsInv
<1>3. CallsInv'
  BY <1>1, <1>2, CallsStay DEF RecordsInv, ListsInv
<1> QED BY <1>1, <1>2, <1>3 DEF RecordsStep, RecordsInv, ListsInv

\* Dialogs open over a page that is there.
LEMMA DialogStep ==
  ASSUME RecordsInv, NEW p \in Page, NEW g, pages' = [pages EXCEPT ![p] = g],
         UNCHANGED <<scenario, tables, calls, loads, count>>,
         NEW d \in {"none", "menu", "create", "edit"}, NEW r \in Row \cup {none},
         g = [pages[p] EXCEPT !.dialog = d, !.chosen = r],
         pages[p].kind # none
  PROVE  RecordsStep
<1>1. pages[p] \in Display /\ PageInv(p) /\ calls \subseteq Call
  BY PageTyped DEF RecordsInv, ListsInv, CallsInv
<1>2. g \in Display
  BY <1>1 DEF Display
<1>3. /\ g.kind = pages[p].kind /\ g.mount = pages[p].mount /\ g.list = pages[p].list /\ g.upto = pages[p].upto
      /\ g.acked = pages[p].acked /\ g.lag = pages[p].lag /\ g.crowded = pages[p].crowded
      /\ g.table = pages[p].table /\ g.filter = pages[p].filter
  BY <1>1 DEF Display
<1>4. g.table \in {g.list, {x \in g.list : x.mark = g.filter}}
  BY <1>1, <1>3 DEF PageInv, PageShape
<1>5. CountInv'
  BY DEF RecordsInv, CountInv
<1>6. g.kind # none
  BY <1>3
<1> QED BY <1>1, <1>2, <1>3, <1>4, <1>5, <1>6, TurnsStep

\* A call is sent; the page may close its menu.
LEMMA SendsStep ==
  ASSUME RecordsInv, NEW p \in Page, pages[p].kind # none,
         NEW op \in {"create", "edit", "delete"}, NEW id \in Nat, NEW m \in Mark, Sends(p, op, id, m),
         NEW d \in {"none", "menu", "create", "edit"}, pages' = [pages EXCEPT ![p].dialog = d] \/ pages' = pages
  PROVE  RecordsStep
<1>1. pages[p] \in Display /\ PageInv(p) /\ calls \subseteq Call /\ pages[p].kind \in Kind /\ pages[p].mount \in Nat
  BY PageTyped DEF RecordsInv, ListsInv, CallsInv
<1>2. CountInv' /\ count'["writes"] \in Nat
  <2>1. CountInv'
    BY Counted DEF Sends, RecordsInv, Steps
  <2> QED BY <2>1 DEF CountInv, Steps
<1>3. PICK c \in Call : calls' = calls \cup {c} /\ c.at = 0 /\ c.page = p /\ c.kind = pages[p].kind /\ c.mount = pages[p].mount
  <2> DEFINE c == [n |-> count'["writes"], page |-> p, kind |-> pages[p].kind, mount |-> pages[p].mount,
                   op |-> op, id |-> id, mark |-> m, at |-> 0, step |-> "sent"]
  <2>1. c \in Call
    BY <1>1, <1>2 DEF Call
  <2>2. c.at = 0 /\ c.page = p /\ c.kind = pages[p].kind /\ c.mount = pages[p].mount
    OBVIOUS
  <2>3. calls' = calls \cup {c}
    BY DEF Sends
  <2> QED BY <2>1, <2>2, <2>3
<1>4. UNCHANGED <<scenario, tables, loads>>
  BY DEF Sends
<1> DEFINE e == IF pages' = pages THEN pages[p].dialog ELSE d
<1> DEFINE g == [pages[p] EXCEPT !.dialog = e]
<1>6. e \in {"none", "menu", "create", "edit"}
  BY <1>1 DEF Display
<1>7. pages' = [pages EXCEPT ![p] = g]
  <2>1. CASE pages' = pages
    BY <2>1, <1>1 DEF RecordsInv, ListsInv, PagesInv, Display
  <2>2. CASE pages' # pages
    BY <2>2
  <2> QED BY <2>1, <2>2
<1> HIDE DEF e
<1>8. g \in Display
  BY <1>1, <1>6 DEF Display
<1>9. /\ g.kind = pages[p].kind /\ g.mount = pages[p].mount /\ g.list = pages[p].list /\ g.upto = pages[p].upto
      /\ g.acked = pages[p].acked /\ g.lag = pages[p].lag /\ g.crowded = pages[p].crowded
      /\ g.table = pages[p].table /\ g.filter = pages[p].filter
  BY <1>1 DEF Display
<1> HIDE DEF g
<1>10. g.table \in {g.list, {x \in g.list : x.mark = g.filter}} /\ g.kind # none
  BY <1>1, <1>9 DEF PageInv, PageShape
<1>11. CallInv(c)'
  <2>1. pages'[p] = g
    BY <1>7 DEF RecordsInv, ListsInv, PagesInv
  <2>2. 0 <= written'[c.kind]
    <3>1. written' = written /\ written \in [Kind -> Nat]
      BY <1>4 DEF tables, RecordsInv, TablesInv
    <3> QED BY <3>1, <1>1, <1>3
  <2>3. c.at <= written'[c.kind]
    BY <2>2, <1>3
  <2>4. c.mount <= pages'[c.page].mount
    BY <2>1, <1>1, <1>3, <1>9
  <2>5. c.kind = pages'[c.page].kind
    BY <2>1, <1>3, <1>9
  <2> QED BY <2>3, <2>4, <2>5 DEF CallInv
<1>12. calls' \subseteq Call /\ \A x \in calls' : x \in calls \/ CallInv(x)'
  BY <1>1, <1>3, <1>11
<1> QED BY <1>2, <1>4, <1>7, <1>8, <1>9, <1>10, <1>12, TurnsStep

\* The dialogs, the filter and the writes of one page.
LEMMA ClicksStep ==
  ASSUME RecordsInv, NEW p \in Page,
         \/ handleAddClick(p)
         \/ \E r \in pages[p].table : handleEditClick(p, r) \/ handleMenuOpen(p, r)
         \/ handleOpenEditDialog(p)
         \/ CloseDialog(p)
  PROVE  RecordsStep
<1>1. pages[p] \in Display /\ PageInv(p)
  BY PageTyped DEF RecordsInv, ListsInv
<1>2. /\ pages[p].kind \in Kind \cup {none} /\ pages[p].chosen \in Row \cup {none} /\ pages[p].table \subseteq Row
      /\ pages[p].dialog \in {"none", "menu", "create", "edit"}
  BY <1>1 DEF Display
<1>3. pages[p].kind = none => pages[p].dialog = "none" /\ pages[p].table = {}
  BY <1>1 DEF PageInv, PageShape
<1>4. pages[p].kind # none
  BY <1>3 DEF handleAddClick, handleEditClick, handleMenuOpen, handleOpenEditDialog, CloseDialog
<1>5. PICK d \in {"none", "menu", "create", "edit"}, r \in Row \cup {none} :
        Turns(p, [pages[p] EXCEPT !.dialog = d, !.chosen = r])
  <2>1. [pages[p] EXCEPT !.chosen = pages[p].chosen] = pages[p]
    BY <1>1 DEF Display
  <2>2. \A d \in {"none", "menu", "create", "edit"} :
          [pages[p] EXCEPT !.dialog = d] = [pages[p] EXCEPT !.dialog = d, !.chosen = pages[p].chosen]
    BY <1>1 DEF Display
  <2>3. CASE handleAddClick(p)
    BY <2>2, <2>3, <1>2 DEF handleAddClick
  <2>4. CASE handleOpenEditDialog(p)
    BY <2>2, <2>4, <1>2 DEF handleOpenEditDialog
  <2>5. CASE CloseDialog(p)
    BY <2>5, <1>2 DEF CloseDialog
  <2>6. CASE \E r \in pages[p].table : handleEditClick(p, r) \/ handleMenuOpen(p, r)
    BY <2>6, <1>2 DEF handleEditClick, handleMenuOpen
  <2> QED BY <2>3, <2>4, <2>5, <2>6
<1>6. UNCHANGED <<scenario, tables, calls, loads, count>>
  BY <1>5 DEF Turns
<1>7. pages' = [pages EXCEPT ![p] = [pages[p] EXCEPT !.dialog = d, !.chosen = r]]
  BY <1>5 DEF Turns
<1> QED BY <1>4, <1>6, <1>7, DialogStep

LEMMA FilterStep ==
  ASSUME RecordsInv, NEW p \in Page,
         (\E m \in scenario.marks : handleApplyFilter(p, m)) \/ handleResetFilter(p)
  PROVE  RecordsStep
<1>1. pages[p] \in Display /\ PageInv(p) /\ calls \subseteq Call /\ pages \in [Page -> Display]
  BY PageTyped DEF RecordsInv, ListsInv, CallsInv, PagesInv
<1>2. scenario.marks \subseteq Mark /\ none \notin Kind
  BY RecordsAssumption DEF RecordsInv, TablesInv
<1>3. pages[p].kind = none => pages[p].dialog = "none" /\ pages[p].table = {}
  BY <1>1 DEF PageInv, PageShape
<1>4. CASE handleResetFilter(p)
  <2> DEFINE g == [pages[p] EXCEPT !.filter = "", !.table = pages[p].list]
  <2>1. /\ pages' = [pages EXCEPT ![p] = g] /\ UNCHANGED <<scenario, tables, calls, loads, count>>
        /\ pages[p].filter # ""
    BY <1>4, <1>1 DEF handleResetFilter, Turns, Display
  <2>2. /\ g.kind = pages[p].kind /\ g.mount = pages[p].mount /\ g.list = pages[p].list /\ g.upto = pages[p].upto
        /\ g.acked = pages[p].acked /\ g.lag = pages[p].lag /\ g.crowded = pages[p].crowded /\ g.table = g.list
        /\ g.dialog = pages[p].dialog /\ g \in Display
    BY <1>1 DEF Display
  <2> HIDE DEF g
  <2>3. g.kind # none
    BY <2>1, <2>2, <1>1 DEF PageInv, PageShape
  <2>4. CountInv'
    BY <2>1 DEF RecordsInv, CountInv
  <2> QED BY <1>1, <2>1, <2>2, <2>3, <2>4, TurnsStep
<1>5. ASSUME NEW m \in scenario.marks, handleApplyFilter(p, m)
      PROVE  RecordsStep
  <2> DEFINE g == [pages[p] EXCEPT !.filter = m, !.table = {r \in pages[p].list : r.mark = m}]
  <2>1. pages' = [pages EXCEPT ![p] = g] /\ UNCHANGED <<scenario, tables, calls, loads>> /\ pages[p].kind = "support"
    BY <1>5, <1>1 DEF handleApplyFilter
  <2>2. CountInv'
    BY <1>5, Counted DEF handleApplyFilter, RecordsInv, Steps
  <2>3. /\ g.kind = pages[p].kind /\ g.mount = pages[p].mount /\ g.list = pages[p].list /\ g.upto = pages[p].upto
        /\ g.acked = pages[p].acked /\ g.lag = pages[p].lag /\ g.crowded = pages[p].crowded
        /\ g.table = {r \in g.list : r.mark = g.filter}
    BY <1>1 DEF Display
  <2>4. g \in Display
    BY <1>1, <1>2 DEF Display
  <2> HIDE DEF g
  <2>5. g.kind # none
    BY <2>1, <2>3, <1>2 DEF Kind
  <2> QED BY <1>1, <2>1, <2>2, <2>3, <2>4, <2>5, TurnsStep
<1> QED BY <1>4, <1>5

LEMMA WritesStep ==
  ASSUME RecordsInv, NEW p \in Page,
         \/ \E m \in scenario.marks : handleCreate(p, m) \/ handleUpdate(p, m)
         \/ \E r \in pages[p].table : handleDelete(p, r)
  PROVE  RecordsStep
<1>1. pages[p] \in Display /\ PageInv(p) /\ pages \in [Page -> Display]
  BY PageTyped DEF RecordsInv, ListsInv, PagesInv
<1>2. scenario.marks \subseteq Mark
  BY RecordsAssumption DEF RecordsInv, TablesInv
<1>3. pages[p].kind = none => pages[p].dialog = "none" /\ pages[p].table = {}
  BY <1>1 DEF PageInv, PageShape
<1>4. pages[p].chosen \in Row \cup {none} /\ pages[p].table \subseteq Row
  BY <1>1 DEF Display
<1>5. PICK op \in {"create", "edit", "delete"}, id \in Nat, m \in Mark :
        /\ Sends(p, op, id, m) /\ pages[p].kind # none
        /\ (\E d \in {"none", "menu", "create", "edit"} : pages' = [pages EXCEPT ![p].dialog = d]) \/ pages' = pages
  <2>1. ASSUME NEW m \in scenario.marks, handleCreate(p, m)
        PROVE  Sends(p, "create", 0, m) /\ pages[p].kind # none /\ pages' = pages
    BY <2>1, <1>3 DEF handleCreate
  <2>2. ASSUME NEW m \in scenario.marks, handleUpdate(p, m)
        PROVE  Sends(p, "edit", pages[p].chosen.id, m) /\ pages[p].kind # none /\ pages' = pages /\ pages[p].chosen.id \in Nat
    BY <2>2, <1>3, <1>4 DEF handleUpdate, Row
  <2>3. ASSUME NEW r \in pages[p].table, handleDelete(p, r)
        PROVE  /\ Sends(p, "delete", r.id, r.mark) /\ pages[p].kind # none /\ r.id \in Nat /\ r.mark \in Mark
               /\ (\E d \in {"none", "menu", "create", "edit"} : pages' = [pages EXCEPT ![p].dialog = d]) \/ pages' = pages
    BY <2>3, <1>3, <1>4 DEF handleDelete, Row
  <2> QED BY <2>1, <2>2, <2>3, <1>2
<1>6. CASE pages' = pages
  BY <1>5, <1>6, SendsStep
<1>7. ASSUME NEW d \in {"none", "menu", "create", "edit"}, pages' = [pages EXCEPT ![p].dialog = d]
      PROVE  RecordsStep
  BY <1>5, <1>7, SendsStep
<1> QED BY <1>5, <1>6, <1>7

\* A list that is asked for now is as new as its table.
LEMMA FetchTyped ==
  ASSUME RecordsInv, NEW p \in Page, NEW k \in Kind, NEW mount \in Nat, NEW n \in Nat, NEW at \in Nat
  PROVE  /\ Fetch(p, k, mount, n, at) \in Load
         /\ Fetch(p, k, mount, n, at).page = p /\ Fetch(p, k, mount, n, at).kind = k
         /\ Fetch(p, k, mount, n, at).mount = mount /\ Fetch(p, k, mount, n, at).call = n
         /\ Fetch(p, k, mount, n, at).at = at /\ Fetch(p, k, mount, n, at).step = "asked"
         /\ Fetch(p, k, mount, n, at).upto = written[k]
<1>1. written[k] \in Nat
  BY DEF RecordsInv, TablesInv
<1> QED BY <1>1 DEF Fetch, Load

\* A page is shown anew: a new mount, nothing shown yet.
LEMMA OpenPageStep ==
  ASSUME RecordsInv, NEW p \in Page, NEW k \in Kind, OpenPage(p, k)
  PROVE  RecordsStep
<1>1. pages[p].mount \in Nat /\ pages \in [Page -> Display] /\ k # none
  BY PageTyped, RecordsAssumption DEF RecordsInv, ListsInv, PagesInv
<1>2. PICK l \in Load : /\ loads' = loads \cup {l} /\ l.page = p /\ l.kind = k /\ l.mount = pages[p].mount + 1
                        /\ l.at = 0 /\ l.step = "asked" /\ l.upto = written[k]
  <2> DEFINE f == Fetch(p, k, pages[p].mount + 1, 0, 0)
  <2>1. pages[p].mount + 1 \in Nat
    BY <1>1
  <2>2. /\ f \in Load /\ f.page = p /\ f.kind = k /\ f.mount = pages[p].mount + 1
        /\ f.at = 0 /\ f.step = "asked" /\ f.upto = written[k]
    BY <2>1, FetchTyped
  <2>3. loads' = loads \cup {f}
    BY DEF OpenPage
  <2> QED BY <2>2, <2>3
<1> DEFINE g == [Blank EXCEPT !.kind = k, !.mount = pages[p].mount + 1]
<1>3. pages' = [pages EXCEPT ![p] = g] /\ UNCHANGED <<scenario, tables, calls>> /\ pages[p].kind = none
  BY DEF OpenPage
<1>4. CountInv'
  BY Counted DEF OpenPage, RecordsInv, Steps
<1>5. /\ g \in Display /\ g.kind = k /\ g.mount = pages[p].mount + 1 /\ g.lag = TRUE /\ g.acked = 0
      /\ g.table = g.list
  <2> DEFINE m == pages[p].mount + 1
  <2>1. m \in Nat
    BY <1>1
  <2> HIDE DEF m
  <2>2. g = [Blank EXCEPT !.kind = k, !.mount = m]
    BY DEF m
  <2>3. [Blank EXCEPT !.kind = k, !.mount = m] \in Display
    BY <2>1 DEF Blank, Display
  <2> QED BY <2>2, <2>3 DEF Blank, m
<1> HIDE DEF g
<1>6. TablesInv' /\ TablesStep /\ views' \subseteq views /\ written' = written
  BY <1>3, TablesSame DEF RecordsInv, tables
<1>7. pages' \in [Page -> Display] /\ pages'[p] = g /\ \A q \in Page : q # p => pages'[q] = pages[q]
  BY <1>1, <1>3, <1>5
<1>8. \A q \in Page : PageStep(q)
  <2>1. PageStep(p)
    BY <1>1, <1>5, <1>7 DEF PageStep
  <2>2. ASSUME NEW q \in Page, q # p
        PROVE  PageStep(q)
    <3>1. pages[q].mount \in Nat
      BY PageTyped DEF RecordsInv, ListsInv
    <3> QED BY <2>2, <3>1, <1>7 DEF PageStep
  <2> QED BY <2>1, <2>2
<1>9. \A k2 \in Kind : written[k2] \in Nat
  BY DEF RecordsInv, TablesInv
<1>10. PagesInv'
  <2>1. PageInv(p)'
    <3>1. PageShape(p)'
      BY <1>1, <1>5, <1>7 DEF PageShape
    <3>2. PageTold(p)'
      BY <1>1, <1>5, <1>6, <1>7, <1>9 DEF PageTold
    <3> QED BY <3>1, <3>2 DEF PageInv
  <2>2. ASSUME NEW q \in Page, q # p
        PROVE  PageInv(q)'
    <3>1. PageInv(q)
      BY PageTyped DEF RecordsInv, ListsInv
    <3>2. Loading(q)' <=> Loading(q)
      <4>1. \A x \in loads : x.page = q => (Live(x)' <=> Live(x))
        BY <2>2, <1>7 DEF Live
      <4> QED BY <4>1, <1>2, <2>2 DEF Loading
    <3>3. written' = written /\ rows' = rows /\ pages'[q] = pages[q]
      BY <1>3, <1>7, <2>2 DEF tables
    <3>4. PageShape(q)'
      <4>1. PageShape(q) /\ pages'[q] = pages[q]
        BY <3>1, <3>3 DEF PageInv
      <4> QED BY <4>1 DEF PageShape
    <3>5. PageTold(q)'
      BY <3>1, <3>2, <3>3 DEF PageInv, PageTold
    <3> QED BY <3>4, <3>5 DEF PageInv
  <2> QED BY <1>7, <2>1, <2>2 DEF PagesInv
<1>11. CallsInv'
  <2>1. calls' = calls /\ calls \subseteq Call
    BY <1>3 DEF RecordsInv, ListsInv, CallsInv
  <2> QED BY <2>1, <1>6, <1>7, <1>8, CallsStay DEF RecordsInv, ListsInv
<1>12. LoadsInv'
  <2>1. LoadInv(l)'
    BY <1>1, <1>2, <1>5, <1>6, <1>7, <1>9 DEF LoadInv, Live
  <2>2. \A x \in loads : Live(x)' => x.page # p
    <3> TAKE x \in loads
    <3>1. x.page \in Page /\ x.mount \in Nat /\ LoadInv(x)
      BY LoadTyped DEF RecordsInv, ListsInv
    <3> QED BY <3>1, <1>1, <1>5, <1>7 DEF LoadInv, Live
  <2>3. \A x \in loads : Live(x)' => pages'[x.page].acked = pages[x.page].acked /\ (~pages'[x.page].crowded => ~pages[x.page].crowded)
    BY <2>2, <1>7, LoadTyped DEF RecordsInv, ListsInv
  <2>4. loads' \subseteq Load /\ \A x \in loads' : x \in loads \/ LoadInv(x)'
    BY <2>1, <1>2 DEF RecordsInv, ListsInv, LoadsInv
  <2> QED BY <2>3, <2>4, <1>6, <1>7, <1>8, LoadsStay DEF RecordsInv, ListsInv
<1> QED BY <1>4, <1>6, <1>10, <1>11, <1>12 DEF RecordsStep, RecordsInv, ListsInv

LEMMA LeavePageStep ==
  ASSUME RecordsInv, NEW p \in Page, LeavePage(p)
  PROVE  RecordsStep
<1>1. pages[p].mount \in Nat /\ pages \in [Page -> Display]
  BY PageTyped DEF RecordsInv, ListsInv, PagesInv
<1> DEFINE g == [Blank EXCEPT !.mount = pages[p].mount]
<1>3. pages' = [pages EXCEPT ![p] = g] /\ UNCHANGED <<scenario, tables, calls>>
  BY DEF LeavePage
<1>4. CountInv'
  BY Counted DEF LeavePage, RecordsInv, Steps
<1>5. g \in Display /\ g.kind = none /\ g.mount = pages[p].mount /\ g.table = g.list /\ g.table = {} /\ g.dialog = "none" /\ g.filter = ""
  BY <1>1 DEF Blank, Display
<1> HIDE DEF g
<1>6. TablesInv' /\ TablesStep /\ views' \subseteq views /\ written' = written
  BY <1>3, TablesSame DEF RecordsInv, tables
<1>7. pages' \in [Page -> Display] /\ pages'[p] = g /\ \A q \in Page : q # p => pages'[q] = pages[q]
  BY <1>1, <1>3, <1>5
<1>8. \A q \in Page : PageStep(q)
  <2>1. PageStep(p)
    <3>1. pages'[p].kind = none /\ pages'[p].mount = pages[p].mount
      BY <1>5, <1>7
    <3> QED BY <3>1, <1>1 DEF PageStep
  <2>2. ASSUME NEW q \in Page, q # p
        PROVE  PageStep(q)
    <3>1. pages[q].mount \in Nat
      BY PageTyped DEF RecordsInv, ListsInv
    <3> QED BY <2>2, <3>1, <1>7 DEF PageStep
  <2> QED BY <2>1, <2>2
<1>9. \A x \in loads' : x \in loads
  BY DEF LeavePage
<1>10. PagesInv'
  <2>1. PageInv(p)'
    <3>1. PageShape(p)'
      <4>1. pages'[p].table = pages'[p].list
        BY <1>5, <1>7
      <4> QED BY <4>1, <1>5, <1>7 DEF PageShape
    <3>2. PageTold(p)'
      BY <1>5, <1>7 DEF PageTold
    <3> QED BY <3>1, <3>2 DEF PageInv
  <2>2. ASSUME NEW q \in Page, q # p
        PROVE  PageInv(q)'
    <3>1. PageInv(q)
      BY PageTyped DEF RecordsInv, ListsInv
    <3>2. Loading(q)' <=> Loading(q)
      <4>1. \A x \in loads : x.page = q => (Live(x)' <=> Live(x))
        BY <2>2, <1>7 DEF Live
      <4>2. \A x \in loads : x.page = q => x \in loads'
        BY <2>2 DEF LeavePage
      <4> QED BY <4>1, <4>2, <1>9 DEF Loading
    <3>3. written' = written /\ rows' = rows /\ pages'[q] = pages[q]
      BY <1>3, <1>7, <2>2 DEF tables
    <3>4. PageShape(q)'
      <4>1. PageShape(q) /\ pages'[q] = pages[q]
        BY <3>1, <3>3 DEF PageInv
      <4> QED BY <4>1 DEF PageShape
    <3>5. PageTold(q)'
      BY <3>1, <3>2, <3>3 DEF PageInv, PageTold
    <3> QED BY <3>4, <3>5 DEF PageInv
  <2> QED BY <1>7, <2>1, <2>2 DEF PagesInv
<1>11. CallsInv'
  <2>1. calls' = calls /\ calls \subseteq Call
    BY <1>3 DEF RecordsInv, ListsInv, CallsInv
  <2> QED BY <2>1, <1>6, <1>7, <1>8, CallsStay DEF RecordsInv, ListsInv
<1>12. LoadsInv'
  <2>1. \A x \in loads : Live(x)' => x.page # p
    BY <1>5, <1>7 DEF Live
  <2>2. \A x \in loads : Live(x)' => pages'[x.page].acked = pages[x.page].acked /\ (~pages'[x.page].crowded => ~pages[x.page].crowded)
    <3>1. \A x \in loads : x.page \in Page
      BY LoadTyped DEF RecordsInv, ListsInv
    <3> QED BY <3>1, <2>1, <1>7
  <2>3. loads' \subseteq Load
    BY <1>9 DEF RecordsInv, ListsInv, LoadsInv
  <2> QED BY <2>2, <2>3, <1>6, <1>7, <1>8, <1>9, LoadsStay DEF RecordsInv, ListsInv
<1> QED BY <1>4, <1>6, <1>10, <1>11, <1>12 DEF RecordsStep, RecordsInv, ListsInv

\* The service: a call goes on, and perhaps a table was written.
LEMMA GoesStep ==
  ASSUME RecordsInv, NEW c \in calls, NEW d \in Call, calls' = (calls \ {c}) \cup {d}, UNCHANGED <<pages, loads>>,
         d.page = c.page, d.kind = c.kind, d.mount = c.mount, d.at <= written'[c.kind],
         TablesInv', TablesStep, views' \subseteq views, CountInv'
  PROVE  RecordsStep
<1>1. PagesInv' /\ \A p \in Page : PageStep(p)
  BY PagesStay DEF RecordsInv, ListsInv
<1>2. pages' \in [Page -> Display]
  BY <1>1 DEF PagesInv
<1>3. LoadsInv'
  <2>1. \A l \in loads : pages'[l.page] = pages[l.page]
    OBVIOUS
  <2>2. loads' \subseteq Load /\ loads' = loads
    BY DEF RecordsInv, ListsInv, LoadsInv
  <2> QED BY <1>1, <1>2, <2>1, <2>2, LoadsStay DEF RecordsInv, ListsInv
<1>4. CallsInv'
  <2>1. CallInv(c) /\ calls \subseteq Call
    BY CallTyped DEF RecordsInv, ListsInv, CallsInv
  <2>2. CallInv(d)'
    BY <2>1 DEF CallInv, Live
  <2>3. calls' \subseteq Call /\ \A x \in calls' : x \in calls \/ CallInv(x)'
    BY <2>1, <2>2
  <2> QED BY <1>1, <1>2, <2>3, CallsStay DEF RecordsInv, ListsInv
<1> QED BY <1>1, <1>3, <1>4 DEF RecordsStep, RecordsInv, ListsInv

LEMMA StoresStep ==
  ASSUME RecordsInv, NEW c \in calls, Created(c) \/ Updated(c) \/ Removed(c)
  PROVE  RecordsStep
<1>1. c \in Call /\ c.kind \in Kind
  BY CallTyped DEF RecordsInv, ListsInv
<1>2. TablesInv' /\ TablesStep /\ views' \subseteq views /\ written' = [written EXCEPT ![c.kind] = @ + 1]
  BY <1>1, CreatedStep, UpdatedStep, RemovedStep DEF RecordsInv
<1>3. written[c.kind] \in Nat /\ written'[c.kind] = written[c.kind] + 1
  BY <1>1, <1>2 DEF RecordsInv, TablesInv
<1> DEFINE at == written[c.kind] + 1
<1>4. /\ calls' = (calls \ {c}) \cup {[c EXCEPT !.step = "written", !.at = at]} /\ UNCHANGED <<pages, loads, count>>
  BY DEF Created, Updated, Removed, Stores, Goes
<1>5. at \in Nat /\ at <= written'[c.kind]
  BY <1>3
<1> HIDE DEF at
<1>6. PICK d \in Call : d = [c EXCEPT !.step = "written", !.at = at]
  BY <1>1, <1>5 DEF Call
<1>7. d.page = c.page /\ d.kind = c.kind /\ d.mount = c.mount /\ d.at = at
  BY <1>1, <1>6 DEF Call
<1>8. CountInv'
  BY <1>4 DEF RecordsInv, CountInv
<1>9. calls' = (calls \ {c}) \cup {d} /\ UNCHANGED <<pages, loads>>
  BY <1>4, <1>6
<1>10. d.at <= written'[c.kind]
  BY <1>5, <1>7
<1> QED BY <1>2, <1>7, <1>8, <1>9, <1>10, GoesStep

LEMMA ChecksStep ==
  ASSUME RecordsInv, NEW c \in calls, Found(c) \/ Overtaken(c) \/ CallBreaks(c)
  PROVE  RecordsStep
<1>1. c \in Call /\ c.kind \in Kind /\ CallInv(c)
  BY CallTyped DEF RecordsInv, ListsInv
<1>2. PICK step \in {"found", "failed"} :
        calls' = (calls \ {c}) \cup {[c EXCEPT !.step = step]}
  BY DEF Found, Overtaken, CallBreaks, Goes
<1>3. UNCHANGED <<scenario, tables>> /\ UNCHANGED <<pages, loads>>
  BY DEF Found, Overtaken, CallBreaks, Goes
<1>4. CountInv'
  <2>1. CASE CallBreaks(c)
    BY <2>1, Counted DEF CallBreaks, RecordsInv, Steps
  <2>2. CASE ~CallBreaks(c)
    BY <2>2 DEF Found, Overtaken, RecordsInv, CountInv
  <2> QED BY <2>1, <2>2
<1>5. TablesInv' /\ TablesStep /\ views' \subseteq views /\ written' = written
  BY <1>3, TablesSame DEF RecordsInv, tables
<1>6. PICK d \in Call : d = [c EXCEPT !.step = step]
  BY <1>1 DEF Call
<1>7. d.page = c.page /\ d.kind = c.kind /\ d.mount = c.mount /\ d.at = c.at
  BY <1>1, <1>6 DEF Call
<1>8. calls' = (calls \ {c}) \cup {d} /\ d.at <= written'[c.kind]
  BY <1>1, <1>2, <1>5, <1>6, <1>7 DEF CallInv
<1> QED BY <1>3, <1>4, <1>5, <1>7, <1>8, GoesStep

LEMMA FindAllStep ==
  ASSUME RecordsInv, NEW l \in loads, findAll(l)
  PROVE  RecordsStep
<1>1. l \in Load /\ LoadInv(l) /\ l.page \in Page /\ l.kind \in Kind
  BY LoadTyped DEF RecordsInv, ListsInv
<1>2. rows[l.kind] \subseteq Row
  BY <1>1 DEF RecordsInv, TablesInv
<1>3. PICK d \in Load : d = [l EXCEPT !.step = "answered", !.got = rows[l.kind]]
  BY <1>1, <1>2 DEF Load
<1>4. /\ d.page = l.page /\ d.kind = l.kind /\ d.mount = l.mount /\ d.call = l.call /\ d.at = l.at /\ d.upto = l.upto
      /\ d.got = rows[l.kind]
  BY <1>1, <1>3 DEF Load
<1>5. loads' = (loads \ {l}) \cup {d} /\ UNCHANGED <<scenario, tables, pages, calls, count>>
  BY <1>3 DEF findAll
<1>6. TablesInv' /\ TablesStep /\ views' \subseteq views /\ written' = written /\ rows' = rows
  BY <1>5, TablesSame DEF RecordsInv, tables
<1>7. LoadInv(d)'
  BY <1>1, <1>4, <1>5, <1>6 DEF LoadInv, Live
<1>8. \A p \in Page : (Loading(p)' <=> Loading(p))
  <2>1. Live(d)' <=> Live(l)
    BY <1>4, <1>5 DEF Live
  <2>2. \A x \in loads : Live(x)' <=> Live(x)
    BY <1>5 DEF Live
  <2> QED BY <2>1, <2>2, <1>4, <1>5 DEF Loading
<1>9. pages' = pages /\ pages \in [Page -> Display] /\ \A p \in Page : PageInv(p) /\ PageStep(p)
  <2>1. \A p \in Page : pages[p].mount \in Nat /\ PageInv(p)
    BY PageTyped DEF RecordsInv, ListsInv
  <2> QED BY <2>1, <1>5 DEF PageStep, RecordsInv, ListsInv, PagesInv
<1>10. PagesInv'
  <2>1. ASSUME NEW p \in Page
        PROVE  PageInv(p)'
    <3>1. PageShape(p)'
      BY <1>9 DEF PageInv, PageShape
    <3>2. PageTold(p)'
      BY <1>6, <1>8, <1>9 DEF PageInv, PageTold
    <3> QED BY <3>1, <3>2 DEF PageInv
  <2> QED BY <1>9, <2>1 DEF PagesInv
<1>11. LoadsInv'
  <2>1. loads' \subseteq Load /\ \A x \in loads' : x \in loads \/ LoadInv(x)'
    BY <1>5, <1>7 DEF RecordsInv, ListsInv, LoadsInv
  <2>2. \A x \in loads : pages'[x.page] = pages[x.page]
    BY <1>9
  <2>3. pages' \in [Page -> Display]
    BY <1>9
  <2> QED BY <2>1, <2>2, <2>3, <1>6, <1>9, LoadsStay DEF RecordsInv, ListsInv
<1>12. CallsInv'
  <2>1. calls' = calls /\ calls \subseteq Call /\ pages' \in [Page -> Display]
    BY <1>5, <1>9 DEF RecordsInv, ListsInv, CallsInv
  <2> QED BY <2>1, <1>6, <1>9, CallsStay DEF RecordsInv, ListsInv
<1>13. CountInv'
  BY <1>5 DEF RecordsInv, CountInv
<1> QED BY <1>6, <1>10, <1>11, <1>12, <1>13 DEF RecordsStep, RecordsInv, ListsInv

\* An answer is taken by one page, which stays the same mount; the other pages keep what they have.
LEMMA AnswerStep ==
  ASSUME RecordsInv, NEW p \in Page, NEW g \in Display, pages' = [pages EXCEPT ![p] = g],
         g.kind = pages[p].kind, g.mount = pages[p].mount, UNCHANGED <<scenario, tables>>, CountInv',
         PageInv(p)', \A q \in Page : q # p => (Loading(q)' <=> Loading(q)), calls' \subseteq calls,
         loads' \subseteq Load, \A x \in loads' : x \in loads \/ LoadInv(x)',
         \A x \in loads : Live(x)' /\ x.page = p /\ ~g.crowded /\ x \in loads' => g.acked = pages[p].acked /\ ~pages[p].crowded
  PROVE  RecordsStep
<1>1. TablesInv' /\ TablesStep /\ views' \subseteq views /\ written' = written /\ rows' = rows
  BY TablesSame DEF RecordsInv, tables
<1>2. pages' \in [Page -> Display] /\ pages'[p] = g /\ \A q \in Page : q # p => pages'[q] = pages[q]
  BY DEF RecordsInv, ListsInv, PagesInv
<1>3. \A q \in Page : PageStep(q)
  <2> TAKE q \in Page
  <2>1. pages[q].mount \in Nat
    BY PageTyped DEF RecordsInv, ListsInv
  <2> QED BY <2>1, <1>2 DEF PageStep
<1>4. PagesInv'
  <2>1. ASSUME NEW q \in Page, q # p
        PROVE  PageInv(q)'
    <3>1. PageInv(q) /\ pages'[q] = pages[q] /\ (Loading(q)' <=> Loading(q))
      BY <2>1, <1>2, PageTyped DEF RecordsInv, ListsInv
    <3>2. PageShape(q)'
      <4>1. PageShape(q) /\ pages'[q] = pages[q]
        BY <3>1 DEF PageInv
      <4> QED BY <4>1 DEF PageShape
    <3>3. PageTold(q)'
      BY <3>1, <1>1 DEF PageInv, PageTold
    <3> QED BY <3>2, <3>3 DEF PageInv
  <2> QED BY <2>1, <1>2 DEF PagesInv
<1>5. CallsInv'
  <2>1. calls' \subseteq Call /\ \A c \in calls' : c \in calls
    BY DEF RecordsInv, ListsInv, CallsInv
  <2> QED BY <2>1, <1>1, <1>2, <1>3, CallsStay DEF RecordsInv, ListsInv
<1>6. LoadsInv'
  <2>1. \A x \in loads : Live(x)' /\ ~pages'[x.page].crowded /\ x \in loads' =>
          pages'[x.page].acked = pages[x.page].acked /\ ~pages[x.page].crowded
    <3>1. \A x \in loads : x.page \in Page
      BY LoadTyped DEF RecordsInv, ListsInv
    <3> QED BY <3>1, <1>2
  <2> QED BY <2>1, <1>1, <1>2, <1>3, LoadsStay DEF RecordsInv, ListsInv
<1> QED BY <1>1, <1>4, <1>5, <1>6 DEF RecordsStep, RecordsInv, ListsInv

\* A write is answered: its page loads the list again, if it is still there.
LEMMA CallAnsweredStep ==
  ASSUME RecordsInv, NEW c \in calls, CallAnswered(c)
  PROVE  RecordsStep
<1> DEFINE p == c.page
<1>1. /\ CallInv(c) /\ c \in Call /\ c.page \in Page /\ c.kind \in Kind /\ c.mount \in Nat /\ c.at \in Nat /\ c.n \in Nat
  BY CallTyped DEF RecordsInv, ListsInv, Call
<1>2. /\ pages[p] \in Display /\ PageInv(p) /\ pages[p].mount \in Nat /\ pages[p].acked \in Nat
      /\ pages \in [Page -> Display]
  BY <1>1, PageTyped DEF RecordsInv, ListsInv, PagesInv
<1>3. UNCHANGED <<scenario, tables, count>> /\ calls' \subseteq calls /\ CountInv' /\ written' = written /\ rows' = rows
  BY DEF CallAnswered, RecordsInv, CountInv, tables
<1>4. PICK l \in Load : /\ loads' = loads \cup {l} /\ l.page = p /\ l.kind = c.kind /\ l.mount = c.mount
                        /\ l.at = c.at /\ l.step = "asked" /\ l.upto = written[c.kind]
  <2> DEFINE f == Fetch(c.page, c.kind, c.mount, c.n, c.at)
  <2>1. /\ f \in Load /\ f.page = p /\ f.kind = c.kind /\ f.mount = c.mount
        /\ f.at = c.at /\ f.step = "asked" /\ f.upto = written[c.kind]
    BY <1>1, FetchTyped
  <2>2. loads' = loads \cup {f}
    BY DEF CallAnswered
  <2> QED BY <2>1, <2>2
<1>5. written[c.kind] \in Nat /\ c.at <= written[c.kind] /\ c.mount <= pages[p].mount /\ (Live(c) => c.kind = pages[p].kind)
  BY <1>1 DEF CallInv, RecordsInv, TablesInv
<1>6. PICK g \in Display :
        /\ pages' = [pages EXCEPT ![p] = g]
        /\ g.kind = pages[p].kind /\ g.mount = pages[p].mount /\ g.list = pages[p].list /\ g.table = pages[p].table
        /\ g.filter = pages[p].filter /\ g.upto = pages[p].upto /\ g.lag = pages[p].lag
        /\ g.kind = none => g = pages[p]
        /\ Live(c) => g.acked = (IF c.at > pages[p].acked THEN c.at ELSE pages[p].acked) /\ g.crowded = (pages[p].crowded \/ Loading(p))
        /\ ~Live(c) => g = pages[p]
  <2>1. CASE ~Live(c)
    <3>1. pages' = [pages EXCEPT ![p] = pages[p]]
      BY <2>1, <1>1, <1>2 DEF CallAnswered
    <3> QED BY <3>1, <2>1, <1>2
  <2>2. CASE Live(c)
    <3>1. PICK d \in {"none", "menu", "create", "edit"}, r \in Row \cup {none}, n \in Nat, b \in BOOLEAN :
            /\ pages' = [pages EXCEPT ![p] = [pages[p] EXCEPT !.dialog = d, !.chosen = r, !.acked = n, !.crowded = b]]
            /\ n = (IF c.at > pages[p].acked THEN c.at ELSE pages[p].acked) /\ b = (pages[p].crowded \/ Loading(p))
      <4>1. pages[p].dialog \in {"none", "menu", "create", "edit"} /\ pages[p].chosen \in Row \cup {none} /\ pages[p].crowded \in BOOLEAN
        BY <1>2 DEF Display
      <4> DEFINE d == IF pages[p].dialog = c.op \/ (c.op = "delete" /\ pages[p].dialog = "menu") THEN "none" ELSE pages[p].dialog
                 r == IF c.kind = "notice" /\ c.op # "create" THEN none ELSE pages[p].chosen
                 n == IF c.at > pages[p].acked THEN c.at ELSE pages[p].acked
                 b == pages[p].crowded \/ Loading(p)
      <4>2. d \in {"none", "menu", "create", "edit"} /\ r \in Row \cup {none} /\ n \in Nat
        <5>1. d \in {"none", "menu", "create", "edit"}
          BY <4>1
        <5>2. r \in Row \cup {none}
          BY <4>1
        <5>3. n \in Nat
          BY <1>1, <1>2
        <5> QED BY <5>1, <5>2, <5>3
      <4>3. b \in BOOLEAN
        BY <4>1
      <4>4. pages' = [pages EXCEPT ![p] = [pages[p] EXCEPT !.dialog = d, !.chosen = r, !.acked = n, !.crowded = b]]
        BY <2>2 DEF CallAnswered
      <4> HIDE DEF d, r
      <4> QED BY <4>2, <4>3, <4>4
    <3> DEFINE g == [pages[p] EXCEPT !.dialog = d, !.chosen = r, !.acked = n, !.crowded = b]
    <3>2. g \in Display
      BY <1>2 DEF Display
    <3>3. /\ g.kind = pages[p].kind /\ g.mount = pages[p].mount /\ g.list = pages[p].list /\ g.table = pages[p].table
          /\ g.filter = pages[p].filter /\ g.upto = pages[p].upto /\ g.lag = pages[p].lag /\ g.acked = n /\ g.crowded = b
      BY <1>2 DEF Display
    <3>4. g.kind # none
      BY <2>2, <3>3 DEF Live
    <3>5. pages' = [pages EXCEPT ![p] = g]
      BY <3>1
    <3> HIDE DEF g
    <3> QED BY <2>2, <3>1, <3>2, <3>3, <3>4, <3>5
  <2> QED BY <2>1, <2>2
<1>7. pages'[p] = g /\ \A q \in Page : q # p => pages'[q] = pages[q]
  BY <1>1, <1>2, <1>6
<1>8. \A x \in loads : Live(x)' <=> Live(x)
  <2>1. \A x \in loads : x.page \in Page
    BY LoadTyped DEF RecordsInv, ListsInv
  <2>2. \A q \in Page : pages'[q].kind = pages[q].kind /\ pages'[q].mount = pages[q].mount
    <3> HIDE DEF p
    <3> QED BY <1>6, <1>7
  <2> QED BY <2>1, <2>2 DEF Live
<1>9. Live(l)' <=> Live(c)
  BY <1>4, <1>6, <1>7 DEF Live
<1>10. \A q \in Page : q # p => (Loading(q)' <=> Loading(q))
  BY <1>4, <1>8 DEF Loading
<1>11. PageInv(p)'
  <2>1. PageShape(p)'
    <3>1. PageShape(p) /\ pages'[p] = g
      BY <1>2, <1>7 DEF PageInv
    <3>2. g.table \in {g.list, {r \in g.list : r.mark = g.filter}}
      BY <3>1, <1>6 DEF PageShape
    <3>3. g.kind = none => g = pages[p]
      BY <1>6
    <3> QED BY <3>1, <3>2, <3>3 DEF PageShape
  <2>2. CASE Live(c)
    <3>1. Loading(p)'
      BY <2>2, <1>4, <1>9 DEF Loading
    <3>2. pages[p].kind = c.kind /\ PageTold(p)
      BY <2>2, <1>5, <1>2 DEF PageInv
    <3>3. pages[p].kind # none
      BY <2>2 DEF Live
    <3> QED BY <3>1, <3>2, <3>3, <2>1, <2>2, <1>2, <1>3, <1>5, <1>6, <1>7 DEF PageInv, PageTold
  <2>3. CASE ~Live(c)
    <3>1. Loading(p)' <=> Loading(p)
      BY <2>3, <1>4, <1>8, <1>9 DEF Loading
    <3>2. pages'[p] = pages[p]
      BY <2>3, <1>6, <1>7
    <3> QED BY <3>1, <3>2, <2>1, <1>2, <1>3 DEF PageInv, PageTold
  <2> QED BY <2>2, <2>3
<1>12. LoadInv(l)'
  <2>1. Live(l)' => l.kind = pages'[p].kind
    BY <1>4, <1>5, <1>6, <1>7, <1>9
  <2>2. Live(l)' => pages'[p].acked <= l.upto
    <3>1. Live(c) => pages[p].acked <= written[c.kind]
      BY <1>2, <1>5 DEF PageInv, PageTold, Live
    <3> QED BY <3>1, <1>4, <1>5, <1>6, <1>7, <1>9
  <2> QED BY <2>1, <2>2, <1>3, <1>4, <1>5, <1>6, <1>7 DEF LoadInv
<1>13. loads' \subseteq Load /\ \A x \in loads' : x \in loads \/ LoadInv(x)'
  BY <1>4, <1>12 DEF RecordsInv, ListsInv, LoadsInv
<1>14. \A x \in loads : Live(x)' /\ x.page = p /\ ~g.crowded /\ x \in loads' => g.acked = pages[p].acked /\ ~pages[p].crowded
  <2> SUFFICES ASSUME NEW x \in loads, Live(x)', x.page = p, ~g.crowded
               PROVE  g.acked = pages[p].acked /\ ~pages[p].crowded
    OBVIOUS
  <2>1. Loading(p)
    BY <1>8 DEF Loading
  <2> QED BY <2>1, <1>6
<1> QED BY <1>1, <1>3, <1>6, <1>10, <1>11, <1>13, <1>14, AnswerStep

\* A list comes, or does not: it is displayed as the rows that were there when it was asked for.
LEMMA LoadEndsStep ==
  ASSUME RecordsInv, NEW l \in loads, LoadAnswered(l) \/ LoadFailed(l)
  PROVE  RecordsStep
<1> DEFINE p == l.page
<1>1. /\ LoadInv(l) /\ l \in Load /\ l.page \in Page /\ l.kind \in Kind /\ l.mount \in Nat /\ l.upto \in Nat /\ l.got \subseteq Row
  BY LoadTyped DEF RecordsInv, ListsInv, Load
<1>2. /\ pages[p] \in Display /\ PageInv(p) /\ pages[p].mount \in Nat /\ pages[p].acked \in Nat
      /\ pages \in [Page -> Display]
  BY <1>1, PageTyped DEF RecordsInv, ListsInv, PagesInv
<1>3. UNCHANGED <<scenario, tables>> /\ calls' = calls /\ loads' = loads \ {l} /\ written' = written /\ rows' = rows
  BY DEF LoadAnswered, LoadFailed, tables
<1>4. CountInv'
  <2>1. CASE LoadAnswered(l)
    BY <2>1 DEF LoadAnswered, RecordsInv, CountInv
  <2>2. CASE LoadFailed(l)
    BY <2>2, Counted DEF LoadFailed, RecordsInv, Steps
  <2> QED BY <2>1, <2>2
<1>5. \/ Live(l) /\ pages' = [pages EXCEPT ![p] = [pages[p] EXCEPT !.list = l.got, !.table = l.got, !.upto = l.upto, !.lag = FALSE]]
         /\ l.step = "answered"
      \/ Live(l) /\ pages' = [pages EXCEPT ![p] = [pages[p] EXCEPT !.lag = TRUE]]
      \/ ~Live(l) /\ pages' = [pages EXCEPT ![p] = pages[p]]
  BY <1>1, <1>2 DEF LoadAnswered, LoadFailed
<1>6. PICK g \in Display :
        /\ pages' = [pages EXCEPT ![p] = g]
        /\ g.kind = pages[p].kind /\ g.mount = pages[p].mount /\ g.acked = pages[p].acked /\ g.crowded = pages[p].crowded
        /\ \/ /\ Live(l) /\ l.step = "answered" /\ g.list = l.got /\ g.table = l.got /\ g.upto = l.upto /\ g.lag = FALSE
           \/ /\ Live(l) /\ g.lag = TRUE /\ g.list = pages[p].list /\ g.table = pages[p].table /\ g.filter = pages[p].filter
           \/ ~Live(l) /\ g = pages[p]
  <2>1. CASE /\ Live(l) /\ l.step = "answered"
             /\ pages' = [pages EXCEPT ![p] = [pages[p] EXCEPT !.list = l.got, !.table = l.got, !.upto = l.upto, !.lag = FALSE]]
    <3> DEFINE g == [pages[p] EXCEPT !.list = l.got, !.table = l.got, !.upto = l.upto, !.lag = FALSE]
    <3>1. /\ g \in Display /\ g.kind = pages[p].kind /\ g.mount = pages[p].mount /\ g.acked = pages[p].acked
          /\ g.crowded = pages[p].crowded /\ g.list = l.got /\ g.table = l.got /\ g.upto = l.upto /\ g.lag = FALSE
      BY <1>1, <1>2 DEF Display
    <3>2. pages' = [pages EXCEPT ![p] = g]
      BY <2>1
    <3> HIDE DEF g
    <3> QED BY <3>1, <3>2, <2>1
  <2>2. CASE Live(l) /\ pages' = [pages EXCEPT ![p] = [pages[p] EXCEPT !.lag = TRUE]]
    <3> DEFINE g == [pages[p] EXCEPT !.lag = TRUE]
    <3>1. /\ g \in Display /\ g.kind = pages[p].kind /\ g.mount = pages[p].mount /\ g.acked = pages[p].acked
          /\ g.crowded = pages[p].crowded /\ g.list = pages[p].list /\ g.table = pages[p].table /\ g.lag = TRUE
          /\ g.filter = pages[p].filter
      BY <1>1, <1>2 DEF Display
    <3>2. pages' = [pages EXCEPT ![p] = g]
      BY <2>2
    <3> HIDE DEF g
    <3> QED BY <3>1, <3>2, <2>2
  <2>3. CASE ~Live(l) /\ pages' = [pages EXCEPT ![p] = pages[p]]
    BY <2>3, <1>2
  <2> QED BY <2>1, <2>2, <2>3, <1>5
<1>7. pages'[p] = g /\ \A q \in Page : q # p => pages'[q] = pages[q]
  BY <1>1, <1>2, <1>6
<1>8. \A x \in loads : Live(x)' <=> Live(x)
  <2>1. \A x \in loads : x.page \in Page
    BY LoadTyped DEF RecordsInv, ListsInv
  <2>2. \A q \in Page : pages'[q].kind = pages[q].kind /\ pages'[q].mount = pages[q].mount
    <3> HIDE DEF p
    <3> QED BY <1>6, <1>7
  <2> QED BY <2>1, <2>2 DEF Live
<1>9. \A q \in Page : q # p => (Loading(q)' <=> Loading(q))
  BY <1>3, <1>8 DEF Loading
<1>10. ~Live(l) => (Loading(p)' <=> Loading(p))
  BY <1>3, <1>8 DEF Loading
<1>11. PageShape(p)'
  <2>1. PageShape(p)
    BY <1>2 DEF PageInv
  <2>2. CASE Live(l) /\ g.table = g.list
    <3>1. g.kind # none
      BY <2>2, <1>6 DEF Live
    <3> QED BY <2>2, <3>1, <1>7 DEF PageShape
  <2>3. CASE Live(l) /\ g.list = pages[p].list /\ g.table = pages[p].table /\ g.filter = pages[p].filter
    <3>1. g.kind # none
      BY <2>3, <1>6 DEF Live
    <3>2. g.table \in {g.list, {r \in g.list : r.mark = g.filter}}
      BY <2>1, <2>3 DEF PageShape
    <3> QED BY <3>1, <3>2, <1>7 DEF PageShape
  <2>4. CASE g = pages[p]
    BY <2>1, <2>4, <1>7 DEF PageShape
  <2> QED BY <2>2, <2>3, <2>4, <1>6
<1>12. PageTold(p)'
  <2>1. PageTold(p)
    BY <1>2 DEF PageInv
  <2>2. CASE Live(l) /\ l.step = "answered" /\ g.list = l.got /\ g.upto = l.upto
    <3>1. pages[p].kind = l.kind /\ (~pages[p].crowded => pages[p].acked <= l.upto) /\ l.upto <= written[l.kind]
          /\ (l.upto = written[l.kind] => l.got = rows[l.kind]) /\ pages[p].kind # none
      BY <2>2, <1>1 DEF LoadInv, Live
    <3> QED BY <3>1, <2>1, <2>2, <1>3, <1>6, <1>7 DEF PageTold
  <2>3. CASE g.lag = TRUE
    BY <2>1, <2>3, <1>3, <1>6, <1>7 DEF PageTold
  <2>4. CASE ~Live(l) /\ g = pages[p]
    BY <2>1, <2>4, <1>3, <1>7, <1>10 DEF PageTold
  <2> QED BY <2>2, <2>3, <2>4, <1>6
<1>13. PageInv(p)'
  BY <1>11, <1>12 DEF PageInv
<1>14. loads' \subseteq Load /\ \A x \in loads' : x \in loads \/ LoadInv(x)'
  BY <1>3 DEF RecordsInv, ListsInv, LoadsInv
<1>15. \A x \in loads : Live(x)' /\ x.page = p /\ ~g.crowded /\ x \in loads' => g.acked = pages[p].acked /\ ~pages[p].crowded
  BY <1>6
<1> QED BY <1>1, <1>3, <1>4, <1>6, <1>9, <1>13, <1>14, <1>15, AnswerStep

LEMMA CallFailedStep ==
  ASSUME RecordsInv, NEW c \in calls, CallFailed(c)
  PROVE  RecordsStep
<1>1. UNCHANGED <<scenario, tables>> /\ UNCHANGED <<pages, loads>> /\ calls' \subseteq calls /\ count' = count
  BY DEF CallFailed
<1>2. TablesInv' /\ TablesStep /\ views' \subseteq views
  BY <1>1, TablesSame DEF RecordsInv
<1>3. PagesInv' /\ (\A p \in Page : PageStep(p)) /\ pages' \in [Page -> Display]
  BY <1>1, <1>2, PagesStay DEF RecordsInv, ListsInv, PagesInv
<1>4. LoadsInv'
  <2>1. loads' = loads /\ pages' = pages /\ loads \subseteq Load
    BY <1>1 DEF RecordsInv, ListsInv, LoadsInv
  <2> QED BY <2>1, <1>2, <1>3, LoadsStay DEF RecordsInv, ListsInv
<1>5. CallsInv'
  <2>1. calls' \subseteq Call /\ \A x \in calls' : x \in calls
    BY <1>1 DEF RecordsInv, ListsInv, CallsInv
  <2> QED BY <2>1, <1>2, <1>3, CallsStay DEF RecordsInv, ListsInv
<1>6. CountInv'
  BY <1>1 DEF RecordsInv, CountInv
<1> QED BY <1>2, <1>3, <1>4, <1>5, <1>6 DEF RecordsStep, RecordsInv, ListsInv

\* Whatever does not touch the lists: the popup and the bell.
LEMMA ElsewhereStep ==
  ASSUME RecordsInv, TablesInv', TablesStep, UNCHANGED lists, CountInv'
  PROVE  RecordsInv'
<1>1. UNCHANGED <<pages, loads>> /\ calls' = calls
  BY DEF lists
<1>3. PagesInv' /\ (\A p \in Page : PageStep(p)) /\ pages' \in [Page -> Display]
  BY <1>1, PagesStay DEF RecordsInv, ListsInv, PagesInv
<1>4. LoadsInv'
  <2>1. loads' = loads /\ pages' = pages /\ loads \subseteq Load
    BY <1>1 DEF RecordsInv, ListsInv, LoadsInv
  <2> QED BY <2>1, <1>3, LoadsStay DEF RecordsInv, ListsInv
<1>5. CallsInv'
  <2>1. calls' \subseteq Call /\ \A x \in calls' : x \in calls
    BY <1>1 DEF RecordsInv, ListsInv, CallsInv
  <2> QED BY <2>1, <1>3, CallsStay DEF RecordsInv, ListsInv
<1> QED BY <1>3, <1>4, <1>5 DEF RecordsInv, ListsInv

---------------------------------------------------------------------------
(* The popup *)

Put == ticked \cup carried

\* What is displayed was unread when it was asked for; beneath a ticked box it counts as put away.
SeatInv(t) ==
  LET s == seats[t] IN
    /\ s.open \/ s.tick => s.shown # none
    /\ s.shown # none =>
         /\ s.shown.id <= lastRow /\ s.shown.id \notin s.hidden
         /\ s.tick => s.shown.id \in Put
         /\ s.dialog = "none" => s.open \/ s.missed

\* Between the question and the answer a notice that was put away stays so, unless it goes.
UnreadInv(f) ==
  /\ \A x \in f.hidden : x <= lastRow
  /\ f.step = "sent" => \A x \in f.hidden : x \in views \/ ~Kept("notice", x)
  /\ f.step = "viewed" => \A x \in f.hidden : x \in f.viewed \/ ~Kept("notice", x)
  /\ f.got # none => f.got.id <= lastRow /\ f.got.id \notin f.hidden

PopupsInv ==
  /\ seats \in [Tab -> Seat] /\ \A t \in Tab : SeatInv(t)
  /\ fetches \subseteq Unread /\ \A f \in fetches : UnreadInv(f)
  /\ marks \subseteq MarkRead /\ \A m \in marks : m.id \in Put
  /\ ticked \subseteq 1 .. lastRow /\ carried \subseteq 1 .. lastRow
  /\ views \subseteq Put

LEMMA ViewsKnown ==
  ASSUME TablesInv, NEW x \in views
  PROVE  x \in Nat /\ x <= lastRow /\ Kept("notice", x)
<1>1. PICK r \in rows["notice"] : x = r.id
  BY DEF TablesInv
<1>2. r \in Row /\ r.id <= lastRow
  BY DEF TablesInv, Kind
<1> QED BY <1>1, <1>2 DEF Row, Kept

\* A question on its way outlives any write.
LEMMA UnreadStays ==
  ASSUME TablesInv, TablesInv', TablesStep, NEW f \in Unread, UnreadInv(f)
  PROVE  UnreadInv(f)'
<1>1. f.hidden \subseteq Nat /\ (f.got # none => f.got.id \in Nat)
  BY DEF Unread, Row
<1>2. lastRow \in Nat /\ lastRow' \in Nat /\ lastRow <= lastRow'
  BY DEF TablesInv, TablesStep
<1>3. \A x \in f.hidden : x <= lastRow
  BY DEF UnreadInv
<1>4. \A x \in f.hidden : x <= lastRow'
  BY <1>1, <1>2, <1>3
<1>5. \A x \in f.hidden : ~Kept("notice", x) => ~Kept("notice", x)'
  BY <1>1, <1>3 DEF TablesStep
<1>6. f.step = "sent" => \A x \in f.hidden : x \in views' \/ ~Kept("notice", x)'
  BY <1>5 DEF UnreadInv, TablesStep
<1>7. f.step = "viewed" => \A x \in f.hidden : x \in f.viewed \/ ~Kept("notice", x)'
  BY <1>5 DEF UnreadInv
<1>8. f.got # none => f.got.id <= lastRow' /\ f.got.id \notin f.hidden
  BY <1>1, <1>2 DEF UnreadInv
<1> QED BY <1>4, <1>6, <1>7, <1>8 DEF UnreadInv

LEMMA SeatStays ==
  ASSUME PopupsInv, NEW t \in Tab, seats'[t] = seats[t], Put \subseteq Put', lastRow \in Nat, lastRow' \in Nat, lastRow <= lastRow'
  PROVE  SeatInv(t)'
<1>1. SeatInv(t) /\ seats[t] \in Seat
  BY DEF PopupsInv
<1>2. seats[t].shown # none => seats[t].shown.id \in Nat
  BY <1>1 DEF Seat, Row
<1> QED BY <1>1, <1>2 DEF SeatInv

\* A step of the layout: it remembers more, and what is new is as it should be.
LEMMA PopupsGoOn ==
  ASSUME TablesInv, TablesInv', TablesStep, PopupsInv, views' \subseteq Put',
         ticked \subseteq ticked', carried \subseteq carried', ticked' \subseteq 1 .. lastRow', carried' \subseteq 1 .. lastRow',
         seats' \in [Tab -> Seat], \A t \in Tab : seats'[t] = seats[t] \/ SeatInv(t)',
         fetches' \subseteq Unread, \A f \in fetches' : f \in fetches \/ UnreadInv(f)',
         marks' \subseteq MarkRead, \A m \in marks' : m \in marks \/ m.id \in Put'
  PROVE  PopupsInv'
<1>1. Put \subseteq Put'
  BY DEF Put
<1>2. lastRow \in Nat /\ lastRow' \in Nat /\ lastRow <= lastRow'
  BY DEF TablesInv, TablesStep
<1>3. \A t \in Tab : SeatInv(t)'
  BY <1>1, <1>2, SeatStays
<1>4. \A f \in fetches' : UnreadInv(f)'
  <2>1. ASSUME NEW f \in fetches
        PROVE  UnreadInv(f)'
    <3>1. f \in Unread /\ UnreadInv(f)
      BY DEF PopupsInv
    <3> QED BY <3>1, UnreadStays
  <2> QED BY <2>1
<1>5. \A m \in marks' : m.id \in Put'
  BY <1>1 DEF PopupsInv
<1> QED BY <1>3, <1>4, <1>5 DEF PopupsInv

\* The popup while pages and bell go on.
LEMMA PopupsStay ==
  ASSUME TablesInv, TablesInv', TablesStep, views' \subseteq views, PopupsInv, UNCHANGED layout
  PROVE  PopupsInv'
<1>1. /\ seats' = seats /\ fetches' = fetches /\ marks' = marks /\ ticked' = ticked /\ carried' = carried
  BY DEF layout
<1>2. lastRow \in Nat /\ lastRow' \in Nat /\ lastRow <= lastRow'
  BY DEF TablesInv, TablesStep
<1>3. ticked' \subseteq 1 .. lastRow' /\ carried' \subseteq 1 .. lastRow'
  BY <1>1, <1>2 DEF PopupsInv
<1>4. Put' = Put /\ views \subseteq Put
  BY <1>1 DEF Put, PopupsInv
<1>5. seats' \in [Tab -> Seat] /\ fetches' \subseteq Unread /\ marks' \subseteq MarkRead
  BY <1>1 DEF PopupsInv
<1> QED BY <1>1, <1>3, <1>4, <1>5, PopupsGoOn

LayoutStep == RecordsInv' /\ PopupsInv' /\ TablesStep

LEMMA ElsewhereSame ==
  ASSUME RecordsInv, Elsewhere, CountInv'
  PROVE  RecordsInv' /\ TablesInv /\ TablesInv' /\ TablesStep /\ views' = views /\ lastRow' = lastRow
<1>1. TablesInv' /\ TablesStep /\ TablesInv
  BY TablesSame DEF Elsewhere, RecordsInv
<1>2. UNCHANGED lists /\ views' = views /\ lastRow' = lastRow
  BY DEF Elsewhere, tables
<1> QED BY <1>1, <1>2, ElsewhereStep

\* What a popup asks for excludes what is put away now.
LEMMA AskTyped ==
  ASSUME RecordsInv, Elsewhere, CountInv', NEW t \in Tab, NEW mount \in Nat, NEW b \in BOOLEAN
  PROVE  \E f \in Unread : f = Ask(t, mount, b) /\ UnreadInv(f)'
<1>1. RecordsInv' /\ TablesInv /\ TablesInv' /\ views' = views /\ lastRow' = lastRow
  BY ElsewhereSame
<1>2. count'["dialogs"] \in Nat /\ count'["enters"] \in Nat /\ count'["changes"] \in Nat
  BY DEF CountInv, Steps
<1>3. \A x \in views : x \in Nat /\ x <= lastRow
  BY <1>1, ViewsKnown
<1>4. PICK f \in Unread : f = Ask(t, mount, b)
  <2> DEFINE n == count'["dialogs"] + count'["enters"] + count'["changes"]
  <2>1. n \in Nat
    BY <1>2
  <2>2. Ask(t, mount, b) = [tab |-> t, mount |-> mount, dialog |-> b, hidden |-> views, viewed |-> {}, got |-> none,
                            step |-> "sent", n |-> n]
    BY DEF Ask
  <2> HIDE DEF n
  <2>3. Ask(t, mount, b) \in Unread
    BY <2>1, <2>2, <1>3 DEF Unread
  <2> QED BY <2>3
<1>5. f.hidden = views /\ f.step = "sent" /\ f.got = none
  BY <1>4 DEF Ask
<1>6. UnreadInv(f)'
  BY <1>1, <1>3, <1>5 DEF UnreadInv
<1> QED BY <1>4, <1>6

\* A step of the layout that writes nothing.
LEMMA LayoutGoesOn ==
  ASSUME RecordsInv, PopupsInv, Elsewhere, CountInv',
         ticked \subseteq ticked', carried \subseteq carried', ticked' \subseteq 1 .. lastRow, carried' \subseteq 1 .. lastRow,
         seats' \in [Tab -> Seat], \A t \in Tab : seats'[t] = seats[t] \/ SeatInv(t)',
         fetches' \subseteq Unread, \A f \in fetches' : f \in fetches \/ UnreadInv(f)',
         marks' \subseteq MarkRead, \A m \in marks' : m \in marks \/ m.id \in Put'
  PROVE  LayoutStep
<1>1. RecordsInv' /\ TablesInv /\ TablesInv' /\ TablesStep /\ views' = views /\ lastRow' = lastRow
  BY ElsewhereSame
<1>2. views' \subseteq Put'
  BY <1>1 DEF Put, PopupsInv
<1>3. ticked' \subseteq 1 .. lastRow' /\ carried' \subseteq 1 .. lastRow'
  BY <1>1
<1>4. PopupsInv'
  BY <1>1, <1>2, <1>3, PopupsGoOn
<1> QED BY <1>1, <1>4 DEF LayoutStep

\* Only the questions change.
LEMMA FetchesGoOn ==
  ASSUME RecordsInv, PopupsInv, Elsewhere, CountInv', UNCHANGED <<seats, marks, ticked, carried>>,
         fetches' \subseteq Unread, \A f \in fetches' : f \in fetches \/ UnreadInv(f)'
  PROVE  LayoutStep
<1>1. seats' \in [Tab -> Seat] /\ marks' \subseteq MarkRead /\ ticked' \subseteq 1 .. lastRow /\ carried' \subseteq 1 .. lastRow
  BY DEF PopupsInv
<1> QED BY <1>1, LayoutGoesOn

\* One seat changes, and questions may be asked.
LEMMA SeatGoesOn ==
  ASSUME RecordsInv, PopupsInv, Elsewhere, CountInv', UNCHANGED <<ticked, carried>>,
         NEW t \in Tab, NEW s \in Seat, seats' = [seats EXCEPT ![t] = s],
         s.open \/ s.tick => s.shown # none,
         s.shown # none => /\ s.shown.id <= lastRow /\ s.shown.id \notin s.hidden
                           /\ s.tick => s.shown.id \in Put
                           /\ s.dialog = "none" => s.open \/ s.missed,
         fetches' \subseteq Unread, \A f \in fetches' : f \in fetches \/ UnreadInv(f)',
         marks' \subseteq marks
  PROVE  LayoutStep
<1>1. seats' \in [Tab -> Seat] /\ marks' \subseteq MarkRead /\ ticked' \subseteq 1 .. lastRow /\ carried' \subseteq 1 .. lastRow
  BY DEF PopupsInv
<1>2. seats'[t] = s /\ \A u \in Tab : u # t => seats'[u] = seats[u]
  BY DEF PopupsInv
<1>3. lastRow' = lastRow /\ Put' = Put
  BY ElsewhereSame DEF Put
<1>4. SeatInv(t)'
  BY <1>2, <1>3 DEF SeatInv
<1>5. \A u \in Tab : seats'[u] = seats[u] \/ SeatInv(u)'
  BY <1>2, <1>4
<1>6. \A m \in marks' : m \in marks
  OBVIOUS
<1> QED BY <1>1, <1>5, <1>6, LayoutGoesOn

LEMMA SeatTyped ==
  ASSUME PopupsInv, NEW t \in Tab
  PROVE  /\ seats[t] \in Seat /\ SeatInv(t) /\ seats[t].mount \in Nat /\ seats[t].shown \in Row \cup {none}
         /\ seats[t].open \in BOOLEAN /\ seats[t].tick \in BOOLEAN /\ seats[t].missed \in BOOLEAN
         /\ seats[t].shown # none => seats[t].shown.id \in Nat
<1>1. seats[t] \in Seat /\ SeatInv(t)
  BY DEF PopupsInv
<1> QED BY <1>1 DEF Seat, Row

LEMMA EnterStep ==
  ASSUME RecordsInv, PopupsInv, NEW t \in Tab, NEW d \in {"none", "forced"}, Enter(t, d)
  PROVE  LayoutStep
<1>1. Elsewhere /\ UNCHANGED <<ticked, carried>> /\ marks' = marks
  BY DEF Enter
<1>2. CountInv'
  BY Counted DEF Enter, RecordsInv, Steps
<1> DEFINE m == seats[t].mount + 1
           s == [Away EXCEPT !.in = TRUE, !.mount = m, !.dialog = d]
<1>3. m \in Nat
  BY SeatTyped
<1>4. s \in Seat /\ s.shown = none /\ s.open = FALSE /\ s.tick = FALSE
  <2> HIDE DEF m
  <2> QED BY <1>3 DEF Away, Seat
<1>5. seats' = [seats EXCEPT ![t] = s]
  BY DEF Enter
<1>6. fetches' = fetches \cup {Ask(t, m, FALSE)} \cup (IF d = "forced" THEN {Ask(t, m, TRUE)} ELSE {})
  BY DEF Enter
<1> HIDE DEF m, s
<1>7. fetches' \subseteq Unread /\ \A f \in fetches' : f \in fetches \/ UnreadInv(f)'
  <2>1. PICK f \in Unread : f = Ask(t, m, FALSE) /\ UnreadInv(f)'
    BY <1>1, <1>2, <1>3, AskTyped
  <2>2. PICK g \in Unread : g = Ask(t, m, TRUE) /\ UnreadInv(g)'
    BY <1>1, <1>2, <1>3, AskTyped
  <2>3. fetches' \subseteq fetches \cup {f, g}
    BY <1>6, <2>1, <2>2
  <2> QED BY <2>1, <2>2, <2>3 DEF PopupsInv
<1> QED BY <1>1, <1>2, <1>4, <1>5, <1>7, SeatGoesOn

LEMMA LeaveStep ==
  ASSUME RecordsInv, PopupsInv, NEW t \in Tab, Leave(t)
  PROVE  LayoutStep
<1> DEFINE s == [Away EXCEPT !.mount = seats[t].mount]
<1>1. Elsewhere /\ UNCHANGED <<ticked, carried>> /\ marks' = marks /\ count' = count /\ fetches' \subseteq fetches
      /\ seats' = [seats EXCEPT ![t] = s]
  BY DEF Leave
<1>2. CountInv'
  BY <1>1 DEF RecordsInv, CountInv
<1>3. s \in Seat /\ s.shown = none /\ s.open = FALSE /\ s.tick = FALSE
  BY SeatTyped DEF Away, Seat
<1> HIDE DEF s
<1>4. fetches' \subseteq Unread /\ \A f \in fetches' : f \in fetches \/ UnreadInv(f)'
  BY <1>1 DEF PopupsInv
<1> QED BY <1>1, <1>2, <1>3, <1>4, SeatGoesOn

LEMMA DialogOpenStep ==
  ASSUME RecordsInv, PopupsInv, NEW t \in Tab, handlePasswordDialogOpen(t)
  PROVE  LayoutStep
<1> DEFINE s == [seats[t] EXCEPT !.dialog = "own"]
<1>1. Elsewhere /\ UNCHANGED <<ticked, carried>> /\ marks' = marks /\ seats' = [seats EXCEPT ![t] = s]
      /\ fetches' = fetches \cup {Ask(t, seats[t].mount, TRUE)}
  BY DEF handlePasswordDialogOpen
<1>2. CountInv'
  BY Counted DEF handlePasswordDialogOpen, RecordsInv, Steps
<1>3. seats[t] \in Seat /\ SeatInv(t) /\ seats[t].mount \in Nat
  BY SeatTyped
<1>4. /\ s \in Seat /\ s.shown = seats[t].shown /\ s.open = seats[t].open /\ s.tick = seats[t].tick
      /\ s.hidden = seats[t].hidden /\ s.dialog # "none"
  BY <1>3 DEF Seat
<1> HIDE DEF s
<1>5. fetches' \subseteq Unread /\ \A f \in fetches' : f \in fetches \/ UnreadInv(f)'
  <2>1. PICK f \in Unread : f = Ask(t, seats[t].mount, TRUE) /\ UnreadInv(f)'
    BY <1>1, <1>2, <1>3, AskTyped
  <2> QED BY <2>1, <1>1 DEF PopupsInv
<1>6. /\ s.open \/ s.tick => s.shown # none
      /\ s.shown # none => s.shown.id <= lastRow /\ s.shown.id \notin s.hidden /\ (s.tick => s.shown.id \in Put)
  BY <1>3, <1>4 DEF SeatInv
<1>7. marks' \subseteq marks
  BY <1>1
<1> QED BY <1>1, <1>2, <1>4, <1>5, <1>6, <1>7, SeatGoesOn

LEMMA DialogClosedStep ==
  ASSUME RecordsInv, PopupsInv, NEW t \in Tab, handlePasswordDialogClose(t) \/ handlePasswordChangeSuccess(t)
  PROVE  LayoutStep
<1> DEFINE o == seats[t].open \/ seats[t].shown # none
           b == IF seats[t].shown # none THEN FALSE ELSE seats[t].missed
           s == [seats[t] EXCEPT !.dialog = "none", !.open = o, !.missed = b]
<1>1. DialogClosed(t)
  BY DEF handlePasswordDialogClose, handlePasswordChangeSuccess
<1>2. Elsewhere /\ UNCHANGED <<ticked, carried>> /\ marks' = marks
      /\ fetches' = fetches \cup {Ask(t, seats[t].mount, FALSE)}
  BY <1>1 DEF DialogClosed
<1>3. CountInv'
  <2>1. CASE handlePasswordDialogClose(t)
    BY <2>1 DEF handlePasswordDialogClose, RecordsInv, CountInv
  <2>2. CASE handlePasswordChangeSuccess(t)
    BY <2>2, Counted DEF handlePasswordChangeSuccess, RecordsInv, Steps
  <2> QED BY <2>1, <2>2
<1>4. seats[t] \in Seat /\ SeatInv(t) /\ seats[t].mount \in Nat /\ seats[t].open \in BOOLEAN /\ seats[t].missed \in BOOLEAN
      /\ seats \in [Tab -> Seat]
  BY SeatTyped DEF PopupsInv
<1>5. seats' = [seats EXCEPT ![t] = s]
  BY <1>1, <1>4 DEF DialogClosed, Seat
<1>6. o \in BOOLEAN /\ b \in BOOLEAN
  BY <1>4
<1>7. /\ s \in Seat /\ s.shown = seats[t].shown /\ s.open = o /\ s.tick = seats[t].tick /\ s.hidden = seats[t].hidden
      /\ s.dialog = "none"
  <2> HIDE DEF o, b
  <2> QED BY <1>4, <1>6 DEF Seat
<1>8. /\ s.open \/ s.tick => s.shown # none
      /\ s.shown # none => s.shown.id <= lastRow /\ s.shown.id \notin s.hidden /\ (s.tick => s.shown.id \in Put) /\ s.open
  <2> HIDE DEF s
  <2> QED BY <1>4, <1>7 DEF SeatInv
<1> HIDE DEF s
<1>9. fetches' \subseteq Unread /\ \A f \in fetches' : f \in fetches \/ UnreadInv(f)'
  <2>1. PICK f \in Unread : f = Ask(t, seats[t].mount, FALSE) /\ UnreadInv(f)'
    BY <1>2, <1>3, <1>4, AskTyped
  <2> QED BY <2>1, <1>2 DEF PopupsInv
<1>10. marks' \subseteq marks
  BY <1>2
<1> QED BY <1>2, <1>3, <1>5, <1>7, <1>8, <1>9, <1>10, SeatGoesOn

\* A nonempty set of numbers has a least, ...
LEMMA Least ==
  ASSUME NEW S \in SUBSET Nat, S # {}
  PROVE  \E m \in S : \A x \in S : m <= x
<1> DEFINE R == OpToRel(<, Nat)
<1>1. IsWellFoundedOn(R, Nat)
  BY NatLessThanWellFounded
<1>2. \A x, y \in Nat : <<x, y>> \in R <=> x < y
  BY DEF OpToRel
<1> HIDE DEF R
<1>3. PICK m \in S : \A x \in S : ~(<<x, m>> \in R)
  BY <1>1, WFMin
<1>4. \A x \in S : m <= x
  <2> TAKE x \in S
  <2>1. x \in Nat /\ m \in Nat /\ ~(x < m)
    BY <1>2, <1>3
  <2> QED BY <2>1
<1> QED BY <1>4

\* ... and one that is bounded a greatest: there is a newest row.
LEMMA NewestIn ==
  ASSUME NEW S \in SUBSET Row, S # {}, NEW n \in Nat, \A r \in S : r.id <= n
  PROVE  Newest(S) \in S
<1> DEFINE D == {n - r.id : r \in S}
<1>1. \A r \in S : r.id \in Nat /\ n - r.id \in Nat
  BY DEF Row
<1>2. PICK m \in D : \A x \in D : m <= x
  <2>1. D \in SUBSET Nat /\ D # {}
    BY <1>1
  <2> HIDE DEF D
  <2> QED BY <2>1, Least
<1>3. PICK r \in S : m = n - r.id
  OBVIOUS
<1>4. \A q \in S : q.id <= r.id
  <2> TAKE q \in S
  <2>1. n - q.id \in D
    OBVIOUS
  <2> HIDE DEF D
  <2>2. n - r.id <= n - q.id
    BY <1>2, <1>3, <2>1
  <2>3. q.id \in Nat /\ r.id \in Nat
    BY <1>1
  <2> QED BY <2>2, <2>3
<1> QED BY <1>4 DEF Newest

\* The answer excludes what was put away when it was asked for and when the views were read.
LEMMA UnreadReadStep ==
  ASSUME RecordsInv, PopupsInv, NEW f \in fetches, ReadViews(f) \/ getUnreadNotices(f) \/ FetchLost(f)
  PROVE  LayoutStep
<1>1. Elsewhere /\ UNCHANGED <<seats, marks, ticked, carried>>
  BY DEF ReadViews, getUnreadNotices, FetchLost
<1>2. CountInv'
  <2>1. CASE FetchLost(f)
    BY <2>1, Counted DEF FetchLost, RecordsInv, Steps
  <2>2. CASE ~FetchLost(f)
    BY <2>2 DEF ReadViews, getUnreadNotices, RecordsInv, CountInv
  <2> QED BY <2>1, <2>2
<1>3. f \in Unread /\ UnreadInv(f) /\ fetches \subseteq Unread
  BY DEF PopupsInv
<1>4. /\ TablesInv /\ views' = views /\ lastRow' = lastRow /\ rows' = rows
      /\ \A x \in views : x \in Nat
  <2>1. TablesInv /\ views' = views /\ lastRow' = lastRow
    BY <1>1, <1>2, ElsewhereSame
  <2>2. rows' = rows
    BY <1>1 DEF Elsewhere, tables
  <2> QED BY <2>1, <2>2, ViewsKnown
<1>5. CASE FetchLost(f)
  BY <1>1, <1>2, <1>3, <1>5, FetchesGoOn DEF FetchLost
<1>6. CASE ReadViews(f)
  <2>1. PICK g \in Unread : g = [f EXCEPT !.step = "viewed", !.viewed = views]
    BY <1>3, <1>4 DEF Unread
  <2>2. fetches' = (fetches \ {f}) \cup {g} /\ f.step = "sent"
    BY <1>6, <2>1 DEF ReadViews
  <2>3. g.hidden = f.hidden /\ g.got = f.got /\ g.step = "viewed" /\ g.viewed = views
    BY <1>3, <2>1 DEF Unread
  <2>4. UnreadInv(g)'
    BY <1>3, <1>4, <2>2, <2>3 DEF UnreadInv, Kept
  <2>5. fetches' \subseteq Unread /\ \A x \in fetches' : x \in fetches \/ UnreadInv(x)'
    BY <1>3, <2>2, <2>4
  <2> QED BY <1>1, <1>2, <2>5, FetchesGoOn
<1>7. CASE getUnreadNotices(f)
  <2> DEFINE unread == {r \in rows["notice"] : r.id \notin f.viewed}
             got == IF unread = {} THEN none ELSE Newest(unread)
  <2>1. unread \in SUBSET Row /\ lastRow \in Nat /\ \A r \in unread : r.id <= lastRow
    BY <1>4 DEF TablesInv, Kind
  <2>2. got = none \/ got \in unread
    <3> HIDE DEF unread
    <3> QED BY <2>1, NewestIn
  <2>3. fetches' = (fetches \ {f}) \cup {[f EXCEPT !.step = "answered", !.got = got]} /\ f.step = "viewed"
    BY <1>7 DEF getUnreadNotices
  <2>4. got # none => got.id <= lastRow /\ got.id \notin f.hidden
    <3> SUFFICES ASSUME got \in unread
                 PROVE  got.id <= lastRow /\ got.id \notin f.hidden
      BY <2>2
    <3> HIDE DEF got
    <3>1. Kept("notice", got.id) /\ got.id \notin f.viewed
      BY DEF Kept
    <3> QED BY <2>1, <2>3, <3>1, <1>3 DEF UnreadInv
  <2>5. got \in Row \cup {none}
    BY <2>1, <2>2
  <2> HIDE DEF got
  <2>6. PICK g \in Unread : g = [f EXCEPT !.step = "answered", !.got = got]
    BY <1>3, <2>5 DEF Unread
  <2>7. g.hidden = f.hidden /\ g.got = got /\ g.step = "answered"
    BY <1>3, <2>6 DEF Unread
  <2>8. UnreadInv(g)'
    BY <1>3, <1>4, <2>4, <2>7 DEF UnreadInv
  <2>9. fetches' \subseteq Unread /\ \A x \in fetches' : x \in fetches \/ UnreadInv(x)'
    BY <1>3, <2>3, <2>6, <2>8
  <2> QED BY <1>1, <1>2, <2>9, FetchesGoOn
<1> QED BY <1>5, <1>6, <1>7

\* An answer is displayed unless the tab was left; beneath a ticked box it counts as put away.
LEMMA ArrivedStep ==
  ASSUME RecordsInv, PopupsInv, NEW f \in fetches, Arrived(f)
  PROVE  LayoutStep
<1>1. Elsewhere /\ UNCHANGED <<marks, ticked, count>> /\ fetches' = fetches \ {f}
  BY DEF Arrived
<1>2. CountInv'
  BY <1>1 DEF RecordsInv, CountInv
<1>3. f \in Unread /\ UnreadInv(f) /\ f.tab \in Tab /\ f.got \in Row \cup {none} /\ f.hidden \subseteq Nat /\ f.dialog \in BOOLEAN
  BY DEF PopupsInv, Unread
<1> DEFINE t == f.tab
<1>4. seats[t] \in Seat /\ SeatInv(t) /\ seats[t].open \in BOOLEAN /\ seats[t].missed \in BOOLEAN /\ seats \in [Tab -> Seat]
  BY <1>3, SeatTyped DEF PopupsInv
<1>5. fetches' \subseteq Unread /\ \A x \in fetches' : x \in fetches
  BY <1>1 DEF PopupsInv
<1>6. TablesInv /\ lastRow' = lastRow /\ ticked \subseteq 1 .. lastRow /\ carried \subseteq 1 .. lastRow /\ marks \subseteq MarkRead
  BY <1>1, <1>2, ElsewhereSame DEF PopupsInv
<1>7. CASE ~(There(f) /\ f.got # none)
  <2>1. seats' = seats /\ carried' = carried
    BY <1>7 DEF Arrived
  <2> QED BY <2>1, <1>1, <1>2, <1>4, <1>5, <1>6, LayoutGoesOn
<1>8. CASE There(f) /\ f.got # none
  <2> DEFINE opens == ~f.dialog \/ (seats[t].shown = none /\ seats[t].dialog = "none")
             o == seats[t].open \/ opens
             b == IF seats[t].open \/ opens THEN FALSE ELSE seats[t].missed
             s == [seats[t] EXCEPT !.shown = f.got, !.hidden = f.hidden, !.open = o, !.missed = b]
  <2>1. seats' = [seats EXCEPT ![t] = s]
    BY <1>4, <1>8 DEF Arrived, Seat
  <2>2. carried' = IF seats[t].tick /\ seats[t].shown.id # f.got.id THEN carried \cup {f.got.id} ELSE carried
    BY <1>8 DEF Arrived
  <2>3. f.got \in Row /\ f.got.id \in Nat \ {0} /\ f.got.id <= lastRow /\ f.got.id \notin f.hidden
    BY <1>3, <1>8 DEF UnreadInv, Row
  <2>4. carried \subseteq carried' /\ carried' \subseteq 1 .. lastRow
    <3>1. lastRow \in Nat
      BY <1>6 DEF TablesInv
    <3>2. f.got.id \in 1 .. lastRow
      BY <2>3, <3>1
    <3> QED BY <2>2, <3>2, <1>6
  <2>5. seats[t].tick => f.got.id \in Put'
    <3>1. CASE seats[t].tick /\ seats[t].shown.id # f.got.id
      BY <2>2, <3>1 DEF Put
    <3>2. CASE seats[t].tick /\ seats[t].shown.id = f.got.id
      BY <2>4, <3>2, <1>1, <1>4 DEF SeatInv, Put
    <3> QED BY <3>1, <3>2
  <2>6. seats[t].dialog = "none" => o \/ b
    <3>1. SUFFICES ASSUME seats[t].dialog = "none", ~o
                   PROVE  seats[t].missed
      OBVIOUS
    <3>2. seats[t].shown # none
      BY <3>1
    <3> QED BY <3>1, <3>2, <1>4 DEF SeatInv
  <2>7. o \in BOOLEAN /\ b \in BOOLEAN
    BY <1>3, <1>4
  <2> HIDE DEF o, b
  <2>8. /\ s \in Seat /\ s.shown = f.got /\ s.hidden = f.hidden /\ s.open = o /\ s.missed = b /\ s.tick = seats[t].tick
        /\ s.dialog = seats[t].dialog
    BY <2>7, <1>3, <1>4 DEF Seat
  <2> HIDE DEF s
  <2>9. seats' \in [Tab -> Seat] /\ seats'[t] = s /\ \A u \in Tab : u # t => seats'[u] = seats[u]
    BY <2>1, <2>8, <1>3, <1>4
  <2>10. SeatInv(t)'
    BY <2>3, <2>5, <2>6, <2>8, <2>9, <1>6, <1>8 DEF SeatInv
  <2>11. \A u \in Tab : seats'[u] = seats[u] \/ SeatInv(u)'
    BY <2>9, <2>10
  <2> QED BY <2>4, <2>9, <2>11, <1>1, <1>2, <1>5, <1>6, LayoutGoesOn
<1> QED BY <1>7, <1>8

LEMMA TickStep ==
  ASSUME RecordsInv, PopupsInv, NEW t \in Tab, Tick(t)
  PROVE  LayoutStep
<1> DEFINE s == [seats[t] EXCEPT !.tick = ~seats[t].tick]
<1>1. Elsewhere /\ UNCHANGED <<fetches, marks, carried, count>> /\ seats[t].open
  BY DEF Tick
<1>2. CountInv'
  BY <1>1 DEF RecordsInv, CountInv
<1>3. /\ seats[t] \in Seat /\ SeatInv(t) /\ seats[t].tick \in BOOLEAN /\ seats[t].shown \in Row \cup {none}
      /\ seats \in [Tab -> Seat]
  BY SeatTyped DEF PopupsInv
<1>4. seats' = [seats EXCEPT ![t] = s]
  BY <1>3 DEF Tick
<1>5. ticked' = IF seats[t].tick THEN ticked ELSE ticked \cup {seats[t].shown.id}
  BY DEF Tick
<1>6. /\ s \in Seat /\ s.shown = seats[t].shown /\ s.hidden = seats[t].hidden /\ s.open = seats[t].open
      /\ s.missed = seats[t].missed /\ s.tick = ~seats[t].tick /\ s.dialog = seats[t].dialog
  BY <1>3 DEF Seat
<1> HIDE DEF s
<1>7. TablesInv /\ lastRow' = lastRow /\ ticked \subseteq 1 .. lastRow /\ carried \subseteq 1 .. lastRow /\ marks \subseteq MarkRead
      /\ fetches \subseteq Unread
  BY <1>1, <1>2, ElsewhereSame DEF PopupsInv
<1>8. seats[t].shown # none /\ seats[t].shown.id \in Nat \ {0} /\ seats[t].shown.id <= lastRow
  BY <1>1, <1>3 DEF SeatInv, Row
<1>9. ticked \subseteq ticked' /\ ticked' \subseteq 1 .. lastRow
  <2>1. lastRow \in Nat
    BY <1>7 DEF TablesInv
  <2>2. seats[t].shown.id \in 1 .. lastRow
    BY <2>1, <1>8
  <2> QED BY <2>2, <1>5, <1>7
<1>10. seats' \in [Tab -> Seat] /\ seats'[t] = s /\ \A u \in Tab : u # t => seats'[u] = seats[u]
  BY <1>3, <1>4, <1>6
<1>11. s.tick => s.shown.id \in Put'
  BY <1>5, <1>6 DEF Put
<1>12. SeatInv(t)'
  BY <1>3, <1>6, <1>7, <1>8, <1>10, <1>11 DEF SeatInv
<1>13. \A u \in Tab : seats'[u] = seats[u] \/ SeatInv(u)'
  BY <1>10, <1>12
<1> QED BY <1>1, <1>2, <1>7, <1>9, <1>10, <1>13, LayoutGoesOn

\* With the box ticked a call is sent for what is displayed, which counts as put away.
LEMMA PopupCloseStep ==
  ASSUME RecordsInv, PopupsInv, NEW t \in Tab, handleNoticePopupClose(t)
  PROVE  LayoutStep
<1>1. Elsewhere /\ UNCHANGED <<fetches, ticked, carried>>
  BY DEF handleNoticePopupClose
<1>2. CountInv'
  BY Counted DEF handleNoticePopupClose, RecordsInv, Steps
<1>3. /\ seats[t] \in Seat /\ SeatInv(t) /\ seats[t].tick \in BOOLEAN /\ seats[t].mount \in Nat
      /\ seats[t].shown # none => seats[t].shown.id \in Nat
  BY SeatTyped
<1>4. fetches' \subseteq Unread /\ \A x \in fetches' : x \in fetches
  BY <1>1 DEF PopupsInv
<1>5. CASE seats[t].tick
  <2>1. seats' = seats /\ count'["closes"] \in Nat
    BY <1>2, <1>5 DEF handleNoticePopupClose, CountInv, Steps
  <2>2. seats[t].shown # none /\ seats[t].shown.id \in Put
    BY <1>3, <1>5 DEF SeatInv
  <2>3. PICK m \in MarkRead : marks' = marks \cup {m} /\ m.id = seats[t].shown.id
    <3> DEFINE m == [n |-> count'["closes"], tab |-> t, mount |-> seats[t].mount, id |-> seats[t].shown.id, step |-> "sent"]
    <3>1. m \in MarkRead
      BY <1>3, <2>1, <2>2 DEF MarkRead
    <3>2. marks' = marks \cup {m}
      BY <1>5 DEF handleNoticePopupClose
    <3> QED BY <3>1, <3>2
  <2>4. m.id \in Put'
    BY <1>1, <2>2, <2>3 DEF Put
  <2>5. marks' \subseteq MarkRead /\ \A x \in marks' : x \in marks \/ x.id \in Put'
    BY <2>3, <2>4 DEF PopupsInv
  <2>6. seats' \in [Tab -> Seat] /\ ticked' \subseteq 1 .. lastRow /\ carried' \subseteq 1 .. lastRow
    BY <1>1, <2>1 DEF PopupsInv
  <2> QED BY <1>1, <1>2, <1>4, <2>1, <2>5, <2>6, LayoutGoesOn
<1>6. CASE ~seats[t].tick
  <2> DEFINE s == [seats[t] EXCEPT !.open = FALSE, !.shown = none, !.hidden = {}]
  <2>1. seats' = [seats EXCEPT ![t] = s] /\ marks' = marks
    BY <1>6 DEF handleNoticePopupClose, PopupsInv, Seat
  <2>2. s \in Seat /\ s.shown = none /\ s.open = FALSE /\ s.tick = FALSE
    BY <1>3, <1>6 DEF Seat
  <2> HIDE DEF s
  <2> QED BY <1>1, <1>2, <1>4, <2>1, <2>2, SeatGoesOn
<1> QED BY <1>3, <1>5, <1>6

\* The popup that asked is closed.
LEMMA MarkEndsStep ==
  ASSUME RecordsInv, PopupsInv, NEW m \in marks, MarkAnswered(m) \/ MarkFailed(m)
  PROVE  LayoutStep
<1>1. Elsewhere /\ UNCHANGED <<fetches, ticked, carried, count>> /\ marks' \subseteq marks
  BY DEF MarkAnswered, MarkFailed
<1>2. CountInv'
  BY <1>1 DEF RecordsInv, CountInv
<1> DEFINE t == m.tab
<1>3. m \in MarkRead /\ t \in Tab
  BY DEF PopupsInv, MarkRead
<1>4. seats[t] \in Seat /\ SeatInv(t) /\ seats \in [Tab -> Seat]
  BY <1>3, SeatTyped DEF PopupsInv
<1>5. fetches' \subseteq Unread /\ \A x \in fetches' : x \in fetches
  BY <1>1 DEF PopupsInv
<1>6. CASE MarkAnswered(m) /\ There(m)
  <2> DEFINE s == [seats[t] EXCEPT !.open = FALSE, !.shown = none, !.hidden = {}, !.tick = FALSE]
  <2>1. seats' = [seats EXCEPT ![t] = s]
    BY <1>6 DEF MarkAnswered
  <2>2. s \in Seat /\ s.shown = none /\ s.open = FALSE /\ s.tick = FALSE
    BY <1>4 DEF Seat
  <2> HIDE DEF s
  <2> QED BY <1>1, <1>2, <1>3, <1>5, <2>1, <2>2, SeatGoesOn
<1>7. CASE MarkFailed(m) /\ There(m)
  <2> DEFINE s == [seats[t] EXCEPT !.open = FALSE, !.missed = TRUE]
  <2>1. seats' = [seats EXCEPT ![t] = s]
    BY <1>7, <1>4 DEF MarkFailed, Seat
  <2>2. /\ s \in Seat /\ s.shown = seats[t].shown /\ s.open = FALSE /\ s.tick = seats[t].tick /\ s.missed = TRUE
        /\ s.hidden = seats[t].hidden
    BY <1>4 DEF Seat
  <2> HIDE DEF s
  <2>3. /\ s.open \/ s.tick => s.shown # none
        /\ s.shown # none => s.shown.id <= lastRow /\ s.shown.id \notin s.hidden /\ (s.tick => s.shown.id \in Put)
    BY <1>4, <2>2 DEF SeatInv
  <2> QED BY <1>1, <1>2, <1>3, <1>5, <2>1, <2>2, <2>3, SeatGoesOn
<1>8. CASE ~There(m)
  <2>1. seats' = seats /\ marks \subseteq MarkRead
    BY <1>8 DEF MarkAnswered, MarkFailed, PopupsInv
  <2>2. marks' \subseteq MarkRead /\ \A x \in marks' : x \in marks
    BY <1>1, <2>1
  <2>3. ticked' \subseteq 1 .. lastRow /\ carried' \subseteq 1 .. lastRow
    BY <1>1 DEF PopupsInv
  <2> QED BY <1>1, <1>2, <1>4, <1>5, <2>1, <2>2, <2>3, LayoutGoesOn
<1> QED BY <1>6, <1>7, <1>8

\* The service goes on with a call of handleNoticePopupClose.
LEMMA StageTyped ==
  ASSUME PopupsInv, NEW m \in marks, NEW step \in {"sent", "found", "looked", "stored", "failed"}, Stage(m, step),
         Put \subseteq Put'
  PROVE  marks' \subseteq MarkRead /\ \A x \in marks' : x \in marks \/ x.id \in Put'
<1>1. m \in MarkRead /\ m.id \in Put /\ marks \subseteq MarkRead
  BY DEF PopupsInv
<1>2. PICK d \in MarkRead : d = [m EXCEPT !.step = step]
  BY <1>1 DEF MarkRead
<1>3. d.id = m.id /\ marks' = (marks \ {m}) \cup {d}
  BY <1>1, <1>2 DEF MarkRead, Stage
<1> QED BY <1>1, <1>3

LEMMA MarkChecksStep ==
  ASSUME RecordsInv, PopupsInv, NEW m \in marks, FoundNotice(m) \/ LookedUp(m) \/ MarkLost(m)
  PROVE  LayoutStep
<1>1. Elsewhere /\ UNCHANGED <<seats, fetches, ticked, carried>>
  BY DEF FoundNotice, LookedUp, MarkLost
<1>2. CountInv'
  <2>1. CASE MarkLost(m)
    BY <2>1, Counted DEF MarkLost, RecordsInv, Steps
  <2>2. CASE ~MarkLost(m)
    BY <2>2 DEF FoundNotice, LookedUp, RecordsInv, CountInv
  <2> QED BY <2>1, <2>2
<1>3. PICK step \in {"sent", "found", "looked", "stored", "failed"} : Stage(m, step)
  BY DEF FoundNotice, LookedUp, MarkLost
<1>4. Put \subseteq Put'
  BY <1>1 DEF Put
<1>5. marks' \subseteq MarkRead /\ \A x \in marks' : x \in marks \/ x.id \in Put'
  BY <1>3, <1>4, StageTyped
<1>6. /\ seats' \in [Tab -> Seat] /\ fetches' \subseteq Unread /\ ticked' \subseteq 1 .. lastRow /\ carried' \subseteq 1 .. lastRow
      /\ \A x \in fetches' : x \in fetches
  BY <1>1 DEF PopupsInv
<1> QED BY <1>1, <1>2, <1>5, <1>6, LayoutGoesOn

\* The only write of the popup: a notice is put away, and only one whose box was ticked.
LEMMA MarkStoredStep ==
  ASSUME RecordsInv, PopupsInv, NEW m \in marks, MarkStored(m)
  PROVE  LayoutStep
<1>1. UNCHANGED <<scenario, rows, lastRow, written, seats, fetches, ticked, carried, count>> /\ UNCHANGED lists
  BY DEF MarkStored
<1>2. CountInv'
  BY <1>1 DEF RecordsInv, CountInv
<1>3. m \in MarkRead /\ m.id \in Put /\ views \subseteq Put /\ Put' = Put
  BY <1>1 DEF PopupsInv, Put
<1>4. views \subseteq views' /\ \A x \in views' : x \in views \/ (x = m.id /\ Kept("notice", m.id))
  BY DEF MarkStored
<1>5. TablesInv' /\ TablesStep
  <2>1. TablesInv /\ views \subseteq {r.id : r \in rows["notice"]}
    BY DEF RecordsInv, TablesInv
  <2>2. views' \subseteq {r.id : r \in rows["notice"]}
    BY <1>4, <2>1 DEF Kept
  <2>3. TablesInv'
    BY <1>1, <2>1, <2>2 DEF TablesInv
  <2>4. \A k \in Kind : written[k] \in Nat
    BY <2>1 DEF TablesInv
  <2>5. TablesStep
    BY <1>1, <1>4, <2>1, <2>4 DEF TablesStep, TablesInv, Kept
  <2> QED BY <2>3, <2>5
<1>6. RecordsInv'
  BY <1>1, <1>2, <1>5, ElsewhereStep
<1>7. PICK step \in {"stored", "failed"} : Stage(m, step)
  BY DEF MarkStored
<1>8. marks' \subseteq MarkRead /\ \A x \in marks' : x \in marks \/ x.id \in Put'
  BY <1>3, <1>7, StageTyped
<1>9. /\ seats' \in [Tab -> Seat] /\ fetches' \subseteq Unread /\ ticked' \subseteq 1 .. lastRow' /\ carried' \subseteq 1 .. lastRow'
      /\ \A x \in fetches' : x \in fetches
  BY <1>1 DEF PopupsInv
<1>10. views' \subseteq Put'
  BY <1>3, <1>4
<1>11. PopupsInv'
  <2>1. TablesInv
    BY DEF RecordsInv
  <2> QED BY <2>1, <1>1, <1>5, <1>8, <1>9, <1>10, PopupsGoOn
<1> QED BY <1>5, <1>6, <1>11 DEF LayoutStep

---------------------------------------------------------------------------
(* The bell *)

CountedTo(n) == [s \in Status |-> IF \E i \in 1 .. n : s = Pending[i] THEN Number(s) ELSE 0]

\* As long as nothing is written, a query counts what is there, one status after the other.
QueryCounts ==
  /\ query.step = 0 => query.counts = Zero
  /\ query.step \in 1 .. 3 => Seen /\ query.counts = CountedTo(query.step - 1)
  /\ query.step = 4 => query.counts = Truth
QueryInv ==
  query # none =>
    /\ query.upto <= written["support"]
    /\ ~bell.absorbed => told <= query.upto
    /\ query.upto = written["support"] => QueryCounts

RingInv ==
  /\ told <= written["support"] /\ bell.upto <= written["support"]
  /\ ~scenario.bell => query = none

BellInv == BellOK /\ QueryInv /\ RingInv /\ BellShowsTold

LEMMA BellTyped ==
  ASSUME TablesInv, BellInv
  PROVE  /\ written["support"] \in Nat /\ told \in Nat /\ bell.upto \in Nat
         /\ query # none => query \in Query /\ query.upto \in Nat /\ query.step \in 0 .. 4
<1>1. written["support"] \in Nat
  BY DEF TablesInv, Kind
<1>2. told \in Nat /\ bell.upto \in Nat /\ (query # none => query \in Query)
  BY DEF BellInv, BellOK
<1> QED BY <1>1, <1>2 DEF Query

LEMMA NumberTyped ==
  ASSUME TablesInv
  PROVE  \A s : Number(s) \in Nat
<1>1. IsFiniteSet(rows["support"])
  BY DEF TablesInv, Kind
<1> TAKE s
<1>2. IsFiniteSet({r \in rows["support"] : r.mark = s})
  BY <1>1, FS_Subset
<1> QED BY <1>2, FS_CardinalityType DEF Number

\* The bell while pages and popup go on.
LEMMA BellStays ==
  ASSUME TablesInv, TablesInv', TablesStep, BellInv, UNCHANGED ring
  PROVE  BellInv'
<1>1. assigned' = assigned /\ bell' = bell /\ query' = query /\ told' = told /\ scenario' = scenario
  BY DEF ring, TablesStep
<1>2. /\ written["support"] \in Nat /\ written'["support"] \in Nat /\ written["support"] <= written'["support"]
      /\ written'["support"] = written["support"] => rows'["support"] = rows["support"]
  BY DEF TablesInv, TablesStep, Kind
<1>3. BellOK'
  BY <1>1 DEF BellInv, BellOK
<1>4. Seen' <=> Seen
  BY <1>1 DEF Seen
<1>5. ASSUME written'["support"] = written["support"]
      PROVE  Truth' = Truth /\ \A s : Number(s)' = Number(s)
  <2>1. \A s : Number(s)' = Number(s)
    BY <1>2, <1>5 DEF Number
  <2> QED BY <1>4, <2>1 DEF Truth
<1>6. ASSUME NEW n \in Nat, n <= written["support"]
      PROVE  n <= written'["support"] /\ (n = written'["support"] => written'["support"] = written["support"])
  BY <1>2, <1>6
<1>7. RingInv'
  BY <1>1, <1>6, BellTyped DEF BellInv, RingInv
<1>8. QueryInv'
  <2> SUFFICES ASSUME query # none
               PROVE  QueryInv'
    BY <1>1 DEF QueryInv
  <2>1. query.upto \in Nat /\ query.upto <= written["support"]
    BY BellTyped DEF BellInv, QueryInv
  <2>2. query.upto <= written'["support"] /\ (query.upto = written'["support"] => written'["support"] = written["support"])
    BY <2>1, <1>6
  <2>3. ~bell.absorbed => told <= query.upto
    BY DEF BellInv, QueryInv
  <2>4. ASSUME query.upto = written'["support"]
        PROVE  QueryCounts'
    <3>1. QueryCounts /\ Truth' = Truth /\ \A s : Number(s)' = Number(s)
      BY <2>2, <2>4, <1>5 DEF BellInv, QueryInv
    <3> QED BY <3>1, <1>1, <1>4 DEF QueryCounts, CountedTo, Zero
  <2> QED BY <1>1, <2>2, <2>3, <2>4 DEF QueryInv
<1>9. BellShowsTold'
  <2>1. bell.upto \in Nat /\ bell.upto <= written["support"]
    BY BellTyped DEF BellInv, RingInv
  <2>2. bell.upto = written'["support"] => written'["support"] = written["support"] /\ Truth' = Truth
    BY <2>1, <1>5, <1>6
  <2> QED BY <1>1, <2>2 DEF BellInv, BellShowsTold
<1> QED BY <1>3, <1>7, <1>8, <1>9 DEF BellInv

\* A query that begins now: nothing counted, and everything the bell was told of is there.
LEMMA Begun ==
  ASSUME TablesInv, scenario' = scenario, UNCHANGED tables, scenario.bell,
         assigned' \in BOOLEAN, bell' \in [counts : [Status -> Nat], known : BOOLEAN, upto : Nat, lag : BOOLEAN, absorbed : BOOLEAN],
         told' \in Nat, told' <= written["support"], bell'.upto <= written["support"],
         NEW i \in 0 .. 1, query' = [Fresh EXCEPT !.tries = i]
  PROVE  BellInv'
<1>1. written["support"] \in Nat /\ written' = written
  BY DEF TablesInv, Kind, tables
<1>2. query' = [step |-> 0, counts |-> Zero, tries |-> i, upto |-> written["support"]]
  BY DEF Fresh
<1>3. query' \in Query
  <2>1. Zero \in [Status -> Nat]
    BY DEF Zero
  <2>2. 0 \in 0 .. 4 /\ i \in 0 .. 1 /\ written["support"] \in Nat
    BY <1>1
  <2>3. [step |-> 0, counts |-> Zero, tries |-> i, upto |-> written["support"]] \in Query
    BY <2>1, <2>2 DEF Query
  <2> QED BY <2>3, <1>2
<1>4. query' # none
  BY <1>3, BellAssumption
<1>5. BellOK'
  BY <1>3 DEF BellOK
<1>6. query'.upto = written["support"] /\ query'.step = 0 /\ query'.counts = Zero
  BY <1>2
<1>7. QueryCounts'
  BY <1>6 DEF QueryCounts, Zero
<1>8. QueryInv'
  BY <1>1, <1>6, <1>7 DEF QueryInv
<1>9. RingInv'
  BY <1>1 DEF RingInv
<1> QED BY <1>4, <1>5, <1>8, <1>9 DEF BellInv, BellShowsTold

LEMMA BegunFresh ==
  ASSUME TablesInv, scenario' = scenario, UNCHANGED tables, scenario.bell,
         assigned' \in BOOLEAN, bell' \in [counts : [Status -> Nat], known : BOOLEAN, upto : Nat, lag : BOOLEAN, absorbed : BOOLEAN],
         told' \in Nat, told' <= written["support"], bell'.upto <= written["support"],
         query' = Fresh
  PROVE  BellInv'
<1>1. Fresh = [Fresh EXCEPT !.tries = 0]
  BY DEF Fresh
<1> QED BY <1>1, Begun

LEMMA ReassignedStep ==
  ASSUME RecordsInv, PopupsInv, BellInv, Reassigned, UNCHANGED layout
  PROVE  RecordsInv' /\ PopupsInv' /\ BellInv'
<1>1. /\ scenario' = scenario /\ rows' = rows /\ lastRow' = lastRow /\ views' = views /\ UNCHANGED lists
      /\ written' = [written EXCEPT !["support"] = @ + 1]
      /\ bell' = bell /\ query' = query /\ told' = told /\ assigned' = ~assigned
  BY DEF Reassigned
<1>2. TablesInv /\ written \in [Kind -> Nat]
  BY DEF RecordsInv, TablesInv
<1>3. written' \in [Kind -> Nat] /\ \A k \in Kind : written[k] <= written'[k]
  <2>1. written \in [Kind -> Nat] /\ "support" \in Kind
    BY <1>2 DEF Kind
  <2>2. written' = [written EXCEPT !["support"] = @ + 1]
    BY <1>1
  <2>3. \A k \in Kind : written'[k] \in Nat /\ written[k] <= written'[k]
    BY <2>1, <2>2
  <2> QED BY <2>1, <2>2, <2>3
<1>4. TablesInv'
  BY <1>1, <1>2, <1>3 DEF TablesInv
<1>5. TablesStep
  <2>1. lastRow <= lastRow'
    BY <1>1, <1>2 DEF TablesInv
  <2> QED BY <1>1, <1>3, <2>1 DEF TablesStep, Kept
<1>6. CountInv'
  BY Counted DEF Reassigned, RecordsInv, Steps
<1>7. RecordsInv'
  BY <1>1, <1>2, <1>4, <1>5, <1>6, ElsewhereStep
<1>8. PopupsInv'
  BY <1>1, <1>2, <1>4, <1>5, PopupsStay
<1>9. written'["support"] = written["support"] + 1 /\ written["support"] \in Nat
  BY <1>1, <1>2 DEF Kind
<1>10. BellInv'
  <2>1. BellOK'
    BY <1>1 DEF BellInv, BellOK
  <2>2. RingInv'
    BY <1>1, <1>2, <1>9, BellTyped DEF BellInv, RingInv
  <2>3. QueryInv'
    BY <1>1, <1>2, <1>9, BellTyped DEF BellInv, QueryInv
  <2>4. BellShowsTold'
    <3>1. bell'.upto # written'["support"]
      BY <1>1, <1>2, <1>9, BellTyped DEF BellInv, RingInv
    <3> QED BY <3>1, <1>1 DEF BellInv, BellShowsTold
  <2> QED BY <2>1, <2>2, <2>3, <2>4 DEF BellInv
<1> QED BY <1>7, <1>8, <1>10

\* A step of the bell alone.
LEMMA BellAlone ==
  ASSUME RecordsInv, PopupsInv, UNCHANGED <<scenario, tables, lists>>, UNCHANGED layout, CountInv'
  PROVE  RecordsInv' /\ PopupsInv' /\ TablesInv /\ TablesInv'
<1>1. TablesInv' /\ TablesStep /\ TablesInv /\ views' \subseteq views
  BY TablesSame DEF RecordsInv
<1>2. RecordsInv'
  BY <1>1, ElsewhereStep
<1> QED BY <1>1, <1>2, PopupsStay

LEMMA ReadStatusStep ==
  ASSUME TablesInv, BellInv, ReadStatus
  PROVE  BellInv'
<1> DEFINE n == query.step
<1> DEFINE s == Pending[n]
<1>1. /\ query # none /\ n \in 1 .. 3
      /\ query' = [query EXCEPT !.step = @ + 1, !.counts[s] = Number(s)]
      /\ assigned' = assigned /\ bell' = bell /\ told' = told
      /\ scenario' = scenario /\ rows' = rows /\ written' = written
  BY DEF ReadStatus, Still, tables
<1>2. query \in Query /\ query.counts \in [Status -> Nat] /\ query.upto \in Nat
  BY <1>1 DEF BellInv, BellOK, Query
<1>3. s \in Status
  BY <1>1 DEF Status
<1>4. Number(s) \in Nat
  BY NumberTyped
<1>5. /\ query'.step = n + 1 /\ query'.counts = [query.counts EXCEPT ![s] = Number(s)]
      /\ query'.upto = query.upto /\ query'.tries = query.tries
  BY <1>1, <1>2 DEF Query
<1>6. query'.counts \in [Status -> Nat] /\ n + 1 \in 0 .. 4
  <2>1. n + 1 \in 0 .. 4
    BY <1>1
  <2> HIDE DEF n, s
  <2> QED BY <2>1, <1>2, <1>4, <1>5
<1>7. query' \in Query
  BY <1>1, <1>2, <1>5, <1>6 DEF Query
<1>8. BellOK'
  BY <1>1, <1>7 DEF BellInv, BellOK
<1>9. Seen' = Seen /\ Truth' = Truth /\ \A k : Number(k)' = Number(k)
  BY <1>1 DEF Seen, Truth, Number
<1>10. ASSUME query.upto = written["support"]
       PROVE  Seen /\ query'.counts = CountedTo(n)
  <2>1. Seen /\ query.counts = CountedTo(n - 1)
    BY <1>1, <1>10 DEF BellInv, QueryInv, QueryCounts
  <2>2. query'.counts = [query.counts EXCEPT ![s] = Number(s)]
    BY <1>5
  <2>3. ASSUME NEW t \in Status
        PROVE  query'.counts[t] = CountedTo(n)[t]
    <3>1. CASE t = s
      <4>1. n \in 1 .. n
        BY <1>1
      <4> QED BY <4>1, <3>1, <1>2, <1>3, <1>5 DEF CountedTo
    <3>2. CASE t # s
      <4>1. query'.counts[t] = CountedTo(n - 1)[t]
        BY <3>2, <2>1, <1>2, <1>5
      <4>2. (\E i \in 1 .. n : t = Pending[i]) <=> \E i \in 1 .. (n - 1) : t = Pending[i]
        BY <3>2, <1>1
      <4> QED BY <4>1, <4>2 DEF CountedTo
    <3> QED BY <3>1, <3>2
  <2>4. CountedTo(n) = [t \in Status |-> CountedTo(n)[t]] /\ query'.counts = [t \in Status |-> query'.counts[t]]
    BY <1>6 DEF CountedTo
  <2> QED BY <2>1, <2>3, <2>4
<1>11. Seen => CountedTo(3) = Truth
  BY DEF CountedTo, Truth, Status
<1>12. QueryInv'
  <2>1. query.upto <= written["support"] /\ (~bell.absorbed => told <= query.upto)
    BY <1>1 DEF BellInv, QueryInv
  <2>2. query'.upto <= written'["support"] /\ (~bell'.absorbed => told' <= query'.upto)
    BY <2>1, <1>1, <1>5
  <2>3. ASSUME query'.upto = written'["support"]
        PROVE  QueryCounts'
    <3>1. query.upto = written["support"]
      BY <2>3, <1>1, <1>5
    <3>2. Seen /\ query'.counts = CountedTo(n)
      BY <3>1, <1>10
    <3>3. n + 1 - 1 = n /\ n + 1 # 0 /\ (n + 1 = 4 => n = 3)
      BY <1>1
    <3>4. CountedTo(n) = [t \in Status |-> IF \E i \in 1 .. n : t = Pending[i] THEN Number(t)' ELSE 0]
      BY <1>9 DEF CountedTo
    <3>5. query'.step - 1 = n
      <4>1. n \in Nat /\ query'.step = n + 1
        BY <1>1, <1>5
      <4> QED BY <4>1
    <3> HIDE DEF n
    <3>6. query'.counts = CountedTo(query.step - 1)'
      BY <3>2, <3>4, <3>5 DEF CountedTo
    <3>7. query'.step # 0 /\ (query'.step = 4 => query'.counts = Truth')
      BY <3>2, <3>3, <1>5, <1>9, <1>11
    <3> QED BY <3>2, <3>6, <3>7, <1>9 DEF QueryCounts
  <2> QED BY <2>2, <2>3 DEF QueryInv
<1>13. RingInv'
  BY <1>1 DEF BellInv, RingInv
<1>14. query' # none
  BY <1>7, BellAssumption
<1> QED BY <1>8, <1>12, <1>13, <1>14 DEF BellInv, BellShowsTold

LEMMA ReadAssignedStep ==
  ASSUME TablesInv, BellInv, ReadAssigned
  PROVE  BellInv'
<1>1. /\ query # none /\ query.step = 0
      /\ query' = [query EXCEPT !.step = IF Seen THEN 1 ELSE 4]
      /\ assigned' = assigned /\ bell' = bell /\ told' = told
      /\ scenario' = scenario /\ rows' = rows /\ written' = written
  BY DEF ReadAssigned, Still, tables
<1>2. query \in Query
  BY <1>1 DEF BellInv, BellOK
<1>3. query' \in Query /\ query'.step = (IF Seen THEN 1 ELSE 4) /\ query'.counts = query.counts /\ query'.upto = query.upto
  BY <1>1, <1>2 DEF Query
<1>4. BellOK'
  BY <1>1, <1>3 DEF BellInv, BellOK
<1>5. Seen' = Seen /\ Truth' = Truth
  BY <1>1 DEF Seen, Truth, Number
<1>6. CountedTo(0) = Zero /\ (~Seen => Truth = Zero)
  BY DEF CountedTo, Truth, Zero
<1>7. query.upto = written["support"] => query.counts = Zero
  BY <1>1 DEF BellInv, QueryInv, QueryCounts
<1>8. QueryInv'
  <2>1. query.upto <= written["support"] /\ (~bell.absorbed => told <= query.upto)
    BY <1>1 DEF BellInv, QueryInv
  <2>2. query'.upto <= written'["support"] /\ (~bell'.absorbed => told' <= query'.upto)
    BY <2>1, <1>1, <1>3
  <2>3. ASSUME query'.upto = written'["support"]
        PROVE  QueryCounts'
    <3>1. query'.counts = Zero
      BY <2>3, <1>1, <1>3, <1>7
    <3>2. CASE Seen
      <4>1. query'.step = 1 /\ Seen'
        BY <3>2, <1>3, <1>5
      <4>2. 1 .. (1 - 1) = {}
        OBVIOUS
      <4>3. query'.counts = CountedTo(query.step - 1)'
        BY <3>1, <4>1, <4>2 DEF CountedTo, Zero
      <4> QED BY <4>1, <4>3 DEF QueryCounts
    <3>3. CASE ~Seen
      BY <3>1, <3>3, <1>3, <1>5, <1>6 DEF QueryCounts
    <3> QED BY <3>2, <3>3
  <2> QED BY <2>2, <2>3 DEF QueryInv
<1>9. RingInv'
  BY <1>1 DEF BellInv, RingInv
<1>10. query' # none
  BY <1>3, BellAssumption
<1> QED BY <1>4, <1>8, <1>9, <1>10 DEF BellInv, BellShowsTold

LEMMA BellAnsweredStep ==
  ASSUME TablesInv, BellInv, BellAnswered
  PROVE  BellInv'
<1>1. /\ query # none /\ query.step = 4 /\ query' = none
      /\ bell' = [bell EXCEPT !.counts = query.counts, !.known = TRUE, !.upto = query.upto, !.lag = FALSE]
      /\ assigned' = assigned /\ told' = told /\ scenario' = scenario /\ rows' = rows /\ written' = written
  BY DEF BellAnswered, Still, tables
<1>2. /\ query \in Query /\ bell \in [counts : [Status -> Nat], known : BOOLEAN, upto : Nat, lag : BOOLEAN, absorbed : BOOLEAN]
  BY <1>1 DEF BellInv, BellOK
<1>3. bell'.counts = query.counts /\ bell'.upto = query.upto /\ bell'.absorbed = bell.absorbed
  BY <1>1, <1>2
<1>4. BellOK'
  BY <1>1, <1>2 DEF BellInv, BellOK, Query
<1>5. Truth' = Truth
  BY <1>1 DEF Seen, Truth, Number
<1>6. /\ query.upto <= written["support"] /\ (~bell.absorbed => told <= query.upto)
      /\ query.upto = written["support"] => query.counts = Truth
  BY <1>1 DEF BellInv, QueryInv, QueryCounts
<1>7. RingInv' /\ QueryInv'
  BY <1>1, <1>3, <1>6 DEF BellInv, RingInv, QueryInv
<1>8. BellShowsTold'
  BY <1>1, <1>3, <1>5, <1>6 DEF BellShowsTold
<1> QED BY <1>4, <1>7, <1>8 DEF BellInv

LEMMA BellFailedStep ==
  ASSUME TablesInv, BellInv, BellFailed
  PROVE  BellInv'
<1>1. /\ query # none /\ assigned' = assigned /\ told' = told
      /\ scenario' = scenario /\ UNCHANGED tables /\ rows' = rows /\ written' = written
  BY DEF BellFailed, Still, tables
<1>2. /\ assigned \in BOOLEAN /\ bell \in [counts : [Status -> Nat], known : BOOLEAN, upto : Nat, lag : BOOLEAN, absorbed : BOOLEAN]
      /\ told \in Nat /\ told <= written["support"] /\ bell.upto <= written["support"] /\ scenario.bell
  BY <1>1 DEF BellInv, BellOK, RingInv
<1>3. CASE query.tries = 0
  <2>1. query' = [Fresh EXCEPT !.tries = 1] /\ bell' = bell
    BY <1>3 DEF BellFailed
  <2> QED BY <2>1, <1>1, <1>2, Begun
<1>4. CASE query.tries # 0
  <2>1. query' = none /\ bell' = [bell EXCEPT !.lag = TRUE]
    BY <1>4 DEF BellFailed
  <2>2. bell'.lag /\ bell'.upto = bell.upto
    BY <2>1, <1>2
  <2>3. BellOK'
    BY <2>1, <1>1, <1>2 DEF BellOK
  <2> QED BY <2>1, <2>2, <2>3, <1>1, <1>2 DEF BellInv, QueryInv, RingInv, BellShowsTold
<1> QED BY <1>3, <1>4

LEMMA RefetchStep ==
  ASSUME TablesInv, BellInv, Refetch
  PROVE  BellInv'
<1>1. /\ scenario.bell /\ query' = Fresh /\ bell' = [bell EXCEPT !.absorbed = FALSE]
      /\ assigned' = assigned /\ told' = told /\ scenario' = scenario /\ UNCHANGED tables
  BY DEF Refetch, Still
<1>2. /\ assigned \in BOOLEAN /\ bell \in [counts : [Status -> Nat], known : BOOLEAN, upto : Nat, lag : BOOLEAN, absorbed : BOOLEAN]
      /\ told \in Nat /\ told <= written["support"] /\ bell.upto <= written["support"]
  BY DEF BellInv, BellOK, RingInv
<1>3. bell' \in [counts : [Status -> Nat], known : BOOLEAN, upto : Nat, lag : BOOLEAN, absorbed : BOOLEAN] /\ bell'.upto = bell.upto
  BY <1>1, <1>2
<1> QED BY <1>1, <1>2, <1>3, BegunFresh

\* The end of a handler that wrote: the bell counts anew, or remembers that it was not heard.
LEMMA ToldStep ==
  ASSUME TablesInv, TablesInv', TablesStep, BellInv, UNCHANGED <<scenario, tables>>, NEW l \in Load, l.at <= written[l.kind], Told(l)
  PROVE  BellInv'
<1>1. l.at \in Nat
  BY DEF Load
<1>2. /\ assigned \in BOOLEAN /\ bell \in [counts : [Status -> Nat], known : BOOLEAN, upto : Nat, lag : BOOLEAN, absorbed : BOOLEAN]
      /\ told \in Nat /\ told <= written["support"] /\ bell.upto <= written["support"] /\ written' = written
  BY DEF BellInv, BellOK, RingInv, tables
<1>3. CASE l.call # 0 /\ l.kind = "support" /\ l.page \in Mine
  <2>1. /\ assigned' = assigned /\ Invalidated /\ told' = IF l.at > told THEN l.at ELSE told
    BY <1>3 DEF Told
  <2>2. told' \in Nat /\ told' <= written["support"]
    BY <2>1, <1>1, <1>2, <1>3
  <2>3. CASE ~scenario.bell
    <3>1. query = none /\ query' = query /\ bell' = bell /\ ~scenario'.bell
      BY <2>1, <2>3 DEF Invalidated, BellInv, RingInv
    <3>2. BellOK'
      BY <3>1, <2>1, <2>2 DEF BellInv, BellOK
    <3> QED BY <3>1, <3>2, <2>2, <1>2 DEF BellInv, QueryInv, RingInv, BellShowsTold
  <2>4. CASE scenario.bell /\ query = none
    <3>1. query' = Fresh /\ bell' = [bell EXCEPT !.absorbed = FALSE]
      BY <2>1, <2>4 DEF Invalidated
    <3>2. bell' \in [counts : [Status -> Nat], known : BOOLEAN, upto : Nat, lag : BOOLEAN, absorbed : BOOLEAN] /\ bell'.upto = bell.upto
      BY <3>1, <1>2
    <3> QED BY <3>1, <3>2, <2>1, <2>2, <2>4, <1>2, BegunFresh
  <2>5. CASE scenario.bell /\ query # none /\ bell.known
    <3>1. query' = Fresh /\ bell' = bell
      BY <2>1, <2>5 DEF Invalidated
    <3> QED BY <3>1, <2>1, <2>2, <2>5, <1>2, BegunFresh
  <2>6. CASE scenario.bell /\ query # none /\ ~bell.known
    <3>1. query' = query /\ bell' = [bell EXCEPT !.absorbed = TRUE]
      BY <2>1, <2>6 DEF Invalidated
    <3>2. bell' \in [counts : [Status -> Nat], known : BOOLEAN, upto : Nat, lag : BOOLEAN, absorbed : BOOLEAN] /\ bell'.upto = bell.upto /\ bell'.absorbed
      BY <3>1, <1>2
    <3>3. BellOK'
      BY <3>1, <3>2, <2>1, <2>2 DEF BellInv, BellOK
    <3>4. QueryCounts => QueryCounts'
      BY <2>1, <3>1 DEF QueryCounts, Seen, Truth, CountedTo, Number, tables, Zero
    <3>5. QueryInv'
      BY <3>1, <3>2, <3>4, <1>2 DEF BellInv, QueryInv
    <3>6. RingInv'
      BY <3>1, <3>2, <2>2, <2>6, <1>2 DEF RingInv
    <3>7. query' # none
      BY <3>1, <2>6
    <3> QED BY <3>3, <3>5, <3>6, <3>7 DEF BellInv, BellShowsTold
  <2> QED BY <2>3, <2>4, <2>5, <2>6
<1>4. CASE ~(l.call # 0 /\ l.kind = "support" /\ l.page \in Mine)
  <2>1. UNCHANGED ring
    BY <1>4 DEF Told, ring
  <2> QED BY <2>1, BellStays
<1> QED BY <1>3, <1>4

---------------------------------------------------------------------------
(* The office *)

OfficeInv == RecordsInv /\ PopupsInv /\ BellInv

\* A step of the pages or of the popup leaves the other parts in order.
LEMMA OfficeGoesOn ==
  ASSUME OfficeInv,
         \/ RecordsStep /\ Apart
         \/ LayoutStep /\ UNCHANGED ring
  PROVE  OfficeInv'
<1>1. TablesInv /\ TablesInv' /\ RecordsInv' /\ TablesStep /\ UNCHANGED ring
  BY DEF OfficeInv, RecordsInv, RecordsStep, LayoutStep, Apart
<1>2. PopupsInv'
  <2>1. CASE RecordsStep /\ Apart
    BY <2>1, <1>1, PopupsStay DEF OfficeInv, RecordsStep, Apart
  <2>2. CASE LayoutStep
    BY <2>2 DEF LayoutStep
  <2> QED BY <2>1, <2>2
<1>3. BellInv'
  BY <1>1, BellStays DEF OfficeInv
<1> QED BY <1>1, <1>2, <1>3 DEF OfficeInv

LEMMA OfficeInit == Init => OfficeInv
<1> SUFFICES ASSUME Init
             PROVE  OfficeInv
  OBVIOUS
<1> USE DEF Init
<1>1. scenario \in Scenarios /\ scenario.filled \in SUBSET Kind
  BY RecordsAssumption DEF RecordsInit
<1>2. /\ lastRow = 1 /\ views = {} /\ calls = {} /\ loads = {}
      /\ rows = [k \in Kind |-> IF k \in scenario.filled THEN {[id |-> 1, mark |-> "open"]} ELSE {}]
      /\ written = [k \in Kind |-> 0] /\ count = [c \in Steps |-> 0] /\ pages = [p \in Page |-> Blank]
  BY DEF RecordsInit
<1>3. TablesInv
  <2> DEFINE first == [id |-> 1, mark |-> "open"]
  <2>1. first \in Row /\ first.id = 1
    BY DEF Row, Mark, Status, Pending
  <2>2. rows = [k \in Kind |-> IF k \in scenario.filled THEN {first} ELSE {}]
    BY <1>2
  <2>3. IsFiniteSet({}) /\ IsFiniteSet({first})
    BY FS_EmptySet, FS_Singleton
  <2> HIDE DEF first
  <2>4. \A k \in Kind : rows[k] \in SUBSET Row /\ IsFiniteSet(rows[k]) /\ \A r \in rows[k] : r = first
    BY <2>1, <2>2, <2>3
  <2>5. rows \in [Kind -> SUBSET Row]
    BY <2>2, <2>4
  <2>6. \A k \in Kind : \A r \in rows[k] : r.id <= lastRow
    BY <2>1, <2>4, <1>2
  <2>7. \A k \in Kind : \A r, q \in rows[k] : r.id = q.id => r = q
    BY <2>4
  <2>8. written \in [Kind -> Nat] /\ lastRow \in Nat
    BY <1>2
  <2> QED BY <2>4, <2>5, <2>6, <2>7, <2>8, <1>1, <1>2 DEF TablesInv
<1>4. CountInv
  BY <1>2 DEF CountInv
<1>5. ListsInv
  <2>1. Blank \in Display
    BY DEF Blank, Display
  <2>2. \A p \in Page : pages[p] = Blank
    BY <1>2
  <2>3. ASSUME NEW p \in Page
        PROVE  PageInv(p)
    <3>1. Blank.kind = none /\ Blank.dialog = "none" /\ Blank.filter = "" /\ Blank.table = {} /\ Blank.list = {}
      BY DEF Blank
    <3>2. pages[p] = Blank
      BY <2>2
    <3> QED BY <3>1, <3>2 DEF PageInv, PageShape, PageTold
  <2>4. pages \in [Page -> Display]
    BY <2>1, <1>2
  <2> QED BY <2>3, <2>4, <1>2 DEF ListsInv, PagesInv, CallsInv, LoadsInv
<1>6. PopupsInv
  <2>1. /\ seats = [t \in Tab |-> Away] /\ fetches = {} /\ marks = {} /\ ticked = {} /\ carried = {}
    BY DEF PopupsInit
  <2>2. Away \in Seat
    BY DEF Away, Seat
  <2>3. \A t \in Tab : SeatInv(t)
    BY <2>1 DEF SeatInv, Away
  <2>4. seats \in [Tab -> Seat]
    BY <2>1, <2>2
  <2> QED BY <2>1, <2>3, <2>4, <1>2 DEF PopupsInv
<1>7. BellInv
  <2>1. /\ assigned \in (IF scenario.moves > 0 THEN BOOLEAN ELSE {TRUE})
        /\ bell = [counts |-> Zero, known |-> FALSE, upto |-> 0, lag |-> FALSE, absorbed |-> FALSE]
        /\ query = (IF scenario.bell THEN Fresh ELSE none) /\ told = 0
    BY DEF BellInit
  <2>2. written["support"] = 0
    BY <1>2 DEF Kind
  <2>3. Zero \in [Status -> Nat]
    BY DEF Zero
  <2>4. Fresh \in Query /\ Fresh.upto = 0 /\ Fresh.step = 0 /\ Fresh.counts = Zero
    BY <2>2, <2>3 DEF Fresh, Query
  <2>5. assigned \in BOOLEAN
    BY <2>1
  <2>6. bell \in [counts : [Status -> Nat], known : BOOLEAN, upto : Nat, lag : BOOLEAN, absorbed : BOOLEAN]
    BY <2>1, <2>3
  <2>7. BellOK
    BY <2>1, <2>4, <2>5, <2>6 DEF BellOK
  <2>8. QueryInv
    BY <2>1, <2>2, <2>4 DEF QueryInv, QueryCounts
  <2>9. RingInv
    BY <2>1, <2>2 DEF RingInv
  <2>10. BellShowsTold
    BY <2>1 DEF BellShowsTold
  <2> QED BY <2>7, <2>8, <2>9, <2>10 DEF BellInv
<1> QED BY <1>3, <1>4, <1>5, <1>6, <1>7 DEF OfficeInv, RecordsInv

LEMMA OfficeStep == OfficeInv /\ [Next]_vars => OfficeInv'
<1> SUFFICES ASSUME OfficeInv, [Next]_vars
             PROVE  OfficeInv'
  OBVIOUS
<1> USE DEF OfficeInv
<1>1. ASSUME NEW p \in Page, NEW k \in Kind, OpenPage(p, k), Apart
      PROVE  OfficeInv'
  BY <1>1, OpenPageStep, OfficeGoesOn
<1>2. ASSUME NEW p \in Page, LeavePage(p), Apart
      PROVE  OfficeInv'
  BY <1>2, LeavePageStep, OfficeGoesOn
<1>3. ASSUME NEW p \in Page, handleAddClick(p) \/ handleOpenEditDialog(p) \/ CloseDialog(p), Apart
      PROVE  OfficeInv'
  BY <1>3, ClicksStep, OfficeGoesOn
<1>4. ASSUME NEW p \in Page, NEW r \in pages[p].table, handleEditClick(p, r) \/ handleMenuOpen(p, r), Apart
      PROVE  OfficeInv'
  BY <1>4, ClicksStep, OfficeGoesOn
<1>5. ASSUME NEW p \in Page, NEW m \in scenario.marks, handleApplyFilter(p, m), Apart
      PROVE  OfficeInv'
  BY <1>5, FilterStep, OfficeGoesOn
<1>6. ASSUME NEW p \in Page, handleResetFilter(p), Apart
      PROVE  OfficeInv'
  BY <1>6, FilterStep, OfficeGoesOn
<1>7. ASSUME NEW p \in Page, NEW m \in scenario.marks, handleCreate(p, m) \/ handleUpdate(p, m), Apart
      PROVE  OfficeInv'
  BY <1>7, WritesStep, OfficeGoesOn
<1>8. ASSUME NEW p \in Page, NEW r \in pages[p].table, handleDelete(p, r), Apart
      PROVE  OfficeInv'
  BY <1>8, WritesStep, OfficeGoesOn
<1>9. ASSUME NEW c \in calls, CallAnswered(c), Apart
      PROVE  OfficeInv'
  BY <1>9, CallAnsweredStep, OfficeGoesOn
<1>10. ASSUME NEW c \in calls, CallFailed(c), Apart
       PROVE  OfficeInv'
  BY <1>10, CallFailedStep, OfficeGoesOn
<1>11. ASSUME NEW c \in calls, Created(c) \/ Updated(c) \/ Removed(c), Apart
       PROVE  OfficeInv'
  BY <1>11, StoresStep, OfficeGoesOn
<1>12. ASSUME NEW c \in calls, Found(c) \/ Overtaken(c) \/ CallBreaks(c), Apart
       PROVE  OfficeInv'
  BY <1>12, ChecksStep, OfficeGoesOn
<1>13. ASSUME NEW l \in loads, findAll(l), Apart
       PROVE  OfficeInv'
  BY <1>13, FindAllStep, OfficeGoesOn
<1>14. ASSUME NEW l \in loads, LoadAnswered(l) \/ LoadFailed(l), Told(l), UNCHANGED layout
       PROVE  OfficeInv'
  <2>1. RecordsInv' /\ TablesStep /\ views' \subseteq views /\ TablesInv /\ TablesInv'
    BY <1>14, LoadEndsStep DEF RecordsStep, RecordsInv
  <2>2. PopupsInv'
    BY <2>1, <1>14, PopupsStay
  <2>3. l \in Load /\ l.at <= written[l.kind]
    BY LoadTyped DEF RecordsInv, ListsInv, LoadInv
  <2>4. UNCHANGED <<scenario, tables>>
    BY <1>14 DEF LoadAnswered, LoadFailed
  <2>5. BellInv'
    BY <2>1, <2>3, <2>4, <1>14, ToldStep
  <2> QED BY <2>1, <2>2, <2>5
<1>15. ASSUME NEW t \in Tab, NEW d \in {"none", "forced"}, Enter(t, d), UNCHANGED ring
       PROVE  OfficeInv'
  BY <1>15, EnterStep, OfficeGoesOn
<1>16. ASSUME NEW t \in Tab, UNCHANGED ring,
              \/ Leave(t) \/ handlePasswordDialogOpen(t) \/ handlePasswordDialogClose(t)
              \/ handlePasswordChangeSuccess(t) \/ Tick(t) \/ handleNoticePopupClose(t)
       PROVE  OfficeInv'
  BY <1>16, LeaveStep, DialogOpenStep, DialogClosedStep, TickStep, PopupCloseStep, OfficeGoesOn
<1>17. ASSUME NEW f \in fetches, UNCHANGED ring, Arrived(f) \/ FetchLost(f) \/ ReadViews(f) \/ getUnreadNotices(f)
       PROVE  OfficeInv'
  BY <1>17, ArrivedStep, UnreadReadStep, OfficeGoesOn
<1>18. ASSUME NEW m \in marks, UNCHANGED ring,
              \/ MarkAnswered(m) \/ MarkFailed(m) \/ FoundNotice(m) \/ LookedUp(m) \/ MarkStored(m) \/ MarkLost(m)
       PROVE  OfficeInv'
  BY <1>18, MarkEndsStep, MarkChecksStep, MarkStoredStep, OfficeGoesOn
<1>19. CASE Reassigned /\ UNCHANGED layout
  BY <1>19, ReassignedStep
<1>20. ASSUME UNCHANGED layout, ReadAssigned \/ ReadStatus \/ BellAnswered \/ BellFailed \/ Refetch
       PROVE  OfficeInv'
  <2>1. UNCHANGED <<scenario, tables, lists>>
    BY <1>20 DEF ReadAssigned, ReadStatus, BellAnswered, BellFailed, Refetch, Still
  <2>2. CountInv'
    <3>1. CASE BellFailed
      BY <3>1, Counted DEF BellFailed, RecordsInv, Steps
    <3>2. CASE count' = count
      BY <3>2 DEF RecordsInv, CountInv
    <3> QED BY <3>1, <3>2, <1>20 DEF ReadAssigned, ReadStatus, BellAnswered, Refetch
  <2>3. RecordsInv' /\ PopupsInv' /\ TablesInv
    BY <2>1, <2>2, <1>20, BellAlone
  <2>4. BellInv'
    BY <2>3, <1>20, ReadAssignedStep, ReadStatusStep, BellAnsweredStep, BellFailedStep, RefetchStep
  <2> QED BY <2>3, <2>4
<1>21. CASE UNCHANGED vars
  <2>1. UNCHANGED <<scenario, tables, lists>> /\ UNCHANGED layout /\ UNCHANGED ring /\ count' = count
    BY <1>21 DEF vars
  <2>2. CountInv' /\ TablesInv /\ TablesInv' /\ TablesStep
    BY <2>1, TablesSame DEF RecordsInv, CountInv
  <2>3. RecordsInv' /\ PopupsInv'
    BY <2>1, <2>2, BellAlone
  <2> QED BY <2>1, <2>2, <2>3, BellStays
<1> QED BY <1>1, <1>2, <1>3, <1>4, <1>5, <1>6, <1>7, <1>8, <1>9, <1>10, <1>11, <1>12, <1>13, <1>14, <1>15, <1>16, <1>17,
           <1>18, <1>19, <1>20, <1>21 DEF Next

LEMMA OfficeInductive == Spec => []OfficeInv
  BY OfficeInit, OfficeStep, PTL DEF Spec

\* In every reachable state the tables, the lists, the popup and the bell are well typed.
THEOREM OfficeTypeCorrect == Spec => []TypeOK
<1>1. OfficeInv => TypeOK
  <2> SUFFICES ASSUME OfficeInv
               PROVE  TypeOK
    OBVIOUS
  <2> USE DEF OfficeInv
  <2>1. RecordsOK
    <3>1. \A p \in Page : pages[p].table \in {pages[p].list, {r \in pages[p].list : r.mark = pages[p].filter}}
      BY DEF RecordsInv, ListsInv, PagesInv, PageInv, PageShape
    <3> QED BY <3>1 DEF RecordsOK, RecordsInv, TablesInv, CountInv, ListsInv, PagesInv, CallsInv, LoadsInv
  <2>2. PopupsOK
    BY DEF PopupsOK, PopupsInv, SeatInv
  <2> QED BY <2>1, <2>2 DEF TypeOK, BellInv
<1> QED BY <1>1, OfficeInductive, PTL

\* A page at rest shows every write it was told of, and a bell at rest has counted them:
\* exactly the rows when nobody wrote since. For any number of pages, rows, calls and loads.
THEOREM OfficeShowsTold == Spec => []ToldIsShown
<1>1. OfficeInv => ListsShowAcked /\ BellShowsTold
  <2> SUFFICES ASSUME OfficeInv
               PROVE  ListsShowAcked /\ BellShowsTold
    OBVIOUS
  <2>1. \A p \in Page : PageInv(p)
    BY DEF OfficeInv, RecordsInv, ListsInv, PagesInv
  <2>2. ListsShowAcked
    BY <2>1 DEF ListsShowAcked, PageInv, PageTold, AtRest
  <2> QED BY <2>2 DEF OfficeInv, BellInv
<1> QED BY <1>1, OfficeInductive, OfficeTypeCorrect, PTL DEF ToldIsShown

\* What counts as read was ticked away or came beneath a ticked box, a popup never shows what
\* was put away when it asked, and no fetched notice waits unseen: in any number of tabs.
THEOREM NoticesKept == Spec => []NoticesAreKept
<1>1. OfficeInv => NoticesAreKept
  BY DEF OfficeInv, PopupsInv, SeatInv, NoticesAreKept, OnlyTickedIsHidden, HiddenStaysHidden, NoneWaits, Put
<1> QED BY <1>1, OfficeInductive, PTL

===============================================================================
