-------------------------- MODULE EncryptionProofs --------------------------
(***************************************************************************)
(* Proofs about Encryption, for any passwords, keys, tabs and scenarios.     *)
(***************************************************************************)
EXTENDS Encryption, FiniteSetTheorems, TLAPS

---------------------------------------------------------------------------
(* The invariant: types to the last field, and what the parts know of each other *)

Page == [page : {"none", "detail", "edit"}, mount : Nat, loading : BOOLEAN, saving : BOOLEAN, form : Form]
Load == [tab : Tab, mount : Nat, step : {"customer", "source", "answered", "failed"}, form : Form]
Save == [tab : Tab, mount : Nat, form : Form, kind : {"post", "put"}, found : Nat, was : Secret \cup {none},
         step : {"sent", "found", "stored", "logged", "refused"}]
Book == [step : {"source", "support", "write"}, source : {"", "none", "data", "failed"},
         support : {"", "none", "data"}, was : SUBSET BOOLEAN, logs : SUBSET BOOLEAN]
Panel == [state : {"loading", "shown"}, policy : Nat \cup {none}, typed : Text \cup {"absent", "empty"}, saving : BOOLEAN]
Patch == [policy : Nat \cup {none}, typed : Text \cup {"absent", "empty"}, step : {"sent", "found", "stored"}]
Script == [step : {"off", "rows", "settings", "write", "done", "failed"}, key : Key,
           rows : SUBSET Access, sftp : Secret \cup {none}]

AtMostOne(S) == \A x, y \in S : x = y

\* A password is stored in the clear or under the one key.
AsSaved(v, t) == v = Plain(t) \/ v = encrypt(Plain(t), key)

RowsInv ==
  /\ key \in Key /\ source \in Source \cup {none} /\ access \subseteq Access /\ AtMostOne(access)
  /\ \A a \in access : source # none /\ a.source = source.id /\ a.id <= lastId
  /\ customer \in BOOLEAN /\ support \in BOOLEAN /\ journal \subseteq Secret
  /\ unseen = FALSE /\ rekeyed \in BOOLEAN /\ meant \in Text \cup {none}
  /\ lastId \in Nat /\ version \in Nat
  /\ ~rekeyed => \A a \in access : a.secret # none => meant # none /\ AsSaved(a.secret, meant)

\* A form that has an id was filled from a row, and as long as there has been one key a
\* form holds passwords as they are typed.
GoodForm(f) ==
  /\ f \in Form
  /\ f.id # 0 => f.seen
  /\ ~rekeyed => f.secret = none \/ \E x \in Text : f.secret = Plain(x)

TabsInv == tab \in [Tab -> Page] /\ \A t \in Tab : GoodForm(tab[t].form)
LoadsInv == loads \subseteq Load /\ \A l \in loads : GoodForm(l.form)
SavesInv == saves \subseteq Save /\ \A s \in saves : GoodForm(s.form) /\ (s.kind = "put" => s.form.id # 0)

BookInv ==
  /\ book \in Book \cup {none}
  /\ book # none /\ book.source = "none" => FALSE \in book.was
  /\ NoneMeansNone

OfficeInv ==
  /\ settings \in [policy : Nat, sftp : Secret \cup {none}]
  /\ panel \in Panel /\ patch \in Patch \cup {none} /\ edited \in Nat /\ typedLast \in Text \cup {none}
  /\ ~rekeyed /\ ~raced /\ settings.sftp # none => typedLast # none /\ AsSaved(settings.sftp, typedLast)

\* What the script has read and not treated yet is still as it was read, or gone; what
\* is in the clear is still ahead of it, or there has been no run since.
ScriptInv ==
  /\ migration \in Script /\ raced \in BOOLEAN
  /\ \A a \in migration.rows : a.id <= lastId
  /\ \A a, b \in migration.rows : a.id = b.id => a = b
  /\ \A a \in migration.rows, b \in access : a.id = b.id => a = b
  /\ ~rekeyed => migration.key = key
  /\ migration.step = "write" => migration.sftp # none /\ ~isEncrypted(migration.sftp)

ClearedInv ==
  /\ migration.step \in {"rows", "settings", "write", "done"} =>
       \A a \in access : a.secret = none \/ isEncrypted(a.secret) \/ (migration.step = "rows" /\ a \in migration.rows)
  /\ migration.step = "done" => settings.sftp = none \/ isEncrypted(settings.sftp)

CountInv == scenario \in Scenarios /\ count \in [Kinds -> Nat]

SecretInv ==
  RowsInv /\ TabsInv /\ LoadsInv /\ SavesInv /\ BookInv /\ OfficeInv /\ ScriptInv /\ ClearedInv /\ CountInv

---------------------------------------------------------------------------
(* Secrets *)

LEMMA PlainIsSecret == ASSUME NEW t \in Text PROVE Plain(t) \in Secret /\ (isEncrypted(Plain(t)) <=> t \in LooksEncrypted)
BY DEF Plain, Secret, isEncrypted

LEMMA EncryptedIsSecret ==
  ASSUME NEW v \in Secret, NEW k \in Key
  PROVE  encrypt(v, k) \in Secret /\ isEncrypted(encrypt(v, k)) /\ encrypt(v, k).layers = Append(v.layers, k)
<1>1. v.layers \in Seq(Key) /\ v.text \in Text
  BY DEF Secret
<1>2. Append(v.layers, k) \in Seq(Key) /\ Append(v.layers, k) # <<>>
  BY <1>1
<1>3. encrypt(v, k) = [text |-> v.text, layers |-> Append(v.layers, k)]
  <2>1. PICK a : a = Append(v.layers, k)
    OBVIOUS
  <2>2. [v EXCEPT !.layers = a] = [text |-> v.text, layers |-> a]
    BY DEF Secret
  <2> QED
    BY <2>1, <2>2 DEF encrypt
<1> QED
  BY <1>1, <1>2, <1>3 DEF Secret, isEncrypted

LEMMA DecryptedIsSecret ==
  ASSUME NEW v \in Secret, NEW k \in Key, Readable(v, k)
  PROVE  safeDecrypt(v, k) \in Secret
<1>1. CASE isEncrypted(v)
  <2>1. v.layers \in Seq(Key) /\ v.layers # <<>>
    BY <1>1 DEF Secret, Readable
  <2>2. Len(v.layers) \in Nat \ {0}
    BY <2>1
  <2>3. SubSeq(v.layers, 1, Len(v.layers) - 1) \in Seq(Key)
    BY <2>1, <2>2
  <2> QED
    BY <1>1, <2>3 DEF safeDecrypt, Secret
<1>2. CASE ~isEncrypted(v)
  BY <1>2 DEF safeDecrypt
<1> QED
  BY <1>1, <1>2

\* What was encrypted once is read with the key, and its layer is all that is taken off.
LEMMA OneLayer ==
  ASSUME NEW t \in Text, NEW k \in Key
  PROVE  Readable(encrypt(Plain(t), k), k) /\ safeDecrypt(encrypt(Plain(t), k), k) = Plain(t)
<1>1. encrypt(Plain(t), k) = [text |-> t, layers |-> <<k>>]
  <2>1. Append(<<>>, k) = <<k>>
    OBVIOUS
  <2> QED
    BY <2>1 DEF encrypt, Plain
<1>2. <<k>> # <<>> /\ Len(<<k>>) = 1 /\ <<k>>[1] = k
  OBVIOUS
<1>3. SubSeq(<<k>>, 1, 0) = <<>>
  OBVIOUS
<1>4. [[text |-> t, layers |-> <<k>>] EXCEPT !.layers = SubSeq(<<k>>, 1, 0)] = Plain(t)
  BY <1>3 DEF Plain
<1>5. isEncrypted([text |-> t, layers |-> <<k>>])
  BY <1>2 DEF isEncrypted
<1>6. Readable([text |-> t, layers |-> <<k>>], k)
  BY <1>2 DEF Readable
<1>7. safeDecrypt([text |-> t, layers |-> <<k>>], k) = Plain(t)
  BY <1>2, <1>4, <1>5 DEF safeDecrypt
<1> QED
  BY <1>1, <1>6, <1>7

---------------------------------------------------------------------------
(* Initial states *)

LEMMA InitSecret == Init => SecretInv
<1> SUFFICES ASSUME Init PROVE SecretInv
  OBVIOUS
<1> USE DEF Init
<1>1. key \in Key /\ scenario \in Scenarios
  BY DEF SourcesInit
<1>2. RowsInv
  <2>1. PICK t \in Text :
          \/ /\ source = none /\ access = {} /\ meant = none /\ lastId = 0
          \/ /\ source = [id |-> 1, of |-> 0] /\ meant = t /\ lastId = 1
             /\ \/ access = {[id |-> 1, source |-> 1, secret |-> Plain(t)]}
                \/ access = {[id |-> 1, source |-> 1, secret |-> encrypt(Plain(t), key)]}
    BY DEF SourcesInit
  <2>2. Plain(t) \in Secret /\ encrypt(Plain(t), key) \in Secret
    BY <1>1, PlainIsSecret, EncryptedIsSecret
  <2>3. customer \in BOOLEAN /\ journal \subseteq Secret /\ support \in BOOLEAN /\ unseen = FALSE /\ rekeyed = FALSE /\ version = 0
    BY DEF SourcesInit
  <2>4. CASE source = none /\ access = {} /\ meant = none /\ lastId = 0
    BY <1>1, <2>3, <2>4 DEF RowsInv, AtMostOne
  <2>5. ASSUME NEW v \in Secret, v = Plain(t) \/ v = encrypt(Plain(t), key),
               source = [id |-> 1, of |-> 0], meant = t, lastId = 1,
               access = {[id |-> 1, source |-> 1, secret |-> v]}
        PROVE  RowsInv
    <3>1. source \in Source /\ source # none /\ access \subseteq Access
      BY <2>5, SourcesAssumption DEF Source, Access
    <3>2. meant # none
      BY <2>5, SecretsAssumption
    <3>3. \A a \in access : a.source = 1 /\ a.id = 1 /\ AsSaved(a.secret, t)
      BY <2>5 DEF AsSaved
    <3>4. AtMostOne(access) /\ source.id = 1
      BY <2>5 DEF AtMostOne
    <3>5. \A a \in access : source # none /\ a.source = source.id /\ a.id <= lastId
      BY <2>5, <3>1, <3>3, <3>4
    <3>6. \A a \in access : meant # none /\ AsSaved(a.secret, meant)
      BY <2>5, <3>2, <3>3
    <3> HIDE DEF Init
    <3> QED
      BY <1>1, <2>3, <2>5, <3>1, <3>4, <3>5, <3>6 DEF RowsInv
  <2> QED
    BY <2>1, <2>2, <2>4, <2>5
<1>3. Default \in Form /\ GoodForm(Default)
  BY DEF Default, Form, GoodForm
<1>4. TabsInv
  <2>1. Closed \in Page /\ Closed.form = Default
    BY <1>3 DEF Closed, Page
  <2> QED
    BY <1>3, <2>1 DEF TabsInv, SourcesInit
<1>5. LoadsInv /\ SavesInv /\ BookInv
  BY DEF SourcesInit, LoadsInv, SavesInv, BookInv, NoneMeansNone
<1>6. OfficeInv
  <2>1. settings \in [policy : Nat, sftp : Secret \cup {none}] /\ typedLast \in Text \cup {none}
        /\ (settings.sftp # none => typedLast # none /\ AsSaved(settings.sftp, typedLast))
    <3>1. CASE typedLast = none /\ settings = [policy |-> 0, sftp |-> none]
      BY <3>1
    <3>2. ASSUME NEW t \in Text, typedLast = t,
                 settings = [policy |-> 0, sftp |-> Plain(t)] \/ settings = [policy |-> 0, sftp |-> encrypt(Plain(t), key)]
          PROVE  <2>1!1 /\ <2>1!2
      BY <1>1, <3>2, PlainIsSecret, EncryptedIsSecret, SecretsAssumption DEF AsSaved
    <3> QED
      BY <3>1, <3>2 DEF SettingsInit
  <2>2. panel \in Panel /\ patch = none /\ edited = 0
    BY DEF SettingsInit, Empty, Panel
  <2> QED
    BY <2>1, <2>2 DEF OfficeInv
<1>7. ScriptInv /\ ClearedInv
  BY <1>1 DEF ScriptInv, ClearedInv, Script
<1>8. CountInv
  BY <1>1 DEF CountInv, SourcesInit, Kinds
<1> QED
  BY <1>2, <1>4, <1>5, <1>6, <1>7, <1>8 DEF SecretInv

---------------------------------------------------------------------------
(* What a step leaves alone *)

LEMMA RowsStay == RowsInv /\ UNCHANGED database => RowsInv'
BY DEF RowsInv, database, AtMostOne, AsSaved, Plain, encrypt

LEMMA ScriptStays == ScriptInv /\ ClearedInv /\ UNCHANGED <<database, settings, script>> => ScriptInv' /\ ClearedInv'
BY DEF ScriptInv, ClearedInv, database, script, isEncrypted

LEMMA OfficeStays == OfficeInv /\ UNCHANGED <<key, rekeyed, raced, office>> => OfficeInv'
BY DEF OfficeInv, office, AsSaved, Plain, encrypt

LEMMA BookStays == BookInv /\ UNCHANGED <<book, file>> => BookInv'
BY DEF BookInv, NoneMeansNone

\* Forms stay good when the key changes: then nothing is said of their passwords.
LEMMA FormStays == ASSUME NEW f, GoodForm(f), rekeyed \in BOOLEAN, rekeyed => rekeyed' PROVE GoodForm(f)'
BY DEF GoodForm

LEMMA TabsStay == TabsInv /\ rekeyed \in BOOLEAN /\ (rekeyed => rekeyed') /\ UNCHANGED tab => TabsInv'
BY FormStays DEF TabsInv

LEMMA LoadsStay == LoadsInv /\ rekeyed \in BOOLEAN /\ (rekeyed => rekeyed') /\ UNCHANGED loads => LoadsInv'
BY FormStays DEF LoadsInv

LEMMA SavesStay == SavesInv /\ rekeyed \in BOOLEAN /\ (rekeyed => rekeyed') /\ UNCHANGED saves => SavesInv'
BY FormStays DEF SavesInv

LEMMA Counted == ASSUME CountInv, NEW c \in Kinds, Once(c), UNCHANGED scenario PROVE CountInv'
BY DEF CountInv, Once

---------------------------------------------------------------------------
(* The pages *)

LEMMA ShowsPage ==
  ASSUME TabsInv, LoadsInv, NEW t \in Tab, NEW p \in {"detail", "edit"}, Shows(t, p), UNCHANGED rekeyed
  PROVE  TabsInv' /\ LoadsInv'
<1> DEFINE shown == [Closed EXCEPT !.page = p, !.mount = tab[t].mount + 1, !.loading = TRUE]
           asked == [tab |-> t, mount |-> tab[t].mount + 1, step |-> "customer", form |-> Default]
<1>1. Default \in Form /\ GoodForm(Default)' /\ tab[t].mount \in Nat
  BY DEF Default, Form, GoodForm, TabsInv, Page
<1>2. shown \in Page /\ shown.form = Default
  <2>1. Closed \in Page /\ Closed.form = Default
    BY <1>1 DEF Closed, Page
  <2>2. ASSUME NEW c \in Page, NEW m \in Nat
        PROVE  /\ [c EXCEPT !.page = p, !.mount = m, !.loading = TRUE] \in Page
               /\ [c EXCEPT !.page = p, !.mount = m, !.loading = TRUE].form = c.form
    BY DEF Page
  <2>3. PICK m \in Nat : m = tab[t].mount + 1
    BY <1>1
  <2>4. shown = [Closed EXCEPT !.page = p, !.mount = m, !.loading = TRUE]
    BY <2>3
  <2> HIDE DEF shown
  <2> QED
    BY <2>1, <2>2, <2>4
<1>3. asked \in Load /\ asked.form = Default
  BY <1>1 DEF Load
<1>4. tab' = [tab EXCEPT ![t] = shown] /\ loads' = loads \cup {asked}
  BY DEF Shows
<1>5. TabsInv'
  <2>1. tab' \in [Tab -> Page]
    BY <1>2, <1>4 DEF TabsInv
  <2>2. ASSUME NEW u \in Tab PROVE GoodForm(tab[u].form)'
    <3>1. tab'[u] = IF u = t THEN shown ELSE tab[u]
      BY <1>4 DEF TabsInv
    <3> QED
      BY <1>1, <1>2, <3>1 DEF TabsInv, GoodForm
  <2> QED
    BY <2>1, <2>2 DEF TabsInv
<1>6. LoadsInv'
  BY <1>1, <1>3, <1>4 DEF LoadsInv, GoodForm
<1> QED
  BY <1>5, <1>6

\* What a page or a request under way keeps of its form.
LEMMA LoadTurns ==
  ASSUME LoadsInv, NEW l \in loads, NEW step \in {"source", "failed"}, Turns(l, step), UNCHANGED rekeyed
  PROVE  LoadsInv'
<1>1. [l EXCEPT !.step = step] \in Load /\ [l EXCEPT !.step = step].form = l.form
  BY DEF LoadsInv, Load
<1> QED
  BY <1>1 DEF Turns, LoadsInv, GoodForm

LEMMA SaveTurns ==
  ASSUME SavesInv, NEW s \in saves, NEW moved \in Save, moved.form = s.form, moved.kind = s.kind,
         saves' = (saves \ {s}) \cup {moved}, UNCHANGED rekeyed
  PROVE  SavesInv'
BY DEF SavesInv, GoodForm

LEMMA SaveMoves ==
  ASSUME SavesInv, NEW s \in saves, NEW step \in {"found", "stored", "logged", "refused"}, Moves(s, step), UNCHANGED rekeyed
  PROVE  SavesInv'
<1> DEFINE moved == [s EXCEPT !.step = step]
<1>1. moved \in Save /\ moved.form = s.form /\ moved.kind = s.kind
  BY DEF SavesInv, Save
<1>2. saves' = (saves \ {s}) \cup {moved}
  BY DEF Moves
<1> HIDE DEF moved
<1> QED
  BY <1>1, <1>2, SaveTurns

LEMMA StoredIsSecret == RowsInv => Stored \in Secret \cup {none}
BY DEF RowsInv, Access, Stored

\* Today's answer: what is read back is what was typed, unless there were two keys.
LEMMA AnswerIsGood == ASSUME RowsInv, \A a \in access : Opens(a) PROVE GoodForm(Answer)
<1>1. CASE source = none
  BY <1>1 DEF Answer, Default, GoodForm, Form
<1>2. CASE source # none
  <2>1. source \in Source
    BY <1>2 DEF RowsInv
  <2>2. CASE \A a \in access : a.secret = none
    BY <1>2, <2>1, <2>2 DEF Answer, Stored, GoodForm, Form, Source
  <2>3. ASSUME NEW a \in access, a.secret # none PROVE GoodForm(Answer)
    <3>1. (CHOOSE b \in access : b.secret # none) = a
      BY <2>3 DEF RowsInv, AtMostOne
    <3>2. Answer = [id |-> source.id, of |-> source.of, seen |-> TRUE, secret |-> safeDecrypt(a.secret, key)]
      BY <1>2, <2>3, <3>1 DEF Answer, Stored
    <3>3. a.secret \in Secret /\ Readable(a.secret, key) /\ key \in Key
      BY <2>3 DEF RowsInv, Access, Opens
    <3>4. safeDecrypt(a.secret, key) \in Secret
      BY <3>3, DecryptedIsSecret
    <3>5. ASSUME ~rekeyed PROVE safeDecrypt(a.secret, key) = Plain(meant) /\ meant \in Text
      <4>1. AsSaved(a.secret, meant) /\ meant \in Text
        BY <2>3, <3>5 DEF RowsInv
      <4>2. CASE a.secret = Plain(meant)
        <5>1. ~isEncrypted(a.secret)
          BY <3>3, <4>2 DEF Readable, Plain
        <5> QED
          BY <4>1, <4>2, <5>1 DEF safeDecrypt
      <4>3. CASE a.secret = encrypt(Plain(meant), key)
        BY <3>3, <4>1, <4>3, OneLayer
      <4> QED
        BY <4>1, <4>2, <4>3 DEF AsSaved
    <3> QED
      BY <2>1, <3>2, <3>4, <3>5 DEF GoodForm, Form, Source
  <2> QED
    BY <2>2, <2>3
<1> QED
  BY <1>1, <1>2

\* A step of a page or an export touches nothing of the database, the settings and the script.
LEMMA Browsing ==
  ASSUME SecretInv, UNCHANGED <<database, office, script>>,
         UNCHANGED tab \/ TabsInv', UNCHANGED loads \/ LoadsInv', UNCHANGED saves \/ SavesInv',
         UNCHANGED <<book, file>> \/ BookInv', UNCHANGED <<scenario, count>> \/ CountInv'
  PROVE  SecretInv'
<1>1. UNCHANGED <<key, rekeyed, raced, settings>> /\ rekeyed \in BOOLEAN
  BY DEF database, office, script, SecretInv, RowsInv
<1>2. RowsInv' /\ OfficeInv' /\ ScriptInv' /\ ClearedInv'
  BY <1>1, RowsStay, OfficeStays, ScriptStays DEF SecretInv
<1>3. TabsInv' /\ LoadsInv' /\ SavesInv'
  BY <1>1, TabsStay, LoadsStay, SavesStay DEF SecretInv
<1>4. BookInv' /\ CountInv'
  BY BookStays DEF SecretInv, CountInv
<1> QED
  BY <1>2, <1>3, <1>4 DEF SecretInv

LEMMA OpenStep == ASSUME SecretInv, NEW t \in Tab, NEW p \in {"detail", "edit"}, Open(t, p), Apart PROVE SecretInv'
<1>1. UNCHANGED <<database, office, script, saves, book, file, scenario, rekeyed>> /\ Shows(t, p) /\ Once("opens")
  BY DEF Open, Apart, database
<1>2. TabsInv' /\ LoadsInv' /\ CountInv'
  BY <1>1, ShowsPage, Counted DEF SecretInv, Kinds
<1> QED
  BY <1>1, <1>2, Browsing

LEMMA CustomerLoadedStep == ASSUME SecretInv, NEW l \in loads, CustomerLoaded(l), Apart PROVE SecretInv'
<1>1. UNCHANGED <<database, office, script, tab, saves, book, file, scenario, count, rekeyed>>
  BY DEF CustomerLoaded, Apart, database
<1>2. LoadsInv'
  BY <1>1, LoadTurns DEF CustomerLoaded, SecretInv
<1> QED
  BY <1>1, <1>2, Browsing

LEMMA AnswerStep == ASSUME SecretInv, NEW l \in loads, getSourceManagement(l), Apart PROVE SecretInv'
<1>1. UNCHANGED <<database, office, script, tab, saves, book, file, scenario, count, rekeyed>>
  BY DEF getSourceManagement, Apart, database
<1>2. CASE \A a \in access : Opens(a)
  <2>1. GoodForm(Answer) /\ LoadsInv
    BY <1>2, AnswerIsGood DEF SecretInv
  <2>2. PICK f : f = Answer
    OBVIOUS
  <2>3. f \in Form /\ GoodForm(f)'
    BY <1>1, <2>1, <2>2 DEF GoodForm
  <2>4. [l EXCEPT !.step = "answered", !.form = f] \in Load /\ [l EXCEPT !.step = "answered", !.form = f].form = f
    BY <2>1, <2>3 DEF LoadsInv, Load
  <2>5. loads' = (loads \ {l}) \cup {[l EXCEPT !.step = "answered", !.form = f]}
    BY <1>2, <2>2 DEF getSourceManagement
  <2>6. LoadsInv'
    BY <1>1, <2>1, <2>3, <2>4, <2>5 DEF LoadsInv, GoodForm
  <2> QED
    BY <1>1, <2>6, Browsing
<1>3. CASE ~\A a \in access : Opens(a)
  <2>1. LoadsInv'
    BY <1>1, <1>3, LoadTurns DEF getSourceManagement, SecretInv
  <2> QED
    BY <1>1, <2>1, Browsing
<1> QED
  BY <1>2, <1>3

\* A page that is given another form.
LEMMA Filled ==
  ASSUME TabsInv, NEW t \in Tab, NEW p \in Page, GoodForm(p.form), tab' = [tab EXCEPT ![t] = p], UNCHANGED rekeyed
  PROVE  TabsInv'
<1>1. tab' \in [Tab -> Page]
  BY DEF TabsInv
<1>2. ASSUME NEW u \in Tab PROVE GoodForm(tab[u].form)'
  <2>1. tab'[u] = IF u = t THEN p ELSE tab[u]
    BY DEF TabsInv
  <2> QED
    BY <2>1 DEF TabsInv, GoodForm
<1> QED
  BY <1>1, <1>2 DEF TabsInv

LEMMA LoadedStep == ASSUME SecretInv, NEW l \in loads, Loaded(l), Apart PROVE SecretInv'
<1>1. UNCHANGED <<database, office, script, saves, book, file, scenario, count, rekeyed>>
  BY DEF Loaded, Apart, database
<1>2. LoadsInv'
  BY <1>1 DEF Loaded, LoadsInv, GoodForm, SecretInv
<1>3. UNCHANGED tab \/ TabsInv'
  <2>1. TabsInv /\ l \in Load /\ GoodForm(l.form) /\ l.tab \in Tab
    BY DEF SecretInv, LoadsInv, Load
  <2> DEFINE p == [tab[l.tab] EXCEPT !.loading = FALSE, !.form = l.form]
  <2>2. p \in Page /\ p.form = l.form
    <3>1. tab[l.tab] \in Page /\ l.form \in Form
      BY <2>1 DEF TabsInv, GoodForm
    <3> QED
      BY <3>1 DEF Page
  <2>3. UNCHANGED tab \/ tab' = [tab EXCEPT ![l.tab] = p]
    BY DEF Loaded
  <2> HIDE DEF p
  <2> QED
    BY <1>1, <2>1, <2>2, <2>3, Filled
<1> QED
  BY <1>1, <1>2, <1>3, Browsing

LEMMA ServerChangeStep == ASSUME SecretInv, NEW t \in Tab, handleServerChange(t), Apart PROVE SecretInv'
<1>1. UNCHANGED <<database, office, script, loads, saves, book, file, scenario, rekeyed>> /\ Once("edits")
  BY DEF handleServerChange, Apart, database
<1>2. CountInv'
  BY <1>1, Counted DEF SecretInv, Kinds
<1>3. TabsInv'
  <2>1. TabsInv /\ tab[t] \in Page /\ GoodForm(tab[t].form)
    BY DEF SecretInv, TabsInv
  <2>2. PICK n \in Nat : n = count'["edits"]
    BY <1>2 DEF CountInv, Kinds
  <2> DEFINE f == [tab[t].form EXCEPT !.of = n]
             p == [tab[t] EXCEPT !.form = f]
  <2>3. f \in Form /\ f.id = tab[t].form.id /\ f.seen = tab[t].form.seen /\ f.secret = tab[t].form.secret
    BY <2>1 DEF GoodForm, Form
  <2>4. GoodForm(f)
    <3> HIDE DEF f
    <3> QED
      BY <2>1, <2>3 DEF GoodForm
  <2>5. p \in Page /\ p.form = f
    <3> HIDE DEF f
    <3> QED
      BY <2>1, <2>3 DEF Page
  <2>6. tab' = [tab EXCEPT ![t] = p]
    BY <2>2 DEF handleServerChange
  <2> HIDE DEF f, p
  <2> QED
    BY <1>1, <2>1, <2>4, <2>5, <2>6, Filled
<1> QED
  BY <1>1, <1>2, <1>3, Browsing

LEMMA AccessChangeStep ==
  ASSUME SecretInv, NEW t \in Tab, NEW v \in {none} \cup {Plain(x) : x \in Text}, handleAccessInfoChange(t, v), Apart
  PROVE  SecretInv'
<1>1. UNCHANGED <<database, office, script, loads, saves, book, file, scenario, rekeyed>> /\ Once("edits")
  BY DEF handleAccessInfoChange, Apart, database
<1>2. CountInv'
  BY <1>1, Counted DEF SecretInv, Kinds
<1>3. TabsInv'
  <2>1. TabsInv /\ tab[t] \in Page /\ GoodForm(tab[t].form)
    BY DEF SecretInv, TabsInv
  <2>2. v \in Secret \cup {none} /\ (v = none \/ \E x \in Text : v = Plain(x))
    BY PlainIsSecret
  <2> DEFINE f == [tab[t].form EXCEPT !.secret = v]
             p == [tab[t] EXCEPT !.form = f]
  <2>3. f \in Form /\ f.id = tab[t].form.id /\ f.seen = tab[t].form.seen /\ f.secret = v
    BY <2>1, <2>2 DEF GoodForm, Form
  <2>4. GoodForm(f)
    <3> HIDE DEF f
    <3> QED
      BY <2>1, <2>2, <2>3 DEF GoodForm
  <2>5. p \in Page /\ p.form = f
    <3> HIDE DEF f
    <3> QED
      BY <2>1, <2>3 DEF Page
  <2>6. tab' = [tab EXCEPT ![t] = p]
    BY DEF handleAccessInfoChange
  <2> HIDE DEF f, p
  <2> QED
    BY <1>1, <2>1, <2>4, <2>5, <2>6, Filled
<1> QED
  BY <1>1, <1>2, <1>3, Browsing

LEMMA SaveStep == ASSUME SecretInv, NEW t \in Tab, handleSave(t), Apart PROVE SecretInv'
<1>1. UNCHANGED <<database, office, script, loads, book, file, scenario, rekeyed>> /\ Once("saves")
  BY DEF handleSave, Apart, database
<1>2. CountInv'
  BY <1>1, Counted DEF SecretInv, Kinds
<1>3. TabsInv /\ SavesInv /\ tab[t] \in Page /\ GoodForm(tab[t].form)
  BY DEF SecretInv, TabsInv
<1>4. TabsInv'
  <2> DEFINE p == [tab[t] EXCEPT !.saving = TRUE]
  <2>1. p \in Page /\ p.form = tab[t].form
    BY <1>3 DEF Page
  <2>2. tab' = [tab EXCEPT ![t] = p]
    BY DEF handleSave
  <2> HIDE DEF p
  <2> QED
    BY <1>1, <1>3, <2>1, <2>2, Filled
<1>5. SavesInv'
  <2> DEFINE s == [tab |-> t, mount |-> tab[t].mount, form |-> tab[t].form,
                   kind |-> IF tab[t].form.id = 0 THEN "post" ELSE "put", found |-> 0, was |-> none, step |-> "sent"]
  <2>1. s \in Save /\ s.form = tab[t].form /\ (s.kind = "put" => s.form.id # 0)
    BY <1>3 DEF Page, Save
  <2>2. saves' = saves \cup {s}
    BY DEF handleSave
  <2> HIDE DEF s
  <2> QED
    BY <1>1, <1>3, <2>1, <2>2 DEF SavesInv, GoodForm
<1> QED
  BY <1>1, <1>2, <1>4, <1>5, Browsing

LEMMA SaveAnsweredStep == ASSUME SecretInv, NEW s \in saves, SaveAnswered(s), Apart PROVE SecretInv'
<1>1. UNCHANGED <<database, office, script, book, file, scenario, count, rekeyed>>
  BY DEF SaveAnswered, Apart, database
<1>2. SavesInv'
  BY <1>1 DEF SaveAnswered, SecretInv, SavesInv, GoodForm
<1>3. TabsInv' /\ LoadsInv'
  <2>1. s.tab \in Tab
    BY DEF SecretInv, SavesInv, Save
  <2> QED
    BY <1>1, <2>1, ShowsPage DEF SaveAnswered, SecretInv
<1> QED
  BY <1>1, <1>2, <1>3, Browsing

LEMMA SaveFailedStep == ASSUME SecretInv, NEW s \in saves, SaveFailed(s), Apart PROVE SecretInv'
<1>1. UNCHANGED <<database, office, script, loads, book, file, scenario, count, rekeyed>>
  BY DEF SaveFailed, Apart, database
<1>2. SavesInv'
  BY <1>1 DEF SaveFailed, SecretInv, SavesInv, GoodForm
<1>3. UNCHANGED tab \/ TabsInv'
  <2>1. TabsInv /\ s.tab \in Tab /\ tab[s.tab] \in Page /\ GoodForm(tab[s.tab].form)
    BY DEF SecretInv, SavesInv, Save, TabsInv
  <2> DEFINE p == [tab[s.tab] EXCEPT !.saving = FALSE]
  <2>2. p \in Page /\ p.form = tab[s.tab].form
    BY <2>1 DEF Page
  <2>3. UNCHANGED tab \/ tab' = [tab EXCEPT ![s.tab] = p]
    BY DEF SaveFailed
  <2> HIDE DEF p
  <2> QED
    BY <1>1, <2>1, <2>2, <2>3, Filled
<1> QED
  BY <1>1, <1>2, <1>3, Browsing

---------------------------------------------------------------------------
(* The service *)

LEMMA FoundSourceStep == ASSUME SecretInv, NEW s \in saves, FoundSource(s), Apart PROVE SecretInv'
<1>1. UNCHANGED <<database, office, script, tab, loads, book, file, scenario, count, rekeyed>>
  BY DEF FoundSource, Apart, database
<1>2. CASE customer /\ s.kind = "put" /\ source # none
  <2> DEFINE moved == [s EXCEPT !.step = "found", !.found = source.id, !.was = Stored]
  <2>1. s \in Save /\ source.id \in Nat /\ Stored \in Secret \cup {none}
    BY <1>2, StoredIsSecret DEF SecretInv, RowsInv, Source, SavesInv
  <2>2. moved \in Save /\ moved.form = s.form /\ moved.kind = s.kind
    BY <2>1 DEF Save
  <2>3. saves' = (saves \ {s}) \cup {moved}
    BY <1>2 DEF FoundSource
  <2> HIDE DEF moved
  <2>4. SavesInv'
    BY <1>1, <2>2, <2>3, SaveTurns DEF SecretInv
  <2> QED
    BY <1>1, <2>4, Browsing
<1>3. CASE ~(customer /\ s.kind = "put" /\ source # none)
  <2>1. Moves(s, "found") \/ Moves(s, "refused")
    BY <1>3 DEF FoundSource
  <2>2. SavesInv'
    BY <1>1, <2>1, SaveMoves DEF SecretInv
  <2> QED
    BY <1>1, <2>2, Browsing
<1> QED
  BY <1>2, <1>3

\* A save stores a new row, under a new id, encrypted with the key of the process.
LEMMA SaveStores ==
  ASSUME SecretInv, NEW s \in saves, NEW id \in Nat \ {0}, Stores(s, id), UNCHANGED <<key, customer, support, journal, rekeyed, office, script>>,
         unseen' = FALSE
  PROVE  RowsInv' /\ ScriptInv' /\ ClearedInv' /\ OfficeInv'
<1>1. s.form \in Form /\ GoodForm(s.form) /\ lastId \in Nat /\ lastId' = lastId + 1 /\ key \in Key
  BY DEF SecretInv, SavesInv, GoodForm, RowsInv, Stores
<1>2. source' = [id |-> id, of |-> s.form.of] /\ source' \in Source /\ source' # none
  BY <1>1, SourcesAssumption DEF Stores, Source, Form
<1>3. CASE s.form.secret = none
  <2>1. access' = {} /\ meant' = none
    BY <1>3 DEF Stores
  <2>2. RowsInv'
    BY <1>1, <1>2, <2>1 DEF RowsInv, SecretInv, AtMostOne, Stores
  <2>3. ScriptInv' /\ ClearedInv'
    BY <1>1, <2>1 DEF ScriptInv, ClearedInv, SecretInv, script, office, isEncrypted, Script, Access
  <2> QED
    BY <2>2, <2>3, OfficeStays DEF SecretInv, script
<1>4. CASE s.form.secret # none
  <2>1. PICK v : v = encrypt(s.form.secret, key)
    OBVIOUS
  <2>2. s.form.secret \in Secret
    BY <1>1, <1>4 DEF Form
  <2>3. v \in Secret /\ isEncrypted(v)
    BY <1>1, <2>1, <2>2, EncryptedIsSecret
  <2> DEFINE a == [id |-> lastId + 1, source |-> id, secret |-> v]
  <2>4. access' = {a} /\ meant' = s.form.secret.text
    BY <1>1, <1>4, <2>1 DEF Stores, Protected
  <2>5. a \in Access /\ a.id = lastId + 1 /\ a.source = id /\ a.secret = v
    BY <1>1, <2>3 DEF Access
  <2>6. meant' \in Text /\ meant' # none
    BY <2>2, <2>4, SecretsAssumption DEF Secret
  <2>7. ~rekeyed => AsSaved(v, meant)'
    <3> SUFFICES ASSUME ~rekeyed PROVE AsSaved(v, meant)'
      OBVIOUS
    <3>1. PICK x \in Text : s.form.secret = Plain(x)
      BY <1>1, <1>4 DEF GoodForm
    <3>2. meant' = x
      BY <2>4, <3>1 DEF Plain
    <3>3. v = encrypt(Plain(x), key')
      BY <2>1, <3>1
    <3> QED
      BY <3>2, <3>3 DEF AsSaved
  <2> HIDE DEF a
  <2>8. RowsInv'
    <3>1. access' \subseteq Access /\ AtMostOne(access') /\ version' \in Nat /\ lastId' \in Nat
      BY <1>1, <2>4, <2>5 DEF AtMostOne, Stores, SecretInv, RowsInv
    <3>2. \A b \in access' : source' # none /\ b.source = source'.id /\ b.id <= lastId'
      BY <1>1, <1>2, <2>4, <2>5
    <3>3. ~rekeyed => \A b \in access' : meant' # none /\ AsSaved(b.secret, meant)'
      BY <2>4, <2>5, <2>6, <2>7 DEF AsSaved
    <3> QED
      BY <1>2, <2>6, <3>1, <3>2, <3>3 DEF RowsInv, SecretInv, AtMostOne
  <2>9. ScriptInv' /\ ClearedInv'
    <3>1. \A b \in migration.rows : b.id \in Nat /\ b.id # a.id /\ b.id <= lastId'
      BY <1>1, <2>5 DEF SecretInv, ScriptInv, Script, Access
    <3>2. UNCHANGED <<settings, migration, raced>>
      BY DEF office, script
    <3> QED
      BY <2>3, <2>4, <2>5, <3>1, <3>2 DEF ScriptInv, ClearedInv, SecretInv, isEncrypted
  <2> QED
    BY <2>8, <2>9, OfficeStays DEF SecretInv, script
<1> QED
  BY <1>3, <1>4

\* What is left of a step of the service when rows, script and settings are in order.
LEMMA Serving ==
  ASSUME SecretInv, RowsInv', ScriptInv', ClearedInv', OfficeInv', SavesInv', UNCHANGED <<scenario, count, tab, loads, book, file, rekeyed>>
  PROVE  SecretInv'
<1>1. rekeyed \in BOOLEAN
  BY DEF SecretInv, RowsInv
<1> QED
  BY <1>1, TabsStay, LoadsStay, BookStays DEF SecretInv, CountInv

LEMMA SourceCreatedStep == ASSUME SecretInv, NEW s \in saves, SourceCreated(s), Apart PROVE SecretInv'
<1>1. UNCHANGED <<office, script, tab, loads, book, file, scenario, count, rekeyed>>
  BY DEF SourceCreated, Apart, database
<1>2. SavesInv'
  BY <1>1, SaveMoves DEF SourceCreated, SecretInv
<1>3. CASE customer /\ source = none
  <2>1. lastId + 1 \in Nat \ {0} /\ unseen' = FALSE
    BY <1>3 DEF SecretInv, RowsInv, SourceCreated
  <2>2. RowsInv' /\ ScriptInv' /\ ClearedInv' /\ OfficeInv'
    BY <1>1, <1>3, <2>1, SaveStores DEF SourceCreated
  <2> QED
    BY <1>1, <1>2, <2>2, Serving
<1>4. CASE ~(customer /\ source = none)
  <2>1. UNCHANGED database
    BY <1>4 DEF SourceCreated
  <2> QED
    BY <1>1, <1>2, <2>1, Browsing
<1> QED
  BY <1>3, <1>4

LEMMA SourceUpdatedStep == ASSUME SecretInv, NEW s \in saves, SourceUpdated(s), Apart PROVE SecretInv'
<1>1. UNCHANGED <<office, script, tab, loads, book, file, scenario, count, rekeyed>>
  BY DEF SourceUpdated, Apart, database
<1>2. SavesInv'
  BY <1>1, SaveMoves DEF SourceUpdated, SecretInv
<1>3. CASE source # none /\ source.id = s.found
  <2>1. source.id \in Nat \ {0}
    BY <1>3 DEF SecretInv, RowsInv, Source
  <2>2. unseen' = FALSE
    BY <1>3 DEF SecretInv, RowsInv, SavesInv, GoodForm, Form, SourceUpdated
  <2>3. RowsInv' /\ ScriptInv' /\ ClearedInv' /\ OfficeInv'
    BY <1>1, <1>3, <2>1, <2>2, SaveStores DEF SourceUpdated
  <2> QED
    BY <1>1, <1>2, <2>3, Serving
<1>4. CASE ~(source # none /\ source.id = s.found)
  <2>1. UNCHANGED database
    BY <1>4 DEF SourceUpdated
  <2> QED
    BY <1>1, <1>2, <2>1, Browsing
<1> QED
  BY <1>3, <1>4

LEMMA SourceLoggedStep == ASSUME SecretInv, NEW s \in saves, SourceLogged(s), Apart PROVE SecretInv'
<1>1. UNCHANGED <<office, script, tab, loads, book, file, scenario, count, rekeyed>>
      /\ UNCHANGED <<key, customer, source, access, support, lastId, version, unseen, meant, raced, settings, migration>>
  BY DEF SourceLogged, Apart, office, script
<1>2. SavesInv'
  BY <1>1, SaveMoves DEF SourceLogged, SecretInv
<1>3. journal' \subseteq Secret
  BY DEF SourceLogged, SecretInv, RowsInv, SavesInv, Save, Form
<1>4. RowsInv'
  BY <1>1, <1>3 DEF SecretInv, RowsInv, AtMostOne, AsSaved, Plain, encrypt
<1>5. ScriptInv' /\ ClearedInv' /\ OfficeInv'
  BY <1>1, OfficeStays DEF SecretInv, ScriptInv, ClearedInv, isEncrypted
<1> QED
  BY <1>1, <1>2, <1>4, <1>5, Serving

LEMMA CustomerRemovedStep == ASSUME SecretInv, CustomerRemoved, Apart PROVE SecretInv'
<1>1. UNCHANGED <<office, script, browser, scenario, key, journal, lastId, version, unseen, rekeyed>> /\ Once("removals")
      /\ customer' = FALSE /\ source' = none /\ access' = {} /\ meant' = none /\ support' = FALSE
  BY DEF CustomerRemoved, Apart
<1>2. RowsInv'
  BY <1>1 DEF SecretInv, RowsInv, AtMostOne
<1>3. ScriptInv' /\ ClearedInv'
  BY <1>1 DEF SecretInv, ScriptInv, ClearedInv, script, office, isEncrypted
<1>4. CountInv'
  BY <1>1, Counted DEF SecretInv, Kinds
<1>5. rekeyed \in BOOLEAN /\ UNCHANGED <<tab, loads, saves, book, file, raced>>
  BY <1>1 DEF SecretInv, RowsInv, browser, script
<1> QED
  BY <1>1, <1>2, <1>3, <1>4, <1>5, OfficeStays, TabsStay, LoadsStay, SavesStay, BookStays DEF SecretInv

LEMMA SupportAddedStep == ASSUME SecretInv, SupportAdded, Apart PROVE SecretInv'
<1>1. UNCHANGED <<office, script, browser, scenario, key, customer, source, access, journal, lastId, version, unseen, meant, rekeyed>>
      /\ Once("supports") /\ support' = TRUE
  BY DEF SupportAdded, Apart
<1>2. RowsInv'
  BY <1>1 DEF SecretInv, RowsInv, AtMostOne, AsSaved, Plain, encrypt
<1>3. ScriptInv' /\ ClearedInv'
  BY <1>1 DEF SecretInv, ScriptInv, ClearedInv, script, office, isEncrypted
<1>4. CountInv'
  BY <1>1, Counted DEF SecretInv, Kinds
<1>5. rekeyed \in BOOLEAN /\ UNCHANGED <<tab, loads, saves, book, file, raced>>
  BY <1>1 DEF SecretInv, RowsInv, browser, script
<1> QED
  BY <1>1, <1>2, <1>3, <1>4, <1>5, OfficeStays, TabsStay, LoadsStay, SavesStay, BookStays DEF SecretInv

---------------------------------------------------------------------------
(* The export *)

LEMMA BookTurns ==
  ASSUME SecretInv, UNCHANGED <<database, office, script, tab, loads, saves, scenario, count>>, BookInv'
  PROVE  SecretInv'
BY Browsing

LEMMA ExportStep == ASSUME SecretInv, handleExportFullData, Apart PROVE SecretInv'
<1>1. UNCHANGED <<database, office, script, tab, loads, saves, file, scenario>> /\ Once("exports")
  BY DEF handleExportFullData, Apart
<1>2. CountInv'
  BY <1>1, Counted DEF SecretInv, Kinds
<1>3. PICK w, g : w = {source # none} /\ g = {support}
  OBVIOUS
<1>4. w \in SUBSET BOOLEAN /\ g \in SUBSET BOOLEAN
  BY <1>3 DEF SecretInv, RowsInv
<1>5. book' = [step |-> "source", source |-> "", support |-> "", was |-> w, logs |-> g]
  BY <1>3 DEF handleExportFullData
<1>6. book' \in Book /\ book'.source # "none"
  BY <1>4, <1>5 DEF Book
<1>7. BookInv'
  BY <1>1, <1>6 DEF SecretInv, BookInv, NoneMeansNone
<1> QED
  BY <1>1, <1>2, <1>7, Browsing

LEMMA SourceSheetStep == ASSUME SecretInv, SourceSheet, Apart PROVE SecretInv'
<1>1. UNCHANGED <<database, office, script, tab, loads, saves, file, scenario, count>>
  BY DEF SourceSheet, Apart
<1>2. book \in Book
  BY DEF SourceSheet, SecretInv, BookInv
<1>3. BookInv'
  <2>1. CASE book' = [book EXCEPT !.step = "support", !.source = "failed"]
    BY <1>1, <1>2, <2>1 DEF SecretInv, BookInv, Book, NoneMeansNone
  <2>2. CASE book' = [book EXCEPT !.step = "support", !.source = IF source = none THEN "none" ELSE "data",
                                  !.was = @ \cup {source # none}]
    BY <1>1, <1>2, <2>2 DEF SecretInv, BookInv, Book, NoneMeansNone
  <2> QED
    BY <2>1, <2>2 DEF SourceSheet
<1> QED
  BY <1>1, <1>3, BookTurns

LEMMA SupportSheetStep == ASSUME SecretInv, SupportSheet, Apart PROVE SecretInv'
<1>1. UNCHANGED <<database, office, script, tab, loads, saves, file, scenario, count>>
  BY DEF SupportSheet, Apart
<1>2. book \in Book /\ book # none /\ support \in BOOLEAN
  BY DEF SupportSheet, SecretInv, BookInv, RowsInv
<1>3. book' \in Book /\ book'.source = book.source /\ book'.was = book.was
  <2>1. PICK c, g : /\ c \in {"none", "data"} /\ g \in {book.logs \cup {support}, {FALSE}}
                    /\ book' = [book EXCEPT !.step = "write", !.support = c, !.logs = g]
    BY DEF SupportSheet
  <2>2. book.logs \subseteq BOOLEAN
    BY <1>2 DEF Book
  <2>3. book.logs \cup {support} \subseteq BOOLEAN
    <3>1. ASSUME NEW y \in book.logs \cup {support} PROVE y \in BOOLEAN
      <4>1. CASE y \in book.logs
        BY <2>2, <4>1
      <4>2. CASE y = support
        BY <1>2, <4>2
      <4> QED
        BY <4>1, <4>2
    <3> QED
      BY <3>1
  <2>4. g \in SUBSET BOOLEAN
    <3>1. CASE g = {FALSE}
      BY <3>1
    <3>2. CASE g = book.logs \cup {support}
      BY <2>3, <3>2
    <3> QED
      BY <2>1, <3>1, <3>2
  <2> QED
    BY <1>2, <2>1, <2>4 DEF Book
<1>4. BookInv'
  BY <1>1, <1>2, <1>3 DEF SecretInv, BookInv, NoneMeansNone
<1> QED
  BY <1>1, <1>4, BookTurns

LEMMA FileWrittenStep == ASSUME SecretInv, FileWritten, Apart PROVE SecretInv'
<1>1. UNCHANGED <<database, office, script, tab, loads, saves, scenario, count>>
  BY DEF FileWritten, Apart
<1>2. BookInv'
  BY DEF FileWritten, SecretInv, BookInv, NoneMeansNone
<1> QED
  BY <1>1, <1>2, BookTurns

---------------------------------------------------------------------------
(* Another key *)

LEMMA RekeyStep == ASSUME SecretInv, NEW k \in Key, Rekey(k), Apart PROVE SecretInv'
<1>1. UNCHANGED <<office, script, scenario, customer, source, access, support, journal, lastId, version, unseen, meant, tab, loads, book, file>>
      /\ Once("keys") /\ key' = k /\ rekeyed' = TRUE
  BY DEF Rekey, Apart
<1>2. RowsInv' /\ rekeyed \in BOOLEAN
  BY <1>1 DEF SecretInv, RowsInv, AtMostOne
<1>3. ScriptInv' /\ ClearedInv'
  BY <1>1 DEF SecretInv, ScriptInv, ClearedInv, script, office, isEncrypted
<1>4. OfficeInv'
  BY <1>1 DEF SecretInv, OfficeInv, office
<1>5. SavesInv'
  <2>1. ASSUME NEW s \in saves, NEW u, u = [s EXCEPT !.step = IF s.step \in {"found", "stored"} THEN "refused" ELSE s.step]
        PROVE  u \in Save /\ u.form = s.form /\ u.kind = s.kind
    BY <2>1 DEF SecretInv, SavesInv, Save
  <2>2. \A u \in saves' : \E s \in saves : u \in Save /\ u.form = s.form /\ u.kind = s.kind
    BY <2>1 DEF Rekey
  <2> QED
    BY <1>1, <2>2 DEF SecretInv, SavesInv, GoodForm
<1>6. CountInv'
  BY <1>1, Counted DEF SecretInv, Kinds
<1> QED
  BY <1>1, <1>2, <1>3, <1>4, <1>5, <1>6, TabsStay, LoadsStay, BookStays DEF SecretInv

---------------------------------------------------------------------------
(* The settings *)

\* A step of the settings page or of its request.
LEMMA SettingsStep ==
  ASSUME SecretInv, Aside, CountInv', OfficeInv', ClearedInv'
  PROVE  SecretInv'
<1>1. UNCHANGED <<tab, loads, saves, book, file, rekeyed>> /\ rekeyed \in BOOLEAN
  BY DEF Aside, browser, database, SecretInv, RowsInv
<1>2. RowsInv'
  BY RowsStay DEF Aside, SecretInv
<1>3. ScriptInv'
  BY DEF Aside, SecretInv, ScriptInv, database, script, isEncrypted
<1> QED
  BY <1>1, <1>2, <1>3, TabsStay, LoadsStay, SavesStay, BookStays DEF SecretInv

LEMMA PanelStep ==
  ASSUME SecretInv, Aside, CountInv', UNCHANGED <<settings, typedLast>>, panel' \in Panel, patch' \in Patch \cup {none}, edited' \in Nat
  PROVE  SecretInv'
<1>1. UNCHANGED <<key, rekeyed, raced, access, migration>>
  BY DEF Aside, database, script
<1>2. OfficeInv'
  BY <1>1 DEF SecretInv, OfficeInv, AsSaved, Plain, encrypt
<1>3. ClearedInv'
  BY <1>1 DEF SecretInv, ClearedInv, isEncrypted
<1> QED
  BY <1>2, <1>3, SettingsStep

LEMMA PanelSteps ==
  ASSUME SecretInv, Aside, CountInv',
         \/ fetchSettings \/ FetchFailed \/ EditPolicy \/ \E t \in Text \cup {"empty"} : TypePassword(t)
         \/ handlePatch \/ FoundSettings \/ PatchAnswered \/ PatchFailed
  PROVE  SecretInv'
<1>1. panel \in Panel /\ edited \in Nat /\ settings.policy \in Nat /\ patch \in Patch \cup {none}
  BY DEF SecretInv, OfficeInv
<1>2. CASE fetchSettings
  BY <1>1, <1>2, PanelStep DEF fetchSettings, Panel
<1>3. CASE FetchFailed
  BY <1>1, <1>3, PanelStep DEF FetchFailed, Panel
<1>4. CASE EditPolicy
  BY <1>1, <1>4, PanelStep DEF EditPolicy, Panel
<1>5. ASSUME NEW t \in Text \cup {"empty"}, TypePassword(t) PROVE SecretInv'
  BY <1>1, <1>5, PanelStep DEF TypePassword, Panel
<1>6. CASE handlePatch
  BY <1>1, <1>6, PanelStep DEF handlePatch, Panel, Patch
<1>7. CASE FoundSettings
  BY <1>1, <1>7, PanelStep DEF FoundSettings, Patch
<1>8. CASE PatchAnswered
  BY <1>1, <1>8, PanelStep DEF PatchAnswered, Panel
<1>9. CASE PatchFailed
  BY <1>1, <1>9, PanelStep DEF PatchFailed, Panel
<1> QED
  BY <1>2, <1>3, <1>4, <1>5, <1>6, <1>7, <1>8, <1>9

LEMMA UpdateStep == ASSUME SecretInv, updateSettings(key), UNCHANGED count, Aside PROVE SecretInv'
<1>1. UNCHANGED <<key, rekeyed, raced, access, migration, scenario, panel, edited>>
  BY DEF Aside, database, script, updateSettings
<1>2. patch \in Patch /\ key \in Key /\ settings \in [policy : Nat, sftp : Secret \cup {none}] /\ typedLast \in Text \cup {none}
      /\ panel \in Panel /\ edited \in Nat
  BY DEF updateSettings, SecretInv, OfficeInv, RowsInv
<1>3. patch' \in Patch
  BY <1>2 DEF updateSettings, Patch
<1>4. settings'.policy \in Nat
  BY <1>2 DEF updateSettings, Patch
<1>5. CASE patch.typed = "absent"
  <2>1. settings'.sftp = settings.sftp /\ typedLast' = typedLast
        /\ settings' = [policy |-> settings'.policy, sftp |-> settings.sftp]
    BY <1>5 DEF updateSettings
  <2>2. OfficeInv'
    BY <1>1, <1>2, <1>3, <1>4, <2>1 DEF SecretInv, OfficeInv, AsSaved, Plain, encrypt
  <2>3. ClearedInv'
    BY <1>1, <2>1 DEF SecretInv, ClearedInv, isEncrypted
  <2> QED
    BY <1>1, <2>2, <2>3, SettingsStep DEF SecretInv, CountInv
<1>6. CASE patch.typed = "empty"
  <2>1. settings' = [policy |-> settings'.policy, sftp |-> none] /\ typedLast' = none
    BY <1>6 DEF updateSettings
  <2>2. OfficeInv'
    BY <1>1, <1>2, <1>3, <1>4, <2>1 DEF OfficeInv
  <2>3. ClearedInv'
    BY <1>1, <2>1 DEF SecretInv, ClearedInv, isEncrypted
  <2> QED
    BY <1>1, <2>2, <2>3, SettingsStep DEF SecretInv, CountInv
<1>7. CASE patch.typed \notin {"absent", "empty"}
  <2>1. PICK v : v = encrypt(Plain(patch.typed), key)
    OBVIOUS
  <2>2. patch.typed \in Text /\ patch.typed # none
    BY <1>2, <1>7, SecretsAssumption DEF Patch
  <2>3. v \in Secret /\ isEncrypted(v)
    BY <1>2, <2>1, <2>2, PlainIsSecret, EncryptedIsSecret
  <2>4. settings' = [policy |-> settings'.policy, sftp |-> v] /\ typedLast' = patch.typed
    BY <1>7, <2>1 DEF updateSettings
  <2>5. AsSaved(v, typedLast)'
    BY <1>1, <2>1, <2>4 DEF AsSaved
  <2>6. OfficeInv'
    BY <1>1, <1>2, <1>3, <1>4, <2>2, <2>3, <2>4, <2>5 DEF OfficeInv, AsSaved
  <2>7. ClearedInv'
    BY <1>1, <2>3, <2>4 DEF SecretInv, ClearedInv, isEncrypted
  <2> QED
    BY <1>1, <2>6, <2>7, SettingsStep DEF SecretInv, CountInv
<1> QED
  BY <1>5, <1>6, <1>7

---------------------------------------------------------------------------
(* The script *)

\* A step of the script.
LEMMA Scripted ==
  ASSUME SecretInv, UNCHANGED browser, rekeyed => rekeyed', RowsInv', ScriptInv', ClearedInv', OfficeInv', CountInv'
  PROVE  SecretInv'
<1>1. rekeyed \in BOOLEAN /\ UNCHANGED <<tab, loads, saves, book, file>>
  BY DEF SecretInv, RowsInv, browser
<1> QED
  BY <1>1, TabsStay, LoadsStay, SavesStay, BookStays DEF SecretInv

LEMMA StartStep == ASSUME SecretInv, NEW k \in Key, Start(k) PROVE SecretInv'
<1>1. UNCHANGED <<scenario, key, customer, source, access, support, journal, lastId, version, unseen, meant, browser, office, settings, raced>>
      /\ rekeyed' = (rekeyed \/ k # key) /\ Once("migrations")
      /\ migration' = [step |-> "rows", key |-> k, rows |-> access, sftp |-> none]
  BY DEF Start, office
<1>2. rekeyed \in BOOLEAN /\ rekeyed' \in BOOLEAN /\ (rekeyed => rekeyed') /\ (~rekeyed' => k = key)
  BY <1>1 DEF SecretInv, RowsInv
<1>3. RowsInv'
  BY <1>1, <1>2 DEF SecretInv, RowsInv, AtMostOne, AsSaved, Plain, encrypt
<1>4. ScriptInv'
  <2>1. migration' \in Script
    BY <1>1 DEF SecretInv, RowsInv, Script
  <2>2. \A a \in access : a.id <= lastId
    BY DEF SecretInv, RowsInv
  <2>3. \A a, b \in access : a = b
    BY DEF SecretInv, RowsInv, AtMostOne
  <2> QED
    BY <1>1, <1>2, <2>1, <2>2, <2>3 DEF SecretInv, ScriptInv
<1>5. ClearedInv'
  BY <1>1 DEF ClearedInv
<1>6. OfficeInv'
  BY <1>1, <1>2 DEF SecretInv, OfficeInv, office, AsSaved, Plain, encrypt
<1>7. CountInv'
  BY <1>1, Counted DEF SecretInv, Kinds
<1> QED
  BY <1>1, <1>2, <1>3, <1>4, <1>5, <1>6, <1>7, Scripted

\* A step that leaves the rows alone.
LEMMA ScriptMoves ==
  ASSUME SecretInv, UNCHANGED <<database, browser, count, scenario, office, raced>>, ScriptInv', ClearedInv'
  PROVE  SecretInv'
<1>1. UNCHANGED <<key, rekeyed>>
  BY DEF database
<1> QED
  BY <1>1, RowsStay, OfficeStays, Scripted DEF SecretInv, CountInv

LEMMA RowEncryptedStep == ASSUME SecretInv, NEW a \in migration.rows, RowEncrypted(a) PROVE SecretInv'
<1>1. /\ UNCHANGED <<scenario, key, customer, source, support, journal, lastId, version, unseen, meant, rekeyed, browser, count, office, settings, raced>>
      /\ migration.step = "rows"
  BY DEF RowEncrypted, office
<1>2. migration \in Script /\ a \in Access /\ \A b \in access : b.id = a.id => b = a
  BY DEF SecretInv, ScriptInv, Script
<1>3. CASE Due(a) /\ ~\E b \in access : b.id = a.id
  <2>1. migration' = [migration EXCEPT !.step = "failed"] /\ UNCHANGED access
    BY <1>3 DEF RowEncrypted
  <2>2. migration' \in Script /\ migration'.step = "failed" /\ migration'.rows = migration.rows /\ migration'.key = migration.key
    BY <1>2, <2>1 DEF Script
  <2>3. ScriptInv' /\ ClearedInv'
    BY <1>1, <2>1, <2>2 DEF SecretInv, ScriptInv, ClearedInv
  <2> QED
    BY <1>1, <2>1, <2>3, ScriptMoves DEF database
<1>4. CASE ~(Due(a) /\ ~\E b \in access : b.id = a.id)
  <2>1. migration' = [migration EXCEPT !.rows = @ \ {a}]
    BY <1>4 DEF RowEncrypted
  <2>2. /\ migration' \in Script /\ migration'.step = "rows" /\ migration'.rows = migration.rows \ {a}
        /\ migration'.key = migration.key
    BY <1>1, <1>2, <2>1 DEF Script
  <2>3. CASE ~Due(a)
    <3>1. UNCHANGED access
      BY <1>4, <2>3 DEF RowEncrypted
    <3>2. ScriptInv'
      BY <1>1, <2>2, <3>1 DEF SecretInv, ScriptInv
    <3>3. ClearedInv'
      BY <1>1, <2>2, <2>3, <3>1 DEF SecretInv, ClearedInv, Due, isEncrypted
    <3> QED
      BY <1>1, <3>1, <3>2, <3>3, ScriptMoves DEF database
  <2>4. CASE Due(a)
    <3>1. PICK v : v = encrypt(a.secret, migration.key)
      OBVIOUS
    <3>2. a.secret \in Secret /\ v \in Secret /\ isEncrypted(v)
      BY <1>2, <2>4, <3>1, EncryptedIsSecret DEF Access, Due, Script
    <3>3. access' = {IF b.id = a.id THEN [b EXCEPT !.secret = v] ELSE b : b \in access}
      BY <1>4, <2>4, <3>1 DEF RowEncrypted
    \* The row is the one that was read.
    <3>4. a \in access
      BY <1>2, <1>4, <2>4
    <3>5. access = {a}
      BY <3>4 DEF SecretInv, RowsInv, AtMostOne
    <3> DEFINE e == [a EXCEPT !.secret = v]
    <3>6. access' = {e}
      BY <3>3, <3>5
    <3>7. e \in Access /\ e.id = a.id /\ e.source = a.source /\ e.secret = v
      BY <1>2, <3>2 DEF Access
    <3>8. ~rekeyed => meant # none /\ AsSaved(v, meant)
      <4> SUFFICES ASSUME ~rekeyed PROVE meant # none /\ AsSaved(v, meant)
        OBVIOUS
      <4>1. meant \in Text /\ meant # none /\ AsSaved(a.secret, meant) /\ migration.key = key /\ key \in Key
        BY <2>4, <3>4 DEF SecretInv, RowsInv, ScriptInv, Due
      <4>2. isEncrypted(encrypt(Plain(meant), key))
        BY <4>1, PlainIsSecret, EncryptedIsSecret
      <4>3. a.secret = Plain(meant)
        BY <2>4, <4>1, <4>2 DEF AsSaved, Due
      <4> QED
        BY <3>1, <4>1, <4>3 DEF AsSaved
    <3> HIDE DEF e
    <3>9. RowsInv'
      <4>1. source # none /\ e.source = source.id /\ e.id <= lastId
        BY <3>4, <3>7 DEF SecretInv, RowsInv
      <4>2. access' \subseteq Access /\ AtMostOne(access')
        BY <3>6, <3>7 DEF AtMostOne
      <4>3. ~rekeyed => (meant # none /\ AsSaved(v, meant))'
        BY <1>1, <3>8 DEF AsSaved, Plain, encrypt
      <4> QED
        BY <1>1, <3>6, <3>7, <4>1, <4>2, <4>3 DEF SecretInv, RowsInv, AtMostOne, AsSaved
    <3>10. ScriptInv'
      BY <1>1, <2>2, <3>6, <3>7 DEF SecretInv, ScriptInv
    <3>11. ClearedInv'
      BY <1>1, <2>2, <3>2, <3>6, <3>7 DEF SecretInv, ClearedInv, isEncrypted
    <3>12. OfficeInv' /\ CountInv'
      BY <1>1, OfficeStays DEF SecretInv, CountInv
    <3> QED
      BY <1>1, <3>9, <3>10, <3>11, <3>12, Scripted
  <2> QED
    BY <2>3, <2>4
<1> QED
  BY <1>3, <1>4

LEMMA RowsDoneStep == ASSUME SecretInv, RowsDone PROVE SecretInv'
<1>1. UNCHANGED <<database, browser, count, scenario, office, settings, access, lastId, key, rekeyed, raced>>
  BY DEF RowsDone, database, office
<1>2. migration \in Script /\ migration.rows = {} /\ migration.step = "rows"
  BY DEF RowsDone, SecretInv, ScriptInv
<1>3. migration' \in Script /\ migration'.step = "settings" /\ migration'.rows = {} /\ migration'.key = migration.key
  BY <1>2 DEF RowsDone, Script
<1>4. ScriptInv' /\ ClearedInv'
  BY <1>1, <1>2, <1>3 DEF SecretInv, ScriptInv, ClearedInv, isEncrypted
<1> QED
  BY <1>1, <1>4, ScriptMoves

LEMMA SftpReadStep == ASSUME SecretInv, SftpRead PROVE SecretInv'
<1>1. UNCHANGED <<database, browser, count, scenario, office, settings, access, lastId, key, rekeyed, raced>>
  BY DEF SftpRead, database, office
<1>2. migration \in Script /\ migration.step = "settings" /\ settings.sftp \in Secret \cup {none}
  BY DEF SftpRead, SecretInv, ScriptInv, OfficeInv
<1>3. CASE settings.sftp # none /\ ~isEncrypted(settings.sftp)
  <2>1. /\ migration' \in Script /\ migration'.step = "write" /\ migration'.rows = migration.rows
        /\ migration'.key = migration.key /\ migration'.sftp = settings.sftp
    BY <1>2, <1>3 DEF SftpRead, Script
  <2>2. ScriptInv' /\ ClearedInv'
    BY <1>1, <1>2, <1>3, <2>1 DEF SecretInv, ScriptInv, ClearedInv, isEncrypted
  <2> QED
    BY <1>1, <2>2, ScriptMoves
<1>4. CASE ~(settings.sftp # none /\ ~isEncrypted(settings.sftp))
  <2>1. /\ migration' \in Script /\ migration'.step = "done" /\ migration'.rows = migration.rows
        /\ migration'.key = migration.key
    BY <1>2, <1>4 DEF SftpRead, Script
  <2>2. ScriptInv' /\ ClearedInv'
    BY <1>1, <1>2, <1>4, <2>1 DEF SecretInv, ScriptInv, ClearedInv, isEncrypted
  <2> QED
    BY <1>1, <2>2, ScriptMoves
<1> QED
  BY <1>3, <1>4

LEMMA SftpEncryptedStep == ASSUME SecretInv, SftpEncrypted PROVE SecretInv'
<1>1. UNCHANGED <<scenario, database, browser, count, panel, patch, typedLast, edited, access, lastId, key, rekeyed>>
      /\ migration.step = "write" /\ raced' = (raced \/ settings.sftp # migration.sftp)
  BY DEF SftpEncrypted, database
<1>2. migration \in Script /\ migration.sftp \in Secret /\ migration.sftp # none /\ ~isEncrypted(migration.sftp)
      /\ migration.key \in Key /\ raced \in BOOLEAN
  BY <1>1 DEF SecretInv, ScriptInv, Script
<1>3. PICK v : v = encrypt(migration.sftp, migration.key)
  OBVIOUS
<1>4. v \in Secret /\ isEncrypted(v)
  BY <1>2, <1>3, EncryptedIsSecret
<1>5. settings \in [policy : Nat, sftp : Secret \cup {none}]
  BY DEF SecretInv, OfficeInv
<1>6. settings' \in [policy : Nat, sftp : Secret \cup {none}] /\ settings'.sftp = v
  BY <1>3, <1>4, <1>5 DEF SftpEncrypted
<1>7. migration' \in Script /\ migration'.step = "done" /\ migration'.rows = migration.rows /\ migration'.key = migration.key
  BY <1>2 DEF SftpEncrypted, Script
<1>8. ScriptInv' /\ ClearedInv'
  BY <1>1, <1>2, <1>4, <1>6, <1>7 DEF SecretInv, ScriptInv, ClearedInv, isEncrypted
<1>9. ~rekeyed /\ ~raced' => typedLast # none /\ AsSaved(v, typedLast)
  <2> SUFFICES ASSUME ~rekeyed, ~raced' PROVE typedLast # none /\ AsSaved(v, typedLast)
    OBVIOUS
  <2>1. settings.sftp = migration.sftp /\ ~raced
    BY <1>1
  <2>2. typedLast \in Text /\ typedLast # none /\ AsSaved(settings.sftp, typedLast) /\ migration.key = key /\ key \in Key
    BY <1>2, <2>1 DEF SecretInv, OfficeInv, ScriptInv, RowsInv
  <2>3. isEncrypted(encrypt(Plain(typedLast), key))
    BY <2>2, PlainIsSecret, EncryptedIsSecret
  <2>4. migration.sftp = Plain(typedLast)
    BY <1>2, <2>1, <2>2, <2>3 DEF AsSaved
  <2> QED
    BY <1>3, <2>2, <2>4 DEF AsSaved
<1>10. OfficeInv'
  BY <1>1, <1>6, <1>9 DEF SecretInv, OfficeInv, AsSaved, Plain, encrypt
<1>11. RowsInv' /\ CountInv'
  BY <1>1, RowsStay DEF SecretInv, CountInv
<1> QED
  BY <1>1, <1>8, <1>10, <1>11, Scripted

LEMMA CrashStep == ASSUME SecretInv, Crash PROVE SecretInv'
<1>1. UNCHANGED <<scenario, database, browser, office, settings, access, lastId, key, rekeyed, raced>> /\ Once("crashes")
  BY DEF Crash, database, office
<1>2. migration \in Script
  BY DEF SecretInv, ScriptInv
<1>3. migration' \in Script /\ migration'.step = "off" /\ migration'.rows = migration.rows /\ migration'.key = migration.key
  BY <1>2 DEF Crash, Script
<1>4. ScriptInv' /\ ClearedInv'
  BY <1>1, <1>3 DEF SecretInv, ScriptInv, ClearedInv
<1>5. RowsInv' /\ OfficeInv'
  BY <1>1, RowsStay, OfficeStays DEF SecretInv
<1>6. CountInv'
  BY <1>1, Counted DEF SecretInv, Kinds
<1> QED
  BY <1>1, <1>4, <1>5, <1>6, Scripted

---------------------------------------------------------------------------
(* The invariant holds *)

LEMMA SecretStep == SecretInv /\ [Next]_vars => SecretInv'
<1> SUFFICES ASSUME SecretInv, [Next]_vars PROVE SecretInv'
  OBVIOUS
<1>1. CASE UNCHANGED vars
  BY <1>1, Browsing DEF vars, browser
<1>2. CASE \E t \in Tab, p \in {"detail", "edit"} : Open(t, p) /\ Apart
  BY <1>2, OpenStep
<1>3. CASE \E l \in loads : (CustomerLoaded(l) \/ getSourceManagement(l) \/ Loaded(l)) /\ Apart
  BY <1>3, CustomerLoadedStep, AnswerStep, LoadedStep
<1>4. CASE \E t \in Tab : (handleServerChange(t) \/ handleSave(t)) /\ Apart
  BY <1>4, ServerChangeStep, SaveStep
<1>5. CASE \E t \in Tab, v \in {none} \cup {Plain(x) : x \in Text} : handleAccessInfoChange(t, v) /\ Apart
  BY <1>5, AccessChangeStep
<1>6. CASE \E s \in saves : (SaveAnswered(s) \/ SaveFailed(s) \/ FoundSource(s)) /\ Apart
  BY <1>6, SaveAnsweredStep, SaveFailedStep, FoundSourceStep
<1>7. CASE \E s \in saves : (SourceCreated(s) \/ SourceUpdated(s) \/ SourceLogged(s)) /\ Apart
  BY <1>7, SourceCreatedStep, SourceUpdatedStep, SourceLoggedStep
<1>8. CASE (CustomerRemoved \/ SupportAdded) /\ Apart
  BY <1>8, CustomerRemovedStep, SupportAddedStep
<1>9. CASE (handleExportFullData \/ SourceSheet \/ SupportSheet \/ FileWritten) /\ Apart
  BY <1>9, ExportStep, SourceSheetStep, SupportSheetStep, FileWrittenStep
<1>10. CASE \E k \in Key : Rekey(k) /\ Apart
  BY <1>10, RekeyStep
<1>11. ASSUME UNCHANGED count \/ Once("settings"), Aside,
              \/ fetchSettings \/ FetchFailed \/ EditPolicy \/ \E t \in Text \cup {"empty"} : TypePassword(t)
              \/ handlePatch \/ FoundSettings \/ PatchAnswered \/ PatchFailed
       PROVE  SecretInv'
  <2>1. CountInv'
    BY <1>11, Counted DEF SecretInv, Aside, CountInv, Kinds
  <2> QED
    BY <1>11, <2>1, PanelSteps
<1>12. CASE updateSettings(key) /\ UNCHANGED count /\ Aside
  BY <1>12, UpdateStep
<1>13. CASE (\E k \in Key : Start(k)) \/ (\E a \in migration.rows : RowEncrypted(a)) \/ RowsDone \/ SftpRead \/ SftpEncrypted \/ Crash
  BY <1>13, StartStep, RowEncryptedStep, RowsDoneStep, SftpReadStep, SftpEncryptedStep, CrashStep
<1> QED
  BY <1>1, <1>2, <1>3, <1>4, <1>5, <1>6, <1>7, <1>8, <1>9, <1>10, <1>11, <1>12, <1>13 DEF Next

LEMMA Secrecy == Spec => []SecretInv
BY InitSecret, SecretStep, PTL DEF Spec

---------------------------------------------------------------------------
(* Theorems *)

LEMMA OneRowIsFinite == ASSUME NEW S, AtMostOne(S) PROVE IsFiniteSet(S) /\ Cardinality(S) <= 1
<1>1. CASE S = {}
  BY <1>1, FS_EmptySet
<1>2. ASSUME NEW x \in S PROVE IsFiniteSet(S) /\ Cardinality(S) <= 1
  <2>1. S = {x}
    BY <1>2 DEF AtMostOne
  <2>2. IsFiniteSet({x}) /\ Cardinality({x}) = 1
    BY FS_Singleton
  <2> QED
    BY <2>1, <2>2
<1> QED
  BY <1>1, <1>2

LEMMA SecretTypes == SecretInv => TypeOK
<1> SUFFICES ASSUME SecretInv PROVE TypeOK
  OBVIOUS
<1>1. SourcesOK
  <2>1. IsFiniteSet(access) /\ Cardinality(access) <= 1
    BY OneRowIsFinite DEF SecretInv, RowsInv
  <2>2. \A a \in access : a \in Access /\ source # none /\ a.source = source.id
    BY DEF SecretInv, RowsInv
  <2>3. \A t \in Tab : /\ tab[t].page \in {"none", "detail", "edit"} /\ tab[t].mount \in Nat
                       /\ tab[t].loading \in BOOLEAN /\ tab[t].saving \in BOOLEAN /\ tab[t].form \in Form
    <3>1. \A t \in Tab : tab[t] \in Page
      BY DEF SecretInv, TabsInv
    <3> QED
      BY <3>1 DEF Page
  <2>4. \A l \in loads : l.tab \in Tab /\ l.step \in {"customer", "source", "answered", "failed"}
    BY DEF SecretInv, LoadsInv, Load
  <2>5. \A s \in saves : s.tab \in Tab /\ s.kind \in {"post", "put"} /\ s.step \in {"sent", "found", "stored", "logged", "refused"}
    BY DEF SecretInv, SavesInv, Save
  <2>6. /\ scenario \in Scenarios /\ key \in Key /\ source \in Source \cup {none} /\ count \in [Kinds -> Nat]
        /\ customer \in BOOLEAN /\ journal \subseteq Secret /\ support \in BOOLEAN /\ unseen \in BOOLEAN /\ rekeyed \in BOOLEAN /\ meant \in Text \cup {none}
        /\ lastId \in Nat /\ version \in Nat
    BY DEF SecretInv, RowsInv, CountInv
  <2> QED
    BY <2>1, <2>2, <2>3, <2>4, <2>5, <2>6 DEF SourcesOK
<1>2. SettingsOK
  <2>1. /\ panel \in Panel /\ patch \in Patch \cup {none} /\ edited \in Nat /\ typedLast \in Text \cup {none}
        /\ settings \in [policy : Nat, sftp : Secret \cup {none}]
    BY DEF SecretInv, OfficeInv
  <2> QED
    BY <2>1 DEF SettingsOK, Panel, Patch
<1>3. migration \in Script /\ raced \in BOOLEAN
  BY DEF SecretInv, ScriptInv
<1> QED
  BY <1>1, <1>2, <1>3 DEF TypeOK, Script

\* Every state is well typed, and a row of source management goes only for a form that
\* had been filled from a row, for any number of tabs, failures and keys.
THEOREM SourcesAreAlwaysSound == Spec => []SourcesAreSound
<1>1. SecretInv => SourcesAreSound
  BY SecretTypes DEF SourcesAreSound, UnreadIsNotReplaced, SecretInv, RowsInv
<1> QED
  BY <1>1, Secrecy, PTL

\* No file says that a customer has no source management when it had one throughout.
THEOREM NoneAlwaysMeansNone == Spec => []NoneMeansNone
<1>1. SecretInv => NoneMeansNone
  BY DEF SecretInv, BookInv
<1> QED
  BY <1>1, Secrecy, PTL

LEMMA SavedIsHeld == ASSUME NEW t \in Text, key \in Key, NEW v, AsSaved(v, t) PROVE Held(v, t)
<1>1. CASE v = encrypt(Plain(t), key)
  BY <1>1, OneLayer DEF Held
<1>2. CASE v = Plain(t) /\ t \notin LooksEncrypted
  BY <1>2, PlainIsSecret DEF Held, Readable, safeDecrypt
<1>3. CASE v = Plain(t) /\ t \in LooksEncrypted
  BY <1>3 DEF Held
<1> QED
  BY <1>1, <1>2, <1>3 DEF AsSaved

\* As long as there is one key, the password saved last is the one that is read,
\* however often saves, the script and its crashes have passed over it.
THEOREM PasswordsAlwaysReadBack == Spec => []PasswordsReadBack
<1>1. SecretInv => PasswordsReadBack
  <2> SUFFICES ASSUME SecretInv, ~rekeyed PROVE /\ \A a \in access : a.secret # none => Held(a.secret, meant)
                                                /\ settings.sftp # none /\ ~raced => Held(settings.sftp, typedLast)
    BY DEF PasswordsReadBack
  <2>1. ASSUME NEW a \in access, a.secret # none PROVE Held(a.secret, meant)
    <3>1. meant \in Text /\ key \in Key /\ AsSaved(a.secret, meant)
      BY <2>1 DEF SecretInv, RowsInv
    <3> QED
      BY <3>1, SavedIsHeld
  <2>2. ASSUME settings.sftp # none, ~raced PROVE Held(settings.sftp, typedLast)
    <3>1. typedLast \in Text /\ key \in Key /\ AsSaved(settings.sftp, typedLast)
      BY <2>2 DEF SecretInv, RowsInv, OfficeInv
    <3> QED
      BY <3>1, SavedIsHeld
  <2> QED
    BY <2>1, <2>2
<1> QED
  BY <1>1, Secrecy, PTL

\* Once a run of the script has come to its end no column the script treats holds a
\* password in the clear but those that look encrypted, whatever is saved during and
\* after it. Nothing is said of the log, which keeps every update as it was sent.
THEOREM ColumnsAreAlwaysEncrypted == Spec => []ColumnsAreEncrypted
<1>1. SecretInv => ColumnsAreEncrypted
  BY DEF SecretInv, ClearedInv, ColumnsAreEncrypted
<1> QED
  BY <1>1, Secrecy, PTL

=============================================================================
