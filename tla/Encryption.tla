----------------------------- MODULE Encryption -----------------------------
(***************************************************************************)
(* The passwords at rest: prisma/scripts/encrypt-server-access-info.ts, run  *)
(* while Sources and Settings go on saving, broken off and run again.        *)
(***************************************************************************)
EXTENDS Sources, Settings

VARIABLES
  migration,  \* the script: where it is, its key, the rows it has read and still has to treat
  raced       \* history: the settings were saved between the script's read and its write

script == <<migration, raced>>
vars == <<scenario, database, browser, count, office, script>>

TypeOK ==
  /\ SourcesOK /\ SettingsOK
  /\ migration.step \in {"off", "rows", "settings", "write", "done", "failed"}
  /\ migration.key \in Key /\ migration.rows \subseteq Access /\ migration.sftp \in Secret \cup {none}
  /\ raced \in BOOLEAN

Init ==
  /\ SourcesInit /\ SettingsInit(key, scenario.settings > 0)
  /\ migration = [step |-> "off", key |-> key, rows |-> {}, sftp |-> none] /\ raced = FALSE

\* main reads all rows at once.
Start(k) ==
  /\ migration.step \in {"off", "done", "failed"} /\ Once("migrations")
  /\ k # key => scenario.keys > 0
  /\ migration' = [step |-> "rows", key |-> k, rows |-> access, sftp |-> none]
  /\ rekeyed' = (rekeyed \/ k # key)
  /\ UNCHANGED <<scenario, key, customer, source, access, support, journal, lastId, version, unseen, meant>>
  /\ UNCHANGED <<browser, office, raced>>

Slip_Due(a) == a.secret # none  \* encrypted again

\* A row with a password that does not look encrypted.
Due(a) == a.secret # none /\ ~isEncrypted(a.secret)

\* Each row is written by its id; one that a save has replaced meanwhile ends the script.
RowEncrypted(a) ==
  /\ migration.step = "rows" /\ a \in migration.rows
  /\ IF Due(a) /\ ~\E b \in access : b.id = a.id
     THEN migration' = [migration EXCEPT !.step = "failed"] /\ UNCHANGED access
     ELSE /\ migration' = [migration EXCEPT !.rows = @ \ {a}]
          /\ access' = IF Due(a)
                       THEN {IF b.id = a.id THEN [b EXCEPT !.secret = encrypt(a.secret, migration.key)] ELSE b : b \in access}
                       ELSE access
  /\ UNCHANGED <<scenario, key, customer, source, support, journal, lastId, version, unseen, meant, rekeyed>>
  /\ UNCHANGED <<browser, count, office, raced>>

RowsDone ==
  /\ migration.step = "rows" /\ migration.rows = {}
  /\ migration' = [migration EXCEPT !.step = "settings"]
  /\ UNCHANGED <<scenario, database, browser, count, office, raced>>

\* The settings: read ...
SftpRead ==
  /\ migration.step = "settings"
  /\ migration' = IF settings.sftp # none /\ ~isEncrypted(settings.sftp)
                  THEN [migration EXCEPT !.step = "write", !.sftp = settings.sftp]
                  ELSE [migration EXCEPT !.step = "done"]
  /\ UNCHANGED <<scenario, database, browser, count, office, raced>>

\* ... and written.
SftpEncrypted ==
  /\ migration.step = "write"
  /\ settings' = [settings EXCEPT !.sftp = encrypt(migration.sftp, migration.key)]
  /\ migration' = [migration EXCEPT !.step = "done"]
  /\ raced' = (raced \/ settings.sftp # migration.sftp)
  /\ UNCHANGED <<scenario, database, browser, count, panel, patch, typedLast, edited>>

Crash ==
  /\ migration.step \in {"rows", "settings", "write"} /\ Once("crashes")
  /\ migration' = [migration EXCEPT !.step = "off"]
  /\ UNCHANGED <<scenario, database, browser, office, raced>>

Apart == UNCHANGED <<office, script>>
Aside == UNCHANGED <<scenario, database, browser, script>>
Used == scenario.settings > 0

Next ==
  \/ \E t \in Tab, p \in {"detail", "edit"} : Open(t, p) /\ Apart
  \/ \E l \in loads : CustomerLoaded(l) /\ Apart
  \/ \E l \in loads : getSourceManagement(l) /\ Apart
  \/ \E l \in loads : Loaded(l) /\ Apart
  \/ \E t \in Tab : handleServerChange(t) /\ Apart
  \/ \E t \in Tab, v \in {none} \cup {Plain(x) : x \in Text} : handleAccessInfoChange(t, v) /\ Apart
  \/ \E t \in Tab : handleSave(t) /\ Apart
  \/ \E s \in saves : SaveAnswered(s) /\ Apart
  \/ \E s \in saves : SaveFailed(s) /\ Apart
  \/ \E s \in saves : FoundSource(s) /\ Apart
  \/ \E s \in saves : SourceCreated(s) /\ Apart
  \/ \E s \in saves : SourceUpdated(s) /\ Apart
  \/ \E s \in saves : SourceLogged(s) /\ Apart
  \/ CustomerRemoved /\ Apart
  \/ SupportAdded /\ Apart
  \/ handleExportFullData /\ Apart
  \/ SourceSheet /\ Apart
  \/ SupportSheet /\ Apart
  \/ FileWritten /\ Apart
  \/ \E k \in Key : patch = none /\ Rekey(k) /\ Apart
  \/ Used /\ fetchSettings /\ UNCHANGED count /\ Aside
  \/ Used /\ scenario.fails /\ FetchFailed /\ UNCHANGED count /\ Aside
  \/ EditPolicy /\ Once("settings") /\ Aside
  \/ \E t \in Text \cup {"empty"} : TypePassword(t) /\ Once("settings") /\ Aside
  \/ Used /\ handlePatch /\ UNCHANGED count /\ Aside
  \/ FoundSettings /\ UNCHANGED count /\ Aside
  \/ updateSettings(key) /\ UNCHANGED count /\ Aside
  \/ PatchAnswered /\ UNCHANGED count /\ Aside
  \/ scenario.fails /\ PatchFailed /\ UNCHANGED count /\ Aside
  \/ \E k \in Key : Start(k)
  \/ \E a \in migration.rows : RowEncrypted(a)
  \/ RowsDone
  \/ SftpRead
  \/ SftpEncrypted
  \/ Crash

Spec == Init /\ [][Next]_vars

---------------------------------------------------------------------------
(* Properties *)

Held(v, t) ==
  \/ v = Plain(t) /\ t \in LooksEncrypted
  \/ Readable(v, key) /\ safeDecrypt(v, key) = Plain(t)

\* Whatever was saved last is what is read: a password goes through saves, the script,
\* its crashes and its repetitions and is encrypted once at most. Excepted are another
\* key, a password of old that looks encrypted, and settings saved while the script held
\* their former password.
PasswordsReadBack ==
  ~rekeyed =>
    /\ \A a \in access : a.secret # none => Held(a.secret, meant)
    /\ settings.sftp # none /\ ~raced =>
         Held(settings.sftp, typedLast)

\* After a run of the script that came to its end the columns it treats, the passwords
\* of the access rows and that of the settings, hold nothing in the clear, also what was
\* saved during the run and after it, but for what looks encrypted. The log of the saves
\* is another matter.
ColumnsAreEncrypted ==
  migration.step = "done" =>
    /\ \A a \in access : a.secret = none \/ isEncrypted(a.secret)
    /\ settings.sftp = none \/ isEncrypted(settings.sftp)

\* Every reachable state is well typed, and a row goes only for a form that showed it.
SourcesAreSound == TypeOK /\ UnreadIsNotReplaced

=============================================================================
