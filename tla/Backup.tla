------------------------------- MODULE Backup -------------------------------
(***************************************************************************)
(* BackupService (backend/src/backup) with the backup columns of the        *)
(* settings row: what a run dumps, archives, transfers and deletes, the log *)
(* row it leaves, and the cron job that starts runs. A run is a chain of    *)
(* awaits (queries, child processes, streams, SFTP); every action is one of *)
(* them together with the synchronous code up to the next. Scheduled and    *)
(* manual runs may be at work at the same time: nothing excludes it.        *)
(***************************************************************************)
EXTENDS Integers, FiniteSets, SequencesExt

CONSTANTS
  Run,            \* executions of executeBackup
  SettingsSpace,  \* what the settings page may save
  MaxTime,        \* bound on the clock, in seconds
  NoCron,         \* no cron job is registered
  NoLog           \* stands for a log row that does not exist

Target == {"db", "docs"}
Schedule == [type : {"daily", "weekly", "monthly"}, hour : 0..23, day : 0..31]
Settings == [enabled : BOOLEAN, schedule : Schedule, targets : SUBSET Target,
             destinations : SUBSET {"local", "remote"}, retention : 1..365,
             sftpHost : BOOLEAN, sftpPassword : BOOLEAN]
Log == [status : {"running", "success", "failed"}, targets : SUBSET Target,
        destinations : SUBSET {"local", "remote"}]

ASSUME BackupAssumption ==
  /\ SettingsSpace # {} /\ SettingsSpace \subseteq Settings
  /\ MaxTime \in Nat
  /\ IsFiniteSet(Run)
  /\ NoLog \notin Log

VARIABLES
  now,         \* the clock
  settings,    \* the system_settings row
  cron,        \* the registered job: a cron expression or NoCron
  logs,        \* the backup_logs table: the row of each run
  files,       \* per target the files of its directory, oldest mtime first
  remote,      \* what the SFTP server holds
  pc,          \* where each run is
  local,       \* the settings each run read, and the timestamp of its files
  overlapped   \* history: runs that were at work while another was

vars == <<now, settings, cron, logs, files, remote, pc, local, overlapped>>

File == [stamp : Nat, by : Run, whole : BOOLEAN]

Stages == <<"db", "docs", "sendDb", "sendDocs", "retain", "logSuccess">>
InFlight == {"getSettings", "createLog", "catch"} \cup {Stages[i] : i \in DOMAIN Stages}
Final == {"done", "failed", "aborted"}

---------------------------------------------------------------------------
(* The schedule *)

Every == -1

Slip_CronExpression(s) ==  \* moves the hour and keeps the day
  [hour |-> (s.hour + 15) % 24,
   weekday |-> IF s.type = "weekly" THEN s.day % 7 ELSE Every,
   monthday |-> IF s.type = "monthly" THEN (IF s.day \in 1..28 THEN s.day ELSE 1) ELSE Every]

\* buildCronExpression: the administrator's hour is KST, cron's is UTC.
CronExpression(s) ==
  LET dayShift == IF s.hour < 9 THEN -1 ELSE 0
      dayOfMonth == IF s.day \in 1..28 THEN s.day ELSE 1
  IN [hour |-> (s.hour + 15) % 24,
      weekday |-> IF s.type = "weekly" THEN (s.day + dayShift) % 7 ELSE Every,
      monthday |-> IF s.type # "monthly" THEN Every
                   ELSE IF dayOfMonth + dayShift < 1 THEN 1 ELSE dayOfMonth + dayShift]

\* scheduleBackup replaces the registered job.
Installed(s) == IF s.enabled THEN CronExpression(s.schedule) ELSE NoCron

CronSpace == {NoCron} \cup
  [hour : 0..23, weekday : {Every} \cup 0..6, monthday : {Every} \cup 1..28]

TypeOK ==
  /\ now \in Nat
  /\ settings \in Settings
  /\ cron \in CronSpace
  /\ logs \in [Run -> {NoLog} \cup Log]
  /\ files \in [Target -> Seq(File)]
  /\ remote \subseteq [target : Target, stamp : Nat, by : Run]
  /\ pc \in [Run -> {"idle"} \cup InFlight \cup Final]
  /\ local \in [Run -> [settings : Settings, stamp : Nat]]
  /\ overlapped \subseteq Run

Init ==
  /\ now = 0
  /\ settings \in SettingsSpace
  /\ cron = Installed(settings)
  /\ logs = [r \in Run |-> NoLog]
  /\ files = [t \in Target |-> <<>>]
  /\ remote = {}
  /\ pc = [r \in Run |-> "idle"]
  /\ local = [r \in Run |-> [settings |-> settings, stamp |-> 0]]
  /\ overlapped = {}

---------------------------------------------------------------------------
(* Helpers *)

\* A directory has at most one file of a name.
Others(dir, stamp) ==
  IF \E i \in DOMAIN dir : dir[i].stamp = stamp
  THEN RemoveAt(dir, CHOOSE i \in DOMAIN dir : dir[i].stamp = stamp)
  ELSE dir
Named(dir, stamp) == {f \in {dir[i] : i \in DOMAIN dir} : f.stamp = stamp}
OnDisk(r, t) == Named(files[t], local[r].stamp) # {}

\* The stages of executeBackup that the settings read at its start call for.
Wanted(s, stage) ==
  CASE stage \in Target -> stage \in s.targets
    [] stage = "sendDb" -> "remote" \in s.destinations /\ s.sftpHost /\ "db" \in s.targets
    [] stage = "sendDocs" -> "remote" \in s.destinations /\ s.sftpHost /\ "docs" \in s.targets
    [] stage = "retain" -> "local" \in s.destinations
    [] OTHER -> TRUE

\* The first wanted stage after number i.
NextStage(s, i) ==
  LET later == {j \in DOMAIN Stages : j > i /\ Wanted(s, Stages[j])}
  IN Stages[CHOOSE j \in later : \A k \in later : j <= k]

\* Entering a stage that writes a file creates it, or truncates the one there is.
Opened(dirs, r, stage, stamp) ==
  IF stage \in Target
  THEN [dirs EXCEPT ![stage] = Append(Others(@, stamp),
                                      [stamp |-> stamp, by |-> r, whole |-> FALSE])]
  ELSE dirs

Goto(r, stage) == pc' = [pc EXCEPT ![r] = stage]

\* The mtime of a file that is written to is the newest.
Written(dir, r, stamp, complete) ==
  LET f == CHOOSE g \in Named(dir, stamp) : TRUE
  IN Append(Others(dir, stamp), [f EXCEPT !.whole = complete /\ f.by = r])

Slip_Latest(dir, n) ==  \* sorts the oldest first
  IF Len(dir) > n THEN SubSeq(dir, 1, n) ELSE dir

Latest(dir, n) == IF Len(dir) > n THEN SubSeq(dir, Len(dir) - n + 1, Len(dir)) ELSE dir

---------------------------------------------------------------------------
(* Slips: plausible mistakes in single steps, used by no action (three more stand *)
(* before the helpers they are named after).                                    *)

Slip_LogFailed(r) ==  \* reports the error and leaves the row as it is
  /\ pc[r] = "catch"
  /\ Goto(r, "failed")
  /\ UNCHANGED <<now, settings, cron, logs, files, remote, local, overlapped>>

---------------------------------------------------------------------------
(* executeBackup *)

AtWork == {r \in Run : pc[r] \in InFlight}

\* A super admin asks for a run, or the cron job fires.
Begin(r) ==
  /\ pc[r] = "idle"
  /\ Goto(r, "getSettings")
  /\ overlapped' = IF AtWork = {} THEN overlapped ELSE overlapped \cup AtWork \cup {r}
  /\ UNCHANGED <<now, settings, cron, logs, files, remote, local>>

RunBackup(r) == Begin(r)
RunScheduledBackup(r) == cron # NoCron /\ Begin(r)

\* Everything a run does follows the row it read here.
GetSettings(r) ==
  /\ pc[r] = "getSettings"
  /\ Goto(r, "createLog")
  /\ local' = [local EXCEPT ![r].settings = settings]
  /\ UNCHANGED <<now, settings, cron, logs, files, remote, overlapped>>

\* The timestamp in the file names is taken when the row has been created.
CreateLog(r) ==
  /\ pc[r] = "createLog"
  /\ LET s == local[r].settings
         first == NextStage(s, 0)
     IN /\ Goto(r, first)
        /\ files' = Opened(files, r, first, now)
        /\ logs' = [logs EXCEPT ![r] = [status |-> "running", targets |-> s.targets,
                                        destinations |-> s.destinations]]
  /\ local' = [local EXCEPT ![r].stamp = now]
  /\ UNCHANGED <<now, settings, cron, remote, overlapped>>

\* The end of stage number i that succeeded, with the directories it leaves.
Proceed(r, i, dirs) ==
  LET next == NextStage(local[r].settings, i) IN
  /\ pc[r] = Stages[i]
  /\ Goto(r, next)
  /\ files' = Opened(dirs, r, next, local[r].stamp)

\* backupDatabase resolves when the stream has ended and the file is not empty,
\* whatever the exit status of mysqldump and gzip was.
BackupDatabase(r) ==
  /\ OnDisk(r, "db")
  /\ \E complete \in BOOLEAN :
       Proceed(r, 1, [files EXCEPT !["db"] = Written(@, r, local[r].stamp, complete)])
  /\ UNCHANGED <<now, settings, cron, logs, remote, local, overlapped>>

\* backupDocuments rejects when the archiver reports an error.
BackupDocuments(r) ==
  /\ OnDisk(r, "docs")
  /\ Proceed(r, 2, [files EXCEPT !["docs"] = Written(@, r, local[r].stamp, TRUE)])
  /\ UNCHANGED <<now, settings, cron, logs, remote, local, overlapped>>

\* A file being written to becomes the newest of its directory.
Grow(r) ==
  /\ pc[r] \in Target /\ OnDisk(r, pc[r])
  /\ files' = [files EXCEPT ![pc[r]] = Written(@, r, local[r].stamp, FALSE)]
  /\ UNCHANGED <<now, settings, cron, logs, remote, pc, local, overlapped>>

\* transferToRemote puts what is at the local path; without a password the
\* server refuses. (Installations with a key file need none; they are left out.)
TransferToRemote(r, i, t) ==
  LET stamp == local[r].stamp IN
  /\ OnDisk(r, t) /\ local[r].settings.sftpPassword
  /\ Proceed(r, i, files)
  /\ remote' = {c \in remote : c.target # t \/ c.stamp # stamp} \cup
       {[target |-> t, stamp |-> stamp, by |-> f.by] : f \in Named(files[t], stamp)}
  /\ UNCHANGED <<now, settings, cron, logs, local, overlapped>>

\* cleanupOldBackups, synchronous, for both directories whatever the targets are.
CleanupOldBackups(r) ==
  /\ Proceed(r, 5, [t \in Target |-> Latest(files[t], local[r].settings.retention)])
  /\ UNCHANGED <<now, settings, cron, logs, remote, local, overlapped>>

LogSuccess(r) ==
  /\ pc[r] = "logSuccess"
  /\ Goto(r, "done")
  /\ logs' = [logs EXCEPT ![r].status = "success"]
  /\ UNCHANGED <<now, settings, cron, files, remote, local, overlapped>>

\* Every stage may fail: the catch block closes the log row and leaves the files.
StageFails(r) ==
  /\ \E i \in DOMAIN Stages : pc[r] = Stages[i]
  /\ Goto(r, "catch")
  /\ UNCHANGED <<now, settings, cron, logs, files, remote, local, overlapped>>

LogFailed(r) ==
  /\ pc[r] = "catch"
  /\ Goto(r, "failed")
  /\ logs' = [logs EXCEPT ![r].status = "failed"]
  /\ UNCHANGED <<now, settings, cron, files, remote, local, overlapped>>

\* A query outside the try block fails; a row that was created stays running.
Abort(r) ==
  /\ pc[r] \in {"getSettings", "createLog", "catch"}
  /\ Goto(r, "aborted")
  /\ UNCHANGED <<now, settings, cron, logs, files, remote, local, overlapped>>

RunStep(r) ==
  \/ GetSettings(r) \/ CreateLog(r)
  \/ BackupDatabase(r) \/ BackupDocuments(r)
  \/ TransferToRemote(r, 3, "db") \/ TransferToRemote(r, 4, "docs")
  \/ CleanupOldBackups(r) \/ LogSuccess(r)
  \/ StageFails(r) \/ LogFailed(r) \/ Abort(r)

---------------------------------------------------------------------------
(* The rest of the system *)

\* The settings page sends its whole form. Its password field starts empty, and an
\* empty password is stored as null. The controller's backupService is undefined
\* (SettingsModule does not import BackupModule), so the cron job stays.
UpdateSettings(form, typed) ==
  /\ settings' = [form EXCEPT !.sftpPassword = typed]
  /\ UNCHANGED <<now, cron, logs, files, remote, pc, local, overlapped>>

\* The process dies, also of the archive stream, which has no error listener, and
\* onModuleInit registers the job anew unless it cannot read the settings.
Restart ==
  /\ pc' = [r \in Run |-> IF pc[r] \in InFlight THEN "aborted" ELSE pc[r]]
  /\ cron' \in {Installed(settings), NoCron}
  /\ UNCHANGED <<now, settings, logs, files, remote, local, overlapped>>

Tick ==
  /\ now < MaxTime
  /\ now' = now + 1
  /\ UNCHANGED <<settings, cron, logs, files, remote, pc, local, overlapped>>

Next ==
  \/ \E r \in Run : RunBackup(r) \/ RunScheduledBackup(r) \/ RunStep(r) \/ Grow(r)
  \/ \E form \in SettingsSpace, typed \in BOOLEAN : UpdateSettings(form, typed)
  \/ Restart
  \/ Tick

Spec == Init /\ [][Next]_vars

---------------------------------------------------------------------------
(* Properties *)

\* The log rows that say success, of runs that had the directories to themselves.
Succeeded == {r \in Run : logs[r] # NoLog /\ logs[r].status = "success"} \ overlapped

\* executeBackup and cleanupOldBackups: what a successful run wrote is there until
\* at least one file as new takes its place; retention never deletes the last one,
\* also when other runs fail half way, and the archive of documents is complete.
SuccessIsKeptOrSuperseded ==
  \A r \in Succeeded : \A t \in logs[r].targets :
    \E i \in DOMAIN files[t] :
      LET f == files[t][i] IN
      /\ f.stamp >= local[r].stamp
      /\ f.by = r /\ t = "docs" => f.whole

\* transferToRemote: a successful run with a remote destination, and with the address of
\* a server in the settings it read, has put each of its files there, where only a file
\* of the same name can replace it. Without an address nothing is sent, and the row
\* says success and remote all the same.
SuccessWasTransferred ==
  \A r \in Succeeded :
    "remote" \in logs[r].destinations /\ local[r].settings.sftpHost =>
      \A t \in logs[r].targets :
        \E c \in remote : c.target = t /\ c.stamp = local[r].stamp

\* executeBackup: a log row that says running belongs to a run at work, unless the
\* process died or the query that should have closed the row failed.
RunningIsAtWork ==
  \A r \in Run :
    logs[r] # NoLog /\ logs[r].status = "running" => pc[r] \in InFlight \cup {"aborted"}

\* The job of schedule s does not fire when the page says: nine hours after its UTC
\* time it is another hour, weekday or day of the month.
FiresElsewhen(s) ==
  LET c == CronExpression(s)
      nextDay == IF c.hour + 9 >= 24 THEN 1 ELSE 0
  IN
  \/ (c.hour + 9) % 24 # s.hour
  \/ s.type = "weekly" /\ s.day \in 0..6 /\ (c.weekday + nextDay) % 7 # s.day
  \/ s.type = "monthly" /\ s.day \in 1..28 /\ ~(s.day = 1 /\ s.hour < 9)
       /\ c.monthday + nextDay # s.day

WrongSchedules == {s \in Schedule : FiresElsewhen(s)}

\* buildCronExpression: whatever the page lets an administrator choose, the job
\* fires at that hour, weekday and day of the month of Korean time; the first of a
\* month before nine is out of its range, as its comment says.
FiresAtKoreanTime == cron # NoCron => WrongSchedules = {}

\* Every reachable state is well typed, and what the log says of a run is so.
LogTellsTruth == TypeOK /\ RunningIsAtWork /\ SuccessWasTransferred

---------------------------------------------------------------------------
(* What the repository says of itself and the code does not do *)

\* Settings page: a password field left empty keeps the stored password.
EmptyFieldKeepsPassword ==
  [][\A form \in SettingsSpace :
       UpdateSettings(form, FALSE) => settings'.sftpPassword = settings.sftpPassword]_vars

============================================================================
