---------------------------- MODULE BackupProofs ----------------------------
(***************************************************************************)
(* Proofs about Backup, for any runs, settings and length of time.          *)
(*                                                                          *)
(* A run that is alone leaves its files at the end of their directories;    *)
(* what comes after them is as new, and retention cuts from the other end.  *)
(* The inductive invariant says so stage by stage.                          *)
(***************************************************************************)
EXTENDS Backup, SequenceTheorems, TLAPS

Staged == {"db", "docs", "sendDb", "sendDocs", "retain", "logSuccess"}

\* The stages at which a run has left target t behind, and its transfer.
After(t) == {"sendDb", "sendDocs", "retain", "logSuccess"} \cup
            (IF t = "db" THEN {"docs"} ELSE {})
AfterSend(t) == {"retain", "logSuccess"} \cup (IF t = "db" THEN {"sendDocs"} ELSE {})

Unique(dir) == \A i, j \in DOMAIN dir : dir[i].stamp = dir[j].stamp => i = j

\* A log row repeats the settings its run read, and says how the run ended.
LogsFit ==
  \A r \in Run :
    /\ pc[r] \in Staged \cup {"catch"} => logs[r] # NoLog /\ logs[r].status = "running"
    /\ logs[r] # NoLog =>
         /\ pc[r] \notin {"idle", "getSettings", "createLog"}
         /\ logs[r].targets = local[r].settings.targets
         /\ logs[r].destinations = local[r].settings.destinations
         /\ logs[r].status = "success" => pc[r] = "done"

\* Runs at work at the same time are noted.
OverlapsAreNoted ==
  \A q, r \in AtWork : q # r => r \in overlapped

\* A run at work is as new as every run that succeeded alone.
StampsGrow ==
  /\ \A r \in Run : local[r].stamp <= now
  /\ \A q \in Run : pc[q] \in Staged =>
       \A r \in Succeeded : local[r].stamp <= local[q].stamp

\* A directory has one file of a name.
NamesAreUnique == \A t \in Target : Unique(files[t])

\* A run that is alone is the last to write to its directories, and finished the
\* file of a target it left behind.
OwnIsNewest ==
  \A r \in Run \ overlapped : \A t \in Target :
    pc[r] = t \/ (pc[r] \in After(t) /\ t \in local[r].settings.targets) =>
      /\ files[t] # <<>>
      /\ Last(files[t]).stamp = local[r].stamp
      /\ Last(files[t]).by = r
      /\ pc[r] \in After(t) /\ t = "docs" => Last(files[t]).whole

\* Whatever came to a directory after a success is as new.
NewestIsAsNew ==
  \A r \in Succeeded : \A t \in logs[r].targets :
    /\ files[t] # <<>>
    /\ Last(files[t]).stamp >= local[r].stamp
    /\ Last(files[t]).by = r /\ t = "docs" => Last(files[t]).whole

\* The file a run is writing to is none of a run that succeeded alone.
WritesNoSuccess ==
  \A q \in Run : \A t \in Target : pc[q] = t =>
    \A i \in DOMAIN files[t] :
      files[t][i].stamp = local[q].stamp => files[t][i].by \notin Succeeded

\* A run that left its transfer behind has a file on the server.
SentIsThere ==
  \A r \in Run : \A t \in Target :
    /\ pc[r] \in AfterSend(t) \/ (logs[r] # NoLog /\ logs[r].status = "success")
    /\ t \in local[r].settings.targets /\ "remote" \in local[r].settings.destinations
    /\ local[r].settings.sftpHost
    => \E c \in remote : c.target = t /\ c.stamp = local[r].stamp

IInv ==
  /\ TypeOK /\ LogsFit /\ RunningIsAtWork /\ OverlapsAreNoted /\ StampsGrow
  /\ NamesAreUnique /\ OwnIsNewest /\ NewestIsAsNew /\ WritesNoSuccess /\ SentIsThere

---------------------------------------------------------------------------
(* Directories *)

\* What RemoveAt leaves keeps its order.
LEMMA Removal ==
  ASSUME NEW S, NEW d \in Seq(S), NEW k \in 1..Len(d)
  PROVE  /\ RemoveAt(d, k) \in Seq(S)
         /\ Len(RemoveAt(d, k)) = Len(d) - 1
         /\ \A i \in 1..Len(d) - 1 : RemoveAt(d, k)[i] = IF i < k THEN d[i] ELSE d[i + 1]
<1> DEFINE a == SubSeq(d, 1, k - 1)
           b == SubSeq(d, k + 1, Len(d))
<1>1. a \in Seq(S) /\ Len(a) = k - 1 /\ \A i \in 1..k - 1 : a[i] = d[i]
  OBVIOUS
<1>2. b \in Seq(S) /\ Len(b) = Len(d) - k /\ \A i \in 1..Len(d) - k : b[i] = d[i + k]
  OBVIOUS
<1>3. RemoveAt(d, k) = a \o b
  BY DEF RemoveAt
<1> HIDE DEF a, b
<1>4. /\ a \o b \in Seq(S)
      /\ Len(a \o b) = Len(a) + Len(b)
      /\ \A i \in 1..Len(a) + Len(b) :
           (a \o b)[i] = IF i <= Len(a) THEN a[i] ELSE b[i - Len(a)]
  <2>1. a \in Seq(S) /\ b \in Seq(S)
    BY <1>1, <1>2
  <2> QED
    BY <2>1, ConcatProperties
<1>5. Len(a \o b) = Len(d) - 1
  BY <1>1, <1>2, <1>4
<1>6. ASSUME NEW i \in 1..Len(d) - 1
      PROVE  (a \o b)[i] = IF i < k THEN d[i] ELSE d[i + 1]
  <2>1. CASE i < k
    <3>1. i <= Len(a) /\ i \in 1..Len(a) + Len(b) /\ i \in 1..k - 1
      BY <1>1, <1>2, <2>1
    <3> QED
      BY <1>1, <1>4, <2>1, <3>1
  <2>2. CASE ~(i < k)
    <3>1. ~(i <= Len(a)) /\ i \in 1..Len(a) + Len(b)
      BY <1>1, <1>2, <2>2
    <3>2. PICK j \in 1..Len(d) - k : j = i - Len(a) /\ j + k = i + 1
      BY <1>1, <2>2
    <3>3. (a \o b)[i] = b[j]
      BY <1>4, <3>1, <3>2
    <3>4. b[j] = d[j + k]
      BY <1>2
    <3> QED
      BY <2>2, <3>2, <3>3, <3>4
  <2> QED
    BY <2>1, <2>2
<1> QED
  BY <1>3, <1>4, <1>5, <1>6

\* Others drops the file of that name.
LEMMA OthersOf ==
  ASSUME NEW d \in Seq(File), Unique(d), NEW s \in Nat
  PROVE  /\ Others(d, s) \in Seq(File)
         /\ Unique(Others(d, s))
         /\ \A i \in 1..Len(Others(d, s)) :
              /\ Others(d, s)[i].stamp # s
              /\ \E j \in 1..Len(d) : Others(d, s)[i] = d[j]
<1>1. CASE \E i \in DOMAIN d : d[i].stamp = s
  <2>1. PICK k \in DOMAIN d : k = (CHOOSE i \in DOMAIN d : d[i].stamp = s) /\ d[k].stamp = s
    BY <1>1
  <2>2. Others(d, s) = RemoveAt(d, k)
    BY <1>1, <2>1 DEF Others
  <2>3. k \in 1..Len(d)
    OBVIOUS
  <2> DEFINE e == RemoveAt(d, k)
  <2>4. /\ e \in Seq(File) /\ Len(e) = Len(d) - 1
        /\ \A i \in 1..Len(d) - 1 : e[i] = IF i < k THEN d[i] ELSE d[i + 1]
    BY <2>3, Removal
  <2> HIDE DEF e
  <2>5. \A i \in 1..Len(e) : \E j \in 1..Len(d) : e[i] = d[j] /\ j # k
    <3> TAKE i \in 1..Len(e)
    <3>1. CASE i < k
      BY <2>4, <3>1
    <3>2. CASE ~(i < k)
      <4>1. i + 1 \in 1..Len(d) /\ i + 1 # k /\ e[i] = d[i + 1]
        BY <2>4, <3>2
      <4> QED
        BY <4>1
    <3> QED
      BY <3>1, <3>2
  <2>6. \A i \in 1..Len(e) : e[i].stamp # s
    BY <2>1, <2>5 DEF Unique
  <2>7. Unique(e)
    <3> SUFFICES ASSUME NEW i \in 1..Len(e), NEW j \in 1..Len(e), e[i].stamp = e[j].stamp
                 PROVE  i = j
      BY <2>4 DEF Unique
    <3> DEFINE f(x) == IF x < k THEN x ELSE x + 1
    <3>1. f(i) \in DOMAIN d /\ f(j) \in DOMAIN d /\ e[i] = d[f(i)] /\ e[j] = d[f(j)]
      BY <2>4
    <3>2. f(i) = f(j)
      BY <3>1 DEF Unique
    <3> QED
      BY <3>2
  <2> QED
    BY <2>2, <2>4, <2>5, <2>6, <2>7 DEF e
<1>2. CASE ~\E i \in DOMAIN d : d[i].stamp = s
  <2>1. Others(d, s) = d
    BY <1>2 DEF Others
  <2> QED
    BY <1>2, <2>1
<1> QED
  BY <1>1, <1>2

\* A file put in the place of the one of its name is the last of the directory.
LEMMA Replaced ==
  ASSUME NEW d \in Seq(File), Unique(d), NEW f \in File
  PROVE  LET e == Append(Others(d, f.stamp), f) IN
         /\ e \in Seq(File)
         /\ Unique(e)
         /\ e # <<>> /\ Last(e) = f
         /\ \A i \in 1..Len(e) : e[i] = f \/ \E j \in 1..Len(d) : e[i] = d[j]
<1> DEFINE o == Others(d, f.stamp)
           e == Append(o, f)
<1>1. /\ o \in Seq(File) /\ Unique(o)
      /\ \A i \in 1..Len(o) : o[i].stamp # f.stamp /\ \E j \in 1..Len(d) : o[i] = d[j]
  BY OthersOf DEF File
<1> HIDE DEF o
<1>2. /\ e \in Seq(File) /\ e # <<>> /\ Len(e) = Len(o) + 1
      /\ \A i \in 1..Len(o) : e[i] = o[i]
      /\ e[Len(o) + 1] = f
  BY <1>1, AppendProperties
<1> HIDE DEF e
<1>3. Unique(e)
  <2> SUFFICES ASSUME NEW i \in 1..Len(e), NEW j \in 1..Len(e), e[i].stamp = e[j].stamp
               PROVE  i = j
    BY <1>2 DEF Unique
  <2>1. Len(o) \in Nat
    BY <1>1
  <2>2. CASE i = Len(o) + 1 \/ j = Len(o) + 1
    BY <1>1, <1>2, <2>1, <2>2
  <2>3. CASE i # Len(o) + 1 /\ j # Len(o) + 1
    <3>1. i \in DOMAIN o /\ j \in DOMAIN o /\ e[i] = o[i] /\ e[j] = o[j]
      BY <1>1, <1>2, <2>1, <2>3
    <3> QED
      BY <1>1, <3>1 DEF Unique
  <2> QED
    BY <2>2, <2>3
<1>4. Last(e) = f
  BY <1>2 DEF Last
<1>5. ASSUME NEW i \in 1..Len(e) PROVE e[i] = f \/ \E j \in 1..Len(d) : e[i] = d[j]
  <2>1. Len(o) \in Nat
    BY <1>1
  <2>2. i = Len(o) + 1 \/ i \in 1..Len(o)
    BY <1>2, <2>1
  <2> QED
    BY <1>1, <1>2, <2>2
<1> QED
  BY <1>2, <1>3, <1>4, <1>5 DEF e, o

\* Writing to a file makes it the last; it is whole only if its opener wrote it.
LEMMA WrittenTo ==
  ASSUME NEW d \in Seq(File), Unique(d), NEW r \in Run, NEW s \in Nat, NEW c \in BOOLEAN,
         Named(d, s) # {}
  PROVE  LET e == Written(d, r, s, c) IN
         /\ e \in Seq(File)
         /\ Unique(e)
         /\ e # <<>> /\ Last(e).stamp = s
         /\ \E k \in 1..Len(d) : d[k].stamp = s /\ Last(e).by = d[k].by
         /\ Last(e).whole <=> c /\ Last(e).by = r
         /\ \A i \in 1..Len(e) : e[i] = Last(e) \/ \E j \in 1..Len(d) : e[i] = d[j]
<1>1. PICK g \in Named(d, s) : g = CHOOSE h \in Named(d, s) : TRUE
  OBVIOUS
<1>2. PICK k \in 1..Len(d) : g = d[k] /\ d[k].stamp = s
  BY DEF Named
<1>3. d[k] \in File
  OBVIOUS
<1> DEFINE f == [g EXCEPT !.whole = c /\ g.by = r]
<1>4. f \in File /\ f.stamp = s /\ f.by = g.by /\ (f.whole <=> c /\ g.by = r)
  BY <1>2, <1>3 DEF File
<1>5. Written(d, r, s, c) = Append(Others(d, s), f)
  BY <1>1 DEF Written
<1> HIDE DEF f
<1>6. LET e == Append(Others(d, f.stamp), f) IN
      /\ e \in Seq(File) /\ Unique(e) /\ e # <<>> /\ Last(e) = f
      /\ \A i \in 1..Len(e) : e[i] = f \/ \E j \in 1..Len(d) : e[i] = d[j]
  BY <1>4, Replaced
<1> QED
  BY <1>2, <1>4, <1>5, <1>6

\* Retention keeps the newest file.
LEMMA LatestOf ==
  ASSUME NEW d \in Seq(File), Unique(d), NEW n \in Nat \ {0}
  PROVE  LET e == Latest(d, n) IN
         /\ e \in Seq(File)
         /\ Unique(e)
         /\ d # <<>> => e # <<>> /\ Last(e) = Last(d)
         /\ \A i \in 1..Len(e) : \E j \in 1..Len(d) : e[i] = d[j]
<1>1. CASE Len(d) > n
  <2> DEFINE e == SubSeq(d, Len(d) - n + 1, Len(d))
  <2>1. e \in Seq(File) /\ Len(e) = n /\ \A i \in 1..n : e[i] = d[Len(d) - n + i]
    BY <1>1
  <2>2. Latest(d, n) = e
    BY <1>1 DEF Latest
  <2> HIDE DEF e
  <2>3. Unique(e)
    <3> SUFFICES ASSUME NEW i \in 1..n, NEW j \in 1..n, e[i].stamp = e[j].stamp
                 PROVE  i = j
      BY <2>1 DEF Unique
    <3>1. Len(d) - n + i \in DOMAIN d /\ Len(d) - n + j \in DOMAIN d
      BY <1>1
    <3>2. Len(d) - n + i = Len(d) - n + j
      BY <2>1, <3>1 DEF Unique
    <3> QED
      BY <3>2
  <2>4. e # <<>> /\ Last(e) = Last(d)
    BY <1>1, <2>1 DEF Last
  <2>5. \A i \in 1..Len(e) : \E j \in 1..Len(d) : e[i] = d[j]
    BY <1>1, <2>1
  <2> QED
    BY <2>1, <2>2, <2>3, <2>4, <2>5
<1>2. CASE ~(Len(d) > n)
  <2>1. Latest(d, n) = d
    BY <1>2 DEF Latest
  <2> QED
    BY <2>1
<1> QED
  BY <1>1, <1>2

---------------------------------------------------------------------------
(* Stages *)

\* The stages by number.
LEMMA StageNames ==
  /\ DOMAIN Stages = 1..6
  /\ Stages[1] = "db" /\ Stages[2] = "docs" /\ Stages[3] = "sendDb"
  /\ Stages[4] = "sendDocs" /\ Stages[5] = "retain" /\ Stages[6] = "logSuccess"
BY DEF Stages

\* Staged lists the stages.
LEMMA StagesAreStaged ==
  /\ {Stages[i] : i \in DOMAIN Stages} = Staged
  /\ InFlight = {"getSettings", "createLog", "catch"} \cup Staged
<1>1. ASSUME NEW i \in DOMAIN Stages PROVE Stages[i] \in Staged
  <2>1. i \in 1..6
    BY StageNames
  <2>2. i = 1 \/ i = 2 \/ i = 3 \/ i = 4 \/ i = 5 \/ i = 6
    BY <2>1
  <2> QED
    BY <2>2, StageNames DEF Staged
<1>2. ASSUME NEW x \in Staged PROVE \E i \in DOMAIN Stages : x = Stages[i]
  <2>1. 1 \in DOMAIN Stages /\ 2 \in DOMAIN Stages /\ 3 \in DOMAIN Stages
        /\ 4 \in DOMAIN Stages /\ 5 \in DOMAIN Stages /\ 6 \in DOMAIN Stages
    BY StageNames
  <2> QED
    BY <2>1, StageNames DEF Staged
<1>3. {Stages[i] : i \in DOMAIN Stages} = Staged
  BY <1>1, <1>2
<1> QED
  BY <1>3 DEF InFlight

\* The next stage is the first wanted one.
LEMMA FirstWanted ==
  ASSUME NEW s \in Settings, NEW i \in 0..5
  PROVE  \E j \in 1..6 :
           /\ j > i /\ NextStage(s, i) = Stages[j] /\ Wanted(s, Stages[j])
           /\ \A k \in 1..6 : i < k /\ k < j => ~Wanted(s, Stages[k])
<1> DEFINE L == {j \in DOMAIN Stages : j > i /\ Wanted(s, Stages[j])}
<1>1. L \subseteq 1..6 /\ \A j \in 1..6 : j \in L <=> j > i /\ Wanted(s, Stages[j])
  BY StageNames
<1>2. 6 \in L
  <2>1. Wanted(s, "logSuccess")
    BY DEF Wanted, Target
  <2> QED
    BY <1>1, <2>1, StageNames
<1>3. NextStage(s, i) = Stages[CHOOSE j \in L : \A k \in L : j <= k]
  BY DEF NextStage
<1> HIDE DEF L
<1>4. PICK j \in L : \A k \in L : j <= k
  <2>1. \A k \in L : k = 1 \/ k = 2 \/ k = 3 \/ k = 4 \/ k = 5 \/ k = 6
    BY <1>1
  <2> QED
    BY <1>2, <2>1
<1>5. j = CHOOSE j1 \in L : \A k \in L : j1 <= k
  <2>1. ASSUME NEW m \in L, \A k \in L : m <= k PROVE m = j
    BY <1>1, <1>4, <2>1
  <2> QED
    BY <1>4, <2>1
<1>6. NextStage(s, i) = Stages[j]
  BY <1>3, <1>5
<1> QED
  BY <1>1, <1>4, <1>6

\* No wanted target and no wanted transfer is skipped.
LEMMA NothingSkipped ==
  ASSUME NEW s \in Settings, NEW i \in 0..5
  PROVE  LET n == NextStage(s, i) IN
         /\ n \in Staged
         /\ i >= 1 => n # "db"
         /\ i >= 2 => n # "docs"
         /\ n \in Target => n \in s.targets
         /\ i < 1 /\ n \in After("db") => "db" \notin s.targets
         /\ i < 2 /\ n \in After("docs") => "docs" \notin s.targets
         /\ i < 3 /\ n \in AfterSend("db") /\ "db" \in s.targets =>
              ~("remote" \in s.destinations /\ s.sftpHost)
         /\ i < 4 /\ n \in AfterSend("docs") /\ "docs" \in s.targets =>
              ~("remote" \in s.destinations /\ s.sftpHost)
<1>1. PICK j \in 1..6 :
        /\ j > i /\ NextStage(s, i) = Stages[j] /\ Wanted(s, Stages[j])
        /\ \A k \in 1..6 : i < k /\ k < j => ~Wanted(s, Stages[k])
  BY FirstWanted
<1>2. /\ Wanted(s, "db") <=> "db" \in s.targets
      /\ Wanted(s, "docs") <=> "docs" \in s.targets
      /\ Wanted(s, "sendDb") <=>
           "remote" \in s.destinations /\ s.sftpHost /\ "db" \in s.targets
      /\ Wanted(s, "sendDocs") <=>
           "remote" \in s.destinations /\ s.sftpHost /\ "docs" \in s.targets
  BY DEF Wanted, Target
<1>3. j = 1 \/ j = 2 \/ j = 3 \/ j = 4 \/ j = 5 \/ j = 6
  OBVIOUS
<1>4. \A k \in 1..4 : i < k /\ k < j => ~Wanted(s, Stages[k])
  BY <1>1
<1>5. /\ i < 1 /\ 1 < j => ~Wanted(s, "db")
      /\ i < 2 /\ 2 < j => ~Wanted(s, "docs")
      /\ i < 3 /\ 3 < j => ~Wanted(s, "sendDb")
      /\ i < 4 /\ 4 < j => ~Wanted(s, "sendDocs")
  BY <1>4, StageNames
<1>6. NextStage(s, i) \in Staged
  BY <1>1, <1>3, StageNames DEF Staged
<1> QED
  BY <1>1, <1>2, <1>3, <1>5, <1>6, StageNames DEF After, AfterSend, Target

---------------------------------------------------------------------------
(* Steps *)

\* Where a stage goes when it succeeds, and what that does to the directories.
LEMMA Onward ==
  ASSUME TypeOK, NEW r \in Run, NEW i \in 1..5, NEW dirs, Proceed(r, i, dirs)
  PROVE  /\ pc[r] = Stages[i] /\ pc[r] \in Staged
         /\ pc'[r] = NextStage(local[r].settings, i) /\ pc'[r] \in Staged
         /\ pc' = [pc EXCEPT ![r] = pc'[r]]
         /\ files' = Opened(dirs, r, pc'[r], local[r].stamp)
<1>1. local[r].settings \in Settings /\ i \in 0..5 /\ i \in DOMAIN Stages
  BY StageNames DEF TypeOK
<1>2. NextStage(local[r].settings, i) \in Staged
  BY <1>1, NothingSkipped
<1>3. Stages[i] \in Staged
  BY <1>1, StagesAreStaged
<1> QED
  BY <1>2, <1>3 DEF Proceed, Goto, TypeOK

\* A run begins and ends once; after CreateLog it works with what it remembers.
LEMMA Started ==
  ASSUME TypeOK, NEW r \in Run, CreateLog(r)
  PROVE  /\ pc[r] = "createLog"
         /\ pc'[r] = NextStage(local[r].settings, 0) /\ pc'[r] \in Staged
         /\ pc' = [pc EXCEPT ![r] = pc'[r]]
         /\ files' = Opened(files, r, pc'[r], now)
         /\ local' = [local EXCEPT ![r] = [settings |-> local[r].settings, stamp |-> now]]
<1>1. local[r].settings \in Settings /\ 0 \in 0..5
  BY DEF TypeOK
<1>2. NextStage(local[r].settings, 0) \in Staged
  BY <1>1, NothingSkipped
<1>3. [local[r] EXCEPT !.stamp = now] = [settings |-> local[r].settings, stamp |-> now]
  BY DEF TypeOK
<1>4. local' = [local EXCEPT ![r] = [local[r] EXCEPT !.stamp = now]]
  BY DEF CreateLog
<1> QED
  BY <1>2, <1>3, <1>4 DEF CreateLog, Goto, TypeOK

OnTargets(f) == f = [t \in Target |-> f[t]]

\* A run opens a file at the end of directory t, or adds to the one it writes.
Opens(r, t) ==
  /\ CreateLog(r) \/ BackupDatabase(r)
  /\ pc'[r] = t /\ local'[r].stamp \in Nat
  /\ files'[t] = Append(Others(files[t], local'[r].stamp),
                        [stamp |-> local'[r].stamp, by |-> r, whole |-> FALSE])

Adds(r, t, c) ==
  /\ Grow(r) \/ BackupDatabase(r) \/ (BackupDocuments(r) /\ c = TRUE)
  /\ pc[r] = t /\ Named(files[t], local[r].stamp) # {} /\ local' = local
  /\ files'[t] = Written(files[t], r, local[r].stamp, c)

Cuts(r, t) ==
  /\ CleanupOldBackups(r)
  /\ files'[t] = Latest(files[t], local[r].settings.retention)

\* What a step may do to a directory.
DirStep(t) ==
  \/ files'[t] = files[t]
  \/ \E r \in Run : Cuts(r, t) \/ Opens(r, t) \/ Adds(r, t, TRUE) \/ Adds(r, t, FALSE)

\* From the third stage on no file is opened.
LEMMA LateStages ==
  ASSUME TypeOK, NEW r \in Run, NEW i \in 3..5, NEW dirs, Proceed(r, i, dirs)
  PROVE  files' = dirs
<1>1. local[r].settings \in Settings /\ i \in 0..5 /\ i \in 1..5 /\ i >= 2
  BY DEF TypeOK
<1>2. pc'[r] = NextStage(local[r].settings, i)
      /\ files' = Opened(dirs, r, pc'[r], local[r].stamp)
  BY <1>1, Onward
<1>3. NextStage(local[r].settings, i) \notin {"db", "docs"}
  BY <1>1, NothingSkipped
<1> QED
  BY <1>2, <1>3 DEF Opened, Target

\* A step leaves a directory alone, cuts it, opens a file or adds to one.
LEMMA DirSteps ==
  ASSUME TypeOK, [Next]_vars
  PROVE  /\ OnTargets(files')
         /\ \A t \in Target : DirStep(t)
<1> DEFINE G ==
       /\ OnTargets(files')
       /\ \A t \in Target : DirStep(t)
<1> SUFFICES G
  OBVIOUS
<1> USE DEF TypeOK, DirStep, OnTargets
<1>1. ASSUME NEW r \in Run, RunBackup(r) PROVE G
  BY <1>1 DEF RunBackup, Begin, Goto, AtWork
<1>2. ASSUME NEW r \in Run, RunScheduledBackup(r) PROVE G
  BY <1>2 DEF RunScheduledBackup, Begin, Goto, AtWork
<1>3. ASSUME NEW r \in Run, GetSettings(r) PROVE G
  BY <1>3 DEF GetSettings, Goto
<1>4. ASSUME NEW r \in Run, CreateLog(r) PROVE G
  <2>1. files' = Opened(files, r, pc'[r], now) /\ local'[r].stamp = now /\ now \in Nat
    BY <1>4, Started DEF TypeOK
  <2>2. CASE pc'[r] \in Target
    <3>1. files' = [files EXCEPT ![pc'[r]] =
            Append(Others(@, now), [stamp |-> now, by |-> r, whole |-> FALSE])]
      BY <2>1, <2>2 DEF Opened
    <3>2. OnTargets(files') /\ Opens(r, pc'[r])
          /\ \A t \in Target : t # pc'[r] => files'[t] = files[t]
      BY <1>4, <2>1, <2>2, <3>1 DEF TypeOK, Opens
    <3> QED
      BY <3>2 DEF DirStep
  <2>3. CASE pc'[r] \notin Target
    BY <2>1, <2>3 DEF Opened, TypeOK, DirStep
  <2> QED
    BY <2>2, <2>3
<1>5. ASSUME NEW r \in Run, BackupDatabase(r) PROVE G
  <2>1. PICK c \in BOOLEAN :
          Proceed(r, 1, [files EXCEPT !["db"] = Written(@, r, local[r].stamp, c)])
    BY <1>5 DEF BackupDatabase
  <2> DEFINE dirs == [files EXCEPT !["db"] = Written(@, r, local[r].stamp, c)]
  <2>2. /\ OnTargets(dirs) /\ dirs["docs"] = files["docs"]
        /\ dirs["db"] = Written(files["db"], r, local[r].stamp, c)
    BY DEF TypeOK, Target
  <2> HIDE DEF dirs
  <2>3. pc[r] = "db" /\ pc'[r] = NextStage(local[r].settings, 1)
        /\ files' = Opened(dirs, r, pc'[r], local[r].stamp)
    BY <2>1, Onward, StageNames DEF dirs
  <2>4. local' = local /\ Named(files["db"], local[r].stamp) # {} /\ pc'[r] # "db"
    <3>1. local[r].settings \in Settings /\ 1 \in 0..5
      BY DEF TypeOK
    <3>2. NextStage(local[r].settings, 1) # "db"
      BY <3>1, NothingSkipped
    <3> QED
      BY <1>5, <2>3, <3>2 DEF BackupDatabase, OnDisk
  <2>5. files'["db"] = dirs["db"] /\ OnTargets(files')
    <3>1. CASE pc'[r] = "docs"
      BY <2>2, <2>3, <3>1 DEF Opened, Target
    <3>2. CASE pc'[r] # "docs"
      <4>1. files' = dirs
        BY <2>3, <2>4, <3>2 DEF Opened, Target
      <4> QED
        BY <2>2, <4>1
    <3> QED
      BY <3>1, <3>2
  <2>6. Adds(r, "db", TRUE) \/ Adds(r, "db", FALSE)
    BY <1>5, <2>2, <2>3, <2>4, <2>5 DEF Adds
  <2>7. files'["docs"] = files["docs"] \/ Opens(r, "docs")
    <3>1. local'[r].stamp = local[r].stamp /\ local[r].stamp \in Nat
      BY <2>4 DEF TypeOK
    <3> QED
      BY <1>5, <2>2, <2>3, <2>4, <3>1 DEF Opens, Opened, Target
  <2> QED
    BY <2>5, <2>6, <2>7 DEF DirStep, Target
<1>6. ASSUME NEW r \in Run, BackupDocuments(r) PROVE G
  <2> DEFINE dirs == [files EXCEPT !["docs"] = Written(@, r, local[r].stamp, TRUE)]
  <2>1. Proceed(r, 2, dirs) /\ local' = local /\ Named(files["docs"], local[r].stamp) # {}
    BY <1>6 DEF BackupDocuments, OnDisk
  <2>2. /\ OnTargets(dirs) /\ dirs["db"] = files["db"]
        /\ dirs["docs"] = Written(files["docs"], r, local[r].stamp, TRUE)
    BY DEF TypeOK, Target
  <2> HIDE DEF dirs
  <2>3. pc[r] = "docs" /\ pc'[r] = NextStage(local[r].settings, 2)
        /\ files' = Opened(dirs, r, pc'[r], local[r].stamp)
    BY <2>1, Onward, StageNames
  <2>4. pc'[r] \notin Target
    <3>1. local[r].settings \in Settings /\ 2 \in 0..5
      BY DEF TypeOK
    <3>2. NextStage(local[r].settings, 2) \notin {"db", "docs"}
      BY <3>1, NothingSkipped
    <3> QED
      BY <2>3, <3>2 DEF Target
  <2>5. files' = dirs
    BY <2>3, <2>4 DEF Opened
  <2>6. Adds(r, "docs", TRUE)
    BY <1>6, <2>1, <2>2, <2>3, <2>5 DEF Adds
  <2> QED
    BY <2>2, <2>5, <2>6 DEF DirStep, Target
<1>7. ASSUME NEW r \in Run, TransferToRemote(r, 3, "db") PROVE G
  <2>1. Proceed(r, 3, files)
    BY <1>7 DEF TransferToRemote
  <2>2. files' = files
    BY <2>1, LateStages
  <2> QED
    BY <2>2 DEF TypeOK, DirStep
<1>8. ASSUME NEW r \in Run, TransferToRemote(r, 4, "docs") PROVE G
  <2>1. Proceed(r, 4, files)
    BY <1>8 DEF TransferToRemote
  <2>2. files' = files
    BY <2>1, LateStages
  <2> QED
    BY <2>2 DEF TypeOK, DirStep
<1>9. ASSUME NEW r \in Run, CleanupOldBackups(r) PROVE G
  <2> DEFINE dirs == [t \in Target |-> Latest(files[t], local[r].settings.retention)]
  <2>1. Proceed(r, 5, dirs)
    BY <1>9 DEF CleanupOldBackups
  <2> HIDE DEF dirs
  <2>2. files' = dirs
    BY <2>1, LateStages
  <2> QED
    BY <1>9, <2>2 DEF DirStep, Cuts, dirs
<1>10. ASSUME NEW r \in Run, LogSuccess(r) PROVE G
  BY <1>10 DEF LogSuccess, Goto
<1>11. ASSUME NEW r \in Run, StageFails(r) PROVE G
  BY <1>11 DEF StageFails, Goto
<1>12. ASSUME NEW r \in Run, LogFailed(r) PROVE G
  BY <1>12 DEF LogFailed, Goto
<1>13. ASSUME NEW r \in Run, Abort(r) PROVE G
  BY <1>13 DEF Abort, Goto
<1>14. ASSUME NEW r \in Run, Grow(r) PROVE G
  <2>1. /\ pc[r] \in Target /\ Named(files[pc[r]], local[r].stamp) # {} /\ local' = local
        /\ files' = [files EXCEPT ![pc[r]] = Written(@, r, local[r].stamp, FALSE)]
    BY <1>14 DEF Grow, OnDisk
  <2>2. OnTargets(files') /\ \A t \in Target : t # pc[r] => files'[t] = files[t]
    BY <2>1 DEF TypeOK
  <2>3. Adds(r, pc[r], FALSE)
    BY <1>14, <2>1 DEF Adds, TypeOK
  <2> QED
    BY <2>2, <2>3 DEF DirStep
<1>15. ASSUME NEW form \in SettingsSpace, NEW typed \in BOOLEAN,
      UpdateSettings(form, typed) PROVE G
  BY <1>15 DEF UpdateSettings
<1>16. CASE Restart
  BY <1>16 DEF Restart
<1>17. CASE Tick
  BY <1>17 DEF Tick
<1>18. CASE UNCHANGED vars
  BY <1>18 DEF vars
<1> HIDE DEF G, TypeOK, DirStep, OnTargets
<1> QED
  BY <1>1, <1>2, <1>3, <1>4, <1>5, <1>6, <1>7, <1>8, <1>9, <1>10, <1>11,
     <1>12, <1>13, <1>14, <1>15, <1>16, <1>17, <1>18 DEF Next, RunStep

\* Directories hold files with different names.
LEMMA DirsSound ==
  ASSUME TypeOK, NamesAreUnique, [Next]_vars, NEW t \in Target
  PROVE  files'[t] \in Seq(File) /\ Unique(files'[t])
<1>1. files[t] \in Seq(File) /\ Unique(files[t])
  BY DEF TypeOK, NamesAreUnique
<1>2. ASSUME NEW r \in Run, Cuts(r, t) PROVE files'[t] \in Seq(File) /\ Unique(files'[t])
  <2>1. local[r].settings.retention \in Nat \ {0}
    <3>1. local[r].settings \in Settings
      BY DEF TypeOK
    <3> QED
      BY <3>1 DEF Settings
  <2> QED
    BY <1>1, <1>2, <2>1, LatestOf DEF Cuts
<1>3. ASSUME NEW r \in Run, Opens(r, t) PROVE files'[t] \in Seq(File) /\ Unique(files'[t])
  <2> DEFINE f == [stamp |-> local'[r].stamp, by |-> r, whole |-> FALSE]
  <2>1. f \in File /\ f.stamp = local'[r].stamp
    BY <1>3 DEF Opens, File
  <2>2. files'[t] = Append(Others(files[t], f.stamp), f)
    BY <1>3 DEF Opens
  <2> HIDE DEF f
  <2> QED
    BY <1>1, <2>1, <2>2, Replaced
<1>4. ASSUME NEW r \in Run, NEW c \in BOOLEAN, Adds(r, t, c)
      PROVE  files'[t] \in Seq(File) /\ Unique(files'[t])
  <2>1. local[r].stamp \in Nat
    BY DEF TypeOK
  <2> QED
    BY <1>1, <1>4, <2>1, WrittenTo DEF Adds
<1> QED
  BY <1>1, <1>2, <1>3, <1>4, DirSteps DEF DirStep

\* buildCronExpression makes a cron expression of every schedule.
LEMMA CronTyped ==
  ASSUME NEW s \in Schedule
  PROVE  CronExpression(s) \in CronSpace
<1> DEFINE dayShift == IF s.hour < 9 THEN -1 ELSE 0
           dayOfMonth == IF s.day \in 1..28 THEN s.day ELSE 1
           c == CronExpression(s)
<1>1. s.hour \in 0..23 /\ s.day \in 0..31 /\ dayShift \in {-1, 0} /\ dayOfMonth \in 1..28
  BY DEF Schedule
<1>2. (s.hour + 15) % 24 \in 0..23
  BY <1>1
<1>3. (s.day + dayShift) % 7 \in 0..6
  BY <1>1
<1>4. (IF dayOfMonth + dayShift < 1 THEN 1 ELSE dayOfMonth + dayShift) \in 1..28
  BY <1>1
<1> HIDE DEF dayShift, dayOfMonth
<1>5. c = [hour |-> (s.hour + 15) % 24,
           weekday |-> IF s.type = "weekly" THEN (s.day + dayShift) % 7 ELSE Every,
           monthday |-> IF s.type # "monthly" THEN Every
                        ELSE IF dayOfMonth + dayShift < 1 THEN 1 ELSE dayOfMonth + dayShift]
  BY DEF CronExpression, dayShift, dayOfMonth
<1> QED
  BY <1>2, <1>3, <1>4, <1>5 DEF CronSpace

\* The form that is saved has the fields of the row.
LEMMA PasswordSaved ==
  ASSUME NEW form \in Settings, NEW typed \in BOOLEAN
  PROVE  [form EXCEPT !.sftpPassword = typed] \in Settings
BY DEF Settings

\* Every step keeps the types.
LEMMA TypeStep ==
  ASSUME TypeOK, LogsFit, NamesAreUnique, [Next]_vars
  PROVE  TypeOK'
<1>0. files' \in [Target -> Seq(File)]
  <2>1. \A t \in Target : files'[t] \in Seq(File)
    BY DirsSound
  <2>2. files' = [t \in Target |-> files'[t]]
    BY DirSteps DEF OnTargets
  <2> QED
    BY <2>1, <2>2
<1> USE DEF TypeOK
<1>1. ASSUME NEW r \in Run, RunBackup(r) PROVE TypeOK'
  <2>1. pc' \in [Run -> {"idle"} \cup InFlight \cup Final]
    BY <1>1 DEF RunBackup, Begin, Goto, InFlight, Final
  <2> QED
    BY <1>1, <1>0, <2>1 DEF RunBackup, Begin, AtWork
<1>2. ASSUME NEW r \in Run, RunScheduledBackup(r) PROVE TypeOK'
  <2>1. pc' \in [Run -> {"idle"} \cup InFlight \cup Final]
    BY <1>2 DEF RunScheduledBackup, Begin, Goto, InFlight, Final
  <2> QED
    BY <1>2, <1>0, <2>1 DEF RunScheduledBackup, Begin, AtWork
<1>3. ASSUME NEW r \in Run, GetSettings(r) PROVE TypeOK'
  <2>1. [local[r] EXCEPT !.settings = settings] \in [settings : Settings, stamp : Nat]
    OBVIOUS
  <2>2. local' = [local EXCEPT ![r] = [local[r] EXCEPT !.settings = settings]]
    BY <1>3 DEF GetSettings
  <2>3. local' \in [Run -> [settings : Settings, stamp : Nat]]
    BY <2>1, <2>2
  <2>4. pc' \in [Run -> {"idle"} \cup InFlight \cup Final]
    BY <1>3 DEF GetSettings, Goto, InFlight
  <2> QED
    BY <1>3, <1>0, <2>3, <2>4 DEF GetSettings
<1>4. ASSUME NEW r \in Run, CreateLog(r) PROVE TypeOK'
  <2>1. pc' = [pc EXCEPT ![r] = pc'[r]] /\ pc'[r] \in Staged
        /\ local' = [local EXCEPT ![r] = [settings |-> local[r].settings, stamp |-> now]]
    BY <1>4, Started
  <2>2. logs' = [logs EXCEPT ![r] = [status |-> "running",
                   targets |-> local[r].settings.targets,
                   destinations |-> local[r].settings.destinations]]
    BY <1>4 DEF CreateLog
  <2>3. [status |-> "running", targets |-> local[r].settings.targets,
         destinations |-> local[r].settings.destinations] \in Log
    BY DEF Log, Settings
  <2>4. UNCHANGED <<now, settings, cron, remote, overlapped>>
    BY <1>4 DEF CreateLog
  <2> HIDE DEF Log, Settings
  <2> QED
    BY <1>0, <2>1, <2>2, <2>3, <2>4, StagesAreStaged
<1>5. ASSUME NEW r \in Run, BackupDatabase(r) PROVE TypeOK'
  <2>1. pc' = [pc EXCEPT ![r] = pc'[r]] /\ pc'[r] \in Staged
    BY <1>5, Onward, 1 \in 1..5 DEF BackupDatabase
  <2>2. pc' \in [Run -> {"idle"} \cup InFlight \cup Final]
    BY <2>1, StagesAreStaged
  <2> QED
    BY <1>5, <1>0, <2>2 DEF BackupDatabase
<1>6. ASSUME NEW r \in Run, BackupDocuments(r) PROVE TypeOK'
  <2>1. pc' = [pc EXCEPT ![r] = pc'[r]] /\ pc'[r] \in Staged
    BY <1>6, Onward, 2 \in 1..5 DEF BackupDocuments
  <2>2. pc' \in [Run -> {"idle"} \cup InFlight \cup Final]
    BY <2>1, StagesAreStaged
  <2> QED
    BY <1>6, <1>0, <2>2 DEF BackupDocuments
<1>7. ASSUME NEW r \in Run, TransferToRemote(r, 3, "db") PROVE TypeOK'
  <2>1. pc' = [pc EXCEPT ![r] = pc'[r]] /\ pc'[r] \in Staged
    BY <1>7, Onward, 3 \in 1..5 DEF TransferToRemote
  <2>2. pc' \in [Run -> {"idle"} \cup InFlight \cup Final]
    BY <2>1, StagesAreStaged
  <2>3. \A f \in Named(files["db"], local[r].stamp) : f.by \in Run
    <3>1. \A i \in DOMAIN files["db"] : files["db"][i] \in File
      BY DEF Target
    <3> QED
      BY <3>1 DEF Named, File
  <2>4. remote' \subseteq [target : Target, stamp : Nat, by : Run]
    BY <1>7, <2>3 DEF TransferToRemote, Target
  <2> QED
    BY <1>7, <1>0, <2>2, <2>4 DEF TransferToRemote
<1>8. ASSUME NEW r \in Run, TransferToRemote(r, 4, "docs") PROVE TypeOK'
  <2>1. pc' = [pc EXCEPT ![r] = pc'[r]] /\ pc'[r] \in Staged
    BY <1>8, Onward, 4 \in 1..5 DEF TransferToRemote
  <2>2. pc' \in [Run -> {"idle"} \cup InFlight \cup Final]
    BY <2>1, StagesAreStaged
  <2>3. \A f \in Named(files["docs"], local[r].stamp) : f.by \in Run
    <3>1. \A i \in DOMAIN files["docs"] : files["docs"][i] \in File
      BY DEF Target
    <3> QED
      BY <3>1 DEF Named, File
  <2>4. remote' \subseteq [target : Target, stamp : Nat, by : Run]
    BY <1>8, <2>3 DEF TransferToRemote, Target
  <2> QED
    BY <1>8, <1>0, <2>2, <2>4 DEF TransferToRemote
<1>9. ASSUME NEW r \in Run, CleanupOldBackups(r) PROVE TypeOK'
  <2>1. pc' = [pc EXCEPT ![r] = pc'[r]] /\ pc'[r] \in Staged
    BY <1>9, Onward, 5 \in 1..5 DEF CleanupOldBackups
  <2>2. pc' \in [Run -> {"idle"} \cup InFlight \cup Final]
    BY <2>1, StagesAreStaged
  <2> QED
    BY <1>9, <1>0, <2>2 DEF CleanupOldBackups
<1>10. ASSUME NEW r \in Run, LogSuccess(r) PROVE TypeOK'
  <2>1. logs[r] \in Log
    BY <1>10, StagesAreStaged DEF LogSuccess, LogsFit, Staged
  <2>2. \A s \in {"success", "failed"} : [logs[r] EXCEPT !.status = s] \in Log
    BY <2>1 DEF Log
  <2>3. logs' \in [Run -> {NoLog} \cup Log]
    BY <1>10, <2>2 DEF LogSuccess
  <2>4. pc' \in [Run -> {"idle"} \cup InFlight \cup Final]
    BY <1>10 DEF LogSuccess, Goto, Final
  <2> QED
    BY <1>10, <1>0, <2>3, <2>4 DEF LogSuccess
<1>11. ASSUME NEW r \in Run, StageFails(r) PROVE TypeOK'
  <2>1. pc' \in [Run -> {"idle"} \cup InFlight \cup Final]
    BY <1>11 DEF StageFails, Goto, InFlight, Final
  <2> QED
    BY <1>11, <1>0, <2>1 DEF StageFails
<1>12. ASSUME NEW r \in Run, LogFailed(r) PROVE TypeOK'
  <2>1. logs[r] \in Log
    BY <1>12, StagesAreStaged DEF LogFailed, LogsFit, Staged
  <2>2. \A s \in {"success", "failed"} : [logs[r] EXCEPT !.status = s] \in Log
    BY <2>1 DEF Log
  <2>3. logs' \in [Run -> {NoLog} \cup Log]
    BY <1>12, <2>2 DEF LogFailed
  <2>4. pc' \in [Run -> {"idle"} \cup InFlight \cup Final]
    BY <1>12 DEF LogFailed, Goto, Final
  <2> QED
    BY <1>12, <1>0, <2>3, <2>4 DEF LogFailed
<1>13. ASSUME NEW r \in Run, Abort(r) PROVE TypeOK'
  <2>1. pc' \in [Run -> {"idle"} \cup InFlight \cup Final]
    BY <1>13 DEF Abort, Goto, InFlight, Final
  <2> QED
    BY <1>13, <1>0, <2>1 DEF Abort
<1>14. ASSUME NEW r \in Run, Grow(r) PROVE TypeOK'
  BY <1>14, <1>0 DEF Grow
<1>15. ASSUME NEW form \in SettingsSpace, NEW typed \in BOOLEAN,
      UpdateSettings(form, typed) PROVE TypeOK'
  <2>1. form \in Settings
    BY BackupAssumption
  <2>2. [form EXCEPT !.sftpPassword = typed] \in Settings
    BY <2>1, PasswordSaved
  <2> QED
    BY <1>15, <1>0, <2>2 DEF UpdateSettings
<1>16. CASE Restart
  <2>1. CronExpression(settings.schedule) \in CronSpace
    BY CronTyped DEF Settings
  <2>2. cron' \in CronSpace
    BY <1>16, <2>1 DEF Restart, Installed, CronSpace
  <2>3. pc' \in [Run -> {"idle"} \cup InFlight \cup Final]
    BY <1>16 DEF Restart, Final
  <2> QED
    BY <1>16, <1>0, <2>2, <2>3 DEF Restart
<1>17. CASE Tick
  BY <1>17, <1>0 DEF Tick
<1>18. CASE UNCHANGED vars
  BY <1>18, <1>0 DEF vars
<1> HIDE DEF TypeOK
<1> QED
  BY <1>1, <1>2, <1>3, <1>4, <1>5, <1>6, <1>7, <1>8, <1>9, <1>10, <1>11,
     <1>12, <1>13, <1>14, <1>15, <1>16, <1>17, <1>18 DEF Next, RunStep

\* The stages between the first and the last.
Stage(r) ==
  \/ BackupDatabase(r) \/ BackupDocuments(r) \/ CleanupOldBackups(r)
  \/ TransferToRemote(r, 3, "db") \/ TransferToRemote(r, 4, "docs")

\* They change neither the log nor what the run remembers.
LEMMA StageStep ==
  ASSUME TypeOK, NEW r \in Run, Stage(r)
  PROVE  /\ pc[r] \in Staged /\ pc'[r] \in Staged /\ pc' = [pc EXCEPT ![r] = pc'[r]]
         /\ UNCHANGED <<now, logs, local, overlapped>>
<1>1. ASSUME NEW i \in 1..5, NEW dirs, Proceed(r, i, dirs)
      PROVE  pc[r] \in Staged /\ pc'[r] \in Staged /\ pc' = [pc EXCEPT ![r] = pc'[r]]
  BY <1>1, Onward
<1>2. \E i \in 1..5 : \E dirs : Proceed(r, i, dirs)
  <2>1. 1 \in 1..5 /\ 2 \in 1..5 /\ 3 \in 1..5 /\ 4 \in 1..5 /\ 5 \in 1..5
    OBVIOUS
  <2> QED
    BY <2>1 DEF Stage, BackupDatabase, BackupDocuments, CleanupOldBackups, TransferToRemote
<1>3. UNCHANGED <<now, logs, local, overlapped>>
  BY DEF Stage, BackupDatabase, BackupDocuments, CleanupOldBackups, TransferToRemote
<1> QED
  BY <1>1, <1>2, <1>3

\* A run moves on, ends once, and keeps what it read when it was started.
LEMMA Grows ==
  ASSUME TypeOK, [Next]_vars, NEW q \in Run
  PROVE  /\ pc[q] \in Staged \cup {"catch"} \cup Final =>
              pc'[q] \in Staged \cup {"catch"} \cup Final /\ local'[q] = local[q]
         /\ pc[q] \in Final => pc'[q] = pc[q]
         /\ logs'[q] = logs[q] \/ CreateLog(q) \/ LogSuccess(q) \/ LogFailed(q)
         /\ pc'[q] = pc[q] \/ pc'[q] \notin Staged \/ CreateLog(q) \/ Stage(q)
         /\ overlapped \subseteq overlapped' /\ now <= now'
<1> DEFINE G ==
       /\ pc[q] \in Staged \cup {"catch"} \cup Final =>
            pc'[q] \in Staged \cup {"catch"} \cup Final /\ local'[q] = local[q]
       /\ pc[q] \in Final => pc'[q] = pc[q]
       /\ logs'[q] = logs[q] \/ CreateLog(q) \/ LogSuccess(q) \/ LogFailed(q)
       /\ pc'[q] = pc[q] \/ pc'[q] \notin Staged \/ CreateLog(q) \/ Stage(q)
       /\ overlapped \subseteq overlapped' /\ now <= now'
<1> SUFFICES G
  OBVIOUS
<1>0. InFlight = {"getSettings", "createLog", "catch"} \cup Staged
  BY StagesAreStaged
<1> USE DEF TypeOK, Final, Staged
<1>1. ASSUME NEW r \in Run, RunBackup(r) PROVE G
  BY <1>1, <1>0 DEF RunBackup, Begin, Goto, AtWork
<1>2. ASSUME NEW r \in Run, RunScheduledBackup(r) PROVE G
  BY <1>2, <1>0 DEF RunScheduledBackup, Begin, Goto, AtWork
<1>3. ASSUME NEW r \in Run, GetSettings(r) PROVE G
  <2>1. /\ pc[r] = "getSettings" /\ pc' = [pc EXCEPT ![r] = "createLog"]
        /\ local' = [local EXCEPT ![r] = [local[r] EXCEPT !.settings = settings]]
        /\ UNCHANGED <<logs, overlapped, now>>
    BY <1>3 DEF GetSettings, Goto
  <2>2. CASE q = r
    <3>1. pc[q] \notin Staged \cup {"catch"} \cup Final /\ pc'[q] \notin Staged
      BY <2>1, <2>2
    <3> QED
      BY <2>1, <3>1
  <2>3. CASE q # r
    <3>1. pc'[q] = pc[q] /\ local'[q] = local[q]
      BY <2>1, <2>3
    <3> QED
      BY <2>1, <3>1
  <2> QED
    BY <2>2, <2>3
<1>4. ASSUME NEW r \in Run, CreateLog(r) PROVE G
  <2>1. /\ pc[r] = "createLog" /\ pc' = [pc EXCEPT ![r] = pc'[r]]
        /\ local' = [local EXCEPT ![r] = [settings |-> local[r].settings, stamp |-> now]]
        /\ UNCHANGED <<overlapped, now>>
    BY <1>4, Started DEF CreateLog
  <2>2. CASE q = r
    <3>1. pc[q] \notin Staged \cup {"catch"} \cup Final
      BY <2>1, <2>2
    <3> QED
      BY <1>4, <2>1, <2>2, <3>1
  <2>3. CASE q # r
    <3>1. pc'[q] = pc[q] /\ local'[q] = local[q] /\ logs'[q] = logs[q]
      BY <1>4, <2>1, <2>3 DEF CreateLog
    <3> QED
      BY <2>1, <3>1
  <2> QED
    BY <2>2, <2>3
<1>5. ASSUME NEW r \in Run, BackupDatabase(r) PROVE G
  BY <1>5, <1>0, StageStep DEF Stage
<1>6. ASSUME NEW r \in Run, BackupDocuments(r) PROVE G
  BY <1>6, <1>0, StageStep DEF Stage
<1>7. ASSUME NEW r \in Run, TransferToRemote(r, 3, "db") PROVE G
  BY <1>7, <1>0, StageStep DEF Stage
<1>8. ASSUME NEW r \in Run, TransferToRemote(r, 4, "docs") PROVE G
  BY <1>8, <1>0, StageStep DEF Stage
<1>9. ASSUME NEW r \in Run, CleanupOldBackups(r) PROVE G
  BY <1>9, <1>0, StageStep DEF Stage
<1>10. ASSUME NEW r \in Run, LogSuccess(r) PROVE G
  <2>1. /\ pc[r] = "logSuccess" /\ pc' = [pc EXCEPT ![r] = "done"]
        /\ UNCHANGED <<local, overlapped, now>>
    BY <1>10 DEF LogSuccess, Goto
  <2>2. CASE q = r
    BY <1>10, <2>1, <2>2
  <2>3. CASE q # r
    <3>1. pc'[q] = pc[q] /\ logs'[q] = logs[q]
      BY <1>10, <2>1, <2>3 DEF LogSuccess
    <3> QED
      BY <2>1, <3>1
  <2> QED
    BY <2>2, <2>3
<1>11. ASSUME NEW r \in Run, StageFails(r) PROVE G
  <2>1. pc[r] \in Staged
    BY <1>11, StagesAreStaged DEF StageFails
  <2>2. pc' = [pc EXCEPT ![r] = "catch"] /\ UNCHANGED <<now, logs, local, overlapped>>
    BY <1>11 DEF StageFails, Goto
  <2>3. pc'[q] = pc[q] \/ (pc[q] \in Staged /\ pc'[q] = "catch")
    BY <2>1, <2>2
  <2> QED
    BY <2>2, <2>3
<1>12. ASSUME NEW r \in Run, LogFailed(r) PROVE G
  <2>1. /\ pc[r] = "catch" /\ pc' = [pc EXCEPT ![r] = "failed"]
        /\ UNCHANGED <<local, overlapped, now>>
    BY <1>12 DEF LogFailed, Goto
  <2>2. CASE q = r
    BY <1>12, <2>1, <2>2
  <2>3. CASE q # r
    <3>1. pc'[q] = pc[q] /\ logs'[q] = logs[q]
      BY <1>12, <2>1, <2>3 DEF LogFailed
    <3> QED
      BY <2>1, <3>1
  <2> QED
    BY <2>2, <2>3
<1>13. ASSUME NEW r \in Run, Abort(r) PROVE G
  BY <1>13, <1>0 DEF Abort, Goto
<1>14. ASSUME NEW r \in Run, Grow(r) PROVE G
  BY <1>14, <1>0 DEF Grow
<1>15. ASSUME NEW form \in SettingsSpace, NEW typed \in BOOLEAN,
      UpdateSettings(form, typed) PROVE G
  BY <1>15, <1>0 DEF UpdateSettings
<1>16. CASE Restart
  BY <1>16, <1>0 DEF Restart
<1>17. CASE Tick
  BY <1>17, <1>0 DEF Tick
<1>18. CASE UNCHANGED vars
  BY <1>18, <1>0 DEF vars
<1> HIDE DEF G, TypeOK, Final, Staged
<1> QED
  BY <1>1, <1>2, <1>3, <1>4, <1>5, <1>6, <1>7, <1>8, <1>9, <1>10, <1>11,
     <1>12, <1>13, <1>14, <1>15, <1>16, <1>17, <1>18 DEF Next, RunStep

\* A step keeps the log rows fitting.
LEMMA LogsStep ==
  ASSUME TypeOK, LogsFit, [Next]_vars
  PROVE  LogsFit'
<1>0. InFlight = {"getSettings", "createLog", "catch"} \cup Staged
  BY StagesAreStaged
<1> USE DEF TypeOK, LogsFit, Staged, Final
<1>1. ASSUME NEW r \in Run, RunBackup(r) PROVE LogsFit'
  BY <1>1, <1>0 DEF RunBackup, Begin, Goto, AtWork
<1>2. ASSUME NEW r \in Run, RunScheduledBackup(r) PROVE LogsFit'
  BY <1>2, <1>0 DEF RunScheduledBackup, Begin, Goto, AtWork
<1>3. ASSUME NEW r \in Run, GetSettings(r) PROVE LogsFit'
  <2>1. /\ pc[r] = "getSettings" /\ pc' = [pc EXCEPT ![r] = "createLog"]
        /\ local' = [local EXCEPT ![r] = [local[r] EXCEPT !.settings = settings]]
        /\ logs' = logs
    BY <1>3 DEF GetSettings, Goto
  <2>2. logs[r] = NoLog
    BY <2>1
  <2>3. \A q \in Run : q # r => pc'[q] = pc[q] /\ local'[q] = local[q]
    BY <2>1
  <2>4. pc'[r] = "createLog"
    BY <2>1
  <2> QED
    BY <2>1, <2>2, <2>3, <2>4
<1>4. ASSUME NEW r \in Run, CreateLog(r) PROVE LogsFit'
  <2>1. /\ pc[r] = "createLog" /\ pc' = [pc EXCEPT ![r] = pc'[r]] /\ pc'[r] \in Staged
        /\ local' = [local EXCEPT ![r] = [settings |-> local[r].settings, stamp |-> now]]
    BY <1>4, Started
  <2>2. logs' = [logs EXCEPT ![r] = [status |-> "running",
                   targets |-> local[r].settings.targets,
                   destinations |-> local[r].settings.destinations]]
    BY <1>4 DEF CreateLog
  <2>3. \A q \in Run : q # r =>
          pc'[q] = pc[q] /\ local'[q] = local[q] /\ logs'[q] = logs[q]
    BY <2>1, <2>2
  <2>4. /\ logs'[r] # NoLog /\ logs'[r].status = "running"
        /\ local'[r].settings = local[r].settings
        /\ logs'[r].targets = local[r].settings.targets
        /\ logs'[r].destinations = local[r].settings.destinations
    <3>1. local'[r].settings = local[r].settings
      BY <2>1
    <3>2. [status |-> "running", targets |-> local[r].settings.targets,
           destinations |-> local[r].settings.destinations] \in Log
      BY DEF Log, Settings
    <3>3. logs'[r] # NoLog
      BY <2>2, <3>2, BackupAssumption
    <3> QED
      BY <2>2, <3>1, <3>3
  <2> QED
    BY <2>1, <2>3, <2>4
<1>5. ASSUME NEW r \in Run, BackupDatabase(r) PROVE LogsFit'
  <2>1. pc[r] \in Staged /\ pc'[r] \in Staged /\ pc' = [pc EXCEPT ![r] = pc'[r]]
        /\ UNCHANGED <<logs, local>>
    BY <1>5, StageStep DEF Stage
  <2> QED
    BY <2>1
<1>6. ASSUME NEW r \in Run, BackupDocuments(r) PROVE LogsFit'
  <2>1. pc[r] \in Staged /\ pc'[r] \in Staged /\ pc' = [pc EXCEPT ![r] = pc'[r]]
        /\ UNCHANGED <<logs, local>>
    BY <1>6, StageStep DEF Stage
  <2> QED
    BY <2>1
<1>7. ASSUME NEW r \in Run, TransferToRemote(r, 3, "db") PROVE LogsFit'
  <2>1. pc[r] \in Staged /\ pc'[r] \in Staged /\ pc' = [pc EXCEPT ![r] = pc'[r]]
        /\ UNCHANGED <<logs, local>>
    BY <1>7, StageStep DEF Stage
  <2> QED
    BY <2>1
<1>8. ASSUME NEW r \in Run, TransferToRemote(r, 4, "docs") PROVE LogsFit'
  <2>1. pc[r] \in Staged /\ pc'[r] \in Staged /\ pc' = [pc EXCEPT ![r] = pc'[r]]
        /\ UNCHANGED <<logs, local>>
    BY <1>8, StageStep DEF Stage
  <2> QED
    BY <2>1
<1>9. ASSUME NEW r \in Run, CleanupOldBackups(r) PROVE LogsFit'
  <2>1. pc[r] \in Staged /\ pc'[r] \in Staged /\ pc' = [pc EXCEPT ![r] = pc'[r]]
        /\ UNCHANGED <<logs, local>>
    BY <1>9, StageStep DEF Stage
  <2> QED
    BY <2>1
<1>10. ASSUME NEW r \in Run, LogSuccess(r) PROVE LogsFit'
  <2>1. /\ pc[r] = "logSuccess" /\ pc' = [pc EXCEPT ![r] = "done"] /\ local' = local
        /\ logs' = [logs EXCEPT ![r] = [logs[r] EXCEPT !.status = "success"]]
    BY <1>10 DEF LogSuccess, Goto
  <2>2. \A q \in Run : q # r => pc'[q] = pc[q] /\ logs'[q] = logs[q]
    BY <2>1
  <2>3. logs[r] \in Log /\ logs'[r] = [logs[r] EXCEPT !.status = "success"] /\ pc'[r] = "done"
    BY <2>1
  <2>4. logs'[r].status = "success" /\ logs'[r].targets = logs[r].targets
        /\ logs'[r].destinations = logs[r].destinations /\ logs'[r] \in Log
    BY <2>3 DEF Log
  <2>5. logs'[r] # NoLog
    BY <2>4, BackupAssumption
  <2> QED
    BY <2>1, <2>2, <2>3, <2>4, <2>5
<1>11. ASSUME NEW r \in Run, StageFails(r) PROVE LogsFit'
  <2>1. pc[r] \in Staged
    BY <1>11, StagesAreStaged DEF StageFails
  <2> QED
    BY <1>11, <2>1 DEF StageFails, Goto
<1>12. ASSUME NEW r \in Run, LogFailed(r) PROVE LogsFit'
  <2>1. /\ pc[r] = "catch" /\ pc' = [pc EXCEPT ![r] = "failed"] /\ local' = local
        /\ logs' = [logs EXCEPT ![r] = [logs[r] EXCEPT !.status = "failed"]]
    BY <1>12 DEF LogFailed, Goto
  <2>2. \A q \in Run : q # r => pc'[q] = pc[q] /\ logs'[q] = logs[q]
    BY <2>1
  <2>3. logs[r] \in Log /\ logs'[r] = [logs[r] EXCEPT !.status = "failed"] /\ pc'[r] = "failed"
    BY <2>1
  <2>4. logs'[r].status = "failed" /\ logs'[r].targets = logs[r].targets
        /\ logs'[r].destinations = logs[r].destinations /\ logs'[r] \in Log
    BY <2>3 DEF Log
  <2>5. logs'[r] # NoLog
    BY <2>4, BackupAssumption
  <2> QED
    BY <2>1, <2>2, <2>3, <2>4, <2>5
<1>13. ASSUME NEW r \in Run, Abort(r) PROVE LogsFit'
  BY <1>13, <1>0 DEF Abort, Goto
<1>14. ASSUME NEW r \in Run, Grow(r) PROVE LogsFit'
  BY <1>14, <1>0 DEF Grow
<1>15. ASSUME NEW form \in SettingsSpace, NEW typed \in BOOLEAN,
      UpdateSettings(form, typed) PROVE LogsFit'
  BY <1>15, <1>0 DEF UpdateSettings
<1>16. CASE Restart
  BY <1>16, <1>0 DEF Restart
<1>17. CASE Tick
  BY <1>17, <1>0 DEF Tick
<1>18. CASE UNCHANGED vars
  BY <1>18, <1>0 DEF vars
<1> HIDE DEF TypeOK, LogsFit, Staged, Final
<1> QED
  BY <1>1, <1>2, <1>3, <1>4, <1>5, <1>6, <1>7, <1>8, <1>9, <1>10, <1>11,
     <1>12, <1>13, <1>14, <1>15, <1>16, <1>17, <1>18 DEF Next, RunStep

\* A row that says running stays one of a run at work.
LEMMA RunningStep ==
  ASSUME TypeOK, LogsFit, RunningIsAtWork, [Next]_vars
  PROVE  RunningIsAtWork'
<1>0. InFlight = {"getSettings", "createLog", "catch"} \cup Staged
  BY StagesAreStaged
<1> USE DEF TypeOK, RunningIsAtWork
<1>1. ASSUME NEW r \in Run, RunBackup(r) PROVE RunningIsAtWork'
  BY <1>1, <1>0 DEF RunBackup, Begin, Goto, AtWork
<1>2. ASSUME NEW r \in Run, RunScheduledBackup(r) PROVE RunningIsAtWork'
  BY <1>2, <1>0 DEF RunScheduledBackup, Begin, Goto, AtWork
<1>3. ASSUME NEW r \in Run, GetSettings(r) PROVE RunningIsAtWork'
  BY <1>3, <1>0 DEF GetSettings, Goto
<1>4. ASSUME NEW r \in Run, CreateLog(r) PROVE RunningIsAtWork'
  <2>1. pc' = [pc EXCEPT ![r] = pc'[r]] /\ pc'[r] \in Staged
    BY <1>4, Started
  <2>2. \A q \in Run : q # r => pc'[q] = pc[q] /\ logs'[q] = logs[q]
    BY <1>4, <2>1 DEF CreateLog
  <2> QED
    BY <2>1, <2>2, <1>0
<1>5. ASSUME NEW r \in Run, BackupDatabase(r) PROVE RunningIsAtWork'
  <2>1. pc[r] \in Staged /\ pc'[r] \in Staged /\ pc' = [pc EXCEPT ![r] = pc'[r]]
        /\ logs' = logs
    BY <1>5, StageStep DEF Stage
  <2> QED
    BY <2>1, <1>0
<1>6. ASSUME NEW r \in Run, BackupDocuments(r) PROVE RunningIsAtWork'
  <2>1. pc[r] \in Staged /\ pc'[r] \in Staged /\ pc' = [pc EXCEPT ![r] = pc'[r]]
        /\ logs' = logs
    BY <1>6, StageStep DEF Stage
  <2> QED
    BY <2>1, <1>0
<1>7. ASSUME NEW r \in Run, TransferToRemote(r, 3, "db") PROVE
      RunningIsAtWork'
  <2>1. pc[r] \in Staged /\ pc'[r] \in Staged /\ pc' = [pc EXCEPT ![r] = pc'[r]]
        /\ logs' = logs
    BY <1>7, StageStep DEF Stage
  <2> QED
    BY <2>1, <1>0
<1>8. ASSUME NEW r \in Run, TransferToRemote(r, 4, "docs") PROVE
      RunningIsAtWork'
  <2>1. pc[r] \in Staged /\ pc'[r] \in Staged /\ pc' = [pc EXCEPT ![r] = pc'[r]]
        /\ logs' = logs
    BY <1>8, StageStep DEF Stage
  <2> QED
    BY <2>1, <1>0
<1>9. ASSUME NEW r \in Run, CleanupOldBackups(r) PROVE RunningIsAtWork'
  <2>1. pc[r] \in Staged /\ pc'[r] \in Staged /\ pc' = [pc EXCEPT ![r] = pc'[r]]
        /\ logs' = logs
    BY <1>9, StageStep DEF Stage
  <2> QED
    BY <2>1, <1>0
<1>10. ASSUME NEW r \in Run, LogSuccess(r) PROVE RunningIsAtWork'
  <2>1. /\ pc[r] = "logSuccess" /\ pc' = [pc EXCEPT ![r] = "done"]
        /\ logs' = [logs EXCEPT ![r] = [logs[r] EXCEPT !.status = "success"]]
    BY <1>10 DEF LogSuccess, Goto
  <2>2. \A q \in Run : q # r => pc'[q] = pc[q] /\ logs'[q] = logs[q]
    BY <2>1
  <2>3. logs[r] \in Log /\ logs'[r] = [logs[r] EXCEPT !.status = "success"]
    BY <2>1, <1>0 DEF LogsFit, Staged
  <2>4. logs'[r].status = "success"
    BY <2>3 DEF Log
  <2> QED
    BY <2>2, <2>4
<1>11. ASSUME NEW r \in Run, StageFails(r) PROVE RunningIsAtWork'
  <2>1. pc' = [pc EXCEPT ![r] = "catch"] /\ logs' = logs
    BY <1>11 DEF StageFails, Goto
  <2> QED
    BY <2>1, <1>0
<1>12. ASSUME NEW r \in Run, LogFailed(r) PROVE RunningIsAtWork'
  <2>1. /\ pc[r] = "catch" /\ pc' = [pc EXCEPT ![r] = "failed"]
        /\ logs' = [logs EXCEPT ![r] = [logs[r] EXCEPT !.status = "failed"]]
    BY <1>12 DEF LogFailed, Goto
  <2>2. \A q \in Run : q # r => pc'[q] = pc[q] /\ logs'[q] = logs[q]
    BY <2>1
  <2>3. logs[r] \in Log /\ logs'[r] = [logs[r] EXCEPT !.status = "failed"]
    BY <2>1, <1>0 DEF LogsFit, Staged
  <2>4. logs'[r].status = "failed"
    BY <2>3 DEF Log
  <2> QED
    BY <2>2, <2>4
<1>13. ASSUME NEW r \in Run, Abort(r) PROVE RunningIsAtWork'
  BY <1>13, <1>0 DEF Abort, Goto
<1>14. ASSUME NEW r \in Run, Grow(r) PROVE RunningIsAtWork'
  BY <1>14, <1>0 DEF Grow
<1>15. ASSUME NEW form \in SettingsSpace, NEW typed \in BOOLEAN,
      UpdateSettings(form, typed) PROVE RunningIsAtWork'
  BY <1>15, <1>0 DEF UpdateSettings
<1>16. CASE Restart
  BY <1>16, <1>0 DEF Restart
<1>17. CASE Tick
  BY <1>17, <1>0 DEF Tick
<1>18. CASE UNCHANGED vars
  BY <1>18, <1>0 DEF vars
<1> HIDE DEF TypeOK
<1> QED
  BY <1>1, <1>2, <1>3, <1>4, <1>5, <1>6, <1>7, <1>8, <1>9, <1>10, <1>11,
     <1>12, <1>13, <1>14, <1>15, <1>16, <1>17, <1>18 DEF Next, RunStep

\* Only a run that begins comes to work.
LEMMA WorksOn ==
  ASSUME TypeOK, [Next]_vars, NEW q \in Run
  PROVE  pc'[q] \in InFlight => pc[q] \in InFlight \/ Begin(q)
<1> DEFINE G == pc'[q] \in InFlight => pc[q] \in InFlight \/ Begin(q)
<1> SUFFICES G
  OBVIOUS
<1>0. InFlight = {"getSettings", "createLog", "catch"} \cup Staged
  BY StagesAreStaged
<1> USE DEF TypeOK
<1>1. ASSUME NEW r \in Run, RunBackup(r) PROVE G
  <2>1. Begin(r)
    BY <1>1 DEF RunBackup
  <2>2. pc' = [pc EXCEPT ![r] = "getSettings"]
    BY <2>1 DEF Begin, Goto
  <2> QED
    BY <2>1, <2>2
<1>2. ASSUME NEW r \in Run, RunScheduledBackup(r) PROVE G
  <2>1. Begin(r)
    BY <1>2 DEF RunScheduledBackup
  <2>2. pc' = [pc EXCEPT ![r] = "getSettings"]
    BY <2>1 DEF Begin, Goto
  <2> QED
    BY <2>1, <2>2
<1>3. ASSUME NEW r \in Run, GetSettings(r) PROVE G
  BY <1>3, <1>0 DEF GetSettings, Goto
<1>4. ASSUME NEW r \in Run, CreateLog(r) PROVE G
  <2>1. pc[r] = "createLog" /\ pc' = [pc EXCEPT ![r] = pc'[r]]
    BY <1>4, Started
  <2> QED
    BY <2>1, <1>0
<1>5. ASSUME NEW r \in Run, BackupDatabase(r) PROVE G
  <2>1. pc[r] \in Staged /\ pc' = [pc EXCEPT ![r] = pc'[r]]
    BY <1>5, StageStep DEF Stage
  <2> QED
    BY <2>1, <1>0
<1>6. ASSUME NEW r \in Run, BackupDocuments(r) PROVE G
  <2>1. pc[r] \in Staged /\ pc' = [pc EXCEPT ![r] = pc'[r]]
    BY <1>6, StageStep DEF Stage
  <2> QED
    BY <2>1, <1>0
<1>7. ASSUME NEW r \in Run, TransferToRemote(r, 3, "db") PROVE G
  <2>1. pc[r] \in Staged /\ pc' = [pc EXCEPT ![r] = pc'[r]]
    BY <1>7, StageStep DEF Stage
  <2> QED
    BY <2>1, <1>0
<1>8. ASSUME NEW r \in Run, TransferToRemote(r, 4, "docs") PROVE G
  <2>1. pc[r] \in Staged /\ pc' = [pc EXCEPT ![r] = pc'[r]]
    BY <1>8, StageStep DEF Stage
  <2> QED
    BY <2>1, <1>0
<1>9. ASSUME NEW r \in Run, CleanupOldBackups(r) PROVE G
  <2>1. pc[r] \in Staged /\ pc' = [pc EXCEPT ![r] = pc'[r]]
    BY <1>9, StageStep DEF Stage
  <2> QED
    BY <2>1, <1>0
<1>10. ASSUME NEW r \in Run, LogSuccess(r) PROVE G
  <2>1. /\ pc[r] = "logSuccess" /\ pc' = [pc EXCEPT ![r] = "done"]
    BY <1>10 DEF LogSuccess, Goto
  <2> QED
    BY <2>1, <1>0 DEF Staged
<1>11. ASSUME NEW r \in Run, StageFails(r) PROVE G
  <2>1. pc[r] \in Staged
    BY <1>11, StagesAreStaged DEF StageFails
  <2> QED
    BY <1>11, <2>1, <1>0 DEF StageFails, Goto
<1>12. ASSUME NEW r \in Run, LogFailed(r) PROVE G
  <2>1. /\ pc[r] = "catch" /\ pc' = [pc EXCEPT ![r] = "failed"]
    BY <1>12 DEF LogFailed, Goto
  <2> QED
    BY <2>1, <1>0 DEF Staged
<1>13. ASSUME NEW r \in Run, Abort(r) PROVE G
  BY <1>13, <1>0 DEF Abort, Goto
<1>14. ASSUME NEW r \in Run, Grow(r) PROVE G
  BY <1>14, <1>0 DEF Grow
<1>15. ASSUME NEW form \in SettingsSpace, NEW typed \in BOOLEAN,
      UpdateSettings(form, typed) PROVE G
  BY <1>15, <1>0 DEF UpdateSettings
<1>16. CASE Restart
  BY <1>16, <1>0 DEF Restart
<1>17. CASE Tick
  BY <1>17, <1>0 DEF Tick
<1>18. CASE UNCHANGED vars
  BY <1>18, <1>0 DEF vars
<1> HIDE DEF G, TypeOK
<1> QED
  BY <1>1, <1>2, <1>3, <1>4, <1>5, <1>6, <1>7, <1>8, <1>9, <1>10, <1>11,
     <1>12, <1>13, <1>14, <1>15, <1>16, <1>17, <1>18 DEF Next, RunStep

\* Whoever begins notes the runs at work, and itself.
LEMMA OverlapsStep ==
  ASSUME TypeOK, OverlapsAreNoted, [Next]_vars
  PROVE  OverlapsAreNoted'
<1> SUFFICES ASSUME NEW q \in Run, NEW r \in Run, pc'[q] \in InFlight, pc'[r] \in InFlight,
                    q # r
             PROVE  r \in overlapped'
  BY DEF OverlapsAreNoted, AtWork
<1>1. ASSUME NEW b \in Run, Begin(b) PROVE \A p \in Run : p # b => pc'[p] = pc[p]
  BY <1>1 DEF Begin, Goto, TypeOK
<1>2. ASSUME NEW b \in Run, Begin(b), pc[b] \in InFlight PROVE FALSE
  <2>1. InFlight = {"getSettings", "createLog", "catch"} \cup Staged
    BY StagesAreStaged
  <2> QED
    BY <1>2, <2>1 DEF Begin, Staged
<1>3. CASE Begin(q)
  <2>1. pc[r] \in InFlight
    BY <1>1, <1>3
  <2> QED
    BY <1>3, <2>1 DEF Begin, AtWork
<1>4. CASE Begin(r)
  <2>1. pc[q] \in InFlight
    BY <1>1, <1>4
  <2> QED
    BY <1>4, <2>1 DEF Begin, AtWork
<1>5. CASE ~Begin(q) /\ ~Begin(r)
  <2>1. pc[q] \in InFlight /\ pc[r] \in InFlight
    BY <1>5, WorksOn
  <2>2. r \in overlapped
    BY <2>1 DEF OverlapsAreNoted, AtWork
  <2> QED
    BY <2>2, Grows
<1> QED
  BY <1>3, <1>4, <1>5

\* A success that counts is an old one, or the one of a run that was alone.
LEMMA Succeeding ==
  ASSUME TypeOK, LogsFit, [Next]_vars, NEW r \in Succeeded'
  PROVE  /\ r \in Run /\ r \notin overlapped /\ r \notin overlapped'
         /\ \/ r \in Succeeded /\ pc[r] = "done" /\ logs'[r] = logs[r]
            \/ LogSuccess(r) /\ pc[r] = "logSuccess"
         /\ pc'[r] = "done" /\ local'[r] = local[r]
         /\ logs[r] # NoLog
         /\ logs'[r].targets = logs[r].targets
         /\ logs'[r].destinations = logs[r].destinations
<1>1. /\ r \in Run /\ r \notin overlapped' /\ logs'[r] # NoLog /\ logs'[r].status = "success"
      /\ overlapped \subseteq overlapped'
  BY Grows DEF Succeeded
<1>2. CASE logs'[r] = logs[r]
  <2>1. r \in Succeeded
    BY <1>1, <1>2 DEF Succeeded
  <2>2. pc[r] = "done"
    BY <1>1, <1>2 DEF LogsFit
  <2>3. pc'[r] = "done" /\ local'[r] = local[r]
    BY <1>1, <2>2, Grows DEF Final
  <2> QED
    BY <1>1, <1>2, <2>1, <2>2, <2>3
<1>3. CASE LogSuccess(r)
  <2>1. /\ pc[r] = "logSuccess" /\ pc'[r] = "done" /\ local' = local
        /\ logs' = [logs EXCEPT ![r] = [logs[r] EXCEPT !.status = "success"]]
    BY <1>1, <1>3 DEF LogSuccess, Goto, TypeOK
  <2>2. logs[r] \in Log /\ logs[r] # NoLog
    BY <1>1, <2>1 DEF LogsFit, TypeOK, Staged
  <2>3. logs'[r] = [logs[r] EXCEPT !.status = "success"]
    BY <1>1, <2>1 DEF TypeOK
  <2>4. logs'[r].targets = logs[r].targets /\ logs'[r].destinations = logs[r].destinations
    BY <2>2, <2>3 DEF Log
  <2> QED
    BY <1>1, <1>3, <2>1, <2>2, <2>4
<1>4. CASE CreateLog(r)
  <2>1. logs'[r].status = "running"
    BY <1>1, <1>4 DEF CreateLog, TypeOK
  <2> QED
    BY <1>1, <2>1
<1>5. CASE LogFailed(r)
  <2>1. pc[r] = "catch" /\ logs'[r] = [logs[r] EXCEPT !.status = "failed"]
    BY <1>1, <1>5 DEF LogFailed, TypeOK
  <2>2. logs[r] \in Log
    BY <1>1, <2>1 DEF LogsFit, TypeOK
  <2>3. logs'[r].status = "failed"
    BY <2>1, <2>2 DEF Log
  <2> QED
    BY <1>1, <2>3
<1> QED
  BY <1>1, <1>2, <1>3, <1>4, <1>5, Grows

\* A run that is alone has no company.
LEMMA NoCompany ==
  ASSUME TypeOK, OverlapsAreNoted, NEW r \in Run, r \notin overlapped,
         pc[r] \in Staged, NEW q \in Run, pc[q] \in InFlight
  PROVE  q = r
<1>1. pc[r] \in InFlight
  BY StagesAreStaged
<1> QED
  BY <1>1 DEF OverlapsAreNoted, AtWork

\* No run remembers a time to come.
LEMMA StampsArePast ==
  ASSUME TypeOK, StampsGrow, [Next]_vars, NEW q \in Run
  PROVE  local'[q].stamp <= now'
<1> DEFINE G == local'[q].stamp <= now'
<1> SUFFICES G
  OBVIOUS
<1>0. local[q].stamp <= now /\ local[q].stamp \in Nat /\ now \in Nat
  BY DEF TypeOK, StampsGrow
<1> USE DEF TypeOK
<1>1. ASSUME NEW r \in Run, RunBackup(r) PROVE G
  BY <1>1, <1>0 DEF RunBackup, Begin, Goto, AtWork
<1>2. ASSUME NEW r \in Run, RunScheduledBackup(r) PROVE G
  BY <1>2, <1>0 DEF RunScheduledBackup, Begin, Goto, AtWork
<1>3. ASSUME NEW r \in Run, GetSettings(r) PROVE G
  <2>1. local' = [local EXCEPT ![r] = [local[r] EXCEPT !.settings = settings]] /\ now' = now
    BY <1>3 DEF GetSettings
  <2>2. CASE q = r
    <3>1. local'[q] = [local[q] EXCEPT !.settings = settings]
      BY <2>1, <2>2
    <3>2. local'[q].stamp = local[q].stamp
      BY <3>1
    <3> QED
      BY <2>1, <3>2, <1>0
  <2>3. CASE q # r
    BY <2>1, <2>3, <1>0
  <2> QED
    BY <2>2, <2>3
<1>4. ASSUME NEW r \in Run, CreateLog(r) PROVE G
  <2>1. local' = [local EXCEPT ![r] = [settings |-> local[r].settings, stamp |-> now]]
        /\ now' = now
    BY <1>4, Started DEF CreateLog
  <2>2. CASE q = r
    BY <2>1, <2>2
  <2>3. CASE q # r
    BY <2>1, <2>3, <1>0
  <2> QED
    BY <2>2, <2>3
<1>5. ASSUME NEW r \in Run, BackupDatabase(r) PROVE G
  BY <1>5, <1>0, StageStep DEF Stage
<1>6. ASSUME NEW r \in Run, BackupDocuments(r) PROVE G
  BY <1>6, <1>0, StageStep DEF Stage
<1>7. ASSUME NEW r \in Run, TransferToRemote(r, 3, "db") PROVE G
  BY <1>7, <1>0, StageStep DEF Stage
<1>8. ASSUME NEW r \in Run, TransferToRemote(r, 4, "docs") PROVE G
  BY <1>8, <1>0, StageStep DEF Stage
<1>9. ASSUME NEW r \in Run, CleanupOldBackups(r) PROVE G
  BY <1>9, <1>0, StageStep DEF Stage
<1>10. ASSUME NEW r \in Run, LogSuccess(r) PROVE G
  BY <1>10, <1>0 DEF LogSuccess, Goto
<1>11. ASSUME NEW r \in Run, StageFails(r) PROVE G
  BY <1>11, <1>0 DEF StageFails, Goto
<1>12. ASSUME NEW r \in Run, LogFailed(r) PROVE G
  BY <1>12, <1>0 DEF LogFailed, Goto
<1>13. ASSUME NEW r \in Run, Abort(r) PROVE G
  BY <1>13, <1>0 DEF Abort, Goto
<1>14. ASSUME NEW r \in Run, Grow(r) PROVE G
  BY <1>14, <1>0 DEF Grow
<1>15. ASSUME NEW form \in SettingsSpace, NEW typed \in BOOLEAN,
      UpdateSettings(form, typed) PROVE G
  BY <1>15, <1>0 DEF UpdateSettings
<1>16. CASE Restart
  BY <1>16, <1>0 DEF Restart
<1>17. CASE Tick
  BY <1>17, <1>0 DEF Tick
<1>18. CASE UNCHANGED vars
  BY <1>18, <1>0 DEF vars
<1> HIDE DEF G, TypeOK
<1> QED
  BY <1>1, <1>2, <1>3, <1>4, <1>5, <1>6, <1>7, <1>8, <1>9, <1>10, <1>11,
     <1>12, <1>13, <1>14, <1>15, <1>16, <1>17, <1>18 DEF Next, RunStep

\* A run at work stays as new as every success.
LEMMA StampsStep ==
  ASSUME TypeOK, LogsFit, OverlapsAreNoted, StampsGrow, [Next]_vars
  PROVE  StampsGrow'
<1>1. \A r \in Run : local'[r].stamp <= now'
  BY StampsArePast
<1>2. ASSUME NEW q \in Run, pc'[q] \in Staged, NEW r \in Succeeded'
      PROVE  local'[r].stamp <= local'[q].stamp
  <2>0. r \in Run /\ r \notin overlapped /\ local'[r] = local[r] /\ pc'[r] = "done"
    BY <1>2, Succeeding
  <2>1. CASE CreateLog(q)
    <3>1. local'[q].stamp = now /\ now' = now
      BY <2>1, Started DEF CreateLog, TypeOK
    <3> QED
      BY <1>1, <2>0, <3>1
  <2>2. CASE ~CreateLog(q)
    <3>1. pc[q] \in Staged
      <4>1. ASSUME Stage(q) PROVE pc[q] \in Staged
        BY <4>1, StageStep
      <4> QED
        BY <1>2, <2>2, <4>1, Grows
    <3>2. local'[q] = local[q]
      BY <3>1, Grows
    <3>3. CASE r \in Succeeded
      BY <2>0, <3>1, <3>2, <3>3 DEF StampsGrow
    <3>4. CASE r \notin Succeeded
      <4>1. pc[r] = "logSuccess"
        BY <1>2, <3>4, Succeeding
      <4>2. pc[r] \in Staged /\ pc[q] \in InFlight
        BY <3>1, <4>1, StagesAreStaged DEF Staged
      <4>3. q = r
        BY <2>0, <4>2, NoCompany
      <4> QED
        BY <1>2, <2>0, <4>3 DEF Staged
    <3> QED
      BY <3>3, <3>4
  <2> QED
    BY <2>1, <2>2
<1> QED
  BY <1>1, <1>2 DEF StampsGrow

\* A directory keeps one file of a name.
LEMMA NamesStep ==
  ASSUME TypeOK, NamesAreUnique, [Next]_vars
  PROVE  NamesAreUnique'
BY DirsSound DEF NamesAreUnique

\* A file is an old one, perhaps written to, or was just opened.
LEMMA Origin ==
  ASSUME TypeOK, NamesAreUnique, [Next]_vars, NEW t \in Target, NEW i \in DOMAIN files'[t]
  PROVE  \/ \E j \in DOMAIN files[t] :
              files'[t][i].stamp = files[t][j].stamp /\ files'[t][i].by = files[t][j].by
         \/ \E p \in Run : Opens(p, t) /\ files'[t][i].by = p
<1>1. files[t] \in Seq(File) /\ Unique(files[t])
  BY DEF TypeOK, NamesAreUnique
<1>2. ASSUME NEW r \in Run, Cuts(r, t)
      PROVE  \E j \in 1..Len(files[t]) : files'[t][i] = files[t][j]
  <2>1. local[r].settings.retention \in Nat \ {0}
    <3>1. local[r].settings \in Settings
      BY DEF TypeOK
    <3> QED
      BY <3>1 DEF Settings
  <2>2. LET e == Latest(files[t], local[r].settings.retention) IN
        e \in Seq(File) /\ \A k \in 1..Len(e) : \E j \in 1..Len(files[t]) : e[k] = files[t][j]
    BY <1>1, <2>1, LatestOf
  <2> QED
    BY <1>2, <2>2 DEF Cuts
<1>3. ASSUME NEW p \in Run, Opens(p, t)
      PROVE  files'[t][i].by = p \/ \E j \in 1..Len(files[t]) : files'[t][i] = files[t][j]
  <2> DEFINE f == [stamp |-> local'[p].stamp, by |-> p, whole |-> FALSE]
  <2>1. f \in File /\ f.stamp = local'[p].stamp /\ f.by = p
    BY <1>3 DEF Opens, File
  <2>2. files'[t] = Append(Others(files[t], f.stamp), f)
    BY <1>3 DEF Opens
  <2> HIDE DEF f
  <2>3. LET e == Append(Others(files[t], f.stamp), f) IN
        /\ e \in Seq(File)
        /\ \A k \in 1..Len(e) : e[k] = f \/ \E j \in 1..Len(files[t]) : e[k] = files[t][j]
    BY <1>1, <2>1, Replaced
  <2> QED
    BY <2>1, <2>2, <2>3
<1>4. ASSUME NEW r \in Run, NEW c \in BOOLEAN, Adds(r, t, c)
      PROVE  \E j \in 1..Len(files[t]) :
               files'[t][i].stamp = files[t][j].stamp /\ files'[t][i].by = files[t][j].by
  <2>1. local[r].stamp \in Nat /\ Named(files[t], local[r].stamp) # {}
        /\ files'[t] = Written(files[t], r, local[r].stamp, c)
    BY <1>4 DEF TypeOK, Adds
  <2> DEFINE d == files[t]
             s == local[r].stamp
             e == Written(d, r, s, c)
  <2> HIDE DEF d, s
  <2>2. /\ e \in Seq(File)
        /\ Last(e).stamp = s
        /\ \E k \in 1..Len(d) : d[k].stamp = s /\ Last(e).by = d[k].by
        /\ \A k \in 1..Len(e) : e[k] = Last(e) \/ \E j \in 1..Len(d) : e[k] = d[j]
    <3>1. d \in Seq(File) /\ Unique(d) /\ s \in Nat /\ Named(d, s) # {}
      BY <1>1, <2>1 DEF d, s
    <3> QED
      BY <3>1, WrittenTo
  <2> HIDE DEF e
  <2>3. files'[t] = e /\ files[t] = d
    BY <2>1 DEF d, s, e
  <2> QED
    BY <2>2, <2>3
<1>5. DOMAIN files[t] = 1..Len(files[t])
  BY <1>1
<1>6. CASE files'[t] = files[t]
  BY <1>6
<1> QED
  BY <1>2, <1>3, <1>4, <1>5, <1>6, DirSteps DEF DirStep

\* Whoever opens a file opens the last of its directory, the only one of its name.
LEMMA OpenedIsLast ==
  ASSUME TypeOK, NamesAreUnique, NEW p \in Run, NEW t \in Target, Opens(p, t)
  PROVE  /\ files'[t] # <<>>
         /\ Last(files'[t]) = [stamp |-> local'[p].stamp, by |-> p, whole |-> FALSE]
         /\ \A i \in DOMAIN files'[t] : files'[t][i].stamp = local'[p].stamp =>
              files'[t][i].by = p
<1>1. files[t] \in Seq(File) /\ Unique(files[t])
  BY DEF TypeOK, NamesAreUnique
<1> DEFINE f == [stamp |-> local'[p].stamp, by |-> p, whole |-> FALSE]
<1>2. f \in File /\ f.stamp = local'[p].stamp /\ f.by = p
  BY DEF Opens, File
<1>3. files'[t] = Append(Others(files[t], f.stamp), f)
  BY DEF Opens
<1> HIDE DEF f
<1>4. LET e == Append(Others(files[t], f.stamp), f) IN
      e \in Seq(File) /\ Unique(e) /\ e # <<>> /\ Last(e) = f
  BY <1>1, <1>2, Replaced
<1>5. files'[t] \in Seq(File) /\ Unique(files'[t]) /\ files'[t] # <<>> /\ Last(files'[t]) = f
  BY <1>3, <1>4
<1>6. Len(files'[t]) \in DOMAIN files'[t] /\ files'[t][Len(files'[t])] = f
  <2>1. \A e \in Seq(File) : e # <<>> => Len(e) \in DOMAIN e /\ Last(e) = e[Len(e)]
    BY DEF Last
  <2> QED
    BY <1>5, <2>1
<1>7. \A i \in DOMAIN files'[t] : files'[t][i].stamp = f.stamp => files'[t][i] = f
  BY <1>5, <1>6 DEF Unique
<1> QED
  BY <1>2, <1>5, <1>7 DEF f

\* A run that comes to a target opens its file.
LEMMA Entering ==
  ASSUME TypeOK, [Next]_vars, NEW q \in Run, NEW t \in Target, pc'[q] = t, pc[q] # t
  PROVE  Opens(q, t)
<1>1. t \in Staged /\ (t = "db" \/ t = "docs")
  BY DEF Target, Staged
<1>2. CreateLog(q) \/ Stage(q)
  BY <1>1, Grows
<1>3. CASE CreateLog(q)
  <2>1. files' = Opened(files, q, t, now) /\ local'[q].stamp = now /\ now \in Nat
    BY <1>3, Started DEF TypeOK
  <2> QED
    BY <1>3, <2>1 DEF Opens, Opened, TypeOK
<1>4. CASE Stage(q)
  <2>1. local[q].settings \in Settings /\ local[q].stamp \in Nat
    BY DEF TypeOK
  <2>2. ASSUME NEW i \in 2..5, NEW dirs, Proceed(q, i, dirs) PROVE FALSE
    <3>1. pc'[q] = NextStage(local[q].settings, i) /\ i \in 0..5 /\ i >= 2 /\ i >= 1
      BY <2>2, Onward
    <3>2. NextStage(local[q].settings, i) \notin {"db", "docs"}
      BY <2>1, <3>1, NothingSkipped
    <3> QED
      BY <1>1, <3>1, <3>2
  <2>3. BackupDatabase(q)
    <3>1. 2 \in 2..5 /\ 3 \in 2..5 /\ 4 \in 2..5 /\ 5 \in 2..5
      OBVIOUS
    <3> QED
      BY <1>4, <2>2, <3>1 DEF Stage, BackupDocuments, TransferToRemote, CleanupOldBackups
  <2>4. PICK c \in BOOLEAN :
          Proceed(q, 1, [files EXCEPT !["db"] = Written(@, q, local[q].stamp, c)])
    BY <2>3 DEF BackupDatabase
  <2>5. pc[q] = "db" /\ files' = Opened([files EXCEPT !["db"] =
          Written(@, q, local[q].stamp, c)], q, t, local[q].stamp)
    BY <2>4, Onward, StageNames
  <2>6. t = "docs" /\ local'[q].stamp = local[q].stamp
    BY <1>1, <2>3, <2>5 DEF BackupDatabase
  <2> QED
    BY <2>1, <2>3, <2>5, <2>6 DEF Opens, Opened, TypeOK, Target
<1> QED
  BY <1>2, <1>3, <1>4

\* No success is written to.
LEMMA WritesStep ==
  ASSUME TypeOK, LogsFit, LogsFit', OverlapsAreNoted, NamesAreUnique, WritesNoSuccess,
         [Next]_vars
  PROVE  WritesNoSuccess'
<1> SUFFICES ASSUME NEW q \in Run, NEW t \in Target, pc'[q] = t, NEW i \in DOMAIN files'[t],
                    files'[t][i].stamp = local'[q].stamp, files'[t][i].by \in Succeeded'
             PROVE  FALSE
  BY DEF WritesNoSuccess
<1> DEFINE b == files'[t][i].by
<1>0. t \in Staged /\ t # "done"
  BY DEF Target, Staged
<1>1. b \in Run /\ b # q /\ pc'[b] = "done" /\ b \notin overlapped
  BY <1>0, Succeeding
<1>2. CASE pc[q] # t
  <2>1. Opens(q, t)
    BY <1>2, Entering
  <2>2. \A k \in DOMAIN files'[t] :
          files'[t][k].stamp = local'[q].stamp => files'[t][k].by = q
    BY <2>1, OpenedIsLast
  <2> QED
    BY <1>1, <2>2
<1>3. CASE pc[q] = t
  <2>1. local'[q] = local[q]
    BY <1>0, <1>3, Grows
  <2>2. b \in Succeeded
    <3>1. CASE LogSuccess(b) /\ pc[b] = "logSuccess"
      <4>1. pc[b] \in Staged /\ pc[q] \in InFlight
        BY <1>0, <1>3, <3>1, StagesAreStaged DEF Staged
      <4>2. q = b
        BY <1>1, <4>1, NoCompany
      <4> QED
        BY <1>1, <4>2
    <3> QED
      BY <3>1, Succeeding
  <2>3. ASSUME NEW p \in Run, Opens(p, t) PROVE b # p
    BY <1>0, <1>1, <2>3 DEF Opens
  <2>4. PICK j \in DOMAIN files[t] :
          files'[t][i].stamp = files[t][j].stamp /\ b = files[t][j].by
    BY <2>3, Origin
  <2>5. files[t][j].stamp = local[q].stamp
    BY <2>1, <2>4
  <2> QED
    BY <1>3, <2>2, <2>4, <2>5 DEF WritesNoSuccess
<1> QED
  BY <1>2, <1>3

\* What came to a directory after a success is as new.
LEMMA NewestStep ==
  ASSUME TypeOK, LogsFit, OverlapsAreNoted, StampsGrow, NamesAreUnique, OwnIsNewest,
         NewestIsAsNew, WritesNoSuccess, [Next]_vars
  PROVE  NewestIsAsNew'
<1> SUFFICES ASSUME NEW r \in Succeeded', NEW t \in logs'[r].targets
             PROVE  /\ files'[t] # <<>>
                    /\ Last(files'[t]).stamp >= local'[r].stamp
                    /\ Last(files'[t]).by = r /\ t = "docs" => Last(files'[t]).whole
  BY DEF NewestIsAsNew
<1>0. /\ r \in Run /\ r \notin overlapped /\ pc'[r] = "done" /\ local'[r] = local[r]
      /\ logs[r] # NoLog /\ t \in logs[r].targets
  BY Succeeding
<1>1. t \in Target
  <2>1. logs[r] \in Log
    BY <1>0 DEF TypeOK
  <2> QED
    BY <1>0, <2>1 DEF Log
<1>2. files[t] \in Seq(File) /\ Unique(files[t]) /\ local[r].stamp \in Nat
  BY <1>0, <1>1 DEF TypeOK, NamesAreUnique
<1>3. CASE LogSuccess(r) /\ pc[r] = "logSuccess"
  <2>1. files' = files
    BY <1>3 DEF LogSuccess
  <2>2. pc[r] \in After(t)
    BY <1>3 DEF After
  <2>3. t \in local[r].settings.targets
    BY <1>0 DEF LogsFit
  <2> QED
    BY <1>0, <1>1, <1>2, <2>1, <2>2, <2>3 DEF OwnIsNewest
<1>4. CASE r \in Succeeded /\ pc[r] = "done"
  <2>1. /\ files[t] # <<>>
        /\ Last(files[t]).stamp >= local[r].stamp
        /\ Last(files[t]).by = r /\ t = "docs" => Last(files[t]).whole
    BY <1>0, <1>4 DEF NewestIsAsNew
  <2>2. CASE files'[t] = files[t]
    BY <1>0, <2>1, <2>2
  <2>3. ASSUME NEW q \in Run, Cuts(q, t)
        PROVE  files'[t] # <<>> /\ Last(files'[t]) = Last(files[t])
    <3>1. local[q].settings.retention \in Nat \ {0}
      <4>1. local[q].settings \in Settings
        BY DEF TypeOK
      <4> QED
        BY <4>1 DEF Settings
    <3> QED
      BY <1>2, <2>1, <2>3, <3>1, LatestOf DEF Cuts
  <2>4. ASSUME NEW q \in Run, Opens(q, t)
        PROVE  /\ files'[t] # <<>>
               /\ Last(files'[t]).stamp >= local[r].stamp
               /\ Last(files'[t]).by # r
    <3>1. /\ files'[t] # <<>>
          /\ Last(files'[t]) = [stamp |-> local'[q].stamp, by |-> q, whole |-> FALSE]
      BY <1>1, <2>4, OpenedIsLast
    <3>2. q # r
      BY <1>0, <1>1, <2>4 DEF Opens, Target
    <3>3. pc'[q] \in Staged
      BY <1>1, <2>4 DEF Opens, Target, Staged
    <3>4. local[r].stamp <= local'[q].stamp
      <4>1. StampsGrow'
        BY StampsStep
      <4> QED
        BY <1>0, <3>3, <4>1 DEF StampsGrow
    <3>5. local'[q].stamp \in Nat
      BY <2>4 DEF Opens
    <3> QED
      BY <1>2, <3>1, <3>2, <3>4, <3>5
  <2>5. ASSUME NEW q \in Run, NEW c \in BOOLEAN, Adds(q, t, c)
        PROVE  /\ files'[t] # <<>>
               /\ Last(files'[t]).stamp >= local[r].stamp
               /\ Last(files'[t]).by # r
    <3> DEFINE d == files[t]
               s == local[q].stamp
               e == Written(d, q, s, c)
    <3>1. /\ pc[q] = t /\ s \in Nat /\ Named(d, s) # {} /\ files'[t] = e
          /\ d \in Seq(File) /\ Unique(d)
      BY <1>2, <2>5 DEF Adds, TypeOK
    <3>2. \A k \in 1..Len(d) : d[k].stamp = s => d[k].by # r
      <4> SUFFICES ASSUME NEW k \in 1..Len(d), d[k].stamp = s PROVE d[k].by \notin Succeeded
        BY <1>4
      <4>1. k \in DOMAIN files[t]
        BY <1>2
      <4> QED
        BY <1>1, <3>1, <4>1 DEF WritesNoSuccess
    <3>3. pc[q] \in Staged
      BY <1>1, <3>1 DEF Target, Staged
    <3>4. local[r].stamp <= s
      BY <1>4, <3>3 DEF StampsGrow
    <3> HIDE DEF d, s
    <3>5. /\ e # <<>> /\ Last(e).stamp = s
          /\ \E k \in 1..Len(d) : d[k].stamp = s /\ Last(e).by = d[k].by
      BY <3>1, WrittenTo
    <3> HIDE DEF e
    <3> QED
      BY <1>2, <3>1, <3>2, <3>4, <3>5
  <2>6. (TRUE \in BOOLEAN) /\ (FALSE \in BOOLEAN)
    OBVIOUS
  <2>7. DirStep(t)
    BY <1>1, DirSteps
  <2> QED
    BY <1>0, <2>1, <2>2, <2>3, <2>4, <2>5, <2>6, <2>7 DEF DirStep
<1> QED
  BY <1>3, <1>4, Succeeding

\* Nothing moves, or touches the directories, while a run is alone, but itself.
LEMMA Alone ==
  ASSUME TypeOK, OverlapsAreNoted, [Next]_vars,
         NEW q \in Run, q \notin overlapped, pc'[q] \in Staged
  PROVE  \/ Stage(q) \/ CreateLog(q) \/ Grow(q)
         \/ pc'[q] = pc[q] /\ local'[q] = local[q] /\ files' = files
<1> DEFINE G ==
       \/ Stage(q) \/ CreateLog(q) \/ Grow(q)
       \/ pc'[q] = pc[q] /\ local'[q] = local[q] /\ files' = files
<1> SUFFICES G
  OBVIOUS
<1>0. InFlight = {"getSettings", "createLog", "catch"} \cup Staged /\ pc'[q] \in Staged
      /\ q \notin overlapped /\ Staged \subseteq InFlight
  BY StagesAreStaged
<1> USE DEF TypeOK
<1>1. ASSUME NEW r \in Run, RunBackup(r) PROVE G
  <2>1. Begin(r) /\ pc' = [pc EXCEPT ![r] = "getSettings"]
    BY <1>1 DEF RunBackup, Begin, Goto
  <2>2. pc'[r] = "getSettings" /\ r # q
    BY <1>0, <2>1 DEF Staged
  <2> QED
    BY <2>1, <2>2 DEF Begin
<1>2. ASSUME NEW r \in Run, RunScheduledBackup(r) PROVE G
  <2>1. Begin(r) /\ pc' = [pc EXCEPT ![r] = "getSettings"]
    BY <1>2 DEF RunScheduledBackup, Begin, Goto
  <2>2. pc'[r] = "getSettings" /\ r # q
    BY <1>0, <2>1 DEF Staged
  <2> QED
    BY <2>1, <2>2 DEF Begin
<1>3. ASSUME NEW r \in Run, GetSettings(r) PROVE G
  <2>1. /\ pc[r] \in InFlight /\ pc' = [pc EXCEPT ![r] = pc'[r]]
    BY <1>3, <1>0 DEF GetSettings, Goto, Staged
  <2>2. CASE r = q
    <3>1. pc'[q] = "createLog"
      BY <1>3, <2>2 DEF GetSettings, Goto
    <3> QED
      BY <1>0, <3>1 DEF Staged
  <2>3. CASE r # q
    <3>1. pc[q] \in Staged
      BY <1>0, <2>1, <2>3
    <3> QED
      BY <1>0, <2>1, <2>3, <3>1, NoCompany
  <2> QED
    BY <2>2, <2>3
<1>4. ASSUME NEW r \in Run, CreateLog(r) PROVE G
  <2>1. /\ pc[r] \in InFlight /\ pc' = [pc EXCEPT ![r] = pc'[r]]
    BY <1>4, <1>0, Started
  <2>2. CASE r = q
    BY <1>4, <2>2
  <2>3. CASE r # q
    <3>1. pc[q] \in Staged
      BY <1>0, <2>1, <2>3
    <3> QED
      BY <1>0, <2>1, <2>3, <3>1, NoCompany
  <2> QED
    BY <2>2, <2>3
<1>5. ASSUME NEW r \in Run, BackupDatabase(r) PROVE G
  <2>1. /\ pc[r] \in InFlight /\ pc' = [pc EXCEPT ![r] = pc'[r]]
    BY <1>5, <1>0, StageStep DEF Stage
  <2>2. CASE r = q
    BY <1>5, <2>2 DEF Stage
  <2>3. CASE r # q
    <3>1. pc[q] \in Staged
      BY <1>0, <2>1, <2>3
    <3> QED
      BY <1>0, <2>1, <2>3, <3>1, NoCompany
  <2> QED
    BY <2>2, <2>3
<1>6. ASSUME NEW r \in Run, BackupDocuments(r) PROVE G
  <2>1. /\ pc[r] \in InFlight /\ pc' = [pc EXCEPT ![r] = pc'[r]]
    BY <1>6, <1>0, StageStep DEF Stage
  <2>2. CASE r = q
    BY <1>6, <2>2 DEF Stage
  <2>3. CASE r # q
    <3>1. pc[q] \in Staged
      BY <1>0, <2>1, <2>3
    <3> QED
      BY <1>0, <2>1, <2>3, <3>1, NoCompany
  <2> QED
    BY <2>2, <2>3
<1>7. ASSUME NEW r \in Run, TransferToRemote(r, 3, "db") PROVE G
  <2>1. /\ pc[r] \in InFlight /\ pc' = [pc EXCEPT ![r] = pc'[r]]
    BY <1>7, <1>0, StageStep DEF Stage
  <2>2. CASE r = q
    BY <1>7, <2>2 DEF Stage
  <2>3. CASE r # q
    <3>1. pc[q] \in Staged
      BY <1>0, <2>1, <2>3
    <3> QED
      BY <1>0, <2>1, <2>3, <3>1, NoCompany
  <2> QED
    BY <2>2, <2>3
<1>8. ASSUME NEW r \in Run, TransferToRemote(r, 4, "docs") PROVE G
  <2>1. /\ pc[r] \in InFlight /\ pc' = [pc EXCEPT ![r] = pc'[r]]
    BY <1>8, <1>0, StageStep DEF Stage
  <2>2. CASE r = q
    BY <1>8, <2>2 DEF Stage
  <2>3. CASE r # q
    <3>1. pc[q] \in Staged
      BY <1>0, <2>1, <2>3
    <3> QED
      BY <1>0, <2>1, <2>3, <3>1, NoCompany
  <2> QED
    BY <2>2, <2>3
<1>9. ASSUME NEW r \in Run, CleanupOldBackups(r) PROVE G
  <2>1. /\ pc[r] \in InFlight /\ pc' = [pc EXCEPT ![r] = pc'[r]]
    BY <1>9, <1>0, StageStep DEF Stage
  <2>2. CASE r = q
    BY <1>9, <2>2 DEF Stage
  <2>3. CASE r # q
    <3>1. pc[q] \in Staged
      BY <1>0, <2>1, <2>3
    <3> QED
      BY <1>0, <2>1, <2>3, <3>1, NoCompany
  <2> QED
    BY <2>2, <2>3
<1>10. ASSUME NEW r \in Run, LogSuccess(r) PROVE G
  <2>1. /\ pc[r] \in InFlight /\ pc' = [pc EXCEPT ![r] = pc'[r]]
    BY <1>10, <1>0 DEF LogSuccess, Goto, Staged
  <2>2. CASE r = q
    <3>1. pc'[q] = "done"
      BY <1>10, <2>2 DEF LogSuccess, Goto
    <3> QED
      BY <1>0, <3>1 DEF Staged
  <2>3. CASE r # q
    <3>1. pc[q] \in Staged
      BY <1>0, <2>1, <2>3
    <3> QED
      BY <1>0, <2>1, <2>3, <3>1, NoCompany
  <2> QED
    BY <2>2, <2>3
<1>11. ASSUME NEW r \in Run, StageFails(r) PROVE G
  <2>1. /\ pc[r] \in InFlight /\ pc' = [pc EXCEPT ![r] = pc'[r]]
    <3>1. pc[r] \in Staged
      BY <1>11, StagesAreStaged DEF StageFails
    <3> QED
      BY <1>11, <1>0, <3>1 DEF StageFails, Goto
  <2>2. CASE r = q
    <3>1. pc'[q] = "catch"
      BY <1>11, <2>2 DEF StageFails, Goto
    <3> QED
      BY <1>0, <3>1 DEF Staged
  <2>3. CASE r # q
    <3>1. pc[q] \in Staged
      BY <1>0, <2>1, <2>3
    <3> QED
      BY <1>0, <2>1, <2>3, <3>1, NoCompany
  <2> QED
    BY <2>2, <2>3
<1>12. ASSUME NEW r \in Run, LogFailed(r) PROVE G
  <2>1. /\ pc[r] \in InFlight /\ pc' = [pc EXCEPT ![r] = pc'[r]]
    BY <1>12, <1>0 DEF LogFailed, Goto, Staged
  <2>2. CASE r = q
    <3>1. pc'[q] = "failed"
      BY <1>12, <2>2 DEF LogFailed, Goto
    <3> QED
      BY <1>0, <3>1 DEF Staged
  <2>3. CASE r # q
    <3>1. pc[q] \in Staged
      BY <1>0, <2>1, <2>3
    <3> QED
      BY <1>0, <2>1, <2>3, <3>1, NoCompany
  <2> QED
    BY <2>2, <2>3
<1>13. ASSUME NEW r \in Run, Abort(r) PROVE G
  <2>1. /\ pc[r] \in InFlight /\ pc' = [pc EXCEPT ![r] = pc'[r]]
    BY <1>13, <1>0 DEF Abort, Goto, Staged
  <2>2. CASE r = q
    <3>1. pc'[q] = "aborted"
      BY <1>13, <2>2 DEF Abort, Goto
    <3> QED
      BY <1>0, <3>1 DEF Staged
  <2>3. CASE r # q
    <3>1. pc[q] \in Staged
      BY <1>0, <2>1, <2>3
    <3> QED
      BY <1>0, <2>1, <2>3, <3>1, NoCompany
  <2> QED
    BY <2>2, <2>3
<1>14. ASSUME NEW r \in Run, Grow(r) PROVE G
  <2>1. pc[r] \in InFlight /\ pc' = pc
    BY <1>14, <1>0 DEF Grow, Target, Staged
  <2> QED
    BY <1>14, <1>0, <2>1, NoCompany
<1>15. ASSUME NEW form \in SettingsSpace, NEW typed \in BOOLEAN,
      UpdateSettings(form, typed) PROVE G
  BY <1>15, <1>0 DEF UpdateSettings
<1>16. CASE Restart
  <2>1. \A p \in Run : pc'[p] = IF pc[p] \in InFlight THEN "aborted" ELSE pc[p]
    BY <1>16 DEF Restart
  <2> QED
    BY <1>0, <2>1 DEF Staged
<1>17. CASE Tick
  BY <1>17, <1>0 DEF Tick
<1>18. CASE UNCHANGED vars
  BY <1>18, <1>0 DEF vars
<1> HIDE DEF G, TypeOK
<1> QED
  BY <1>1, <1>2, <1>3, <1>4, <1>5, <1>6, <1>7, <1>8, <1>9, <1>10, <1>11,
     <1>12, <1>13, <1>14, <1>15, <1>16, <1>17, <1>18 DEF Next, RunStep

\* What a run that is alone makes of the directory of a target.
LEMMA OwnStage ==
  ASSUME TypeOK, NEW r \in Run, Stage(r), NEW t \in Target
  PROVE  \/ /\ files'[t] = files[t] \/ Cuts(r, t)
            /\ pc'[r] # t
            /\ pc'[r] \in After(t) /\ t \in local[r].settings.targets => pc[r] \in After(t)
         \/ /\ Adds(r, t, TRUE) \/ Adds(r, t, FALSE)
            /\ t = "docs" => Adds(r, t, TRUE)
            /\ pc'[r] # t
         \/ Opens(r, t)
<1> DEFINE G == \/ /\ files'[t] = files[t] \/ Cuts(r, t)
                   /\ pc'[r] # t
                   /\ pc'[r] \in After(t) /\ t \in local[r].settings.targets => pc[r] \in After(t)
                \/ /\ Adds(r, t, TRUE) \/ Adds(r, t, FALSE)
                   /\ t = "docs" => Adds(r, t, TRUE)
                   /\ pc'[r] # t
                \/ Opens(r, t)
           s == local[r].settings
<1> SUFFICES G
  OBVIOUS
<1>0. /\ s \in Settings /\ local[r].stamp \in Nat /\ (t = "db" \/ t = "docs")
      /\ files = [u \in Target |-> files[u]]
  BY DEF TypeOK, Target
<1>1. CASE BackupDatabase(r)
  <2>1. PICK c \in BOOLEAN :
          Proceed(r, 1, [files EXCEPT !["db"] = Written(@, r, local[r].stamp, c)])
    BY <1>1 DEF BackupDatabase
  <2> DEFINE dirs == [files EXCEPT !["db"] = Written(@, r, local[r].stamp, c)]
  <2>2. /\ dirs["docs"] = files["docs"] /\ dirs = [u \in Target |-> dirs[u]]
        /\ dirs["db"] = Written(files["db"], r, local[r].stamp, c)
    BY <1>0 DEF Target
  <2> HIDE DEF dirs
  <2>3. pc[r] = "db" /\ pc'[r] = NextStage(s, 1) /\ files' = Opened(dirs, r, pc'[r], local[r].stamp)
    BY <2>1, Onward, StageNames DEF dirs
  <2>4. /\ pc'[r] \in Staged /\ pc'[r] # "db"
        /\ pc'[r] \in After("docs") => "docs" \notin s.targets
    <3>1. LET n == NextStage(s, 1) IN
          n \in Staged /\ n # "db" /\ (n \in After("docs") => "docs" \notin s.targets)
      BY <1>0, NothingSkipped
    <3> QED
      BY <2>3, <3>1
  <2>5. local' = local /\ Named(files["db"], local[r].stamp) # {}
    BY <1>1 DEF BackupDatabase, OnDisk
  <2>6. CASE t = "db"
    <3>1. files'["db"] = dirs["db"]
      BY <2>2, <2>3, <2>4 DEF Opened, Target
    <3>2. Adds(r, "db", c)
      BY <1>1, <2>2, <2>3, <2>5, <3>1 DEF Adds
    <3> QED
      BY <2>4, <2>6, <3>2
  <2>7. CASE t = "docs" /\ pc'[r] = "docs"
    <3>1. files' = [dirs EXCEPT !["docs"] = Append(Others(@, local[r].stamp),
                      [stamp |-> local[r].stamp, by |-> r, whole |-> FALSE])]
      BY <2>3, <2>7 DEF Opened, Target
    <3>2. files'["docs"] = Append(Others(files["docs"], local[r].stamp),
                      [stamp |-> local[r].stamp, by |-> r, whole |-> FALSE])
      BY <2>2, <3>1 DEF Target
    <3> QED
      BY <1>0, <1>1, <2>5, <2>7, <3>2 DEF Opens
  <2>8. CASE t = "docs" /\ pc'[r] # "docs"
    <3>1. files' = dirs
      BY <2>3, <2>4, <2>8 DEF Opened, Target
    <3> QED
      BY <2>2, <2>4, <2>8, <3>1
  <2> QED
    BY <1>0, <2>6, <2>7, <2>8
<1>2. CASE BackupDocuments(r)
  <2> DEFINE dirs == [files EXCEPT !["docs"] = Written(@, r, local[r].stamp, TRUE)]
  <2>1. Proceed(r, 2, dirs)
    BY <1>2 DEF BackupDocuments
  <2>2. /\ dirs["db"] = files["db"]
        /\ dirs["docs"] = Written(files["docs"], r, local[r].stamp, TRUE)
    BY <1>0 DEF Target
  <2> HIDE DEF dirs
  <2>3. pc[r] = "docs" /\ pc'[r] = NextStage(s, 2) /\ files' = Opened(dirs, r, pc'[r], local[r].stamp)
    BY <2>1, Onward, StageNames
  <2>4. pc'[r] # "db" /\ pc'[r] # "docs"
    <3>1. NextStage(s, 2) # "db" /\ NextStage(s, 2) # "docs"
      BY <1>0, NothingSkipped
    <3> QED
      BY <2>3, <3>1
  <2>5. files' = dirs
    BY <2>3, <2>4 DEF Opened, Target
  <2>6. local' = local /\ Named(files["docs"], local[r].stamp) # {}
    BY <1>2 DEF BackupDocuments, OnDisk
  <2>7. CASE t = "docs"
    BY <1>2, <2>2, <2>3, <2>4, <2>5, <2>6, <2>7 DEF Adds
  <2>8. CASE t = "db"
    BY <2>2, <2>3, <2>4, <2>5, <2>8 DEF After
  <2> QED
    BY <1>0, <2>7, <2>8
<1>3. ASSUME NEW i \in 3..4, Proceed(r, i, files) PROVE G
  <2>1. i \in 3..5 /\ i \in 1..5 /\ i \in DOMAIN Stages /\ (i = 3 \/ i = 4)
    BY StageNames
  <2>2. files' = files
    BY <1>3, <2>1, LateStages
  <2>3. pc'[r] # t
    <3>1. NextStage(s, i) # "db" /\ NextStage(s, i) # "docs"
      <4>1. i \in 0..5 /\ i >= 1 /\ i >= 2
        BY <2>1
      <4> QED
        BY <1>0, <4>1, NothingSkipped
    <3> QED
      BY <1>0, <1>3, <2>1, <3>1, Onward
  <2>4. pc[r] \in After(t)
    BY <1>3, <2>1, StageNames DEF Proceed, After
  <2> QED
    BY <2>2, <2>3, <2>4
<1>4. CASE CleanupOldBackups(r)
  <2> DEFINE dirs == [u \in Target |-> Latest(files[u], local[r].settings.retention)]
  <2>1. Proceed(r, 5, dirs)
    BY <1>4 DEF CleanupOldBackups
  <2> HIDE DEF dirs
  <2>2. files' = dirs
    BY <2>1, LateStages
  <2>3. pc'[r] # t
    <3>1. NextStage(s, 5) # "db" /\ NextStage(s, 5) # "docs"
      BY <1>0, NothingSkipped
    <3> QED
      BY <1>0, <2>1, <3>1, Onward
  <2>4. pc[r] \in After(t)
    BY <2>1, StageNames DEF Proceed, After
  <2>5. Cuts(r, t)
    BY <1>4, <2>2 DEF Cuts, dirs
  <2> QED
    BY <2>3, <2>4, <2>5
<1>5. CASE TransferToRemote(r, 3, "db") \/ TransferToRemote(r, 4, "docs")
  <2>1. Proceed(r, 3, files) \/ Proceed(r, 4, files)
    BY <1>5 DEF TransferToRemote
  <2>2. 3 \in 3..4 /\ 4 \in 3..4
    OBVIOUS
  <2> HIDE DEF G
  <2> QED
    BY <1>3, <2>1, <2>2
<1> QED
  BY <1>1, <1>2, <1>4, <1>5 DEF Stage

\* A run that is alone is the last to have written to its directories.
LEMMA OwnStep ==
  ASSUME TypeOK, LogsFit, OverlapsAreNoted, NamesAreUnique, OwnIsNewest, [Next]_vars
  PROVE  OwnIsNewest'
<1> SUFFICES ASSUME NEW r \in Run, r \notin overlapped', NEW t \in Target,
                    pc'[r] = t \/ (pc'[r] \in After(t) /\ t \in local'[r].settings.targets)
             PROVE  /\ files'[t] # <<>>
                    /\ Last(files'[t]).stamp = local'[r].stamp
                    /\ Last(files'[t]).by = r
                    /\ pc'[r] \in After(t) /\ t = "docs" => Last(files'[t]).whole
  BY DEF OwnIsNewest
<1> DEFINE Held == /\ files[t] # <<>>
                   /\ Last(files[t]).stamp = local[r].stamp
                   /\ Last(files[t]).by = r
                   /\ pc[r] \in After(t) /\ t = "docs" => Last(files[t]).whole
<1>0. r \notin overlapped /\ (t = "db" \/ t = "docs")
  BY Grows DEF Target
<1>1. pc'[r] \in Staged /\ ~(pc'[r] = t /\ pc'[r] \in After(t))
  BY DEF After, Staged, Target
<1>2. files[t] \in Seq(File) /\ Unique(files[t])
  BY DEF TypeOK, NamesAreUnique
<1>3. pc[r] = t \/ (pc[r] \in After(t) /\ t \in local[r].settings.targets) => Held
  BY <1>0 DEF OwnIsNewest
<1>4. ASSUME NEW q \in Run, Cuts(q, t), Held
      PROVE  files'[t] # <<>> /\ Last(files'[t]) = Last(files[t])
  <2>1. local[q].settings.retention \in Nat \ {0}
    <3>1. local[q].settings \in Settings
      BY DEF TypeOK
    <3> QED
      BY <3>1 DEF Settings
  <2> QED
    BY <1>2, <1>4, <2>1, LatestOf DEF Cuts
<1>5. ASSUME NEW c \in BOOLEAN, Adds(r, t, c)
      PROVE  /\ files'[t] # <<>> /\ Last(files'[t]).stamp = local'[r].stamp
             /\ Last(files'[t]).by = r /\ (c => Last(files'[t]).whole)
  <2> DEFINE d == files[t]
             s == local[r].stamp
             e == Written(d, r, s, c)
  <2>1. /\ pc[r] = t /\ s \in Nat /\ Named(d, s) # {} /\ files'[t] = e /\ local' = local
        /\ d \in Seq(File) /\ Unique(d)
    BY <1>2, <1>5 DEF Adds, TypeOK
  <2>2. d # <<>> /\ Last(d).stamp = s /\ Last(d).by = r
    BY <1>3, <2>1
  <2>3. \A k \in 1..Len(d) : d[k].stamp = s => d[k].by = r
    <3>1. Len(d) \in DOMAIN d /\ Last(d) = d[Len(d)]
      BY <2>1, <2>2 DEF Last
    <3> QED
      BY <2>1, <2>2, <3>1 DEF Unique
  <2>4. local'[r].stamp = s
    BY <2>1
  <2> HIDE DEF d, s
  <2>5. /\ e # <<>> /\ Last(e).stamp = s /\ (Last(e).whole <=> c /\ Last(e).by = r)
        /\ \E k \in 1..Len(d) : d[k].stamp = s /\ Last(e).by = d[k].by
    BY <2>1, WrittenTo
  <2> HIDE DEF e
  <2>6. Last(e).by = r
    BY <2>3, <2>5
  <2>7. c => Last(e).whole
    BY <2>5, <2>6
  <2> QED
    BY <2>1, <2>4, <2>5, <2>6, <2>7
<1>6. CASE Opens(r, t)
  <2>1. pc'[r] = t
    BY <1>6 DEF Opens
  <2>2. /\ files'[t] # <<>>
        /\ Last(files'[t]) = [stamp |-> local'[r].stamp, by |-> r, whole |-> FALSE]
    BY <1>6, OpenedIsLast
  <2> QED
    BY <1>1, <2>1, <2>2
<1>7. CASE pc'[r] = pc[r] /\ local'[r] = local[r] /\ files' = files
  BY <1>3, <1>7
<1>8. CASE Grow(r)
  <2>1. pc[r] \in Target /\ pc' = pc /\ local' = local
        /\ files' = [files EXCEPT ![pc[r]] = Written(@, r, local[r].stamp, FALSE)]
    BY <1>8 DEF Grow
  <2>2. CASE pc[r] = t
    <3>1. Adds(r, t, FALSE)
      BY <1>8, <2>1, <2>2 DEF Adds, Grow, OnDisk, TypeOK
    <3>2. FALSE \in BOOLEAN
      OBVIOUS
    <3>3. /\ files'[t] # <<>> /\ Last(files'[t]).stamp = local'[r].stamp
          /\ Last(files'[t]).by = r
      BY <1>5, <3>1, <3>2
    <3> QED
      BY <1>1, <2>1, <2>2, <3>3
  <2>3. CASE pc[r] # t
    <3>1. files'[t] = files[t]
      BY <2>1, <2>3 DEF TypeOK
    <3> QED
      BY <1>3, <2>1, <2>3, <3>1
  <2> QED
    BY <2>2, <2>3
<1>9. CASE CreateLog(r)
  <2>1. pc'[r] = NextStage(local[r].settings, 0) /\ pc[r] = "createLog"
        /\ local'[r].settings = local[r].settings
    BY <1>9, Started DEF TypeOK
  <2>2. pc'[r] = t
    <3>1. local[r].settings \in Settings /\ 0 \in 0..5 /\ 0 < 1 /\ 0 < 2
      BY DEF TypeOK
    <3>2. pc'[r] \in After(t) => t \notin local[r].settings.targets
      BY <1>0, <2>1, <3>1, NothingSkipped
    <3> QED
      BY <2>1, <3>2
  <2>3. Opens(r, t)
    BY <2>1, <2>2, Entering DEF Target
  <2> QED
    BY <1>6, <2>3
<1>10. CASE Stage(r)
  <2>1. local'[r] = local[r]
    BY <1>10, StageStep
  <2>2. CASE Adds(r, t, TRUE) \/ (t # "docs" /\ Adds(r, t, FALSE))
    BY <1>5, <2>2
  <2>3. CASE /\ files'[t] = files[t] \/ Cuts(r, t)
             /\ pc'[r] # t
             /\ pc'[r] \in After(t) /\ t \in local[r].settings.targets => pc[r] \in After(t)
    <3>1. pc[r] \in After(t) /\ Held
      BY <1>3, <2>1, <2>3
    <3>2. files'[t] # <<>> /\ Last(files'[t]) = Last(files[t])
      BY <1>4, <2>3, <3>1
    <3> QED
      BY <2>1, <3>1, <3>2
  <2> QED
    BY <1>6, <1>10, <2>2, <2>3, OwnStage
<1> QED
  BY <1>0, <1>1, <1>7, <1>8, <1>9, <1>10, Alone

\* What is on the server stays, or is replaced by a file of the same name.
LEMMA RemoteKeeps ==
  ASSUME TypeOK, [Next]_vars, NEW c \in remote
  PROVE  \E d \in remote' : d.target = c.target /\ d.stamp = c.stamp
<1> DEFINE Put(r, t) == remote' =
      {d \in remote : d.target # t \/ d.stamp # local[r].stamp} \cup
        {[target |-> t, stamp |-> local[r].stamp, by |-> f.by] :
           f \in Named(files[t], local[r].stamp)}
<1>1. CASE remote' = remote
  BY <1>1
<1>2. ASSUME NEW r \in Run, NEW t \in Target, Put(r, t), OnDisk(r, t)
      PROVE  \E d \in remote' : d.target = c.target /\ d.stamp = c.stamp
  <2>1. PICK f \in Named(files[t], local[r].stamp) : TRUE
    BY <1>2 DEF OnDisk
  <2>2. [target |-> t, stamp |-> local[r].stamp, by |-> f.by] \in remote'
    BY <1>2, <2>1
  <2>3. CASE c.target = t /\ c.stamp = local[r].stamp
    BY <2>2, <2>3
  <2>4. CASE ~(c.target = t /\ c.stamp = local[r].stamp)
    BY <1>2, <2>4
  <2> QED
    BY <2>3, <2>4
<1>3. remote' = remote \/ \E r \in Run, t \in Target : Put(r, t) /\ OnDisk(r, t)
  BY DEF Next, RunStep, RunBackup, RunScheduledBackup, Begin, GetSettings, CreateLog,
     BackupDatabase, BackupDocuments, TransferToRemote, CleanupOldBackups, LogSuccess,
     StageFails, LogFailed, Abort, Grow, UpdateSettings, Restart, Tick, vars, Target
<1> HIDE DEF Put
<1> QED
  BY <1>1, <1>2, <1>3

\* What was sent is on the server.
LEMMA SentStep ==
  ASSUME TypeOK, LogsFit, LogsFit', SentIsThere, [Next]_vars
  PROVE  SentIsThere'
<1> SUFFICES ASSUME NEW r \in Run, NEW t \in Target,
                    \/ pc'[r] \in AfterSend(t)
                    \/ logs'[r] # NoLog /\ logs'[r].status = "success",
                    t \in local'[r].settings.targets,
                    "remote" \in local'[r].settings.destinations,
                    local'[r].settings.sftpHost
             PROVE  \E c \in remote' : c.target = t /\ c.stamp = local'[r].stamp
  BY DEF SentIsThere
<1> DEFINE s == local[r].settings
<1>0. s \in Settings /\ (t = "db" \/ t = "docs")
  BY DEF TypeOK, Target
<1>1. CASE local'[r] = local[r] /\ (\/ pc[r] \in AfterSend(t)
                                    \/ logs[r] # NoLog /\ logs[r].status = "success")
  <2>1. PICK c \in remote : c.target = t /\ c.stamp = local[r].stamp
    BY <1>1 DEF SentIsThere
  <2>2. \E d \in remote' : d.target = c.target /\ d.stamp = c.stamp
    BY <2>1, RemoteKeeps
  <2> QED
    BY <1>1, <2>1, <2>2
<1>2. ASSUME NEW i \in 0..5, pc'[r] = NextStage(s, i), pc'[r] \in AfterSend(t),
             local'[r].settings = s
      PROVE  (t = "db" => i >= 3) /\ (t = "docs" => i >= 4)
  <2>1. t \in s.targets /\ "remote" \in s.destinations /\ s.sftpHost
    BY <1>2
  <2>2. LET n == NextStage(s, i) IN
        /\ i < 3 /\ n \in AfterSend("db") /\ "db" \in s.targets =>
             ~("remote" \in s.destinations /\ s.sftpHost)
        /\ i < 4 /\ n \in AfterSend("docs") /\ "docs" \in s.targets =>
             ~("remote" \in s.destinations /\ s.sftpHost)
    BY <1>0, NothingSkipped
  <2> QED
    BY <1>2, <2>1, <2>2
<1>3. ASSUME NEW i \in 1..5, NEW dirs, Proceed(r, i, dirs), local'[r] = local[r],
             pc'[r] \in AfterSend(t), pc[r] \notin AfterSend(t)
      PROVE  (t = "db" /\ i = 3) \/ (t = "docs" /\ i = 4)
  <2>1. /\ pc[r] = Stages[i] /\ pc'[r] = NextStage(s, i) /\ i \in 0..5
        /\ (i = 1 \/ i = 2 \/ i = 3 \/ i = 4 \/ i = 5)
    BY <1>3, Onward
  <2>2. (t = "db" => i >= 3) /\ (t = "docs" => i >= 4)
    BY <1>2, <1>3, <2>1
  <2>3. ~(t = "db" /\ i = 4) /\ i # 5
    BY <1>3, <2>1, StageNames DEF AfterSend
  <2> QED
    BY <1>0, <2>1, <2>2, <2>3
<1>4. ASSUME NEW i, TransferToRemote(r, i, t), local' = local
      PROVE  \E c \in remote' : c.target = t /\ c.stamp = local'[r].stamp
  <2>1. PICK f \in Named(files[t], local[r].stamp) : TRUE
    BY <1>4 DEF TransferToRemote, OnDisk
  <2>2. [target |-> t, stamp |-> local[r].stamp, by |-> f.by] \in remote'
    BY <1>4, <2>1 DEF TransferToRemote
  <2> QED
    BY <1>4, <2>2
<1>5. CASE logs'[r] # NoLog /\ logs'[r].status = "success"
  <2>1. pc'[r] = "done"
    BY <1>5 DEF LogsFit
  <2>2. CASE logs'[r] = logs[r]
    <3>1. pc[r] = "done"
      BY <1>5, <2>2 DEF LogsFit
    <3> QED
      BY <1>1, <1>5, <2>2, <3>1, Grows DEF Final
  <2>3. CASE LogSuccess(r)
    <3>1. pc[r] = "logSuccess" /\ local' = local
      BY <2>3 DEF LogSuccess
    <3> QED
      BY <1>1, <3>1 DEF AfterSend
  <2>4. CASE LogFailed(r)
    BY <2>1, <2>4 DEF LogFailed, Goto, TypeOK
  <2>5. CASE CreateLog(r)
    BY <2>1, <2>5, Started DEF Staged
  <2> QED
    BY <2>2, <2>3, <2>4, <2>5, Grows
<1>6. CASE pc'[r] \in AfterSend(t)
  <2>0. pc'[r] \in Staged
    BY <1>6 DEF AfterSend, Staged
  <2>1. CASE pc'[r] = pc[r]
    <3>1. local'[r] = local[r]
      BY <2>0, <2>1, Grows
    <3> QED
      BY <1>1, <1>6, <2>1, <3>1
  <2>2. CASE CreateLog(r)
    <3>1. pc'[r] = NextStage(s, 0) /\ local'[r].settings = s /\ 0 \in 0..5
      BY <2>2, Started DEF TypeOK
    <3> QED
      BY <1>0, <1>2, <1>6, <3>1
  <2>3. CASE Stage(r) /\ pc[r] \notin AfterSend(t)
    <3>1. local' = local
      BY <2>3, StageStep
    <3>2. 1 \in 1..5 /\ 2 \in 1..5 /\ 3 \in 1..5 /\ 4 \in 1..5 /\ 5 \in 1..5
      OBVIOUS
    <3>3. ~BackupDatabase(r)
      <4> SUFFICES ASSUME BackupDatabase(r) PROVE FALSE
        OBVIOUS
      <4>1. PICK dirs : Proceed(r, 1, dirs)
        BY DEF BackupDatabase
      <4> QED
        BY <1>3, <1>6, <2>3, <3>1, <3>2, <4>1
    <3>4. ~BackupDocuments(r)
      BY <1>3, <1>6, <2>3, <3>1, <3>2 DEF BackupDocuments
    <3>5. ~CleanupOldBackups(r)
      BY <1>3, <1>6, <2>3, <3>1, <3>2 DEF CleanupOldBackups
    <3>6. TransferToRemote(r, 3, "db") => t = "db"
      BY <1>3, <1>6, <2>3, <3>1, <3>2 DEF TransferToRemote
    <3>7. TransferToRemote(r, 4, "docs") => t = "docs"
      BY <1>3, <1>6, <2>3, <3>1, <3>2 DEF TransferToRemote
    <3> QED
      BY <1>4, <2>3, <3>1, <3>3, <3>4, <3>5, <3>6, <3>7 DEF Stage
  <2>4. CASE Stage(r) /\ pc[r] \in AfterSend(t)
    BY <1>1, <2>4, StageStep
  <2> QED
    BY <2>0, <2>1, <2>2, <2>3, <2>4, Grows
<1> QED
  BY <1>5, <1>6

---------------------------------------------------------------------------
(* The theorems *)

\* The invariant holds at the start.
LEMMA IInvInit == Init => IInv
<1> SUFFICES ASSUME Init PROVE IInv
  OBVIOUS
<1>1. settings \in Settings
  BY BackupAssumption DEF Init
<1>2. TypeOK
  <2>1. cron \in CronSpace
    <3>1. CronExpression(settings.schedule) \in CronSpace
      BY <1>1, CronTyped DEF Settings
    <3> QED
      BY <3>1 DEF Init, Installed, CronSpace
  <2> QED
    BY <1>1, <2>1 DEF Init, TypeOK
<1>3. \A r \in Run : /\ pc[r] = "idle" /\ logs[r] = NoLog /\ local[r].stamp = 0
  BY DEF Init
<1>4. LogsFit
  BY <1>3 DEF LogsFit, Staged
<1>5. RunningIsAtWork
  BY <1>3 DEF RunningIsAtWork
<1>6. OverlapsAreNoted
  <2>1. AtWork = {}
    BY <1>3, StagesAreStaged DEF AtWork, Staged
  <2> QED
    BY <2>1 DEF OverlapsAreNoted
<1>7. Succeeded = {}
  BY <1>3 DEF Succeeded
<1>8. StampsGrow
  BY <1>3, <1>7 DEF StampsGrow, Init
<1>9. NamesAreUnique
  BY DEF NamesAreUnique, Unique, Init
<1>10. OwnIsNewest
  BY <1>3 DEF OwnIsNewest, After, Target
<1>11. NewestIsAsNew /\ WritesNoSuccess
  BY <1>3, <1>7 DEF NewestIsAsNew, WritesNoSuccess, Target
<1>12. SentIsThere
  BY <1>3 DEF SentIsThere, AfterSend
<1> QED
  BY <1>2, <1>4, <1>5, <1>6, <1>8, <1>9, <1>10, <1>11, <1>12 DEF IInv

\* Every step keeps it.
LEMMA IInvStep == IInv /\ [Next]_vars => IInv'
<1> SUFFICES ASSUME IInv, [Next]_vars PROVE IInv'
  OBVIOUS
<1>1. /\ TypeOK /\ LogsFit /\ RunningIsAtWork /\ OverlapsAreNoted /\ StampsGrow
      /\ NamesAreUnique /\ OwnIsNewest /\ NewestIsAsNew /\ WritesNoSuccess /\ SentIsThere
  BY DEF IInv
<1>2. TypeOK'
  BY <1>1, TypeStep
<1>3. LogsFit' /\ RunningIsAtWork'
  BY <1>1, LogsStep, RunningStep
<1>4. OverlapsAreNoted' /\ StampsGrow' /\ NamesAreUnique'
  BY <1>1, OverlapsStep, StampsStep, NamesStep
<1>5. OwnIsNewest'
  BY <1>1, OwnStep
<1>6. NewestIsAsNew'
  BY <1>1, NewestStep
<1>7. WritesNoSuccess' /\ SentIsThere'
  BY <1>1, <1>3, WritesStep, SentStep
<1> QED
  BY <1>2, <1>3, <1>4, <1>5, <1>6, <1>7 DEF IInv

\* The invariant behind the theorems below holds of every reachable state.
LEMMA Inductive == Spec => []IInv
BY IInvInit, IInvStep, PTL DEF Spec

\* A row that says running is one of a run at work, and the files of a success whose
\* settings named a server and a remote destination are on that server.
THEOREM LogIsTrue == Spec => []LogTellsTruth
<1>1. IInv => LogTellsTruth
  <2> SUFFICES ASSUME IInv PROVE LogTellsTruth
    OBVIOUS
  <2>1. SuccessWasTransferred
    <3> SUFFICES ASSUME NEW r \in Succeeded, "remote" \in logs[r].destinations,
                        local[r].settings.sftpHost, NEW t \in logs[r].targets
                 PROVE  \E c \in remote : c.target = t /\ c.stamp = local[r].stamp
      BY DEF SuccessWasTransferred
    <3>1. r \in Run /\ logs[r] # NoLog /\ logs[r].status = "success" /\ logs[r] \in Log
      BY DEF Succeeded, IInv, TypeOK
    <3>2. t \in Target /\ t \in local[r].settings.targets
          /\ "remote" \in local[r].settings.destinations
      BY <3>1 DEF IInv, LogsFit, Log
    <3> QED
      BY <3>1, <3>2 DEF IInv, SentIsThere
  <2> QED
    BY <2>1 DEF LogTellsTruth, IInv
<1> QED
  BY Inductive, <1>1, PTL

\* What a successful run wrote is kept until something as new takes its place.
THEOREM SuccessIsKept == Spec => []SuccessIsKeptOrSuperseded
<1>1. IInv => SuccessIsKeptOrSuperseded
  <2> SUFFICES ASSUME IInv, NEW r \in Succeeded, NEW t \in logs[r].targets
               PROVE  \E i \in DOMAIN files[t] :
                        /\ files[t][i].stamp >= local[r].stamp
                        /\ files[t][i].by = r /\ t = "docs" => files[t][i].whole
    BY DEF SuccessIsKeptOrSuperseded
  <2>1. r \in Run /\ logs[r] \in Log
    BY DEF Succeeded, IInv, TypeOK
  <2>2. files[t] \in Seq(File)
    BY <2>1 DEF IInv, TypeOK, Log
  <2>3. files[t] # <<>> /\ Last(files[t]).stamp >= local[r].stamp
        /\ (Last(files[t]).by = r /\ t = "docs" => Last(files[t]).whole)
    BY DEF IInv, NewestIsAsNew
  <2>4. Len(files[t]) \in DOMAIN files[t] /\ Last(files[t]) = files[t][Len(files[t])]
    BY <2>2, <2>3 DEF Last
  <2> QED
    BY <2>3, <2>4
<1> QED
  BY Inductive, <1>1, PTL

\* Whatever the schedule, the job fires at its hour and day of Korean time.
LEMMA NoneIsWrong == WrongSchedules = {}
<1> SUFFICES ASSUME NEW s \in Schedule PROVE ~FiresElsewhen(s)
  BY DEF WrongSchedules
<1> DEFINE dayShift == IF s.hour < 9 THEN -1 ELSE 0
           dayOfMonth == IF s.day \in 1..28 THEN s.day ELSE 1
           c == CronExpression(s)
           nextDay == IF c.hour + 9 >= 24 THEN 1 ELSE 0
<1>1. s.hour \in 0..23 /\ s.day \in 0..31
  BY DEF Schedule
<1>2. /\ c.hour = (s.hour + 15) % 24
      /\ s.type = "weekly" => c.weekday = (s.day + dayShift) % 7
      /\ s.type = "monthly" =>
           c.monthday = IF dayOfMonth + dayShift < 1 THEN 1 ELSE dayOfMonth + dayShift
  BY DEF CronExpression
<1>3. c.hour = IF s.hour < 9 THEN s.hour + 15 ELSE s.hour - 9
  BY <1>1, <1>2
<1> HIDE DEF c
<1>4. (c.hour + 9) % 24 = s.hour
  BY <1>1, <1>3
<1>5. nextDay = -dayShift
  BY <1>1, <1>3
<1>6. s.type = "weekly" /\ s.day \in 0..6 => (c.weekday + nextDay) % 7 = s.day
  <2>1. ASSUME NEW d \in 0..6, NEW k \in {-1, 0} PROVE (((d + k) % 7) + (-k)) % 7 = d
    OBVIOUS
  <2> QED
    BY <1>1, <1>2, <1>5, <2>1
<1>7. s.type = "monthly" /\ s.day \in 1..28 /\ ~(s.day = 1 /\ s.hour < 9) =>
        c.monthday + nextDay = s.day
  BY <1>1, <1>2, <1>5
<1> QED
  BY <1>4, <1>6, <1>7 DEF FiresElsewhen, c

\* The cron job fires at the hour, weekday and day of the month the page was given.
THEOREM FiresOnTime == Spec => []FiresAtKoreanTime
<1>1. FiresAtKoreanTime
  BY NoneIsWrong DEF FiresAtKoreanTime
<1> QED
  BY <1>1, PTL

=============================================================================
