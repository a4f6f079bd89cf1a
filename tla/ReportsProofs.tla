---------------------------- MODULE ReportsProofs ----------------------------
(***************************************************************************)
(* Proofs about inspection reports: how Documents keeps them, for any       *)
(* requests, keys and dates, and what Inspection concludes from them, for   *)
(* any targets, dates and length of time. The two specifications share no   *)
(* variable; each theorem is about one of them.                             *)
(*                                                                          *)
(* None of the properties of Documents is inductive: each rests on what the *)
(* handlers remember across their awaits. The inductive invariant says, per *)
(* place in a handler, how what it remembers relates to the disk and the    *)
(* table.                                                                   *)
(***************************************************************************)
EXTENDS Documents, Inspection, FiniteSetTheorems, TLAPS

---------------------------------------------------------------------------
(* Documents *)

\* Where a request is once its local filepath is settled for good.
Settled == {"insert", "updateLast", "log", "catch"} \cup Final
Found == {"exists", "unlink", "deleteRow", "access", "send"}
\* Places where a handler remembers nothing it will still use.
Starts == {"isAssigned", "lookup", "find", "findOne", "log", "logRemoval", "catch"}

\* A file lies at the path its upload chose, and under that upload's key.
FilesAreMoved ==
  \A p \in Path : Exists(p) =>
    /\ pc[files[p]] \in Settled
    /\ local[files[p]].filepath = p
    /\ job[files[p]].key = p[1]

\* A row says what its upload chose and was sent.
RowsAreOwn ==
  \A d \in documents :
    /\ pc[d.id] \in Settled \ {"insert"}
    /\ local[d.id].filepath = d.filepath
    /\ job[d.id].key = d.filepath[1]
    /\ job[d.id].date = d.inspectionDate

\* Every number a handler has probed in vain was chosen by another upload.
ProbesAreTaken ==
  \A r \in Request : pc[r] = "probe" =>
    \A i \in 0..Cardinality(Request) : i < local[r].number =>
      \E q \in Request : pc[q] \in Settled /\ local[q].filepath[2] = i

\* A path is built from the key that was sent, or from a report of that key.
JobsFit ==
  \A r \in Request :
    /\ pc[r] \in {"rename", "insert"} \cup Found => local[r].filepath[1] = job[r].key
    /\ pc[r] \in {"find", "findOne"} \cup Found =>
         job[job[r].doc].key = job[r].key /\ pc[job[r].doc] # "idle"

\* Handlers of one key, and uploads of the customer, that are not noted in the
\* history came one after the other.
OneAtATime ==
  /\ \A q, r \in Request :
       /\ pc[q] \in InFlight /\ pc[r] \in InFlight /\ q # r
       /\ job[q].key = job[r].key
       => job[r].key \in met
  /\ \A q, r \in Request :
       pc[q] \in UploadSteps /\ pc[r] \in UploadSteps /\ q # r => crossed

\* On a calm key a file has its row or is waiting for it, and a row has its file
\* or is about to be deleted.
Balanced ==
  /\ \A p \in Path : Exists(p) /\ Calm(p[1]) =>
       \/ pc[files[p]] = "insert"
       \/ \E d \in documents : d.id = files[p] /\ d.filepath = p
  /\ \A d \in documents : Calm(d.filepath[1]) =>
       \/ files[d.filepath] = d.id
       \/ \E r \in Request : pc[r] = "deleteRow" /\ job[r].doc = d.id

\* On a calm key what a handler learned is still true.
NewsIsFresh ==
  \A r \in Request : Calm(job[r].key) =>
    /\ pc[r] = "rename" => ~Exists(local[r].filepath)
    /\ pc[r] = "insert" => files[local[r].filepath] = r
    /\ pc[r] \in Found =>
         \E d \in documents : d.id = job[r].doc /\ d.filepath = local[r].filepath
    /\ pc[r] = "deleteRow" => ~Exists(local[r].filepath)

\* A temporary file is on disk only before the upload's rename, or after a failure.
TempsAreEarly ==
  \A r \in temp : pc[r] \in {"isAssigned", "lookup", "probe", "rename", "catch", "aborted"}

\* Only a download that was sent was served.
ServedIsDone == \A r \in Request : served[r] # NoFile => pc[r] = "done"

\* Uploads came one after the other, none failed and no form put a date back: then the
\* date read in Lookup is the current one.
LastIsFresh ==
  Orderly /\ ~putBack =>
    \A r \in Request :
      /\ pc[r] \in {"probe", "rename", "insert", "updateLast"} =>
           local[r].last = customer.last
      /\ pc[r] = "updateLast" => job[r].date > local[r].last

IInv ==
  /\ TypeOK /\ FilesAreMoved /\ RowsAreOwn /\ ProbesAreTaken /\ JobsFit /\ OneAtATime
  /\ Balanced /\ NewsIsFresh /\ TempsAreEarly /\ ServedIsDone /\ LastIsFresh
  /\ ServesWhatWasAsked /\ LastIsNewest

---------------------------------------------------------------------------
(* Steps *)

\* A request that has started stays the request it was; a settled path, a failure
\* and an answer stay.
LEMMA Grows ==
  ASSUME TypeOK, [Next]_vars, NEW q \in Request
  PROVE  /\ pc[q] # "idle" => pc'[q] # "idle" /\ job'[q] = job[q]
         /\ pc[q] \in Settled => pc'[q] \in Settled /\ local'[q] = local[q]
         /\ pc[q] \in Settled \ {"insert"} => pc'[q] \in Settled \ {"insert"}
         /\ pc[q] \in Wrong => pc'[q] \in Wrong
         /\ pc[q] \in Final => pc'[q] = pc[q]
<1> DEFINE G ==
       /\ pc[q] # "idle" => pc'[q] # "idle" /\ job'[q] = job[q]
       /\ pc[q] \in Settled => pc'[q] \in Settled /\ local'[q] = local[q]
       /\ pc[q] \in Settled \ {"insert"} => pc'[q] \in Settled \ {"insert"}
       /\ pc[q] \in Wrong => pc'[q] \in Wrong
       /\ pc[q] \in Final => pc'[q] = pc[q]
<1> SUFFICES G
  OBVIOUS
<1> USE DEF history, TypeOK, Settled, Wrong, Final, InFlight, UploadSteps,
     RemoveSteps, DownloadSteps
<1>1. ASSUME NEW r \in Request, NEW k \in Key, NEW d \in Date, Upload(r, k,
      d) PROVE G
  BY <1>1 DEF Upload, Step, Joins
<1>2. ASSUME NEW r \in Request, IsAssigned(r) PROVE G
  BY <1>2 DEF IsAssigned, Step
<1>3. ASSUME NEW r \in Request, Lookup(r) PROVE G
  BY <1>3 DEF Lookup, Step
<1>4. ASSUME NEW r \in Request, Probe(r) PROVE G
  BY <1>4 DEF Probe, Step
<1>5. ASSUME NEW r \in Request, Rename(r) PROVE G
  BY <1>5 DEF Rename, Step
<1>6. ASSUME NEW r \in Request, InsertDocument(r) PROVE G
  BY <1>6 DEF InsertDocument, Step
<1>7. ASSUME NEW r \in Request, UpdateLast(r) PROVE G
  BY <1>7 DEF UpdateLast, Step
<1>8. ASSUME NEW r \in Request, Catch(r) PROVE G
  BY <1>8 DEF Catch, Step
<1>9. ASSUME NEW r \in Request, NEW d \in documents, Remove(r, d.id) PROVE G
  BY <1>9 DEF Remove, Step, Joins
<1>10. ASSUME NEW r \in Request, Find(r) PROVE G
  BY <1>10 DEF Find, FindRow, Step
<1>11. ASSUME NEW r \in Request, FileExists(r) PROVE G
  BY <1>11 DEF FileExists, Step
<1>12. ASSUME NEW r \in Request, Unlink(r) PROVE G
  BY <1>12 DEF Unlink, Step
<1>13. ASSUME NEW r \in Request, DeleteRow(r) PROVE G
  BY <1>13 DEF DeleteRow, Step
<1>14. ASSUME NEW r \in Request, NEW k \in {"download", "view"}, NEW d \in
      documents, Download(r, k, d.id) PROVE G
  BY <1>14 DEF Download, Step, Joins
<1>15. ASSUME NEW r \in Request, FindOne(r) PROVE G
  BY <1>15 DEF FindOne, FindRow, Step
<1>16. ASSUME NEW r \in Request, Access(r) PROVE G
  BY <1>16 DEF Access, Step
<1>17. ASSUME NEW r \in Request, Send(r) PROVE G
  BY <1>17 DEF Send, Step
<1>18. ASSUME NEW r \in Request, SendFails(r) PROVE G
  BY <1>18 DEF SendFails, Died
<1>19. CASE RemoveCustomer
  BY <1>19 DEF RemoveCustomer
<1>20. ASSUME NEW r \in Request, Abort(r) PROVE G
  BY <1>20 DEF Abort
<1>21. CASE Restart
  BY <1>21 DEF Restart, Died
<1>22. CASE UNCHANGED vars
  BY <1>22 DEF vars
<1>23. ASSUME NEW r \in Request, Log(r) PROVE G
  BY <1>23 DEF Log, Step
<1>24. CASE OpenForm
  BY <1>24 DEF OpenForm
<1>25. ASSUME NEW d \in forms, SaveForm(d) PROVE G
  BY <1>25 DEF SaveForm
<1> HIDE DEF G, history, TypeOK, Settled, Wrong, Final, InFlight,
     UploadSteps, RemoveSteps, DownloadSteps
<1> QED
  BY <1>1, <1>2, <1>3, <1>4, <1>5, <1>6, <1>7, <1>8, <1>9, <1>10, <1>11,
     <1>12, <1>13, <1>14, <1>15, <1>16, <1>17, <1>18, <1>19, <1>20, <1>21,
     <1>22, <1>23, <1>24, <1>25 DEF Next, UploadStep, RemoveStep, DownloadStep

\* Which steps write to the disk, the tables and the history.
LEMMA Writers ==
  ASSUME TypeOK, [Next]_vars
  PROVE  /\ files' = files \/ \E q \in Request : Rename(q) \/ Unlink(q)
         /\ \/ documents' = documents
            \/ RemoveCustomer
            \/ \E q \in Request : InsertDocument(q) \/ DeleteRow(q)
         /\ \/ customer' = customer
            \/ RemoveCustomer
            \/ \E q \in Request : UpdateLast(q)
            \/ putBack'
         /\ customer'.exists => customer.exists
         /\ met \subseteq met'
         /\ crossed => crossed'
         /\ putBack => putBack'
<1> DEFINE G ==
       /\ files' = files \/ \E q \in Request : Rename(q) \/ Unlink(q)
       /\ \/ documents' = documents
          \/ RemoveCustomer
          \/ \E q \in Request : InsertDocument(q) \/ DeleteRow(q)
       /\ \/ customer' = customer
          \/ RemoveCustomer
          \/ \E q \in Request : UpdateLast(q)
          \/ putBack'
       /\ customer'.exists => customer.exists
       /\ met \subseteq met'
       /\ crossed => crossed'
       /\ putBack => putBack'
<1> SUFFICES G
  OBVIOUS
<1> USE DEF history, TypeOK
<1>1. ASSUME NEW r \in Request, NEW k \in Key, NEW d \in Date, Upload(r, k,
      d) PROVE G
  BY <1>1 DEF Upload, Step, Joins
<1>2. ASSUME NEW r \in Request, IsAssigned(r) PROVE G
  BY <1>2 DEF IsAssigned, Step
<1>3. ASSUME NEW r \in Request, Lookup(r) PROVE G
  BY <1>3 DEF Lookup, Step
<1>4. ASSUME NEW r \in Request, Probe(r) PROVE G
  BY <1>4 DEF Probe, Step
<1>5. ASSUME NEW r \in Request, Rename(r) PROVE G
  BY <1>5 DEF Rename, Step
<1>6. ASSUME NEW r \in Request, InsertDocument(r) PROVE G
  BY <1>6 DEF InsertDocument, Step
<1>7. ASSUME NEW r \in Request, UpdateLast(r) PROVE G
  BY <1>7 DEF UpdateLast, Step
<1>8. ASSUME NEW r \in Request, Catch(r) PROVE G
  BY <1>8 DEF Catch, Step
<1>9. ASSUME NEW r \in Request, NEW d \in documents, Remove(r, d.id) PROVE G
  BY <1>9 DEF Remove, Step, Joins
<1>10. ASSUME NEW r \in Request, Find(r) PROVE G
  BY <1>10 DEF Find, FindRow, Step
<1>11. ASSUME NEW r \in Request, FileExists(r) PROVE G
  BY <1>11 DEF FileExists, Step
<1>12. ASSUME NEW r \in Request, Unlink(r) PROVE G
  BY <1>12 DEF Unlink, Step
<1>13. ASSUME NEW r \in Request, DeleteRow(r) PROVE G
  BY <1>13 DEF DeleteRow, Step
<1>14. ASSUME NEW r \in Request, NEW k \in {"download", "view"}, NEW d \in
      documents, Download(r, k, d.id) PROVE G
  BY <1>14 DEF Download, Step, Joins
<1>15. ASSUME NEW r \in Request, FindOne(r) PROVE G
  BY <1>15 DEF FindOne, FindRow, Step
<1>16. ASSUME NEW r \in Request, Access(r) PROVE G
  BY <1>16 DEF Access, Step
<1>17. ASSUME NEW r \in Request, Send(r) PROVE G
  BY <1>17 DEF Send, Step
<1>18. ASSUME NEW r \in Request, SendFails(r) PROVE G
  BY <1>18 DEF SendFails, Died
<1>19. CASE RemoveCustomer
  BY <1>19 DEF RemoveCustomer
<1>20. ASSUME NEW r \in Request, Abort(r) PROVE G
  BY <1>20 DEF Abort
<1>21. CASE Restart
  BY <1>21 DEF Restart, Died
<1>22. CASE UNCHANGED vars
  BY <1>22 DEF vars
<1>23. ASSUME NEW r \in Request, Log(r) PROVE G
  BY <1>23 DEF Log, Step
<1>24. CASE OpenForm
  BY <1>24 DEF OpenForm
<1>25. ASSUME NEW d \in forms, SaveForm(d) PROVE G
  BY <1>25 DEF SaveForm
<1> HIDE DEF G, history, TypeOK
<1> QED
  BY <1>1, <1>2, <1>3, <1>4, <1>5, <1>6, <1>7, <1>8, <1>9, <1>10, <1>11,
     <1>12, <1>13, <1>14, <1>15, <1>16, <1>17, <1>18, <1>19, <1>20, <1>21,
     <1>22, <1>23, <1>24, <1>25 DEF Next, UploadStep, RemoveStep, DownloadStep

\* How a handler gets to the places where it remembers something.
LEMMA Arrives ==
  ASSUME TypeOK, [Next]_vars, NEW q \in Request
  PROVE  /\ \/ job'[q] = job[q] /\ pc'[q] = pc[q] /\ local'[q] = local[q]
            \/ pc'[q] \in Final \cup Starts
            \/ Lookup(q) \/ Probe(q) \/ Rename(q) \/ InsertDocument(q)
            \/ Find(q) \/ FileExists(q) \/ Unlink(q) \/ FindOne(q) \/ Access(q)
         /\ pc[q] = "insert" => InsertDocument(q) \/ pc'[q] \in {"insert"} \cup Wrong
         /\ pc[q] = "updateLast" => UpdateLast(q) \/ pc'[q] \in {"updateLast"} \cup Wrong
         /\ pc[q] = "deleteRow" => DeleteRow(q) \/ pc'[q] \in {"deleteRow"} \cup Wrong
         /\ \/ served'[q] = served[q]
            \/ Send(q)
<1> DEFINE G ==
       /\ \/ job'[q] = job[q] /\ pc'[q] = pc[q] /\ local'[q] = local[q]
          \/ pc'[q] \in Final \cup Starts
          \/ Lookup(q) \/ Probe(q) \/ Rename(q) \/ InsertDocument(q)
          \/ Find(q) \/ FileExists(q) \/ Unlink(q) \/ FindOne(q) \/ Access(q)
       /\ pc[q] = "insert" => InsertDocument(q) \/ pc'[q] \in {"insert"} \cup Wrong
       /\ pc[q] = "updateLast" => UpdateLast(q) \/ pc'[q] \in {"updateLast"} \cup Wrong
       /\ pc[q] = "deleteRow" => DeleteRow(q) \/ pc'[q] \in {"deleteRow"} \cup Wrong
       /\ \/ served'[q] = served[q]
          \/ Send(q)
<1> SUFFICES G
  OBVIOUS
<1> USE DEF history, TypeOK, Wrong, Final, Starts, InFlight, UploadSteps,
     RemoveSteps, DownloadSteps
<1>1. ASSUME NEW r \in Request, NEW k \in Key, NEW d \in Date, Upload(r, k,
      d) PROVE G
  BY <1>1 DEF Upload, Step, Joins
<1>2. ASSUME NEW r \in Request, IsAssigned(r) PROVE G
  BY <1>2 DEF IsAssigned, Step
<1>3. ASSUME NEW r \in Request, Lookup(r) PROVE G
  BY <1>3 DEF Lookup, Step
<1>4. ASSUME NEW r \in Request, Probe(r) PROVE G
  BY <1>4 DEF Probe, Step
<1>5. ASSUME NEW r \in Request, Rename(r) PROVE G
  BY <1>5 DEF Rename, Step
<1>6. ASSUME NEW r \in Request, InsertDocument(r) PROVE G
  BY <1>6 DEF InsertDocument, Step
<1>7. ASSUME NEW r \in Request, UpdateLast(r) PROVE G
  BY <1>7 DEF UpdateLast, Step
<1>8. ASSUME NEW r \in Request, Catch(r) PROVE G
  BY <1>8 DEF Catch, Step
<1>9. ASSUME NEW r \in Request, NEW d \in documents, Remove(r, d.id) PROVE G
  BY <1>9 DEF Remove, Step, Joins
<1>10. ASSUME NEW r \in Request, Find(r) PROVE G
  BY <1>10 DEF Find, FindRow, Step
<1>11. ASSUME NEW r \in Request, FileExists(r) PROVE G
  BY <1>11 DEF FileExists, Step
<1>12. ASSUME NEW r \in Request, Unlink(r) PROVE G
  BY <1>12 DEF Unlink, Step
<1>13. ASSUME NEW r \in Request, DeleteRow(r) PROVE G
  BY <1>13 DEF DeleteRow, Step
<1>14. ASSUME NEW r \in Request, NEW k \in {"download", "view"}, NEW d \in
      documents, Download(r, k, d.id) PROVE G
  BY <1>14 DEF Download, Step, Joins
<1>15. ASSUME NEW r \in Request, FindOne(r) PROVE G
  BY <1>15 DEF FindOne, FindRow, Step
<1>16. ASSUME NEW r \in Request, Access(r) PROVE G
  BY <1>16 DEF Access, Step
<1>17. ASSUME NEW r \in Request, Send(r) PROVE G
  BY <1>17 DEF Send, Step
<1>18. ASSUME NEW r \in Request, SendFails(r) PROVE G
  BY <1>18 DEF SendFails, Died
<1>19. CASE RemoveCustomer
  BY <1>19 DEF RemoveCustomer
<1>20. ASSUME NEW r \in Request, Abort(r) PROVE G
  BY <1>20 DEF Abort
<1>21. CASE Restart
  BY <1>21 DEF Restart, Died
<1>22. CASE UNCHANGED vars
  BY <1>22 DEF vars
<1>23. ASSUME NEW r \in Request, Log(r) PROVE G
  BY <1>23 DEF Log, Step
<1>24. CASE OpenForm
  BY <1>24 DEF OpenForm
<1>25. ASSUME NEW d \in forms, SaveForm(d) PROVE G
  BY <1>25 DEF SaveForm
<1> HIDE DEF G, history, TypeOK, Wrong, Final, Starts, InFlight, UploadSteps,
     RemoveSteps, DownloadSteps
<1> QED
  BY <1>1, <1>2, <1>3, <1>4, <1>5, <1>6, <1>7, <1>8, <1>9, <1>10, <1>11,
     <1>12, <1>13, <1>14, <1>15, <1>16, <1>17, <1>18, <1>19, <1>20, <1>21,
     <1>22, <1>23, <1>24, <1>25 DEF Next, UploadStep, RemoveStep, DownloadStep

\* The numbers probed in vain belong to different uploads, so a name is found
\* before there are more numbers than requests.
LEMMA RoomToProbe ==
  ASSUME TypeOK, FilesAreMoved, ProbesAreTaken,
         NEW r \in Request, pc[r] = "probe", Exists(<<job[r].key, local[r].number>>)
  PROVE  /\ local[r].number + 1 \in 0..Cardinality(Request)
         /\ \E q \in Request : pc[q] \in Settled /\ local[q].filepath[2] = local[r].number
<1> DEFINE n == local[r].number
           p == <<job[r].key, n>>
<1>1. n \in 0..Cardinality(Request) /\ n \in Nat /\ p \in Path
  BY DEF TypeOK, Local, Job, Path
<1>2. Cardinality(Request) \in Nat
  BY DocumentsAssumption, FS_CardinalityType
<1>3. files[p] \in Request /\ pc[files[p]] \in Settled /\ local[files[p]].filepath[2] = n
  <2>1. files[p] \in Request
    BY <1>1 DEF TypeOK, Exists
  <2>2. pc[files[p]] \in Settled /\ local[files[p]].filepath = p
    BY <1>1 DEF FilesAreMoved
  <2> QED
    BY <2>1, <2>2
<1>4. \A i \in 0..n : \E q \in Request : pc[q] \in Settled /\ local[q].filepath[2] = i
  BY <1>1, <1>2, <1>3 DEF ProbesAreTaken
<1> DEFINE f == [i \in 0..n |->
                   CHOOSE q \in Request : pc[q] \in Settled /\ local[q].filepath[2] = i]
<1>5. \A i \in 0..n : f[i] \in Request /\ local[f[i]].filepath[2] = i
  BY <1>4
<1>6. f \in Injection(0..n, Request)
  <2>1. f \in [0..n -> Request]
    BY <1>5
  <2> HIDE DEF f
  <2>2. \A i, j \in 0..n : f[i] = f[j] => i = j
    BY <1>5
  <2>3. DOMAIN f = 0..n
    BY <2>1
  <2> QED
    BY <2>1, <2>2, <2>3 DEF Injection, IsInjective
<1>7. Cardinality(0..n) <= Cardinality(Request)
  BY <1>6, FS_Injection, DocumentsAssumption
<1>8. Cardinality(0..n) = n + 1
  BY <1>1, FS_Interval
<1> QED
  BY <1>1, <1>2, <1>3, <1>7, <1>8

\* What a handler remembers keeps its type.
LEMMA LocalUpdates ==
  ASSUME NEW l \in Local
  PROVE  /\ \A last \in {0} \cup Date :
              [l EXCEPT !.last = last, !.number = 0] \in Local
         /\ \A n \in 0..Cardinality(Request) : [l EXCEPT !.number = n] \in Local
         /\ \A p \in Path : [l EXCEPT !.filepath = p] \in Local
<1>1. 0 \in 0..Cardinality(Request)
  BY DocumentsAssumption, FS_CardinalityType
<1> HIDE DEF Path
<1>2. ASSUME NEW last \in {0} \cup Date
      PROVE  [l EXCEPT !.last = last, !.number = 0] \in Local
  BY <1>1 DEF Local
<1>3. ASSUME NEW n \in 0..Cardinality(Request) PROVE [l EXCEPT !.number = n] \in Local
  BY DEF Local
<1>4. ASSUME NEW p \in Path PROVE [l EXCEPT !.filepath = p] \in Local
  BY DEF Local
<1> QED
  BY <1>2, <1>3, <1>4

\* Every step keeps the types.
LEMMA TypeStep ==
  ASSUME TypeOK, FilesAreMoved, ProbesAreTaken, [Next]_vars
  PROVE  TypeOK'
<1> USE DEF history, TypeOK, Local, Job, Document, Path, Final, InFlight,
     UploadSteps, RemoveSteps, DownloadSteps
<1>1. ASSUME NEW r \in Request, NEW k \in Key, NEW d \in Date, Upload(r, k,
      d) PROVE TypeOK'
  BY <1>1 DEF Upload, Step, Joins
<1>2. ASSUME NEW r \in Request, IsAssigned(r) PROVE TypeOK'
  BY <1>2 DEF IsAssigned, Step
<1>3. ASSUME NEW r \in Request, Lookup(r) PROVE TypeOK'
  <2>1. local' = [local EXCEPT ![r] = [@ EXCEPT !.last = customer.last, !.number = 0]]
    BY <1>3 DEF Lookup
  <2>2. [local[r] EXCEPT !.last = customer.last, !.number = 0] \in Local
    BY LocalUpdates
  <2> HIDE DEF Local
  <2>3. local' \in [Request -> Local]
    BY <2>1, <2>2
  <2>4. pc' \in [Request -> {"idle"} \cup InFlight \cup Final]
    BY <1>3 DEF Lookup, Step
  <2> QED
    BY <1>3, <2>3, <2>4 DEF Lookup
<1>4. ASSUME NEW r \in Request, Probe(r) PROVE TypeOK'
  <2> DEFINE p == <<job[r].key, local[r].number>>
  <2>1. p \in Path
    OBVIOUS
  <2>2. CASE Exists(p)
    <3>1. PICK n \in 0..Cardinality(Request) : n = local[r].number + 1
      BY <1>4, <2>2, RoomToProbe DEF Probe, Step
    <3>2. [local[r] EXCEPT !.number = n] \in Local
      BY LocalUpdates
    <3> QED
      BY <1>4, <2>2, <3>1, <3>2 DEF Probe, Step
  <2>3. CASE ~Exists(p)
    <3>1. [local[r] EXCEPT !.filepath = p] \in Local
      BY <2>1, LocalUpdates
    <3> QED
      BY <1>4, <2>3, <3>1 DEF Probe, Step
  <2> QED
    BY <2>2, <2>3
<1>5. ASSUME NEW r \in Request, Rename(r) PROVE TypeOK'
  BY <1>5 DEF Rename, Step
<1>6. ASSUME NEW r \in Request, InsertDocument(r) PROVE TypeOK'
  BY <1>6 DEF InsertDocument, Step
<1>7. ASSUME NEW r \in Request, UpdateLast(r) PROVE TypeOK'
  BY <1>7 DEF UpdateLast, Step
<1>8. ASSUME NEW r \in Request, Catch(r) PROVE TypeOK'
  BY <1>8 DEF Catch, Step
<1>9. ASSUME NEW r \in Request, NEW d \in documents, Remove(r, d.id) PROVE
      TypeOK'
  BY <1>9 DEF Remove, Step, Joins
<1>10. ASSUME NEW r \in Request, Find(r) PROVE TypeOK'
  <2>1. local'[r] \in Local
    <3>1. CASE RowOf(job[r].doc) # {}
      <4>1. PICK d \in documents : d = (CHOOSE e \in RowOf(job[r].doc) : TRUE)
        BY <3>1 DEF RowOf
      <4>2. PICK p \in Path : p = d.filepath
        OBVIOUS
      <4>3. local' = [local EXCEPT ![r] = [@ EXCEPT !.filepath = p]]
        BY <1>10, <3>1, <4>1, <4>2 DEF Find, FindRow
      <4> QED
        BY <4>3, LocalUpdates
    <3>2. CASE RowOf(job[r].doc) = {}
      <4>1. local' = [local EXCEPT ![r] = [@ EXCEPT !.filepath = local[r].filepath]]
        BY <1>10, <3>2 DEF Find, FindRow
      <4>2. local[r].filepath \in Path
        OBVIOUS
      <4> QED
        BY <4>1, <4>2, LocalUpdates
    <3> QED
      BY <3>1, <3>2
  <2>2. local' = [local EXCEPT ![r] = local'[r]]
    BY <1>10 DEF Find, FindRow
  <2>3. pc' \in [Request -> {"idle"} \cup InFlight \cup Final]
    BY <1>10 DEF Find, FindRow, Step
  <2> QED
    BY <1>10, <2>1, <2>2, <2>3 DEF Find, FindRow
<1>11. ASSUME NEW r \in Request, FileExists(r) PROVE TypeOK'
  BY <1>11 DEF FileExists, Step
<1>12. ASSUME NEW r \in Request, Unlink(r) PROVE TypeOK'
  BY <1>12 DEF Unlink, Step
<1>13. ASSUME NEW r \in Request, DeleteRow(r) PROVE TypeOK'
  BY <1>13 DEF DeleteRow, Step
<1>14. ASSUME NEW r \in Request, NEW k \in {"download", "view"}, NEW d \in
      documents, Download(r, k, d.id) PROVE TypeOK'
  BY <1>14 DEF Download, Step, Joins
<1>15. ASSUME NEW r \in Request, FindOne(r) PROVE TypeOK'
  <2>1. local'[r] \in Local
    <3>1. CASE RowOf(job[r].doc) # {}
      <4>1. PICK d \in documents : d = (CHOOSE e \in RowOf(job[r].doc) : TRUE)
        BY <3>1 DEF RowOf
      <4>2. PICK p \in Path : p = d.filepath
        OBVIOUS
      <4>3. local' = [local EXCEPT ![r] = [@ EXCEPT !.filepath = p]]
        BY <1>15, <3>1, <4>1, <4>2 DEF FindOne, FindRow
      <4> QED
        BY <4>3, LocalUpdates
    <3>2. CASE RowOf(job[r].doc) = {}
      <4>1. local' = [local EXCEPT ![r] = [@ EXCEPT !.filepath = local[r].filepath]]
        BY <1>15, <3>2 DEF FindOne, FindRow
      <4>2. local[r].filepath \in Path
        OBVIOUS
      <4> QED
        BY <4>1, <4>2, LocalUpdates
    <3> QED
      BY <3>1, <3>2
  <2>2. local' = [local EXCEPT ![r] = local'[r]]
    BY <1>15 DEF FindOne, FindRow
  <2>3. pc' \in [Request -> {"idle"} \cup InFlight \cup Final]
    BY <1>15 DEF FindOne, FindRow, Step
  <2> QED
    BY <1>15, <2>1, <2>2, <2>3 DEF FindOne, FindRow
<1>16. ASSUME NEW r \in Request, Access(r) PROVE TypeOK'
  BY <1>16 DEF Access, Step
<1>17. ASSUME NEW r \in Request, Send(r) PROVE TypeOK'
  BY <1>17 DEF Send, Step
<1>18. ASSUME NEW r \in Request, SendFails(r) PROVE TypeOK'
  BY <1>18 DEF SendFails, Died
<1>19. CASE RemoveCustomer
  BY <1>19 DEF RemoveCustomer
<1>20. ASSUME NEW r \in Request, Abort(r) PROVE TypeOK'
  BY <1>20 DEF Abort
<1>21. CASE Restart
  BY <1>21 DEF Restart, Died
<1>22. CASE UNCHANGED vars
  BY <1>22 DEF vars
<1>23. ASSUME NEW r \in Request, Log(r) PROVE TypeOK'
  BY <1>23 DEF Log, Step
<1>24. CASE OpenForm
  BY <1>24 DEF OpenForm
<1>25. ASSUME NEW d \in forms, SaveForm(d) PROVE TypeOK'
  BY <1>25 DEF SaveForm
<1> HIDE DEF history, TypeOK, Local, Job, Document, Path, Final, InFlight,
     UploadSteps, RemoveSteps, DownloadSteps
<1> QED
  BY <1>1, <1>2, <1>3, <1>4, <1>5, <1>6, <1>7, <1>8, <1>9, <1>10, <1>11,
     <1>12, <1>13, <1>14, <1>15, <1>16, <1>17, <1>18, <1>19, <1>20, <1>21,
     <1>22, <1>23, <1>24, <1>25 DEF Next, UploadStep, RemoveStep, DownloadStep

\* A calm key was calm before the step.
LEMMA CalmBack ==
  ASSUME TypeOK, [Next]_vars, NEW k \in Key, Calm(k)'
  PROVE  Calm(k)
<1>1. k \notin met /\ customer.exists
  BY Writers DEF Calm
<1>2. ASSUME NEW q \in Request, job[q].key = k PROVE pc[q] \notin Wrong
  <2>1. CASE pc[q] = "idle"
    BY <2>1 DEF Wrong
  <2>2. CASE pc[q] # "idle"
    <3>1. job'[q] = job[q] /\ (pc[q] \in Wrong => pc'[q] \in Wrong)
      BY <2>2, Grows
    <3>2. pc'[q] \notin Wrong
      BY <1>2, <3>1 DEF Calm, Wrong
    <3> QED
      BY <3>1, <3>2
  <2> QED
    BY <2>1, <2>2
<1> QED
  BY <1>1, <1>2 DEF Calm, Wrong

\* Only Rename puts a file at a path, and only after its handler chose the path.
LEMMA FilesStep ==
  ASSUME TypeOK, TypeOK', FilesAreMoved, JobsFit, [Next]_vars
  PROVE  FilesAreMoved'
<1> SUFFICES ASSUME NEW p \in Path, Exists(p)'
             PROVE  /\ pc'[files'[p]] \in Settled
                    /\ local'[files'[p]].filepath = p
                    /\ job'[files'[p]].key = p[1]
  BY DEF FilesAreMoved
<1> DEFINE q == files'[p]
<1>1. CASE files'[p] = files[p]
  <2>1. q \in Request /\ pc[q] \in Settled /\ local[q].filepath = p /\ job[q].key = p[1]
    BY <1>1 DEF TypeOK, FilesAreMoved, Exists
  <2>2. pc'[q] \in Settled /\ local'[q] = local[q] /\ job'[q] = job[q]
    BY <2>1, Grows DEF Settled, Final
  <2> QED
    BY <2>1, <2>2
<1>2. CASE files'[p] # files[p]
  <2>1. PICK r \in Request : Rename(r) \/ Unlink(r)
    BY <1>2, Writers
  <2>2. q = r /\ Rename(r) /\ p = local[r].filepath
    BY <1>2, <2>1 DEF Rename, Unlink, TypeOK, Exists
  <2>3. pc[r] = "rename" /\ pc' = [pc EXCEPT ![r] = "insert"] /\ UNCHANGED <<job, local>>
    BY <2>2 DEF Rename, Step
  <2>4. pc'[r] = "insert"
    BY <2>3 DEF TypeOK
  <2> QED
    BY <2>2, <2>3, <2>4 DEF JobsFit, Settled
<1> QED
  BY <1>1, <1>2

\* Only InsertDocument creates a row, from what its handler chose and was sent.
LEMMA RowsStep ==
  ASSUME TypeOK, TypeOK', RowsAreOwn, JobsFit, [Next]_vars
  PROVE  RowsAreOwn'
<1> SUFFICES ASSUME NEW d \in documents'
             PROVE  /\ pc'[d.id] \in Settled \ {"insert"}
                    /\ local'[d.id].filepath = d.filepath
                    /\ job'[d.id].key = d.filepath[1]
                    /\ job'[d.id].date = d.inspectionDate
  BY DEF RowsAreOwn
<1>1. CASE d \in documents
  <2> DEFINE q == d.id
  <2>1. q \in Request
    BY <1>1 DEF TypeOK, Document
  <2>2. pc[q] \in Settled \ {"insert"} /\ pc[q] # "idle"
    BY <1>1 DEF RowsAreOwn, Settled, Final
  <2>3. pc'[q] \in Settled \ {"insert"} /\ local'[q] = local[q] /\ job'[q] = job[q]
    BY <2>1, <2>2, Grows
  <2> QED
    BY <1>1, <2>3 DEF RowsAreOwn
<1>2. CASE d \notin documents
  <2>1. PICK r \in Request : InsertDocument(r)
    BY <1>2, Writers DEF RemoveCustomer, DeleteRow
  <2>2. d = [id |-> r, filepath |-> local[r].filepath, inspectionDate |-> job[r].date]
        /\ customer.exists
    BY <1>2, <2>1 DEF InsertDocument
  <2>3. pc[r] = "insert" /\ pc'[r] \in {"updateLast", "log"} /\ UNCHANGED <<job, local>>
    BY <2>1, <2>2 DEF InsertDocument, Step, TypeOK
  <2> QED
    BY <2>2, <2>3 DEF JobsFit, Settled, Final
<1> QED
  BY <1>1, <1>2

\* A number is probed in vain only if a file, hence a settled upload, was there.
LEMMA ProbesStep ==
  ASSUME TypeOK, TypeOK', FilesAreMoved, ProbesAreTaken, [Next]_vars
  PROVE  ProbesAreTaken'
<1> SUFFICES ASSUME NEW r \in Request, pc'[r] = "probe",
                    NEW i \in 0..Cardinality(Request), i < local'[r].number
             PROVE  \E q \in Request : pc'[q] \in Settled /\ local'[q].filepath[2] = i
  BY DEF ProbesAreTaken
<1>1. ASSUME NEW q \in Request, pc[q] \in Settled, local[q].filepath[2] = i
      PROVE  pc'[q] \in Settled /\ local'[q].filepath[2] = i
  BY <1>1, Grows
<1>2. CASE pc[r] = "probe" /\ i < local[r].number
  BY <1>1, <1>2 DEF ProbesAreTaken
<1>3. CASE ~(pc[r] = "probe" /\ i < local[r].number)
  <2>1. Lookup(r) \/ Probe(r)
    BY <1>3, Arrives DEF Final, Starts, Rename, InsertDocument, Find, FindRow, FileExists,
       Unlink, FindOne, Access, Step, TypeOK
  <2>2. ~Lookup(r)
    <3>1. CASE Lookup(r)
      <4>1. local' = [local EXCEPT ![r] = [@ EXCEPT !.last = customer.last, !.number = 0]]
        BY <3>1 DEF Lookup
      <4>2. local'[r].number = 0
        BY <4>1 DEF TypeOK, Local
      <4> QED
        BY <4>2
    <3> QED
      BY <3>1
  <2>3. Probe(r)
    BY <2>1, <2>2
  <2>4. pc[r] = "probe" /\ Exists(<<job[r].key, local[r].number>>)
        /\ local' = [local EXCEPT ![r].number = @ + 1]
    BY <2>3 DEF Probe, Step, TypeOK
  <2>5. local[r].number \in Nat /\ local'[r].number = local[r].number + 1
    BY <2>4 DEF TypeOK, Local
  <2>6. i = local[r].number
    BY <1>3, <2>4, <2>5
  <2>7. \E q \in Request : pc[q] \in Settled /\ local[q].filepath[2] = local[r].number
    BY <2>4, RoomToProbe
  <2> QED
    BY <1>1, <2>6, <2>7
<1> QED
  BY <1>2, <1>3

\* The temporary file goes with the rename, with the refusal or in the catch block.
LEMMA TempsStep ==
  ASSUME TypeOK, TypeOK', TempsAreEarly, [Next]_vars
  PROVE  TempsAreEarly'
<1> USE DEF history, TypeOK, TempsAreEarly, Final, InFlight, UploadSteps,
     RemoveSteps, DownloadSteps
<1>1. ASSUME NEW r \in Request, NEW k \in Key, NEW d \in Date, Upload(r, k,
      d) PROVE TempsAreEarly'
  BY <1>1 DEF Upload, Step, Joins
<1>2. ASSUME NEW r \in Request, IsAssigned(r) PROVE TempsAreEarly'
  BY <1>2 DEF IsAssigned, Step
<1>3. ASSUME NEW r \in Request, Lookup(r) PROVE TempsAreEarly'
  BY <1>3 DEF Lookup, Step
<1>4. ASSUME NEW r \in Request, Probe(r) PROVE TempsAreEarly'
  BY <1>4 DEF Probe, Step
<1>5. ASSUME NEW r \in Request, Rename(r) PROVE TempsAreEarly'
  BY <1>5 DEF Rename, Step
<1>6. ASSUME NEW r \in Request, InsertDocument(r) PROVE TempsAreEarly'
  BY <1>6 DEF InsertDocument, Step
<1>7. ASSUME NEW r \in Request, UpdateLast(r) PROVE TempsAreEarly'
  BY <1>7 DEF UpdateLast, Step
<1>8. ASSUME NEW r \in Request, Catch(r) PROVE TempsAreEarly'
  BY <1>8 DEF Catch, Step
<1>9. ASSUME NEW r \in Request, NEW d \in documents, Remove(r, d.id) PROVE
      TempsAreEarly'
  BY <1>9 DEF Remove, Step, Joins
<1>10. ASSUME NEW r \in Request, Find(r) PROVE TempsAreEarly'
  BY <1>10 DEF Find, FindRow, Step
<1>11. ASSUME NEW r \in Request, FileExists(r) PROVE TempsAreEarly'
  BY <1>11 DEF FileExists, Step
<1>12. ASSUME NEW r \in Request, Unlink(r) PROVE TempsAreEarly'
  BY <1>12 DEF Unlink, Step
<1>13. ASSUME NEW r \in Request, DeleteRow(r) PROVE TempsAreEarly'
  BY <1>13 DEF DeleteRow, Step
<1>14. ASSUME NEW r \in Request, NEW k \in {"download", "view"}, NEW d \in
      documents, Download(r, k, d.id) PROVE TempsAreEarly'
  BY <1>14 DEF Download, Step, Joins
<1>15. ASSUME NEW r \in Request, FindOne(r) PROVE TempsAreEarly'
  BY <1>15 DEF FindOne, FindRow, Step
<1>16. ASSUME NEW r \in Request, Access(r) PROVE TempsAreEarly'
  BY <1>16 DEF Access, Step
<1>17. ASSUME NEW r \in Request, Send(r) PROVE TempsAreEarly'
  BY <1>17 DEF Send, Step
<1>18. ASSUME NEW r \in Request, SendFails(r) PROVE TempsAreEarly'
  BY <1>18 DEF SendFails, Died
<1>19. CASE RemoveCustomer
  BY <1>19 DEF RemoveCustomer
<1>20. ASSUME NEW r \in Request, Abort(r) PROVE TempsAreEarly'
  BY <1>20 DEF Abort
<1>21. CASE Restart
  BY <1>21 DEF Restart, Died
<1>22. CASE UNCHANGED vars
  BY <1>22 DEF vars
<1>23. ASSUME NEW r \in Request, Log(r) PROVE TempsAreEarly'
  BY <1>23 DEF Log, Step
<1>24. CASE OpenForm
  BY <1>24 DEF OpenForm
<1>25. ASSUME NEW d \in forms, SaveForm(d) PROVE TempsAreEarly'
  BY <1>25 DEF SaveForm
<1> HIDE DEF history, TypeOK, TempsAreEarly, Final, InFlight, UploadSteps,
     RemoveSteps, DownloadSteps
<1> QED
  BY <1>1, <1>2, <1>3, <1>4, <1>5, <1>6, <1>7, <1>8, <1>9, <1>10, <1>11,
     <1>12, <1>13, <1>14, <1>15, <1>16, <1>17, <1>18, <1>19, <1>20, <1>21,
     <1>22, <1>23, <1>24, <1>25 DEF Next, UploadStep, RemoveStep, DownloadStep

\* A request is served at the end of its handler.
LEMMA ServedStep ==
  ASSUME TypeOK, TypeOK', ServedIsDone, [Next]_vars
  PROVE  ServedIsDone'
<1> USE DEF history, TypeOK, ServedIsDone, Final, InFlight, UploadSteps,
     RemoveSteps, DownloadSteps
<1>1. ASSUME NEW r \in Request, NEW k \in Key, NEW d \in Date, Upload(r, k,
      d) PROVE ServedIsDone'
  BY <1>1 DEF Upload, Step, Joins
<1>2. ASSUME NEW r \in Request, IsAssigned(r) PROVE ServedIsDone'
  BY <1>2 DEF IsAssigned, Step
<1>3. ASSUME NEW r \in Request, Lookup(r) PROVE ServedIsDone'
  BY <1>3 DEF Lookup, Step
<1>4. ASSUME NEW r \in Request, Probe(r) PROVE ServedIsDone'
  BY <1>4 DEF Probe, Step
<1>5. ASSUME NEW r \in Request, Rename(r) PROVE ServedIsDone'
  BY <1>5 DEF Rename, Step
<1>6. ASSUME NEW r \in Request, InsertDocument(r) PROVE ServedIsDone'
  BY <1>6 DEF InsertDocument, Step
<1>7. ASSUME NEW r \in Request, UpdateLast(r) PROVE ServedIsDone'
  BY <1>7 DEF UpdateLast, Step
<1>8. ASSUME NEW r \in Request, Catch(r) PROVE ServedIsDone'
  BY <1>8 DEF Catch, Step
<1>9. ASSUME NEW r \in Request, NEW d \in documents, Remove(r, d.id) PROVE
      ServedIsDone'
  BY <1>9 DEF Remove, Step, Joins
<1>10. ASSUME NEW r \in Request, Find(r) PROVE ServedIsDone'
  BY <1>10 DEF Find, FindRow, Step
<1>11. ASSUME NEW r \in Request, FileExists(r) PROVE ServedIsDone'
  BY <1>11 DEF FileExists, Step
<1>12. ASSUME NEW r \in Request, Unlink(r) PROVE ServedIsDone'
  BY <1>12 DEF Unlink, Step
<1>13. ASSUME NEW r \in Request, DeleteRow(r) PROVE ServedIsDone'
  BY <1>13 DEF DeleteRow, Step
<1>14. ASSUME NEW r \in Request, NEW k \in {"download", "view"}, NEW d \in
      documents, Download(r, k, d.id) PROVE ServedIsDone'
  BY <1>14 DEF Download, Step, Joins
<1>15. ASSUME NEW r \in Request, FindOne(r) PROVE ServedIsDone'
  BY <1>15 DEF FindOne, FindRow, Step
<1>16. ASSUME NEW r \in Request, Access(r) PROVE ServedIsDone'
  BY <1>16 DEF Access, Step
<1>17. ASSUME NEW r \in Request, Send(r) PROVE ServedIsDone'
  BY <1>17 DEF Send, Step
<1>18. ASSUME NEW r \in Request, SendFails(r) PROVE ServedIsDone'
  BY <1>18 DEF SendFails, Died
<1>19. CASE RemoveCustomer
  BY <1>19 DEF RemoveCustomer
<1>20. ASSUME NEW r \in Request, Abort(r) PROVE ServedIsDone'
  BY <1>20 DEF Abort
<1>21. CASE Restart
  BY <1>21 DEF Restart, Died
<1>22. CASE UNCHANGED vars
  BY <1>22 DEF vars
<1>23. ASSUME NEW r \in Request, Log(r) PROVE ServedIsDone'
  BY <1>23 DEF Log, Step
<1>24. CASE OpenForm
  BY <1>24 DEF OpenForm
<1>25. ASSUME NEW d \in forms, SaveForm(d) PROVE ServedIsDone'
  BY <1>25 DEF SaveForm
<1> HIDE DEF history, TypeOK, ServedIsDone, Final, InFlight, UploadSteps,
     RemoveSteps, DownloadSteps
<1> QED
  BY <1>1, <1>2, <1>3, <1>4, <1>5, <1>6, <1>7, <1>8, <1>9, <1>10, <1>11,
     <1>12, <1>13, <1>14, <1>15, <1>16, <1>17, <1>18, <1>19, <1>20, <1>21,
     <1>22, <1>23, <1>24, <1>25 DEF Next, UploadStep, RemoveStep, DownloadStep

\* A lookup by id finds the row of the report that was named, or ends the request.
LEMMA RowFound ==
  ASSUME TypeOK, NEW r \in Request, Find(r) \/ FindOne(r)
  PROVE  /\ UNCHANGED <<files, temp, documents, customer, job, served, history>>
         /\ pc[r] \in {"find", "findOne"}
         /\ \A q \in Request : q # r => pc'[q] = pc[q] /\ local'[q] = local[q]
         /\ \/ pc'[r] = "done"
            \/ /\ pc'[r] \in {"exists", "access"}
               /\ \E d \in documents : d.id = job[r].doc /\ local'[r].filepath = d.filepath
<1>1. PICK from \in {"find", "findOne"}, to \in {"exists", "access"} : FindRow(r, from, to)
  BY DEF Find, FindOne
<1>2. UNCHANGED <<files, temp, documents, customer, job, served, history>>
  BY <1>1 DEF FindRow
<1>3. pc[r] = from /\ \A q \in Request : q # r => pc'[q] = pc[q] /\ local'[q] = local[q]
  BY <1>1 DEF FindRow, Step, TypeOK
<1>4. CASE RowOf(job[r].doc) = {}
  <2>1. pc'[r] = "done"
    BY <1>1, <1>4 DEF FindRow, Step, TypeOK
  <2> QED
    BY <1>2, <1>3, <2>1
<1>5. CASE RowOf(job[r].doc) # {}
  <2>1. PICK d \in RowOf(job[r].doc) : d = CHOOSE e \in RowOf(job[r].doc) : TRUE
    BY <1>5
  <2>2. d \in documents /\ d.id = job[r].doc
    BY DEF RowOf
  <2>3. pc'[r] = to
    BY <1>1, <1>5 DEF FindRow, Step, TypeOK
  <2>4. local' = [local EXCEPT ![r] = [@ EXCEPT !.filepath = d.filepath]]
    BY <1>1, <1>5, <2>1 DEF FindRow
  <2>5. local'[r].filepath = d.filepath
    BY <2>4 DEF TypeOK, Local
  <2> QED
    BY <1>2, <1>3, <2>2, <2>3, <2>5
<1> QED
  BY <1>4, <1>5

\* A handler that joins another one on its key is noted.
LEMMA OneStep ==
  ASSUME TypeOK, TypeOK', OneAtATime, [Next]_vars
  PROVE  OneAtATime'
<1> USE DEF history, TypeOK, OneAtATime, Job, Final, InFlight, UploadSteps,
     RemoveSteps, DownloadSteps
<1>1. ASSUME NEW r \in Request, NEW k \in Key, NEW d \in Date, Upload(r, k,
      d) PROVE OneAtATime'
  <2>1. \A q \in Request : q # r => pc'[q] = pc[q] /\ job'[q] = job[q]
    BY <1>1 DEF Upload, Step
  <2>2. pc[r] = "idle" /\ job'[r].key = k
    BY <1>1 DEF Upload, Step
  <2>3. (\E q \in Request : pc[q] \in InFlight /\ job[q].key = k) => k \in met'
    BY <1>1 DEF Upload, Joins
  <2>4. met \subseteq met' /\ (crossed => crossed')
    BY <1>1 DEF Upload, Joins
  <2>5. (\E q \in Request : pc[q] \in UploadSteps) => crossed'
    BY <1>1 DEF Upload
  <2> QED
    BY <2>1, <2>2, <2>3, <2>4, <2>5
<1>2. ASSUME NEW r \in Request, IsAssigned(r) PROVE OneAtATime'
  BY <1>2 DEF IsAssigned, Step
<1>3. ASSUME NEW r \in Request, Lookup(r) PROVE OneAtATime'
  BY <1>3 DEF Lookup, Step
<1>4. ASSUME NEW r \in Request, Probe(r) PROVE OneAtATime'
  BY <1>4 DEF Probe, Step
<1>5. ASSUME NEW r \in Request, Rename(r) PROVE OneAtATime'
  BY <1>5 DEF Rename, Step
<1>6. ASSUME NEW r \in Request, InsertDocument(r) PROVE OneAtATime'
  BY <1>6 DEF InsertDocument, Step
<1>7. ASSUME NEW r \in Request, UpdateLast(r) PROVE OneAtATime'
  BY <1>7 DEF UpdateLast, Step
<1>8. ASSUME NEW r \in Request, Catch(r) PROVE OneAtATime'
  BY <1>8 DEF Catch, Step
<1>9. ASSUME NEW r \in Request, NEW d \in documents, Remove(r, d.id) PROVE
      OneAtATime'
  BY <1>9 DEF Remove, Step, Joins
<1>10. ASSUME NEW r \in Request, Find(r) PROVE OneAtATime'
  BY <1>10 DEF Find, FindRow, Step
<1>11. ASSUME NEW r \in Request, FileExists(r) PROVE OneAtATime'
  BY <1>11 DEF FileExists, Step
<1>12. ASSUME NEW r \in Request, Unlink(r) PROVE OneAtATime'
  BY <1>12 DEF Unlink, Step
<1>13. ASSUME NEW r \in Request, DeleteRow(r) PROVE OneAtATime'
  BY <1>13 DEF DeleteRow, Step
<1>14. ASSUME NEW r \in Request, NEW k \in {"download", "view"}, NEW d \in
      documents, Download(r, k, d.id) PROVE OneAtATime'
  BY <1>14 DEF Download, Step, Joins
<1>15. ASSUME NEW r \in Request, FindOne(r) PROVE OneAtATime'
  BY <1>15 DEF FindOne, FindRow, Step
<1>16. ASSUME NEW r \in Request, Access(r) PROVE OneAtATime'
  BY <1>16 DEF Access, Step
<1>17. ASSUME NEW r \in Request, Send(r) PROVE OneAtATime'
  BY <1>17 DEF Send, Step
<1>18. ASSUME NEW r \in Request, SendFails(r) PROVE OneAtATime'
  BY <1>18 DEF SendFails, Died
<1>19. CASE RemoveCustomer
  BY <1>19 DEF RemoveCustomer
<1>20. ASSUME NEW r \in Request, Abort(r) PROVE OneAtATime'
  BY <1>20 DEF Abort
<1>21. CASE Restart
  BY <1>21 DEF Restart, Died
<1>22. CASE UNCHANGED vars
  BY <1>22 DEF vars
<1>23. ASSUME NEW r \in Request, Log(r) PROVE OneAtATime'
  BY <1>23 DEF Log, Step
<1>24. CASE OpenForm
  BY <1>24 DEF OpenForm
<1>25. ASSUME NEW d \in forms, SaveForm(d) PROVE OneAtATime'
  BY <1>25 DEF SaveForm
<1> HIDE DEF history, TypeOK, OneAtATime, Job, Final, InFlight, UploadSteps,
     RemoveSteps, DownloadSteps
<1> QED
  BY <1>1, <1>2, <1>3, <1>4, <1>5, <1>6, <1>7, <1>8, <1>9, <1>10, <1>11,
     <1>12, <1>13, <1>14, <1>15, <1>16, <1>17, <1>18, <1>19, <1>20, <1>21,
     <1>22, <1>23, <1>24, <1>25 DEF Next, UploadStep, RemoveStep, DownloadStep

\* A path is built from the key that was sent; a report that is named exists.
LEMMA JobsStep ==
  ASSUME TypeOK, TypeOK', RowsAreOwn, JobsFit, [Next]_vars
  PROVE  JobsFit'
<1> USE DEF history, TypeOK, JobsFit, Job, Local, Document, Path, Found,
     Final, InFlight, UploadSteps, RemoveSteps, DownloadSteps
<1>1. ASSUME NEW r \in Request, NEW k \in Key, NEW d \in Date, Upload(r, k,
      d) PROVE JobsFit'
  BY <1>1 DEF Upload, Step, Joins
<1>2. ASSUME NEW r \in Request, IsAssigned(r) PROVE JobsFit'
  BY <1>2 DEF IsAssigned, Step
<1>3. ASSUME NEW r \in Request, Lookup(r) PROVE JobsFit'
  BY <1>3 DEF Lookup, Step
<1>4. ASSUME NEW r \in Request, Probe(r) PROVE JobsFit'
  BY <1>4 DEF Probe, Step
<1>5. ASSUME NEW r \in Request, Rename(r) PROVE JobsFit'
  BY <1>5 DEF Rename, Step
<1>6. ASSUME NEW r \in Request, InsertDocument(r) PROVE JobsFit'
  BY <1>6 DEF InsertDocument, Step
<1>7. ASSUME NEW r \in Request, UpdateLast(r) PROVE JobsFit'
  BY <1>7 DEF UpdateLast, Step
<1>8. ASSUME NEW r \in Request, Catch(r) PROVE JobsFit'
  BY <1>8 DEF Catch, Step
<1>9. ASSUME NEW r \in Request, NEW d \in documents, Remove(r, d.id) PROVE
      JobsFit'
  <2>1. d.id \in Request /\ pc[d.id] # "idle" /\ pc[r] = "idle"
    BY <1>9 DEF Remove, Step, RowsAreOwn, Settled
  <2>2. job'[r].doc = d.id /\ job'[r].key = job[d.id].key
    BY <1>9 DEF Remove
  <2>3. \A q \in Request : q # r => pc'[q] = pc[q] /\ job'[q] = job[q]
    BY <1>9 DEF Remove, Step
  <2>4. UNCHANGED local /\ pc'[r] \in {"find", "findOne"}
    BY <1>9 DEF Remove, Step
  <2>5. ASSUME NEW q \in Request
        PROVE  /\ pc'[q] \in {"rename", "insert"} \cup Found => local'[q].filepath[1] = job'[q].key
               /\ pc'[q] \in {"find", "findOne"} \cup Found =>
                    job'[job'[q].doc].key = job'[q].key /\ pc'[job'[q].doc] # "idle"
    <3>1. CASE q = r
      <4>1. d.id # r /\ job'[d.id] = job[d.id] /\ pc'[d.id] # "idle"
        BY <2>1, <2>3
      <4>2. pc'[r] \notin {"rename", "insert"} \cup Found
        BY <2>4
      <4> QED
        BY <2>2, <3>1, <4>1, <4>2
    <3>2. CASE q # r
      <4>1. job'[q] = job[q] /\ pc'[q] = pc[q] /\ local'[q] = local[q] /\ job[q].doc \in Request
        BY <2>3, <2>4, <3>2
      <4>2. pc[q] \in {"find", "findOne"} \cup Found => job[q].doc # r
        BY <2>1
      <4> QED
        BY <2>3, <4>1, <4>2
    <3> QED
      BY <3>1, <3>2
  <2> QED
    BY <2>5
<1>10. ASSUME NEW r \in Request, Find(r) PROVE JobsFit'
  <2>1. \A q \in Request : q # r => pc'[q] = pc[q] /\ local'[q] = local[q]
    BY <1>10, RowFound
  <2>2. UNCHANGED job /\ pc[r] \in {"find", "findOne"}
    BY <1>10, RowFound
  <2>3. \/ pc'[r] = "done"
        \/ /\ pc'[r] \in {"exists", "access"}
           /\ \E d \in documents : d.id = job[r].doc /\ local'[r].filepath = d.filepath
    BY <1>10, RowFound
  <2>4. pc'[r] # "done" => local'[r].filepath[1] = job[r].key
    BY <2>2, <2>3 DEF RowsAreOwn
  <2>5. \A q \in Request : pc'[q] # "idle" \/ pc[q] = "idle"
    BY <2>1, <2>3
  <2>6. ASSUME NEW q \in Request
        PROVE  /\ pc'[q] \in {"rename", "insert"} \cup Found =>
                    local'[q].filepath[1] = job'[q].key
               /\ pc'[q] \in {"find", "findOne"} \cup Found =>
                    job'[job'[q].doc].key = job'[q].key /\ pc'[job'[q].doc] # "idle"
    <3>1. job[q].doc \in Request /\ job' = job
      BY <2>2
    <3>2. CASE q = r
      <4>1. job[job[r].doc].key = job[r].key /\ pc[job[r].doc] # "idle"
        BY <2>2
      <4>2. pc'[job[r].doc] # "idle"
        BY <3>1, <3>2, <4>1, <2>5
      <4> QED
        BY <2>3, <2>4, <3>1, <3>2, <4>1, <4>2
    <3>3. CASE q # r
      BY <2>1, <2>5, <3>1, <3>3
    <3> QED
      BY <3>2, <3>3
  <2> QED
    BY <2>6
<1>11. ASSUME NEW r \in Request, FileExists(r) PROVE JobsFit'
  BY <1>11 DEF FileExists, Step
<1>12. ASSUME NEW r \in Request, Unlink(r) PROVE JobsFit'
  BY <1>12 DEF Unlink, Step
<1>13. ASSUME NEW r \in Request, DeleteRow(r) PROVE JobsFit'
  BY <1>13 DEF DeleteRow, Step
<1>14. ASSUME NEW r \in Request, NEW k \in {"download", "view"}, NEW d \in
      documents, Download(r, k, d.id) PROVE JobsFit'
  <2>1. d.id \in Request /\ pc[d.id] # "idle" /\ pc[r] = "idle"
    BY <1>14 DEF Download, Step, RowsAreOwn, Settled
  <2>2. job'[r].doc = d.id /\ job'[r].key = job[d.id].key
    BY <1>14 DEF Download
  <2>3. \A q \in Request : q # r => pc'[q] = pc[q] /\ job'[q] = job[q]
    BY <1>14 DEF Download, Step
  <2>4. UNCHANGED local /\ pc'[r] \in {"find", "findOne"}
    BY <1>14 DEF Download, Step
  <2>5. ASSUME NEW q \in Request
        PROVE  /\ pc'[q] \in {"rename", "insert"} \cup Found => local'[q].filepath[1] = job'[q].key
               /\ pc'[q] \in {"find", "findOne"} \cup Found =>
                    job'[job'[q].doc].key = job'[q].key /\ pc'[job'[q].doc] # "idle"
    <3>1. CASE q = r
      <4>1. d.id # r /\ job'[d.id] = job[d.id] /\ pc'[d.id] # "idle"
        BY <2>1, <2>3
      <4>2. pc'[r] \notin {"rename", "insert"} \cup Found
        BY <2>4
      <4> QED
        BY <2>2, <3>1, <4>1, <4>2
    <3>2. CASE q # r
      <4>1. job'[q] = job[q] /\ pc'[q] = pc[q] /\ local'[q] = local[q] /\ job[q].doc \in Request
        BY <2>3, <2>4, <3>2
      <4>2. pc[q] \in {"find", "findOne"} \cup Found => job[q].doc # r
        BY <2>1
      <4> QED
        BY <2>3, <4>1, <4>2
    <3> QED
      BY <3>1, <3>2
  <2> QED
    BY <2>5
<1>15. ASSUME NEW r \in Request, FindOne(r) PROVE JobsFit'
  <2>1. \A q \in Request : q # r => pc'[q] = pc[q] /\ local'[q] = local[q]
    BY <1>15, RowFound
  <2>2. UNCHANGED job /\ pc[r] \in {"find", "findOne"}
    BY <1>15, RowFound
  <2>3. \/ pc'[r] = "done"
        \/ /\ pc'[r] \in {"exists", "access"}
           /\ \E d \in documents : d.id = job[r].doc /\ local'[r].filepath = d.filepath
    BY <1>15, RowFound
  <2>4. pc'[r] # "done" => local'[r].filepath[1] = job[r].key
    BY <2>2, <2>3 DEF RowsAreOwn
  <2>5. \A q \in Request : pc'[q] # "idle" \/ pc[q] = "idle"
    BY <2>1, <2>3
  <2>6. ASSUME NEW q \in Request
        PROVE  /\ pc'[q] \in {"rename", "insert"} \cup Found =>
                    local'[q].filepath[1] = job'[q].key
               /\ pc'[q] \in {"find", "findOne"} \cup Found =>
                    job'[job'[q].doc].key = job'[q].key /\ pc'[job'[q].doc] # "idle"
    <3>1. job[q].doc \in Request /\ job' = job
      BY <2>2
    <3>2. CASE q = r
      <4>1. job[job[r].doc].key = job[r].key /\ pc[job[r].doc] # "idle"
        BY <2>2
      <4>2. pc'[job[r].doc] # "idle"
        BY <3>1, <3>2, <4>1, <2>5
      <4> QED
        BY <2>3, <2>4, <3>1, <3>2, <4>1, <4>2
    <3>3. CASE q # r
      BY <2>1, <2>5, <3>1, <3>3
    <3> QED
      BY <3>2, <3>3
  <2> QED
    BY <2>6
<1>16. ASSUME NEW r \in Request, Access(r) PROVE JobsFit'
  BY <1>16 DEF Access, Step
<1>17. ASSUME NEW r \in Request, Send(r) PROVE JobsFit'
  BY <1>17 DEF Send, Step
<1>18. ASSUME NEW r \in Request, SendFails(r) PROVE JobsFit'
  BY <1>18 DEF SendFails, Died
<1>19. CASE RemoveCustomer
  BY <1>19 DEF RemoveCustomer
<1>20. ASSUME NEW r \in Request, Abort(r) PROVE JobsFit'
  BY <1>20 DEF Abort
<1>21. CASE Restart
  BY <1>21 DEF Restart, Died
<1>22. CASE UNCHANGED vars
  BY <1>22 DEF vars
<1>23. ASSUME NEW r \in Request, Log(r) PROVE JobsFit'
  BY <1>23 DEF Log, Step
<1>24. CASE OpenForm
  BY <1>24 DEF OpenForm
<1>25. ASSUME NEW d \in forms, SaveForm(d) PROVE JobsFit'
  BY <1>25 DEF SaveForm
<1> HIDE DEF history, TypeOK, JobsFit, Job, Local, Document, Path, Found,
     Final, InFlight, UploadSteps, RemoveSteps, DownloadSteps
<1> QED
  BY <1>1, <1>2, <1>3, <1>4, <1>5, <1>6, <1>7, <1>8, <1>9, <1>10, <1>11,
     <1>12, <1>13, <1>14, <1>15, <1>16, <1>17, <1>18, <1>19, <1>20, <1>21,
     <1>22, <1>23, <1>24, <1>25 DEF Next, UploadStep, RemoveStep, DownloadStep

\* On a calm key there is one handler at a time.
LEMMA Alone ==
  ASSUME OneAtATime, NEW q \in Request, NEW r \in Request, Calm(job[r].key),
         pc[q] \in InFlight, pc[r] \in InFlight, job[q].key = job[r].key
  PROVE  q = r
BY DEF OneAtATime, Calm

\* While a handler of a calm key stays where it is, nobody moves a file to its path
\* and nobody removes the row it found.
LEMMA Undisturbed ==
  ASSUME TypeOK, JobsFit, OneAtATime, [Next]_vars, NEW r \in Request,
         Calm(job[r].key), Calm(job[r].key)', pc'[r] = pc[r],
         pc[r] \in {"rename", "insert"} \cup Found
  PROVE  /\ files'[local[r].filepath] \in {files[local[r].filepath], NoFile}
         /\ pc[r] = "insert" => files'[local[r].filepath] = files[local[r].filepath]
         /\ pc[r] \in Found =>
              \A d \in documents : d.id = job[r].doc => d \in documents'
<1> DEFINE p == local[r].filepath
<1>1. pc[r] \in InFlight /\ p \in Path /\ p[1] = job[r].key
  BY DEF Found, InFlight, UploadSteps, RemoveSteps, DownloadSteps, TypeOK, Local, JobsFit
<1>2. ASSUME NEW q \in Request, Rename(q) \/ Unlink(q), local[q].filepath = p
      PROVE  q = r
  <2>1. pc[q] \in {"rename", "unlink"}
    BY <1>2 DEF Rename, Unlink, Step
  <2>2. pc[q] \in InFlight /\ job[q].key = job[r].key
    BY <1>1, <1>2, <2>1 DEF JobsFit, Found, InFlight, UploadSteps, RemoveSteps
  <2> QED
    BY <1>1, <2>2, Alone
<1>3. Rename(r) => pc'[r] = "insert" /\ pc[r] = "rename"
  BY DEF Rename, Step, TypeOK
<1>4. Unlink(r) => pc'[r] \in {"deleteRow", "failed"} /\ pc[r] = "unlink"
  BY DEF Unlink, Step, TypeOK
<1>5. files'[p] = files[p]
  <2>1. SUFFICES ASSUME files'[p] # files[p] PROVE FALSE
    OBVIOUS
  <2>2. PICK q \in Request : Rename(q) \/ Unlink(q)
    BY <2>1, Writers
  <2>3. p = local[q].filepath
    BY <1>1, <2>1, <2>2 DEF Rename, Unlink, TypeOK
  <2>4. q = r
    BY <1>2, <2>2, <2>3
  <2> QED
    BY <1>3, <1>4, <2>2, <2>4
<1>6. ASSUME pc[r] \in Found, NEW d \in documents, d.id = job[r].doc, d \notin documents'
      PROVE  FALSE
  <2>1. ~RemoveCustomer
    BY DEF RemoveCustomer, Calm, TypeOK
  <2>2. PICK q \in Request : DeleteRow(q)
    BY <1>6, <2>1, Writers DEF InsertDocument
  <2>3. pc[q] = "deleteRow" /\ pc'[q] \in {"logRemoval", "failed"} /\ job[q].doc = d.id
    BY <1>6, <2>2 DEF DeleteRow, Step, RowOf, TypeOK
  <2>4. job[q].key = job[r].key /\ pc[q] \in InFlight
    BY <1>6, <2>3 DEF JobsFit, Found, InFlight, RemoveSteps
  <2>5. q = r
    BY <1>1, <2>4, Alone
  <2> QED
    BY <2>3, <2>5
<1> QED
  BY <1>5, <1>6

\* What a handler of a calm key just learned is true, and stays true until it acts.
LEMMA NewsStep ==
  ASSUME TypeOK, TypeOK', RowsAreOwn, JobsFit, OneAtATime, NewsIsFresh, [Next]_vars
  PROVE  NewsIsFresh'
<1> SUFFICES ASSUME NEW r \in Request, Calm(job[r].key)'
    PROVE /\ pc'[r] = "rename" => ~Exists(local[r].filepath)'
          /\ pc'[r] = "insert" => files'[local'[r].filepath] = r
          /\ pc'[r] \in Found =>
               \E d \in documents' : d.id = job'[r].doc /\ d.filepath = local'[r].filepath
          /\ pc'[r] = "deleteRow" => ~Exists(local[r].filepath)'
  BY DEF NewsIsFresh
<1> DEFINE G ==
    /\ pc'[r] = "rename" => ~Exists(local[r].filepath)'
    /\ pc'[r] = "insert" => files'[local'[r].filepath] = r
    /\ pc'[r] \in Found =>
         \E d \in documents' : d.id = job'[r].doc /\ d.filepath = local'[r].filepath
    /\ pc'[r] = "deleteRow" => ~Exists(local[r].filepath)'
<1> SUFFICES G
  OBVIOUS
<1>1. CASE pc'[r] \in Final \cup Starts
  BY <1>1 DEF Final, Starts, Found
<1>2. CASE pc'[r] \notin {"rename", "insert"} \cup Found
  BY <1>2 DEF Found
<1>3. CASE pc[r] # "idle" /\ pc'[r] \in {"rename", "insert"} \cup Found
  <2>1. job'[r] = job[r] /\ job[r].key \in Key
    BY <1>3, Grows DEF TypeOK, Job
  <2>2. Calm(job[r].key)' /\ Calm(job[r].key)
    <3>1. Calm(job[r].key)'
      BY <2>1 DEF Calm
    <3> QED
      BY <2>1, <3>1, CalmBack
  <2>3. CASE pc'[r] = pc[r] /\ local'[r] = local[r]
    <3>1. /\ files'[local[r].filepath] \in {files[local[r].filepath], NoFile}
          /\ pc[r] = "insert" => files'[local[r].filepath] = files[local[r].filepath]
          /\ pc[r] \in Found =>
               \A d \in documents : d.id = job[r].doc => d \in documents'
      BY <1>3, <2>2, <2>3, Undisturbed
    <3> QED
      BY <2>1, <2>2, <2>3, <3>1 DEF NewsIsFresh, Exists
  <2>4. CASE Probe(r)
    BY <1>3, <2>4 DEF Probe, Step, TypeOK, Local, Found, Exists
  <2>5. CASE Rename(r)
    <3>1. local[r].filepath \in Path
      BY DEF TypeOK, Local
    <3> QED
      BY <2>5, <3>1 DEF Rename, Step, TypeOK, Found
  <2>6. CASE Find(r) \/ FindOne(r)
    BY <1>3, <2>1, <2>6, RowFound DEF Found
  <2>7. CASE FileExists(r) \/ Access(r)
    <3>1. UNCHANGED <<files, documents, job, local>> /\ pc[r] \in Found
      BY <2>7 DEF FileExists, Access, Step, Found
    <3>2. pc'[r] \notin {"rename", "insert"}
          /\ (pc'[r] = "deleteRow" => ~Exists(local[r].filepath))
      BY <2>7 DEF FileExists, Access, Step, TypeOK
    <3> QED
      BY <2>2, <3>1, <3>2 DEF NewsIsFresh, Exists
  <2>8. CASE Unlink(r)
    <3>1. UNCHANGED <<documents, job, local>> /\ pc[r] \in Found
          /\ pc'[r] \notin {"rename", "insert"}
      BY <2>8 DEF Unlink, Step, Found, TypeOK
    <3>2. local[r].filepath \in Path
      BY DEF TypeOK, Local
    <3>3. files'[local[r].filepath] = NoFile
      BY <2>8, <3>2 DEF Unlink, TypeOK
    <3> QED
      BY <2>2, <3>1, <3>3 DEF NewsIsFresh, Exists
  <2>9. CASE Lookup(r) \/ InsertDocument(r)
    BY <1>3, <2>9 DEF Lookup, InsertDocument, Step, TypeOK, Found
  <2> HIDE DEF G
  <2> QED
    BY <1>1, <2>3, <2>4, <2>5, <2>6, <2>7, <2>8, <2>9, Arrives
<1>4. CASE pc[r] = "idle"
  <2>1. pc'[r] \notin {"rename", "insert"} \cup Found
    BY <1>4, Arrives DEF Lookup, Probe, Rename, InsertDocument, Find, FindOne, FindRow,
       FileExists, Unlink, Access, Step, Final, Starts, Found
  <2> QED
    BY <1>2, <2>1
<1> QED
  BY <1>2, <1>3, <1>4

\* A file of a calm key keeps its row, or gets it next.
LEMMA FileHasRow ==
  ASSUME TypeOK, TypeOK', FilesAreMoved, RowsAreOwn, JobsFit, OneAtATime, NewsIsFresh,
         Balanced, [Next]_vars, NEW p \in Path, Exists(p)', Calm(p[1])'
  PROVE  \/ pc'[files'[p]] = "insert"
         \/ \E d \in documents' : d.id = files'[p] /\ d.filepath = p
<1> DEFINE q == files'[p]
<1>1. p[1] \in Key /\ Calm(p[1])
  <2>1. p[1] \in Key
    BY DEF Path
  <2> QED
    BY <2>1, CalmBack
<1>2. CASE files'[p] # files[p]
  <2>1. PICK r \in Request : Rename(r) \/ Unlink(r)
    BY <1>2, Writers
  <2>2. q = r /\ Rename(r)
    BY <1>2, <2>1 DEF Rename, Unlink, TypeOK, Exists
  <2> QED
    BY <2>2 DEF Rename, Step, TypeOK
<1>3. CASE files'[p] = files[p]
  <2>1. q \in Request /\ Exists(p) /\ pc[q] \in Settled /\ local[q].filepath = p
        /\ job[q].key = p[1]
    BY <1>3 DEF TypeOK, Exists, FilesAreMoved
  <2>2. job'[q] = job[q] /\ local'[q] = local[q]
    BY <2>1, Grows DEF Settled, Final
  <2>3. pc'[q] \notin Wrong
    BY <2>1, <2>2 DEF Calm, Wrong
  <2>4. CASE pc[q] = "insert"
    <3>1. CASE pc'[q] = "insert"
      BY <3>1
    <3>2. CASE pc'[q] # "insert"
      <4>1. InsertDocument(q)
        BY <2>1, <2>3, <2>4, <3>2, Arrives
      <4>2. customer.exists
        BY <1>1 DEF Calm
      <4> DEFINE d == [id |-> q, filepath |-> p, inspectionDate |-> job[q].date]
      <4>3. d \in documents'
        BY <2>1, <4>1, <4>2 DEF InsertDocument
      <4>4. d.id = q /\ d.filepath = p
        OBVIOUS
      <4> QED
        BY <4>3, <4>4
    <3> QED
      BY <3>1, <3>2
  <2>5. CASE pc[q] # "insert"
    <3>1. PICK d \in documents : d.id = q /\ d.filepath = p
      BY <1>1, <1>3, <2>1, <2>5 DEF Balanced
    <3>2. SUFFICES ASSUME d \notin documents' PROVE FALSE
      BY <3>1
    <3>3. ~RemoveCustomer
      BY DEF RemoveCustomer, Calm, TypeOK
    <3>4. PICK r \in Request : DeleteRow(r)
      BY <3>2, <3>3, Writers DEF InsertDocument
    <3>5. pc[r] = "deleteRow" /\ job[r].doc = q
      BY <3>1, <3>2, <3>4 DEF DeleteRow, Step, RowOf
    <3>6. job[r].key = p[1]
      BY <2>1, <3>5 DEF JobsFit, Found
    <3>7. PICK e \in documents : e.id = q /\ e.filepath = local[r].filepath
      BY <1>1, <3>5, <3>6 DEF NewsIsFresh, Found
    <3>8. local[r].filepath = p
      BY <2>1, <3>7 DEF RowsAreOwn
    <3> QED
      BY <1>1, <2>1, <3>5, <3>6, <3>8 DEF NewsIsFresh
  <2> QED
    BY <2>4, <2>5
<1> QED
  BY <1>2, <1>3

\* A row of a calm key keeps its file until its own removal has taken it.
LEMMA RowHasFile ==
  ASSUME TypeOK, TypeOK', FilesAreMoved, RowsAreOwn, JobsFit, OneAtATime, NewsIsFresh,
         Balanced, [Next]_vars, NEW d \in documents', Calm(d.filepath[1])'
  PROVE  \/ files'[d.filepath] = d.id
         \/ \E r \in Request : pc'[r] = "deleteRow" /\ job'[r].doc = d.id
<1> DEFINE p == d.filepath
<1>1. d.id \in Request /\ p \in Path /\ p[1] \in Key /\ Calm(p[1])
  <2>1. d.id \in Request /\ p \in Path
    BY DEF TypeOK, Document
  <2>2. p[1] \in Key
    BY <2>1 DEF Path
  <2> QED
    BY <2>1, <2>2, CalmBack
<1>2. CASE d \notin documents
  <2>1. PICK r \in Request : InsertDocument(r)
    BY <1>2, Writers DEF RemoveCustomer, DeleteRow
  <2>2. d.id = r /\ p = local[r].filepath /\ files' = files /\ pc[r] = "insert"
    BY <1>2, <2>1 DEF InsertDocument, Step
  <2>3. job[r].key = p[1]
    BY <2>2 DEF JobsFit
  <2> QED
    BY <1>1, <2>2, <2>3 DEF NewsIsFresh
<1>3. ASSUME d \in documents, NEW r \in Request, pc[r] = "deleteRow", job[r].doc = d.id
      PROVE  pc'[r] = "deleteRow" /\ job'[r].doc = d.id
  <2>1. job[r].key = p[1]
    BY <1>3 DEF JobsFit, Found, RowsAreOwn
  <2>2. job'[r] = job[r]
    BY <1>3, Grows
  <2>3. ~DeleteRow(r)
    BY <1>3 DEF DeleteRow, RowOf
  <2>4. pc'[r] \notin Wrong
    BY <2>1, <2>2 DEF Calm, Wrong
  <2> QED
    BY <1>3, <2>2, <2>3, <2>4, Arrives
<1>4. ASSUME d \in documents, files[p] = d.id, files'[p] # d.id
      PROVE  \E r \in Request : pc'[r] = "deleteRow" /\ job'[r].doc = d.id
  <2>1. PICK r \in Request : Rename(r) \/ Unlink(r)
    BY <1>4, Writers
  <2>2. local[r].filepath = p
    BY <1>1, <1>4, <2>1 DEF Rename, Unlink, TypeOK
  <2>3. pc[r] \in {"rename", "unlink"} /\ job[r].key = p[1]
    BY <2>1, <2>2 DEF Rename, Unlink, Step, JobsFit, Found
  <2>4. Exists(p)
    BY <1>1, <1>4, DocumentsAssumption DEF Exists
  <2>5. Unlink(r) /\ pc[r] = "unlink"
    BY <1>1, <2>1, <2>2, <2>3, <2>4 DEF NewsIsFresh, Rename, Unlink, Step
  <2>6. PICK e \in documents : e.id = job[r].doc /\ e.filepath = p
    BY <1>1, <2>2, <2>3, <2>5 DEF NewsIsFresh, Found
  <2>7. files[p] = e.id
    <3>1. SUFFICES ASSUME NEW q \in Request, pc[q] = "deleteRow", job[q].doc = e.id
                   PROVE  FALSE
      BY <1>1, <2>6 DEF Balanced
    <3>2. job[q].key = job[r].key
      BY <2>3, <2>6, <3>1 DEF JobsFit, Found, RowsAreOwn
    <3>3. q = r
      BY <1>1, <2>3, <2>5, <3>1, <3>2, Alone DEF InFlight, RemoveSteps
    <3> QED
      BY <2>5, <3>1, <3>3
  <2>8. pc'[r] = "deleteRow" /\ job' = job
    BY <2>2, <2>4, <2>5 DEF Unlink, Step, TypeOK
  <2> QED
    BY <1>4, <2>6, <2>7, <2>8
<1>5. CASE d \in documents
  <2>1. \/ files[p] = d.id
        \/ \E r \in Request : pc[r] = "deleteRow" /\ job[r].doc = d.id
    BY <1>1, <1>5 DEF Balanced
  <2> QED
    BY <1>3, <1>4, <1>5, <2>1
<1> QED
  BY <1>2, <1>5

\* Files and rows of a calm key stay together.
LEMMA BalanceStep ==
  ASSUME TypeOK, TypeOK', FilesAreMoved, RowsAreOwn, JobsFit, OneAtATime, NewsIsFresh,
         Balanced, [Next]_vars
  PROVE  Balanced'
<1>1. ASSUME NEW p \in Path, Exists(p)', Calm(p[1])'
      PROVE  \/ pc'[files'[p]] = "insert"
             \/ \E d \in documents' : d.id = files'[p] /\ d.filepath = p
  BY <1>1, FileHasRow
<1>2. ASSUME NEW d \in documents', Calm(d.filepath[1])'
      PROVE  \/ files'[d.filepath] = d.id
             \/ \E r \in Request : pc'[r] = "deleteRow" /\ job'[r].doc = d.id
  BY <1>2, RowHasFile
<1> QED
  BY <1>1, <1>2 DEF Balanced

\* A download is sent the file of the row it found, which holds the bytes of the
\* report that was named.
LEMMA ServesStep ==
  ASSUME TypeOK, TypeOK', JobsFit, OneAtATime, RowsAreOwn, NewsIsFresh, Balanced,
         ServedIsDone, ServesWhatWasAsked, [Next]_vars
  PROVE  ServesWhatWasAsked'
<1> SUFFICES ASSUME NEW r \in Request, served'[r] # NoFile, Calm(job[r].key)'
             PROVE  served'[r] = job'[r].doc
  BY DEF ServesWhatWasAsked
<1>1. pc[r] # "idle"
  BY Arrives DEF ServedIsDone, Send, Step
<1>2. job'[r] = job[r] /\ job[r].key \in Key
  BY <1>1, Grows DEF TypeOK, Job
<1>3. Calm(job[r].key)
  <2>1. Calm(job[r].key)'
    BY <1>2 DEF Calm
  <2> QED
    BY <1>2, <2>1, CalmBack
<1>4. CASE served'[r] = served[r]
  BY <1>2, <1>3, <1>4 DEF ServesWhatWasAsked
<1>5. CASE Send(r)
  <2>1. pc[r] = "send" /\ served'[r] = files[local[r].filepath]
    BY <1>5 DEF Send, Step, TypeOK
  <2>2. PICK d \in documents : d.id = job[r].doc /\ d.filepath = local[r].filepath
    BY <1>3, <2>1 DEF NewsIsFresh, Found
  <2>3. d.filepath[1] = job[r].key
    BY <2>1, <2>2 DEF JobsFit, Found
  <2>4. files[d.filepath] = d.id
    <3>1. SUFFICES ASSUME NEW q \in Request, pc[q] = "deleteRow", job[q].doc = d.id
                   PROVE  FALSE
      BY <1>3, <2>3 DEF Balanced
    <3>2. job[q].key = job[r].key
      BY <2>1, <2>2, <3>1 DEF JobsFit, Found
    <3>3. q = r
      BY <1>3, <2>1, <3>1, <3>2, Alone DEF InFlight, RemoveSteps, DownloadSteps
    <3> QED
      BY <2>1, <3>1, <3>3
  <2> QED
    BY <1>2, <2>1, <2>2, <2>4
<1> QED
  BY <1>4, <1>5, Arrives

\* If nothing went wrong after the step, nothing had before it.
LEMMA OrderlyBack ==
  ASSUME TypeOK, [Next]_vars, Orderly', ~putBack'
  PROVE  Orderly /\ ~putBack
<1>1. ASSUME NEW r \in Request PROVE pc[r] \notin Wrong
  BY Grows DEF Orderly
<1> QED
  BY <1>1, Writers DEF Orderly

\* The date a handler read is compared while it is still the current one.
LEMMA LastStep ==
  ASSUME TypeOK, TypeOK', OneAtATime, LastIsFresh, [Next]_vars
  PROVE  LastIsFresh'
<1> SUFFICES
     ASSUME Orderly', ~putBack', NEW r \in Request,
            pc'[r] \in {"probe", "rename", "insert", "updateLast"}
     PROVE  /\ local'[r].last = customer'.last
            /\ pc'[r] = "updateLast" => job'[r].date > local'[r].last
  BY DEF LastIsFresh
<1>1. Orderly /\ ~putBack
  BY OrderlyBack
<1>2. ~RemoveCustomer
  BY DEF RemoveCustomer, Orderly, TypeOK
<1>3. CASE pc[r] \in {"probe", "rename", "insert", "updateLast"} /\ pc'[r] = pc[r]
            /\ local'[r] = local[r] /\ job'[r] = job[r]
  <2>1. customer' = customer
    <3>1. SUFFICES ASSUME NEW q \in Request, UpdateLast(q) PROVE FALSE
      BY <1>2, Writers
    <3>2. pc[q] = "updateLast" /\ pc'[q] # pc[q]
      BY <3>1 DEF UpdateLast, Step, TypeOK
    <3>3. pc[r] \in UploadSteps /\ pc[q] \in UploadSteps /\ q # r
      BY <1>3, <3>2 DEF UploadSteps
    <3> QED
      BY <1>1, <3>3 DEF OneAtATime, Orderly
  <2> QED
    BY <1>1, <1>3, <2>1 DEF LastIsFresh
<1>4. CASE Lookup(r)
  <2>1. customer' = customer /\ pc'[r] # "updateLast"
    BY <1>4 DEF Lookup, Step, TypeOK
  <2>2. local' = [local EXCEPT ![r] = [@ EXCEPT !.last = customer.last, !.number = 0]]
    BY <1>4 DEF Lookup
  <2>3. local'[r].last = customer.last
    BY <2>2 DEF TypeOK, Local
  <2> QED
    BY <2>1, <2>3
<1>5. CASE Probe(r) \/ Rename(r)
  <2>1. /\ customer' = customer /\ pc[r] \in {"probe", "rename"}
        /\ pc'[r] # "updateLast" /\ local'[r].last = local[r].last
    BY <1>5 DEF Probe, Rename, Step, TypeOK, Local
  <2> QED
    BY <1>1, <2>1 DEF LastIsFresh
<1>6. CASE InsertDocument(r)
  <2>1. UNCHANGED <<customer, job, local>> /\ pc[r] = "insert"
    BY <1>6 DEF InsertDocument, Step
  <2>2. pc'[r] = "updateLast" => job[r].date > local[r].last
    BY <1>6 DEF InsertDocument, Step, TypeOK
  <2> QED
    BY <1>1, <2>1, <2>2 DEF LastIsFresh
<1>7. CASE Find(r) \/ FindOne(r) \/ FileExists(r) \/ Unlink(r) \/ Access(r)
  BY <1>7, RowFound DEF FileExists, Unlink, Access, Step, TypeOK
<1> QED
  BY <1>3, <1>4, <1>5, <1>6, <1>7, Arrives DEF Final, Starts

\* A newer report raises the date, an older one leaves it.
LEMMA NewestStep ==
  ASSUME TypeOK, TypeOK', RowsAreOwn, LastIsFresh, LastIsNewest, [Next]_vars
  PROVE  LastIsNewest'
<1> SUFFICES ASSUME Orderly', ~putBack', NEW d \in documents'
             PROVE  d.inspectionDate <= customer'.last \/ pc'[d.id] = "updateLast"
  BY DEF LastIsNewest, DateIsNewest
<1>1. Orderly /\ ~putBack /\ ~RemoveCustomer
  BY OrderlyBack DEF RemoveCustomer, Orderly, TypeOK
<1>2. d.id \in Request /\ d.inspectionDate \in Nat /\ customer.last \in Nat
      /\ customer'.last \in Nat
  <2>1. d.id \in Request /\ d.inspectionDate \in Date
    BY DEF TypeOK, Document
  <2>2. customer.last \in {0} \cup Date /\ customer'.last \in {0} \cup Date
    BY DEF TypeOK
  <2>3. \A x \in {0} \cup Date : x \in Nat
    BY DocumentsAssumption
  <2> QED
    BY <2>1, <2>2, <2>3
<1>3. customer'.last >= customer.last
  <2>1. CASE customer' = customer
    BY <1>2, <2>1
  <2>2. ASSUME NEW q \in Request, UpdateLast(q) PROVE customer'.last >= customer.last
    <3>1. pc[q] = "updateLast" /\ customer'.last = job[q].date
      BY <1>1, <2>2 DEF UpdateLast, Step, Orderly, TypeOK
    <3>2. job[q].date > customer.last
      BY <1>1, <3>1 DEF LastIsFresh
    <3>3. job[q].date \in Nat
      BY DocumentsAssumption DEF TypeOK, Job
    <3> QED
      BY <1>2, <3>1, <3>2, <3>3
  <2> QED
    BY <1>1, <2>1, <2>2, Writers
<1>4. CASE d \in documents
  <2>1. d.inspectionDate <= customer.last \/ pc[d.id] = "updateLast"
    BY <1>1, <1>4 DEF LastIsNewest, DateIsNewest
  <2>2. CASE d.inspectionDate <= customer.last
    BY <1>2, <1>3, <2>2
  <2>3. CASE pc[d.id] = "updateLast"
    <3>1. UpdateLast(d.id) => customer'.last = d.inspectionDate
      BY <1>1, <1>2, <1>4 DEF UpdateLast, RowsAreOwn, Orderly, TypeOK
    <3>2. UpdateLast(d.id) \/ pc'[d.id] = "updateLast"
      BY <1>2, <2>3, Arrives DEF Orderly
    <3> QED
      BY <1>2, <3>1, <3>2
  <2> QED
    BY <2>1, <2>2, <2>3
<1>5. CASE d \notin documents
  <2>1. PICK r \in Request : InsertDocument(r)
    BY <1>1, <1>5, Writers DEF DeleteRow
  <2>2. d.id = r /\ d.inspectionDate = job[r].date /\ pc[r] = "insert"
        /\ customer' = customer /\ customer.exists
    BY <1>5, <2>1 DEF InsertDocument, Step
  <2>3. local[r].last = customer.last
    BY <1>1, <2>2 DEF LastIsFresh
  <2>4. job[r].date > local[r].last => pc'[r] = "updateLast"
    BY <2>1, <2>2 DEF InsertDocument, Step, TypeOK
  <2> QED
    BY <1>2, <2>2, <2>3, <2>4
<1> QED
  BY <1>4, <1>5

\* The inductive invariant holds before the first request,
LEMMA IInvInit == Init => IInv
<1> SUFFICES ASSUME Init PROVE IInv
  OBVIOUS
<1>1. Cardinality(Request) \in Nat
  BY DocumentsAssumption, FS_CardinalityType
<1>2. \A r \in Request : pc[r] = "idle" /\ served[r] = NoFile
  BY DEF Init
<1>3. documents = {} /\ temp = {} /\ \A p \in Path : files[p] = NoFile
  BY DEF Init
<1>4. TypeOK
  <2>1. PICK k \in Key, d \in Date :
          /\ job = [r \in Request |-> [kind |-> "upload", key |-> k, date |-> d, doc |-> r]]
          /\ local = [r \in Request |-> [last |-> 0, number |-> 0, filepath |-> <<k, 0>>]]
    BY DEF Init
  <2>2. job \in [Request -> Job]
    BY <2>1 DEF Job
  <2>3. local \in [Request -> Local]
    BY <1>1, <2>1 DEF Local, Path
  <2> QED
    BY <2>2, <2>3 DEF Init, TypeOK
<1>5. FilesAreMoved /\ RowsAreOwn /\ Balanced /\ TempsAreEarly
  BY <1>3 DEF FilesAreMoved, RowsAreOwn, Balanced, TempsAreEarly, Exists
<1>6. ProbesAreTaken /\ JobsFit /\ OneAtATime /\ NewsIsFresh
  BY <1>2 DEF ProbesAreTaken, JobsFit, OneAtATime, NewsIsFresh, Found, InFlight,
     UploadSteps, RemoveSteps, DownloadSteps
<1>7. ServedIsDone /\ LastIsFresh /\ ServesWhatWasAsked /\ LastIsNewest
  BY <1>2, <1>3 DEF ServedIsDone, LastIsFresh, ServesWhatWasAsked, LastIsNewest, DateIsNewest
<1> QED
  BY <1>4, <1>5, <1>6, <1>7 DEF IInv

\* every step of a handler, of the administrator and of the process keeps it,
LEMMA IInvStep == IInv /\ [Next]_vars => IInv'
<1> SUFFICES ASSUME IInv, [Next]_vars PROVE IInv'
  OBVIOUS
<1> USE DEF IInv
<1>1. TypeOK'
  BY TypeStep
<1>2. FilesAreMoved' /\ RowsAreOwn' /\ ProbesAreTaken'
  BY <1>1, FilesStep, RowsStep, ProbesStep
<1>3. JobsFit' /\ OneAtATime' /\ TempsAreEarly' /\ ServedIsDone'
  BY <1>1, JobsStep, OneStep, TempsStep, ServedStep
<1>4. Balanced' /\ NewsIsFresh' /\ ServesWhatWasAsked'
  BY <1>1, BalanceStep, NewsStep, ServesStep
<1>5. LastIsFresh' /\ LastIsNewest'
  BY <1>1, LastStep, NewestStep
<1> QED
  BY <1>1, <1>2, <1>3, <1>4, <1>5

\* and so it always holds.
LEMMA Inductive == Spec => []IInv
  BY IInvInit, IInvStep, PTL DEF Spec

\* In a calm key without a handler at work every file has its row and every row its
\* file.
LEMMA BalancedMatches ==
  ASSUME TypeOK, FilesAreMoved, RowsAreOwn, JobsFit, Balanced
  PROVE  RowsMatchFiles
<1> SUFFICES ASSUME NEW k \in Key, Calm(k), ~Working(k)
    PROVE  {<<d.filepath, d.id>> : d \in {e \in documents : e.filepath[1] = k}}
             = {<<p, files[p]>> : p \in {q \in Path : q[1] = k /\ Exists(q)}}
  BY DEF RowsMatchFiles
<1>1. ASSUME NEW d \in documents, d.filepath[1] = k
      PROVE  d.filepath \in Path /\ Exists(d.filepath) /\ files[d.filepath] = d.id
  <2>1. d.filepath \in Path /\ d.id \in Request
    BY DEF TypeOK, Document
  <2>2. files[d.filepath] = d.id
    <3>1. SUFFICES ASSUME NEW r \in Request, pc[r] = "deleteRow", job[r].doc = d.id
                   PROVE  FALSE
      BY <1>1 DEF Balanced
    <3>2. job[r].key = k
      BY <1>1, <3>1 DEF JobsFit, Found, RowsAreOwn
    <3> QED
      BY <3>1, <3>2 DEF Working, InFlight, RemoveSteps
  <2> QED
    BY <2>1, <2>2, DocumentsAssumption DEF Exists
<1>2. ASSUME NEW p \in Path, p[1] = k, Exists(p)
      PROVE  \E d \in documents : d.filepath = p /\ d.id = files[p]
  <2>1. files[p] \in Request /\ job[files[p]].key = k
    BY <1>2 DEF TypeOK, Exists, FilesAreMoved
  <2>2. pc[files[p]] # "insert"
    BY <2>1 DEF Working, InFlight, UploadSteps
  <2> QED
    BY <1>2, <2>2 DEF Balanced
<1> QED
  BY <1>1, <1>2

\* Every reachable state is well typed, and for any number of requests, also when
\* names are freed and taken again, table and disk agree on every key on which
\* nothing went wrong.
THEOREM StoreSound == Spec => []StoreIsSound
<1>1. IInv => StoreIsSound
  BY BalancedMatches DEF IInv, StoreIsSound
<1> QED
  BY <1>1, Inductive, PTL

\* On a key on which nothing went wrong a download is answered with the bytes of the
\* report it named.
THEOREM ServesTheReport == Spec => []ServesWhatWasAsked
<1>1. IInv => ServesWhatWasAsked
  BY DEF IInv
<1> QED
  BY <1>1, Inductive, PTL

\* No path through the upload handler leaves its temporary file behind but a failure
\* before create, of the clean-up or of the process.
THEOREM TempsCleaned == Spec => []TempsAreCleaned
<1>1. IInv => TempsAreCleaned
  BY DEF IInv, TempsAreEarly, TempsAreCleaned, UploadSteps
<1> QED
  BY <1>1, Inductive, PTL

\* While uploads come one after the other and succeed, and no form puts back a date that
\* an upload moved on, no report is newer than lastInspectionDate.
THEOREM NewestIsLast == Spec => []LastIsNewest
<1>1. IInv => LastIsNewest
  BY DEF IInv
<1> QED
  BY <1>1, Inductive, PTL

---------------------------------------------------------------------------
(* Inspection *)

\* A month is determined by its year and its number in the year.
LEMMA Calendar ==
  ASSUME NEW m \in Nat
  PROVE  /\ Year(m) \in Nat /\ Month(m) \in MonthNo
         /\ m = 12 * Year(m) + Month(m) - 1
BY DEF Year, Month, MonthNo

\* After a month comes the next one of its year, after December the next January.
LEMMA Tomorrow ==
  ASSUME NEW m \in Nat
  PROVE  \/ Year(m + 1) = Year(m) /\ Month(m + 1) = Month(m) + 1
         \/ Year(m + 1) = Year(m) + 1 /\ Month(m) = 12
BY DEF Year, Month

\* The tables of CustomersService are the residues of the patterns.
LEMMA QuarterTable ==
  ASSUME NEW m \in MonthNo, NEW c \in 1..3
  PROVE  m % 3 = c % 3 <=> m \in QuarterPattern(c)
BY DEF MonthNo, QuarterPattern, Later

LEMMA HalfYearTable ==
  ASSUME NEW m \in MonthNo, NEW c \in 1..6
  PROVE  m % 6 = c % 6 <=> m \in HalfYearPattern(c)
BY DEF MonthNo, HalfYearPattern, Later

\* Every reachable state is well typed: months stay months, also across the year's end,
\* and no step gives a target a report that has none (inspection-status.service.ts).
THEOREM InspectionTypeCorrect == InspectionSpec => []InspectionOK
<1>1. InspectionInit => InspectionOK
  BY InspectionAssumption DEF InspectionInit, InspectionOK, CustomerRow, ContractType, CycleType, NoMonth
<1>2. InspectionOK /\ [InspectionNext]_inspection => InspectionOK'
  <2> SUFFICES ASSUME InspectionOK, [InspectionNext]_inspection PROVE InspectionOK'
    OBVIOUS
  <2> USE DEF InspectionOK
  <2>1. ASSUME NEW type \in ContractType, ChangeContract(type) PROVE InspectionOK'
    BY <2>1 DEF ChangeContract, CustomerRow
  <2>2. ASSUME NEW type \in CycleType, ChangeCycle(type) PROVE InspectionOK'
    BY <2>2 DEF ChangeCycle, CustomerRow
  <2>3. ASSUME NEW m \in MonthNo, ChooseMonth(m) PROVE InspectionOK'
    BY <2>3 DEF ChooseMonth, CustomerRow
  <2>4. ASSUME NEW t \in Target, AddTarget(t) PROVE InspectionOK'
    BY <2>4 DEF AddTarget
  <2>5. ASSUME NEW t \in Target, RemoveTarget(t) PROVE InspectionOK'
    BY <2>5 DEF RemoveTarget, SetNull
  <2>6. ASSUME NEW t \in Target, NEW d \in Dates, UploadReport(t, d) PROVE InspectionOK'
    BY <2>6 DEF UploadReport
  <2>7. ASSUME NEW r \in reports, RemoveReport(r) PROVE InspectionOK'
    BY <2>7 DEF RemoveReport
  <2>8. CASE NextMonth
    BY <2>8, InspectionAssumption DEF NextMonth
  <2>9. CASE UNCHANGED inspection
    BY <2>9 DEF inspection
  <2> QED
    BY <2>1, <2>2, <2>3, <2>4, <2>5, <2>6, <2>7, <2>8, <2>9 DEF InspectionNext
<1> QED
  BY <1>1, <1>2, PTL DEF InspectionSpec

\* A month that is due is an expected month of every target, also when the
\* cycle's month was left from another cycle.
LEMMA NeededIsExpected ==
  ASSUME InspectionOK, Needed, NEW t \in targets
  PROVE  Month(clock) \in Expected(t)
<1>1. clock \in Nat /\ Month(clock) \in MonthNo
  BY InspectionAssumption, Calendar DEF InspectionOK
<1>2. CASE contract.cycleType = "monthly"
  BY <1>1, <1>2 DEF Expected
<1>3. CASE contract.cycleType = "quarterly"
  <2>1. contract.cycleMonth \in 1..3 /\ Month(clock) % 3 = contract.cycleMonth % 3
    BY <1>3 DEF Needed
  <2>2. Month(clock) \in QuarterPattern(contract.cycleMonth)
    BY <1>1, <2>1, QuarterTable
  <2> QED
    BY <1>3, <2>1, <2>2 DEF Expected, ConfiguredPattern, NoMonth
<1>4. CASE contract.cycleType = "halfYearly"
  <2>1. contract.cycleMonth \in 1..6 /\ Month(clock) % 6 = contract.cycleMonth % 6
    BY <1>4 DEF Needed
  <2>2. Month(clock) \in HalfYearPattern(contract.cycleMonth)
    BY <1>1, <2>1, HalfYearTable
  <2> QED
    BY <1>4, <2>1, <2>2 DEF Expected, ConfiguredPattern, NoMonth
<1>5. CASE contract.cycleType = "yearly"
  <2>1. Month(clock) = contract.cycleMonth /\ contract.cycleMonth # NoMonth
    BY <1>1, <1>5 DEF Needed, MonthNo, NoMonth
  <2> QED
    BY <1>5, <2>1 DEF Expected, ConfiguredPattern
<1> QED
  BY <1>2, <1>3, <1>4, <1>5 DEF Needed

\* The list of missing inspections and the services that look at the current
\* month agree on a paying customer whose month was chosen for its cycle.
THEOREM CopiesAlwaysAgree == InspectionSpec => []CopiesAgree
<1>1. InspectionOK => CopiesAgree
  <2> SUFFICES ASSUME InspectionOK, contract.contractType \in {"paid", "free"}, MonthFits,
                      NEW t \in targets, Month(clock) \in Expected(t)
               PROVE  Needed
    BY NeededIsExpected DEF CopiesAgree
  <2>1. clock \in Nat /\ Month(clock) \in MonthNo
    BY InspectionAssumption, Calendar DEF InspectionOK
  <2>2. CASE contract.cycleType = "monthly"
    BY <2>2 DEF Needed, NeverInspected
  <2>3. CASE contract.cycleType = "quarterly"
    <3>1. contract.cycleMonth \in 1..3
      BY <2>3 DEF MonthFits, Offered
    <3>2. Month(clock) \in QuarterPattern(contract.cycleMonth)
      BY <2>3, <3>1 DEF Expected, ConfiguredPattern, NoMonth
    <3> QED
      BY <2>1, <2>3, <3>1, <3>2, QuarterTable DEF Needed, NeverInspected
  <2>4. CASE contract.cycleType = "halfYearly"
    <3>1. contract.cycleMonth \in 1..6
      BY <2>4 DEF MonthFits, Offered
    <3>2. Month(clock) \in HalfYearPattern(contract.cycleMonth)
      BY <2>4, <3>1 DEF Expected, ConfiguredPattern, NoMonth
    <3> QED
      BY <2>1, <2>4, <3>1, <3>2, HalfYearTable DEF Needed, NeverInspected
  <2>5. CASE contract.cycleType = "yearly"
    <3>1. contract.cycleMonth \in MonthNo
      BY <2>5, InspectionAssumption DEF MonthFits, Offered
    <3>2. Month(clock) = contract.cycleMonth
      BY <2>5, <3>1 DEF Expected, ConfiguredPattern, NoMonth, MonthNo
    <3> QED
      BY <2>5, <3>2 DEF Needed, NeverInspected
  <2> QED
    BY <2>2, <2>3, <2>4, <2>5 DEF InspectionOK, CustomerRow, CycleType, MonthFits, Offered
<1> QED
  BY <1>1, InspectionTypeCorrect, PTL

\* A report counts for a month of a year exactly if it is dated with that month.
LEMMA OwnMonth ==
  ASSUME InspectionOK, NEW t \in targets, NEW n \in Nat
  PROVE  Month(n) \in MonthsInYear(t, Year(n)) <=> <<t, n>> \in reports
<1>1. reports \subseteq targets \X Dates /\ Dates \subseteq Nat
  BY InspectionAssumption DEF InspectionOK
<1>2. ASSUME <<t, n>> \in reports PROVE Month(n) \in MonthsInYear(t, Year(n))
  BY <1>1, <1>2 DEF MonthsInYear
<1>3. ASSUME Month(n) \in MonthsInYear(t, Year(n)) PROVE <<t, n>> \in reports
  <2>1. PICK e \in Dates : <<t, e>> \in reports /\ Year(e) = Year(n) /\ Month(e) = Month(n)
    BY <1>3 DEF MonthsInYear
  <2>2. e = n
    BY <1>1, <2>1, Calendar
  <2> QED
    BY <2>1, <2>2
<1> QED
  BY <1>2, <1>3

\* A month that has ended is excused in no list, neither of its year nor later.
LEMMA EndedIsNotExcused ==
  ASSUME NEW n \in Nat, clock' = n + 1
  PROVE  \A m \in {Month(n)}, year \in {Year(n)} : ~Excused(m, year)'
<1> SUFFICES ASSUME Year(n) = Year(n + 1), Month(n) >= Month(n + 1) PROVE FALSE
  BY DEF Excused
<1>1. Year(n) \in Nat /\ Month(n) \in MonthNo
  BY Calendar
<1> QED
  BY <1>1, Tomorrow DEF MonthNo

\* Whatever a configured customer expects does not change with time.
LEMMA ExpectedStays ==
  ASSUME NextMonth, NEW t,
         contract.cycleType = "monthly" \/ contract.cycleMonth # NoMonth
  PROVE  Expected(t)' = Expected(t)
BY DEF NextMonth, Expected, ConfiguredPattern, QuarterPattern, HalfYearPattern, Later

\* At the end of a month that was due the list of missing inspections names
\* exactly the targets without a report of that month.
THEOREM EndOfMonthAlwaysJudged == InspectionSpec => EndOfMonthIsJudged
<1> DEFINE Judged ==
      clock' # clock /\ Needed =>
        \A t \in targets, m \in {Month(clock)}, year \in {Year(clock)} :
          (m \in Missing(t, year)') <=> t \notin CompletedTargets
<1>1. InspectionOK /\ [InspectionNext]_inspection => [Judged]_inspection
  <2> SUFFICES ASSUME InspectionOK, [InspectionNext]_inspection, clock' # clock, Needed,
                      NEW t \in targets, NEW m \in {Month(clock)}, NEW year \in {Year(clock)}
               PROVE  (m \in Missing(t, year)') <=> t \notin CompletedTargets
    OBVIOUS
  <2>1. NextMonth
    BY DEF InspectionNext, inspection, ChangeContract, ChangeCycle, ChooseMonth, AddTarget, RemoveTarget,
           UploadReport, RemoveReport
  <2>2. clock \in Nat /\ clock' = clock + 1
    BY <2>1, InspectionAssumption DEF InspectionOK, NextMonth
  <2>3. contract.cycleType = "monthly" \/ contract.cycleMonth # NoMonth
    <3>1. Month(clock) \in MonthNo
      BY <2>2, Calendar
    <3> QED
      BY <3>1 DEF Needed, NoMonth, MonthNo
  <2>4. m \in Expected(t)'
    BY <2>1, <2>3, ExpectedStays, NeededIsExpected
  <2>5. ~Excused(m, year)'
    BY <2>2, EndedIsNotExcused
  <2>6. MonthsInYear(t, year)' = MonthsInYear(t, year)
    BY <2>1 DEF NextMonth, MonthsInYear
  <2>7. m \in MonthsInYear(t, year) <=> t \in CompletedTargets
    BY <2>2, OwnMonth DEF CompletedTargets
  <2>8. ~(contract'.contractType \in NoContract \/ contract'.cycleType \in NeverInspected)
    BY <2>1 DEF NextMonth, Needed, NoContract, NeverInspected
  <2>9. Missing(t, year)' = MissingMonths(t, year)'
    BY <2>8 DEF Missing
  <2> QED
    BY <2>4, <2>5, <2>6, <2>7, <2>9 DEF MissingMonths
<1> QED
  BY <1>1, InspectionTypeCorrect, PTL DEF InspectionSpec, EndOfMonthIsJudged

\* For a customer whose months are configured, the end of a month adds only
\* that month to the lists of the years shown, and takes nothing away.
THEOREM OnlyTheEndedMonthIsEverAdded == InspectionSpec => OnlyTheEndedMonthIsAdded
<1> DEFINE Added ==
      clock' # clock /\ (contract.cycleType = "monthly" \/ contract.cycleMonth # NoMonth) =>
        \A t \in targets, year \in YearsShown :
          /\ Missing(t, year) \subseteq Missing(t, year)'
          /\ Missing(t, year)' \subseteq
               Missing(t, year) \cup (IF year = Year(clock) THEN {Month(clock)} ELSE {})
<1>1. InspectionOK /\ [InspectionNext]_inspection => [Added]_inspection
  <2> SUFFICES ASSUME InspectionOK, [InspectionNext]_inspection, clock' # clock,
                      contract.cycleType = "monthly" \/ contract.cycleMonth # NoMonth,
                      NEW t \in targets, NEW year \in YearsShown
               PROVE  /\ Missing(t, year) \subseteq Missing(t, year)'
                      /\ Missing(t, year)' \subseteq
                           Missing(t, year) \cup (IF year = Year(clock) THEN {Month(clock)} ELSE {})
    OBVIOUS
  <2>1. NextMonth
    BY DEF InspectionNext, inspection, ChangeContract, ChangeCycle, ChooseMonth, AddTarget, RemoveTarget,
           UploadReport, RemoveReport
  <2>2. clock \in Nat /\ clock' = clock + 1
    BY <2>1, InspectionAssumption DEF InspectionOK, NextMonth
  <2>3. /\ Expected(t)' = Expected(t)
        /\ Expected(t) \subseteq MonthNo
    <3>1. Expected(t) \subseteq MonthNo
      BY DEF Expected, InspectionOK, CustomerRow, ConfiguredPattern, QuarterPattern, HalfYearPattern,
             Later, MonthNo, NoMonth
    <3> QED
      BY <2>1, <3>1, ExpectedStays
  <2>4. MonthsInYear(t, year)' = MonthsInYear(t, year)
    BY <2>1 DEF NextMonth, MonthsInYear
  <2>5. ASSUME NEW m \in MonthNo
        PROVE  /\ Excused(m, year)' => Excused(m, year)
               /\ Excused(m, year) => Excused(m, year)' \/ (year = Year(clock) /\ m = Month(clock))
    <3>1. /\ year \in Int /\ year <= Year(clock)
          /\ Year(clock) \in Nat /\ Month(clock) \in MonthNo
      BY <2>2, Calendar DEF YearsShown
    <3>2. Excused(m, year)' <=> year = Year(clock + 1) /\ m >= Month(clock + 1)
      BY <2>2 DEF Excused
    <3>3. CASE Year(clock + 1) = Year(clock) /\ Month(clock + 1) = Month(clock) + 1
      BY <3>1, <3>2, <3>3 DEF Excused, MonthNo
    <3>4. CASE Year(clock + 1) = Year(clock) + 1 /\ Month(clock) = 12
      BY <3>1, <3>2, <3>4 DEF Excused, MonthNo
    <3> QED
      BY <2>2, <3>3, <3>4, Tomorrow
  <2>6. \/ Missing(t, year) = {} /\ Missing(t, year)' = {}
        \/ /\ Missing(t, year) = MissingMonths(t, year)
           /\ Missing(t, year)' = MissingMonths(t, year)'
    BY <2>1 DEF NextMonth, Missing
  <2>7. MissingMonths(t, year) \subseteq MissingMonths(t, year)'
    BY <2>3, <2>4, <2>5 DEF MissingMonths
  <2>8. MissingMonths(t, year)' \subseteq
          MissingMonths(t, year) \cup (IF year = Year(clock) THEN {Month(clock)} ELSE {})
    BY <2>3, <2>4, <2>5 DEF MissingMonths
  <2> QED
    BY <2>6, <2>7, <2>8
<1> QED
  BY <1>1, InspectionTypeCorrect, PTL DEF InspectionSpec, OnlyTheEndedMonthIsAdded

\* For a customer whose months are configured, a new report takes its own month
\* from the list of its own target and year, and changes no other list.
THEOREM UploadsAlwaysClear == InspectionSpec => UploadsOnlyClear
<1> DEFINE Cleared ==
      (contract.cycleType = "monthly" \/ contract.cycleMonth # NoMonth) =>
        \A t \in targets, d \in Dates : UploadReport(t, d) =>
          \A u \in targets, year \in YearsShown :
            Missing(u, year)' =
              Missing(u, year) \ (IF u = t /\ year = Year(d) THEN {Month(d)} ELSE {})
<1>1. Cleared
  <2> SUFFICES ASSUME contract.cycleType = "monthly" \/ contract.cycleMonth # NoMonth,
                      NEW t \in targets, NEW d \in Dates, UploadReport(t, d),
                      NEW u \in targets, NEW year \in YearsShown
               PROVE  Missing(u, year)' =
                        Missing(u, year) \ (IF u = t /\ year = Year(d) THEN {Month(d)} ELSE {})
    OBVIOUS
  <2>1. clock' = clock /\ contract' = contract /\ reports' = reports \cup {<<t, d>>}
    BY DEF UploadReport
  <2>2. Expected(u)' = Expected(u)
    BY <2>1 DEF Expected, ConfiguredPattern, QuarterPattern, HalfYearPattern, Later
  <2>3. MonthsInYear(u, year)' =
          MonthsInYear(u, year) \cup (IF u = t /\ year = Year(d) THEN {Month(d)} ELSE {})
    BY <2>1 DEF MonthsInYear
  <2>4. ASSUME NEW m PROVE Excused(m, year)' <=> Excused(m, year)
    BY <2>1 DEF Excused
  <2>5. MissingMonths(u, year)' =
          MissingMonths(u, year) \ (IF u = t /\ year = Year(d) THEN {Month(d)} ELSE {})
    BY <2>2, <2>3, <2>4 DEF MissingMonths
  <2> QED
    BY <2>1, <2>5 DEF Missing
<1> QED
  BY <1>1, PTL DEF InspectionSpec, UploadsOnlyClear

---------------------------------------------------------------------------
(* Counting: the views compare counts of targets, the patterns of a history *)
(* are chosen by counts of months.                                          *)

\* There are finitely many targets: they are added one by one.
Finite == IsFiniteSet(targets)

LEMMA FiniteTargets == InspectionSpec => []Finite
<1>1. InspectionInit => Finite
  BY FS_EmptySet DEF InspectionInit, Finite
<1>2. Finite /\ [InspectionNext]_inspection => Finite'
  <2> SUFFICES ASSUME IsFiniteSet(targets), [InspectionNext]_inspection PROVE IsFiniteSet(targets')
    BY DEF Finite
  <2>1. CASE targets' = targets
    BY <2>1
  <2>2. ASSUME NEW t \in Target, AddTarget(t) PROVE IsFiniteSet(targets')
    BY <2>2, FS_AddElement DEF AddTarget
  <2>3. ASSUME NEW t \in Target, RemoveTarget(t) PROVE IsFiniteSet(targets')
    BY <2>3, FS_RemoveElement DEF RemoveTarget
  <2> QED
    BY <2>1, <2>2, <2>3 DEF InspectionNext, ChangeContract, ChangeCycle, ChooseMonth, UploadReport,
       RemoveReport, NextMonth, inspection
<1> QED
  BY <1>1, <1>2, PTL DEF InspectionSpec

\* The count of the targets with a report is that of the targets exactly if all have one.
LEMMA CountsDecide ==
  ASSUME IsFiniteSet(targets)
  PROVE  Cardinality(CompletedTargets) = Cardinality(targets) <=>
           \A t \in targets : t \in CompletedTargets
<1>1. CompletedTargets \in SUBSET targets
  BY DEF CompletedTargets
<1>2. Cardinality(targets) = Cardinality(CompletedTargets) => targets = CompletedTargets
  BY <1>1, FS_Subset
<1>3. (\A t \in targets : t \in CompletedTargets) => CompletedTargets = targets
  BY <1>1
<1> QED
  BY <1>2, <1>3

\* getInspectionStatus, isInspectionCompletedThisMonth and getIncompleteInspections
\* give one answer in every state.
THEOREM AnswersAlwaysAgree == InspectionSpec => []AnswersAgree
<1>1. InspectionOK /\ Finite => AnswersAgree
  <2> SUFFICES ASSUME InspectionOK, IsFiniteSet(targets) PROVE ViewsAgree
    BY DEF AnswersAgree, Finite
  <2>1. Needed => contract.contractType \notin NoContract /\ contract.cycleType \notin NeverInspected
    BY DEF Needed, NoContract
  <2>2. Status = "completed" <=> Needed /\ targets # {} /\ \A t \in targets : t \in CompletedTargets
    BY <2>1 DEF Status
  <2>3. Status = "incomplete" <=>
          Needed /\ ~(targets # {} /\ \A t \in targets : t \in CompletedTargets)
    BY <2>1 DEF Status
  <2>4. Status = "completed" <=> CompletedThisMonth
    BY <2>2, CountsDecide DEF CompletedThisMonth
  <2>5. Status = "incomplete" <=> Incomplete
    BY <2>3 DEF Incomplete
  <2> QED
    BY <2>4, <2>5 DEF ViewsAgree
<1> QED
  BY <1>1, InspectionTypeCorrect, FiniteTargets, PTL

\* The months of a report are finitely many.
LEMMA FiniteMonths ==
  ASSUME NEW t
  PROVE  InspectedMonths(t) \subseteq MonthNo /\ IsFiniteSet(InspectedMonths(t))
<1>1. InspectedMonths(t) \in SUBSET MonthNo
  BY InspectionAssumption, Calendar DEF InspectedMonths
<1>2. IsFiniteSet(1..12)
  <2>1. 1 \in Int /\ 12 \in Int
    OBVIOUS
  <2> QED
    BY <2>1, FS_Interval, Zenon
<1> QED
  BY <1>1, <1>2, FS_Subset DEF MonthNo

\* The patterns that start in the first three months are the three of the table.
LEMMA Quarters ==
  /\ QuarterPattern(1) = {1, 4, 7, 10}
  /\ QuarterPattern(2) = {2, 5, 8, 11}
  /\ QuarterPattern(3) = {3, 6, 9, 12}
<1>1. ASSUME NEW m \in 1..3 PROVE QuarterPattern(m) = {m, m + 3, m + 6, m + 9}
  <2>1. Later(m, 0) = m /\ Later(m, 3) = m + 3 /\ Later(m, 6) = m + 6 /\ Later(m, 9) = m + 9
    BY DEF Later
  <2> QED
    BY <2>1 DEF QuarterPattern
<1> QED
  BY <1>1

\* findQuarterlyPattern: months of one pattern match no other.
LEMMA OwnPatternIsBest ==
  ASSUME NEW m \in 1..3, NEW months \in SUBSET QuarterPattern(m), IsFiniteSet(months),
         Cardinality(months) >= 2
  PROVE  PatternOfHistory("quarterly", months) = QuarterPattern(m)
<1> DEFINE P == <<{1, 4, 7, 10}, {2, 5, 8, 11}, {3, 6, 9, 12}>>
           hits(i) == Cardinality(months \cap P[i])
           Best(i) == \A j \in DOMAIN P : hits(j) <= hits(i) /\ (j < i => hits(j) < hits(i))
           best == CHOOSE i \in DOMAIN P : Best(i)
<1>1. DOMAIN P = 1..3 /\ \A i \in 1..3 : P[i] = QuarterPattern(i)
  <2>1. DOMAIN P = 1..3 /\ P[1] = {1, 4, 7, 10} /\ P[2] = {2, 5, 8, 11} /\ P[3] = {3, 6, 9, 12}
    OBVIOUS
  <2>2. \A i \in 1..3 : i = 1 \/ i = 2 \/ i = 3
    OBVIOUS
  <2> HIDE DEF P
  <2> QED
    BY <2>1, <2>2, Quarters
<1>2. PatternOfHistory("quarterly", months) =
        IF hits(best) > 0 THEN P[best] ELSE {3, 6, 9, 12}
  BY DEF PatternOfHistory, BestMatch
<1> HIDE DEF P
<1>3. \A i, j \in 1..3 : i # j => QuarterPattern(i) \cap QuarterPattern(j) = {}
  <2>1. \A i \in 1..3 : i = 1 \/ i = 2 \/ i = 3
    OBVIOUS
  <2>2. /\ QuarterPattern(1) \cap QuarterPattern(2) = {}
        /\ QuarterPattern(1) \cap QuarterPattern(3) = {}
        /\ QuarterPattern(2) \cap QuarterPattern(3) = {}
    BY Quarters
  <2> QED
    BY <2>1, <2>2
<1>4. hits(m) >= 2
  <2>1. months \cap P[m] = months
    BY <1>1
  <2> QED
    BY <2>1
<1>5. ASSUME NEW j \in 1..3, j # m PROVE hits(j) = 0
  <2>1. months \cap P[j] = {}
    BY <1>1, <1>3, <1>5
  <2> QED
    BY <2>1, FS_EmptySet
<1>6. hits(m) \in Nat
  <2>1. months \cap P[m] = months
    BY <1>1
  <2> QED
    BY <2>1, FS_CardinalityType
<1> HIDE DEF hits
<1>7. Best(m)
  BY <1>1, <1>4, <1>5, <1>6
<1>8. \A i \in DOMAIN P : Best(i) => i = m
  BY <1>1, <1>4, <1>5, <1>6
<1>9. best = m
  BY <1>1, <1>7, <1>8
<1> HIDE DEF best
<1> QED
  BY <1>1, <1>2, <1>4, <1>6, <1>9

\* analyzeInspectionPattern: a quarterly customer without a chosen month keeps the
\* pattern that its reports are all of.
THEOREM QuarterlyHistoryAlwaysKept == InspectionSpec => []QuarterlyHistoryIsKept
<1>1. QuarterlyHistoryIsKept
  <2> SUFFICES ASSUME contract.cycleType = "quarterly", contract.cycleMonth = NoMonth,
                      NEW t \in targets, NEW m \in 1..3,
                      InspectedMonths(t) \subseteq QuarterPattern(m),
                      Cardinality(InspectedMonths(t)) >= 2
               PROVE  Expected(t) = QuarterPattern(m)
    BY DEF QuarterlyHistoryIsKept
  <2>1. Expected(t) = PatternOfHistory("quarterly", InspectedMonths(t))
    BY DEF Expected
  <2> QED
    BY <2>1, FiniteMonths, OwnPatternIsBest
<1> QED
  BY <1>1, PTL

=============================================================================
