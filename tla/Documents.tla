----------------------------- MODULE Documents ------------------------------
(***************************************************************************)
(* DocumentsService and its controller (backend/src/documents): upload,     *)
(* download and removal of the inspection reports of one customer, whose    *)
(* bytes are files and whose rows are in the documents table. (Reports of   *)
(* different customers share neither directory nor row.) Every await, on a  *)
(* query or on the file system, is one step; nothing makes two steps one    *)
(* transaction.                                                             *)
(***************************************************************************)
EXTENDS Naturals, FiniteSets

CONSTANTS
  Request,   \* HTTP requests, each handled once; an upload's document is its request
  Key,       \* what the file name is made of: product, year and month
  Date,      \* inspection dates, numbers that grow with time
  NoFile     \* a path at which there is no file

ASSUME DocumentsAssumption ==
  /\ IsFiniteSet(Request)
  /\ Date \subseteq Nat \ {0}
  /\ NoFile \notin Request

VARIABLES
  files,      \* the upload directory: per path the upload its bytes come from
  temp,       \* uploads whose temporary file is on disk
  documents,  \* the documents table
  customer,   \* the customers row: whether it exists, lastInspectionDate (0: null)
  pc,         \* where each request's handler is
  job,        \* what each request asks for
  local,      \* what each handler remembers across its awaits
  served,     \* the upload whose bytes a download was answered with
  forms,      \* the last inspection dates that open forms of the customer hold
  met,        \* history: keys on which two handlers were at work at once
  crossed,    \* history: whether two uploads were at work at once
  putBack     \* history: whether a form stored a date that was no longer the current one

history == <<met, crossed, putBack>>
vars == <<files, temp, documents, customer, pc, job, local, served, forms, history>>

\* `name.pdf` is number 0, `name_1.pdf` number 1 and so on.
Path == Key \X (0..Cardinality(Request))
Document == [id : Request, filepath : Path, inspectionDate : Date]
Job == [kind : {"upload", "remove", "download", "view"}, key : Key, date : Date, doc : Request]
Local == [last : {0} \cup Date, number : 0..Cardinality(Request), filepath : Path]

UploadSteps == {"isAssigned", "lookup", "probe", "rename", "insert", "updateLast", "log",
                "catch"}
RemoveSteps == {"find", "exists", "unlink", "deleteRow", "logRemoval"}
DownloadSteps == {"findOne", "access", "send"}
InFlight == UploadSteps \cup RemoveSteps \cup DownloadSteps
Final == {"done", "refused", "failed", "aborted"}
Wrong == {"failed", "aborted", "catch"}

TypeOK ==
  /\ files \in [Path -> Request \cup {NoFile}]
  /\ temp \subseteq Request
  /\ documents \subseteq Document
  /\ customer \in [exists : BOOLEAN, last : {0} \cup Date]
  /\ pc \in [Request -> {"idle"} \cup InFlight \cup Final]
  /\ job \in [Request -> Job]
  /\ local \in [Request -> Local]
  /\ served \in [Request -> Request \cup {NoFile}]
  /\ forms \subseteq {0} \cup Date
  /\ met \subseteq Key
  /\ crossed \in BOOLEAN /\ putBack \in BOOLEAN

Init ==
  /\ files = [p \in Path |-> NoFile]
  /\ temp = {}
  /\ documents = {}
  /\ customer = [exists |-> TRUE, last |-> 0]
  /\ pc = [r \in Request |-> "idle"]
  /\ \E k \in Key, d \in Date :
       /\ job = [r \in Request |-> [kind |-> "upload", key |-> k, date |-> d, doc |-> r]]
       /\ local = [r \in Request |-> [last |-> 0, number |-> 0, filepath |-> <<k, 0>>]]
  /\ served = [r \in Request |-> NoFile]
  /\ forms = {}
  /\ met = {}
  /\ crossed = FALSE /\ putBack = FALSE

Step(r, from, to) == pc[r] = from /\ pc' = [pc EXCEPT ![r] = to]

RowOf(id) == {d \in documents : d.id = id}
Exists(p) == files[p] # NoFile

\* A request joins the handlers at work on a key.
Joins(k) ==
  met' = met \cup (IF \E q \in Request : pc[q] \in InFlight /\ job[q].key = k
                   THEN {k} ELSE {})

Died == [r \in Request |-> IF pc[r] \in InFlight THEN "aborted" ELSE pc[r]]

---------------------------------------------------------------------------
(* Slips: plausible mistakes in single steps, used by no action. *)

Slip_Probe(r) ==  \* looks for a free name once
  LET p == <<job[r].key, local[r].number>> IN
  /\ Step(r, "probe", "rename")
  /\ local' = [local EXCEPT ![r].filepath = p]
  /\ UNCHANGED <<files, temp, documents, customer, job, served, forms, history>>

Slip_Catch(r) ==  \* cleans up only what create itself had started
  /\ Step(r, "catch", "failed")
  /\ UNCHANGED <<files, temp, documents, customer, job, local, served, forms, history>>

Slip_Lookup(r) ==  \* does not select lastInspectionDate
  /\ Step(r, "lookup", IF customer.exists THEN "probe" ELSE "catch")
  /\ local' = [local EXCEPT ![r].last = 0, ![r].number = 0]
  /\ UNCHANGED <<files, temp, documents, customer, job, served, forms, history>>

---------------------------------------------------------------------------
(* upload *)

\* multer has written the temporary file before the handler starts. The user
\* route first asks whether the customer is one of the caller's.
Upload(r, k, d) ==
  /\ \E first \in {"isAssigned", "lookup"} : Step(r, "idle", first)
  /\ job' = [job EXCEPT ![r] = [kind |-> "upload", key |-> k, date |-> d, doc |-> r]]
  /\ temp' = temp \cup {r}
  /\ Joins(k)
  /\ crossed' = (crossed \/ \E q \in Request : pc[q] \in UploadSteps)
  /\ UNCHANGED <<files, documents, customer, local, served, forms, putBack>>

\* A caller who is not assigned is refused and the temporary file goes.
IsAssigned(r) ==
  /\ \E to \in {"lookup", "refused"} :
       /\ Step(r, "isAssigned", to)
       /\ temp' = IF to = "refused" THEN temp \ {r} ELSE temp
  /\ customer.exists \/ pc'[r] = "refused"
  /\ UNCHANGED <<files, documents, customer, job, local, served, forms, history>>

\* create reads the customer and the inspection target, which may be gone (targets
\* are external to this module).
Lookup(r) ==
  /\ \E target \in BOOLEAN :
       Step(r, "lookup", IF customer.exists /\ target THEN "probe" ELSE "catch")
  /\ local' = [local EXCEPT ![r].last = customer.last, ![r].number = 0]
  /\ UNCHANGED <<files, temp, documents, customer, job, served, forms, history>>

\* One turn of the loop that looks for a name that is not taken.
Probe(r) ==
  LET p == <<job[r].key, local[r].number>> IN
  /\ Step(r, "probe", IF Exists(p) THEN "probe" ELSE "rename")
  /\ local' = IF Exists(p) THEN [local EXCEPT ![r].number = @ + 1]
                           ELSE [local EXCEPT ![r].filepath = p]
  /\ UNCHANGED <<files, temp, documents, customer, job, served, forms, history>>

\* rename(2) replaces whatever is at the path by now.
Rename(r) ==
  /\ Step(r, "rename", "insert")
  /\ files' = [files EXCEPT ![local[r].filepath] = r]
  /\ temp' = temp \ {r}
  /\ UNCHANGED <<documents, customer, job, local, served, forms, history>>

\* The row is created and the date compared with the one read in Lookup.
InsertDocument(r) ==
  /\ Step(r, "insert",
          IF ~customer.exists THEN "catch"
          ELSE IF job[r].date > local[r].last THEN "updateLast" ELSE "log")
  /\ documents' = documents \cup
       (IF customer.exists
        THEN {[id |-> r, filepath |-> local[r].filepath, inspectionDate |-> job[r].date]}
        ELSE {})
  /\ UNCHANGED <<files, temp, customer, job, local, served, forms, history>>

UpdateLast(r) ==
  /\ Step(r, "updateLast", IF customer.exists THEN "log" ELSE "catch")
  /\ customer' = IF customer.exists THEN [customer EXCEPT !.last = job[r].date] ELSE customer
  /\ UNCHANGED <<files, temp, documents, job, local, served, forms, history>>

\* updateInspectionStatus only reads, then the service log gets its entry. Either may
\* fail (Abort): the request is answered with an error though the report is stored.
Log(r) ==
  /\ Step(r, "log", "done") \/ Step(r, "logRemoval", "done")
  /\ UNCHANGED <<files, temp, documents, customer, job, local, served, forms, history>>

\* The catch block removes the temporary file and throws on; a file that was
\* moved and a row that was created stay.
Catch(r) ==
  /\ Step(r, "catch", "failed")
  /\ temp' = temp \ {r}
  /\ UNCHANGED <<files, documents, customer, job, local, served, forms, history>>

UploadStep(r) ==
  \/ IsAssigned(r) \/ Lookup(r) \/ Probe(r) \/ Rename(r)
  \/ InsertDocument(r) \/ UpdateLast(r) \/ Log(r) \/ Catch(r)

---------------------------------------------------------------------------
(* remove *)

Remove(r, d) ==
  /\ Step(r, "idle", "find")
  /\ job' = [job EXCEPT ![r] = [kind |-> "remove", key |-> job[d].key,
                                date |-> job[d].date, doc |-> d]]
  /\ Joins(job[d].key)
  /\ UNCHANGED <<files, temp, documents, customer, local, served, forms, crossed, putBack>>

\* findUnique: a missing row answers the request at once.
FindRow(r, from, to) ==
  /\ Step(r, from, IF RowOf(job[r].doc) # {} THEN to ELSE "done")
  /\ local' = [local EXCEPT ![r].filepath =
       IF RowOf(job[r].doc) # {} THEN (CHOOSE d \in RowOf(job[r].doc) : TRUE).filepath ELSE @]
  /\ UNCHANGED <<files, temp, documents, customer, job, served, forms, history>>

Find(r) == FindRow(r, "find", "exists")

FileExists(r) ==
  /\ Step(r, "exists", IF Exists(local[r].filepath) THEN "unlink" ELSE "deleteRow")
  /\ UNCHANGED <<files, temp, documents, customer, job, local, served, forms, history>>

\* unlink removes whatever is at the path by now; ENOENT ends the request.
Unlink(r) ==
  /\ Step(r, "unlink", IF Exists(local[r].filepath) THEN "deleteRow" ELSE "failed")
  /\ files' = [files EXCEPT ![local[r].filepath] = NoFile]
  /\ UNCHANGED <<temp, documents, customer, job, local, served, forms, history>>

DeleteRow(r) ==
  /\ Step(r, "deleteRow", IF RowOf(job[r].doc) # {} THEN "logRemoval" ELSE "failed")
  /\ documents' = documents \ RowOf(job[r].doc)
  /\ UNCHANGED <<files, temp, customer, job, local, served, forms, history>>

RemoveStep(r) == Find(r) \/ FileExists(r) \/ Unlink(r) \/ DeleteRow(r) \/ Log(r)

---------------------------------------------------------------------------
(* download, view *)

Download(r, k, d) ==
  /\ Step(r, "idle", "findOne")
  /\ job' = [job EXCEPT ![r] = [kind |-> k, key |-> job[d].key,
                                date |-> job[d].date, doc |-> d]]
  /\ Joins(job[d].key)
  /\ UNCHANGED <<files, temp, documents, customer, local, served, forms, crossed, putBack>>

FindOne(r) == FindRow(r, "findOne", "access")

Access(r) ==
  /\ Step(r, "access", IF Exists(local[r].filepath) THEN "send" ELSE "done")
  /\ UNCHANGED <<files, temp, documents, customer, job, local, served, forms, history>>

\* The path is opened and what is there by now is sent.
Send(r) ==
  /\ Exists(local[r].filepath)
  /\ Step(r, "send", "done")
  /\ served' = [served EXCEPT ![r] = files[local[r].filepath]]
  /\ UNCHANGED <<files, temp, documents, customer, job, local, forms, history>>

\* A file that vanished since the check ends a download with an error. The stream
\* of view has no error listener: the process dies.
SendFails(r) ==
  /\ ~Exists(local[r].filepath)
  /\ pc[r] = "send"
  /\ pc' = IF job[r].kind = "view" THEN Died ELSE [pc EXCEPT ![r] = "failed"]
  /\ UNCHANGED <<files, temp, documents, customer, job, local, served, forms, history>>

DownloadStep(r) == FindOne(r) \/ Access(r) \/ Send(r) \/ SendFails(r)

---------------------------------------------------------------------------
(* The rest of the system *)

\* A browser loads the customer into its edit form. Any number of forms may be open;
\* one differs from another only in the date it was loaded with.
OpenForm ==
  /\ customer.exists
  /\ forms' = forms \cup {customer.last}
  /\ UNCHANGED <<files, temp, documents, customer, pc, job, local, served, history>>

\* The form is saved as a whole, with the date it was loaded with, though its field is
\* disabled; an empty date is not sent and leaves the column alone.
SaveForm(d) ==
  /\ customer.exists /\ d \in forms
  /\ customer' = [customer EXCEPT !.last = IF d = 0 THEN @ ELSE d]
  /\ putBack' = (putBack \/ (d # 0 /\ d # customer.last))
  /\ UNCHANGED <<files, temp, documents, pc, job, local, served, forms, met, crossed>>

\* An administrator deletes the customer; its rows go with it (onDelete: Cascade).
RemoveCustomer ==
  /\ customer.exists
  /\ customer' = [customer EXCEPT !.exists = FALSE]
  /\ documents' = {}
  /\ UNCHANGED <<files, temp, pc, job, local, served, forms, history>>

\* A query or a file operation fails. Inside create the catch block runs.
Abort(r) ==
  /\ pc[r] \in InFlight
  /\ pc' = [pc EXCEPT ![r] = IF pc[r] \in UploadSteps \ {"isAssigned", "catch"}
                             THEN "catch" ELSE "aborted"]
  /\ UNCHANGED <<files, temp, documents, customer, job, local, served, forms, history>>

Restart ==
  /\ pc' = Died
  /\ UNCHANGED <<files, temp, documents, customer, job, local, served, forms, history>>

Next ==
  \/ \E r \in Request :
       \/ \E k \in Key, d \in Date : Upload(r, k, d)
       \/ \E d \in documents : Remove(r, d.id)
       \/ \E d \in documents, k \in {"download", "view"} : Download(r, k, d.id)
       \/ UploadStep(r) \/ RemoveStep(r) \/ DownloadStep(r)
       \/ Abort(r)
  \/ OpenForm
  \/ \E d \in forms : SaveForm(d)
  \/ RemoveCustomer
  \/ Restart

Spec == Init /\ [][Next]_vars

---------------------------------------------------------------------------
(* Properties *)

\* Nothing went wrong on a key: its handlers came one after the other, none
\* failed and the customer is still there.
Calm(k) ==
  /\ k \notin met
  /\ customer.exists
  /\ \A r \in Request : job[r].key = k => pc[r] \notin Wrong

Working(k) == \E r \in Request : pc[r] \in InFlight /\ job[r].key = k

\* create and remove keep the table and the disk together as long as nothing goes
\* wrong: between handlers every row's file holds the bytes that were uploaded for
\* it and every file has its row, also when names are freed and taken again.
RowsMatchFiles ==
  \A k \in Key : Calm(k) /\ ~Working(k) =>
    {<<d.filepath, d.id>> : d \in {e \in documents : e.filepath[1] = k}}
      = {<<p, files[p]>> : p \in {q \in Path : q[1] = k /\ Exists(q)}}

\* download and view: while nothing goes wrong on its key, a request is answered
\* with the bytes of the report it named.
ServesWhatWasAsked ==
  \A r \in Request :
    served[r] # NoFile /\ Calm(job[r].key) => served[r] = job[r].doc

\* create: the temporary file of an upload is moved or removed on every path
\* through the handler, also when it throws; only a failure before create, of the
\* clean-up or of the process leaves it behind.
TempsAreCleaned ==
  \A r \in temp : pc[r] \in UploadSteps \cup {"aborted"}

\* The uploads of the customer came one after the other and none failed.
Orderly == customer.exists /\ ~crossed /\ \A r \in Request : pc[r] \notin Wrong

DateIsNewest ==
  \A d \in documents : d.inspectionDate <= customer.last \/ pc[d.id] = "updateLast"

\* create and the customer form, the two writers of lastInspectionDate: while the
\* uploads of a customer come one after the other and succeed, and no form stored a date
\* that an upload had moved on since the form was loaded, lastInspectionDate is not
\* older than any report there is.
LastIsNewest == Orderly /\ ~putBack => DateIsNewest

\* Every reachable state is well typed, and table and disk agree.
StoreIsSound == TypeOK /\ RowsMatchFiles

============================================================================
