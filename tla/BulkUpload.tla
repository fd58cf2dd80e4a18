----------------------------- MODULE BulkUpload -----------------------------
(***************************************************************************)
(* Members imported from a file (admin_panel/bulk_upload): an upload is    *)
(* validated, its rows wait in the cache under a token for an hour, and an *)
(* import with that token runs in the request, or in a Celery task when    *)
(* there are more than fifty rows. A file in the format of the old site is *)
(* legacy: it is read again at the import, by profiles/legacy_import.      *)
(*                                                                         *)
(* A row is what its phone number is: a member has at most one, and it may *)
(* have none. A registration stores a number with its country code and an  *)
(* import without, so that the unique column keeps imported numbers apart, *)
(* and registered ones are kept out where the code looks for both forms.   *)
(* A row refused for its e-mail is one whose statement fails. Checking the *)
(* rows and creating the job is one step. One member of staff; the others  *)
(* are refused. The branch of the members is left out.                     *)
(***************************************************************************)
EXTENDS Integers, Sequences, FiniteSets, FiniteSetsExt

CONSTANTS
  Phones,
  Batches,     \* bound of the model: the files uploaded in one behaviour
  MaxJobs,     \* bound of the model: uploads
  MaxRequests, \* bound of the model: import requests
  MaxFaults,   \* bound of the model: processes stopped, statements failed
  Threads,     \* of the web server
  Runners      \* Celery processes

None == "none"
File == [legacy : BOOLEAN, big : BOOLEAN, phone : Seq(Phones \cup {None})]
NoJob == [status |-> None]
Jobs == 1..MaxJobs
Processes == Threads \cup Runners

ASSUME BulkUploadAssumption ==
  /\ MaxJobs \in Nat /\ MaxRequests \in Nat /\ MaxFaults \in Nat
  /\ Batches \subseteq [1..MaxJobs -> File]
  /\ None \notin Phones /\ Threads \cap Runners = {}

VARIABLES
  batch,       \* the files of this behaviour
  job,         \* job[j]: the BulkUploadJob row, or NoJob
  cache,       \* jobs whose token is in the cache
  queue,       \* queue[j]: tasks of j at the broker
  members,     \* members[j][r]: members made from row r of the file of j
  registered,  \* phones of members who registered by themselves
  proc,        \* proc[p]: what process p is doing
  asked,       \* import requests so far
  faults,      \* processes stopped and statements failed so far
  broken,      \* history: jobs with a validation or an import that stopped before its end
  again,       \* history: jobs imported while an import was under way, or after one stopped
  overtaken    \* history: jobs noted as queued when their task was already over

history == <<broken, again, overtaken>>
vars == <<batch, job, cache, queue, members, registered, proc, asked, faults, history>>

Rows(f) == DOMAIN f.phone
Statuses == {"validated", "queued", "processing", "completed", "failed"}
Idle == [pc |-> "idle"]
Pcs == {"token", "queue", "noted", "fetch", "start", "row", "drop"}

TypeOK ==
  /\ batch \in Batches
  /\ \A j \in Jobs :
       \/ job[j] = NoJob /\ members[j] = <<>>
       \/ /\ job[j].file = batch[j] /\ job[j].status \in Statuses
          /\ job[j].pending \in BOOLEAN /\ job[j].imported \in Nat
          /\ job[j].valid \subseteq Rows(job[j].file) /\ job[j].errors \subseteq Rows(job[j].file)
          /\ members[j] \in [Rows(job[j].file) -> Nat]
  /\ cache \subseteq Jobs /\ queue \in [Jobs -> Nat]
  /\ registered \subseteq Phones /\ asked \in 0..MaxRequests /\ faults \in 0..MaxFaults
  /\ \A p \in Processes : proc[p] = Idle \/
       /\ proc[p].pc \in Pcs /\ proc[p].job \in Jobs /\ job[proc[p].job] # NoJob
       /\ proc[p].imported \in Nat
       /\ proc[p].left \cup proc[p].failed \subseteq Rows(job[proc[p].job].file)
       /\ proc[p].known \subseteq Phones
  /\ broken \subseteq Jobs /\ again \subseteq Jobs /\ overtaken \subseteq Jobs

----------------------------------------------------------------------------
At(p, pc) == proc[p] # Idle /\ proc[p].pc = pc
Go(p, pc) == proc' = [proc EXCEPT ![p].pc = pc]
Done(p) == proc' = [proc EXCEPT ![p] = Idle]
Begin(p, j, pc) ==
  /\ proc[p] = Idle
  /\ proc' = [proc EXCEPT ![p] = [pc |-> pc, job |-> j, known |-> {}, left |-> {},
                                  imported |-> 0, failed |-> {}]]

Set(j, status) == [job EXCEPT ![j].status = status]
Fail(j) == [job EXCEPT ![j].status = "failed", ![j].errors = {}]
Ready(j) == job[j] # NoJob /\ ~job[j].pending

MembersFrom(j) == {r \in DOMAIN members[j] : members[j][r] > 0}
Imported == {n \in Phones : \E j \in Jobs : \E r \in MembersFrom(j) : job[j].file.phone[r] = n}

\* _db_phone_exists, _phone_exists: with the country code or without.
Taken == registered \cup Imported

\* The rows a number keeps out: it is a member's, or stands in an earlier row.
Repeats(f, r) == f.phone[r] # None /\ \E q \in 1..r - 1 : f.phone[q] = f.phone[r]
Rejected(f) == {r \in Rows(f) : f.phone[r] \in Taken \/ Repeats(f, r)}

Init ==
  /\ batch \in Batches
  /\ job = [j \in Jobs |-> NoJob] /\ cache = {} /\ queue = [j \in Jobs |-> 0]
  /\ members = [j \in Jobs |-> <<>>] /\ registered = {}
  /\ proc = [p \in Processes |-> Idle] /\ asked = 0 /\ faults = 0
  /\ broken = {} /\ again = {} /\ overtaken = {}

----------------------------------------------------------------------------
(* Validation. The column of the token is unique, and holds "pending" until *)
(* the job has one: of two uploads at once the second fails.                *)
Validate(t, j) ==
  /\ job[j] = NoJob /\ \A k \in 1..j - 1 : job[k] # NoJob
  /\ \A k \in Jobs : job[k] # NoJob => ~job[k].pending
  /\ LET f == batch[j]
     IN  /\ job' = [job EXCEPT ![j] =
                     [file |-> f, status |-> "validated", pending |-> TRUE, imported |-> 0,
                      valid |-> Rows(f) \ Rejected(f), errors |-> Rejected(f)]]
         /\ members' = [members EXCEPT ![j] = [r \in Rows(f) |-> 0]]
  /\ Begin(t, j, "token")
  /\ UNCHANGED <<batch, cache, queue, registered, asked, faults, history>>

\* The rows are cached, and the token saved and returned.
IssueToken(t) ==
  /\ At(t, "token")
  /\ cache' = cache \cup {proc[t].job}
  /\ job' = [job EXCEPT ![proc[t].job].pending = FALSE]
  /\ Done(t)
  /\ UNCHANGED <<batch, queue, members, registered, asked, faults, history>>

\* An hour has passed.
Expire(j) ==
  /\ j \in cache
  /\ cache' = cache \ {j}
  /\ UNCHANGED <<batch, job, queue, members, registered, proc, asked, faults, history>>

----------------------------------------------------------------------------
(* The import request.                                                      *)
IsBig(j) == job[j].file.big
IsLegacy(j) == job[j].file.legacy

UnderWay(j) == queue[j] > 0 \/ \E p \in Processes : proc[p] # Idle /\ proc[p].job = j

\* Mutant: the job is looked up, and not the token.
RequestAnytime(t, j) ==
  /\ Ready(j) /\ asked < MaxRequests
  /\ asked' = asked + 1
  /\ Begin(t, j, IF IsBig(j) THEN "queue" ELSE IF IsLegacy(j) THEN "start" ELSE "fetch")
  /\ again' = IF UnderWay(j) \/ j \in broken THEN again \cup {j} ELSE again
  /\ UNCHANGED <<batch, job, cache, queue, members, registered, faults, broken, overtaken>>

\* The token is looked up. A small legacy import works on what it finds here;
\* the others look the token up again.
RequestImport(t, j) ==
  /\ Ready(j) /\ j \in cache /\ asked < MaxRequests
  /\ asked' = asked + 1
  /\ Begin(t, j, IF IsBig(j) THEN "queue" ELSE IF IsLegacy(j) THEN "start" ELSE "fetch")
  /\ again' = IF UnderWay(j) \/ j \in broken THEN again \cup {j} ELSE again
  /\ UNCHANGED <<batch, job, cache, queue, members, registered, faults, broken, overtaken>>

\* The task is with the broker before the job is saved as queued.
Enqueue(t) ==
  /\ At(t, "queue")
  /\ queue' = [queue EXCEPT ![proc[t].job] = @ + 1]
  /\ Go(t, "noted")
  /\ UNCHANGED <<batch, job, cache, members, registered, asked, faults, history>>

Running(j) ==
  \E p \in Processes : proc[p] # Idle /\ proc[p].job = j
                       /\ proc[p].pc \in {"fetch", "start", "row"}

NoteQueued(t) ==
  /\ At(t, "noted")
  /\ LET j == proc[t].job
     IN  /\ job' = Set(j, "queued")
         /\ overtaken' = IF queue[j] > 0 \/ Running(j) THEN overtaken ELSE overtaken \cup {j}
  /\ Done(t)
  /\ UNCHANGED <<batch, cache, queue, members, registered, asked, faults, broken, again>>

----------------------------------------------------------------------------
(* The import itself: run_import_job, run_legacy_import_job, and the small  *)
(* legacy import in the view.                                               *)
TakeTask(r, j) ==
  /\ queue[j] > 0
  /\ queue' = [queue EXCEPT ![j] = @ - 1]
  /\ Begin(r, j, "fetch")
  /\ UNCHANGED <<batch, job, cache, members, registered, asked, faults, history>>

FetchRows(p) ==
  /\ At(p, "fetch") /\ proc[p].job \in cache
  /\ Go(p, "start")
  /\ UNCHANGED <<batch, job, cache, queue, members, registered, asked, faults, history>>

\* Mutant: the job is not marked as failed.
FetchNothing(p) ==
  /\ At(p, "fetch") /\ proc[p].job \notin cache
  /\ Done(p)
  /\ UNCHANGED <<batch, job, cache, queue, members, registered, asked, faults, history>>

FetchExpired(p) ==
  /\ At(p, "fetch") /\ proc[p].job \notin cache
  /\ job' = Fail(proc[p].job)
  /\ Done(p)
  /\ UNCHANGED <<batch, cache, queue, members, registered, asked, faults, history>>

\* The rows that an import goes through: those found valid, or the whole legacy file.
Listed(j) == IF IsLegacy(j) THEN Rows(job[j].file) ELSE job[j].valid

\* The import of a legacy file lists the numbers of all members once, before its first
\* row with a number.
StartImport(p) ==
  /\ At(p, "start")
  /\ job' = Set(proc[p].job, "processing")
  /\ proc' = [proc EXCEPT ![p].pc = "row", ![p].known = registered, ![p].left = Listed(proc[p].job)]
  /\ UNCHANGED <<batch, cache, queue, members, registered, asked, faults, history>>

\* The number is that of an imported member: the column is unique. For a legacy file
\* also: it is in the list, or in an earlier row, whatever became of that.
RowFails(j, known, r) ==
  \/ job[j].file.phone[r] \in Imported
  \/ IsLegacy(j) /\ (job[j].file.phone[r] \in known \/ Repeats(job[j].file, r))

\* Mutant: a row is counted before it is imported.
CountRow(p) ==
  /\ At(p, "row") /\ proc[p].left # {}
  /\ LET j == proc[p].job
         r == Min(proc[p].left)
         fails == RowFails(j, proc[p].known, r)
     IN  /\ proc' = [proc EXCEPT ![p].left = @ \ {r}, ![p].imported = @ + 1,
                                 ![p].failed = IF fails THEN @ \cup {r} ELSE @]
         /\ members' = IF fails THEN members ELSE [members EXCEPT ![j][r] = @ + 1]
  /\ UNCHANGED <<batch, job, cache, queue, registered, asked, faults, history>>

MakeMember(j, r) == members' = [members EXCEPT ![j][r] = @ + 1]

\* One row, in a transaction of its own.
ImportRow(p) ==
  /\ At(p, "row") /\ proc[p].left # {}
  /\ LET j == proc[p].job
         r == Min(proc[p].left)
     IN  IF RowFails(j, proc[p].known, r)
         THEN /\ proc' = [proc EXCEPT ![p].left = @ \ {r}, ![p].failed = @ \cup {r}]
              /\ UNCHANGED members
         ELSE /\ proc' = [proc EXCEPT ![p].left = @ \ {r}, ![p].imported = @ + 1]
              /\ MakeMember(j, r)
  /\ UNCHANGED <<batch, job, cache, queue, registered, asked, faults, history>>

\* A statement of the row raises (a deadlock, a lost connection, a matri_id that
\* another member just took): the row is rolled back and listed as failed.
RowRaises(p) ==
  /\ At(p, "row") /\ proc[p].left # {} /\ faults < MaxFaults
  /\ LET r == Min(proc[p].left)
     IN  proc' = [proc EXCEPT ![p].left = @ \ {r}, ![p].failed = @ \cup {r}]
  /\ faults' = faults + 1
  /\ UNCHANGED <<batch, job, cache, queue, members, registered, asked, history>>

\* Reading a legacy row raises, which ends the import after the rows before it.
\* The task then forgets the token; the request does not.
FileRaises(p) ==
  /\ At(p, "row") /\ proc[p].left # {} /\ faults < MaxFaults
  /\ IsLegacy(proc[p].job)
  /\ job' = Fail(proc[p].job)
  /\ broken' = broken \cup {proc[p].job}
  /\ faults' = faults + 1
  /\ IF p \in Runners THEN Go(p, "drop") ELSE Done(p)
  /\ UNCHANGED <<batch, cache, queue, members, registered, asked, again, overtaken>>

\* The errors found by the validation are listed again for a legacy file, and
\* replaced for the other kind.
Complete(p) ==
  /\ At(p, "row") /\ proc[p].left = {}
  /\ LET j == proc[p].job
     IN  job' = [job EXCEPT ![j].status = "completed", ![j].imported = proc[p].imported,
                            ![j].errors = IF IsLegacy(j) THEN (Rows(job[j].file) \ job[j].valid) \cup proc[p].failed
                                          ELSE proc[p].failed]
  /\ Go(p, "drop")
  /\ UNCHANGED <<batch, cache, queue, members, registered, asked, faults, history>>

\* Mutant: the token stays good for its hour.
KeepToken(p) ==
  /\ At(p, "drop")
  /\ Done(p)
  /\ UNCHANGED <<batch, job, cache, queue, members, registered, asked, faults, history>>

DropToken(p) ==
  /\ At(p, "drop")
  /\ cache' = cache \ {proc[p].job}
  /\ Done(p)
  /\ UNCHANGED <<batch, job, queue, members, registered, asked, faults, history>>

----------------------------------------------------------------------------
(* A process stops; its task, acknowledged when it was taken, is gone too.  *)
Stop(p) ==
  /\ proc[p] # Idle /\ faults < MaxFaults
  /\ broken' = broken \cup {proc[p].job}
  /\ faults' = faults + 1
  /\ Done(p)
  /\ UNCHANGED <<batch, job, cache, queue, members, registered, asked, again, overtaken>>

\* Somebody registers with a number that a file may hold. A signup looks for an imported
\* member when it begins, which may be long before.
Register(n) ==
  /\ n \notin registered
  /\ registered' = registered \cup {n}
  /\ UNCHANGED <<batch, job, cache, queue, members, proc, asked, faults, history>>

Import(p) ==
  FetchRows(p) \/ FetchExpired(p) \/ StartImport(p) \/ ImportRow(p) \/ Complete(p) \/ DropToken(p)

Next ==
  \/ \E t \in Threads : IssueToken(t) \/ Enqueue(t) \/ NoteQueued(t)
  \/ \E j \in Jobs : Expire(j) \/ \E t \in Threads : Validate(t, j) \/ RequestImport(t, j)
  \/ \E r \in Runners, j \in Jobs : TakeTask(r, j)
  \/ \E p \in Processes : Import(p) \/ RowRaises(p) \/ FileRaises(p) \/ Stop(p)
  \/ \E n \in Phones : Register(n)

Spec == Init /\ [][Next]_vars

\* What has been taken up runs on, and an idle runner takes the next task.
LiveSpec ==
  /\ Spec
  /\ \A p \in Processes : WF_vars(Import(p))
  /\ \A t \in Threads : WF_vars(IssueToken(t) \/ Enqueue(t) \/ NoteQueued(t))
  /\ \A r \in Runners : WF_vars(\E j \in Jobs : TakeTask(r, j))

----------------------------------------------------------------------------
\* A row becomes one member, although its import may be asked for again, run in a
\* request and in a task at once, and stop half way: the token is dropped at the
\* end, and a number belongs to one imported member. What is left open is a row without
\* a number in a job imported again.
RowImportedOnce ==
  \A j \in Jobs : \A r \in DOMAIN members[j] :
    members[j][r] > 1 => j \in again /\ job[j].file.phone[r] = None

\* A completed job reports what happened: as many imported rows as it made
\* members, and every other row it went through among the errors.
ReportAddsUp ==
  \A j \in Jobs :
    job[j] # NoJob /\ job[j].status = "completed" /\ j \notin again =>
      /\ job[j].imported = Cardinality(MembersFrom(j))
      /\ job[j].errors \cap Listed(j) = Listed(j) \ MembersFrom(j)

\* A completed job stays completed: no second import and no task that comes late
\* reopens it or marks it failed, but for an import asked for twice, or a job
\* noted as queued after its task.
CompletedStays ==
  [][\A j \in Jobs :
       job[j] # NoJob /\ job[j].status = "completed" =>
         job'[j].status = "completed" \/ j \in again' \cup overtaken']_vars

\* A job shown as queued or processing ends, also when its token expires in the
\* queue: unless its process stopped, or it was noted as queued after its task.
Pending(j) == job[j] # NoJob /\ job[j].status \in {"queued", "processing"}
JobsEnd == \A j \in Jobs : []<>(Pending(j) => j \in broken \cup overtaken)
=============================================================================
