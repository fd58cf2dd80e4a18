------------------------- MODULE AdminPanelProofs -------------------------
(***************************************************************************)
(* Proofs about the admin panel.  BulkUpload: for every batch of files and *)
(* every number of requests, processes and faults.  Office: for every      *)
(* number of staff, branches, mobiles, codes and workers.                  *)
(***************************************************************************)
EXTENDS BulkUpload, Office, FiniteSetTheorems, NaturalsInduction, WellFoundedInduction, TLAPS

----------------------------------------------------------------------------
(* BulkUpload.                                                               *)


JobRow ==
  [file : File, status : Statuses, pending : BOOLEAN, imported : Nat,
   valid : SUBSET Nat, errors : SUBSET Nat]
Task ==
  [pc : Pcs, job : Jobs, known : SUBSET Phones, left : SUBSET Nat, imported : Nat,
   failed : SUBSET Nat]

TypeInv ==
  /\ TypeOK
  /\ job \in [Jobs -> JobRow \cup {NoJob}]
  /\ members = [j \in Jobs |-> members[j]]
  /\ proc \in [Processes -> Task \cup {Idle}]
  /\ \A j \in Jobs : queue[j] > 0 => job[j] # NoJob

----------------------------------------------------------------------------
(* Files, jobs and tasks.                                                    *)

LEMMA RowsAre ==
  ASSUME NEW f \in File
  PROVE  /\ Rows(f) \subseteq Nat /\ IsFiniteSet(Rows(f))
         /\ f.legacy \in BOOLEAN /\ f.big \in BOOLEAN
<1>1. /\ f.phone \in Seq(Phones \cup {None}) /\ f.legacy \in BOOLEAN /\ f.big \in BOOLEAN
  BY DEF File
<1>2. Rows(f) = 1..Len(f.phone) /\ Len(f.phone) \in Nat
  BY <1>1 DEF Rows
<1> QED
  BY <1>1, <1>2, FS_Interval

LEMMA Kinds ==
  /\ \A r \in JobRow : r # NoJob
  /\ \A t \in Task : t # Idle
<1>1. None \notin Statuses
  BY DEF None, Statuses
<1>2. "idle" \notin Pcs
  BY DEF Pcs
<1> QED
  BY <1>1, <1>2 DEF JobRow, NoJob, Task, Idle

LEMMA JobIs ==
  ASSUME TypeInv, NEW j \in Jobs, job[j] # NoJob
  PROVE  /\ job[j] \in JobRow /\ job[j].file \in File /\ job[j].status \in Statuses
         /\ job[j].pending \in BOOLEAN /\ job[j].imported \in Nat
         /\ job[j].file = batch[j]
         /\ job[j].valid \subseteq Rows(job[j].file) /\ job[j].errors \subseteq Rows(job[j].file)
         /\ members[j] \in [Rows(job[j].file) -> Nat]
         /\ MembersFrom(j) \subseteq Rows(job[j].file) /\ IsFiniteSet(MembersFrom(j))
         /\ Listed(j) \subseteq Rows(job[j].file)
         /\ Rows(job[j].file) \subseteq Nat /\ IsFiniteSet(Rows(job[j].file))
<1>1. job[j] \in JobRow
  BY DEF TypeInv
<1>2. /\ job[j].file \in File /\ job[j].status \in Statuses /\ job[j].pending \in BOOLEAN
      /\ job[j].imported \in Nat
  BY <1>1 DEF JobRow
<1>3. /\ job[j].file = batch[j]
      /\ job[j].valid \subseteq Rows(job[j].file) /\ job[j].errors \subseteq Rows(job[j].file)
      /\ members[j] \in [Rows(job[j].file) -> Nat]
  BY DEF TypeInv, TypeOK
<1>4. MembersFrom(j) \subseteq Rows(job[j].file)
  BY <1>3 DEF MembersFrom
<1>5. Listed(j) \subseteq Rows(job[j].file)
  BY <1>3 DEF Listed
<1> QED
  BY <1>1, <1>2, <1>3, <1>4, <1>5, RowsAre, FS_Subset

LEMMA TaskIs ==
  ASSUME TypeInv, NEW p \in Processes, proc[p] # Idle
  PROVE  /\ proc[p] \in Task /\ proc[p].pc \in Pcs /\ proc[p].job \in Jobs
         /\ job[proc[p].job] # NoJob /\ proc[p].imported \in Nat /\ proc[p].known \subseteq Phones
         /\ proc[p].left \subseteq Rows(job[proc[p].job].file)
         /\ proc[p].failed \subseteq Rows(job[proc[p].job].file)
<1>1. proc[p] \in Task
  BY DEF TypeInv
<1>2. /\ job[proc[p].job] # NoJob
      /\ proc[p].left \cup proc[p].failed \subseteq Rows(job[proc[p].job].file)
  BY DEF TypeInv, TypeOK
<1> QED
  BY <1>1, <1>2 DEF Task

Below == {ss \in Nat \X Nat : ss[1] < ss[2]}

\* Min picks a row of those left.
LEMMA LeastRow ==
  ASSUME NEW S \in SUBSET Nat, S # {}
  PROVE  Min(S) \in S
<1>1. IsWellFoundedOn(Below, Nat)
  BY NatLessThanWellFounded DEF OpToRel, Below
<1>2. PICK x \in S : \A y \in S : ~(<<y, x>> \in Below)
  BY <1>1, WFMin
<1>3. \A y \in S : ~(y < x)
  BY <1>2 DEF Below
<1>4. \E z \in S : \A y \in S : z <= y
  BY <1>3
<1> QED
  BY <1>4 DEF Min

----------------------------------------------------------------------------
(* What a step does to the processes and to the jobs.                        *)

Others(p) == \A q \in Processes \ {p} : proc'[q] = proc[q]

\* Process p goes on with the step pc of the same task, or ends it, or begins one.
Goes(p, pc) ==
  /\ Others(p) /\ proc'[p] \in Task /\ proc'[p].pc = pc /\ proc'[p].job = proc[p].job
  /\ proc'[p].left = proc[p].left /\ proc'[p].imported = proc[p].imported
  /\ proc'[p].failed = proc[p].failed
Ends(p) == Others(p) /\ proc'[p] = Idle
Starts(p, j, pc) ==
  /\ Others(p) /\ proc[p] = Idle /\ proc'[p] \in Task /\ proc'[p].pc = pc /\ proc'[p].job = j
  /\ proc'[p].left = {} /\ proc'[p].failed = {} /\ proc'[p].imported = 0

LEMMA GoGoes ==
  ASSUME TypeInv, NEW p \in Processes, proc[p] # Idle, NEW pc \in Pcs, Go(p, pc)
  PROVE  Goes(p, pc) /\ proc' \in [Processes -> Task \cup {Idle}]
<1> DEFINE t == [proc[p] EXCEPT !.pc = pc]
<1>1. /\ t \in Task /\ t.pc = pc /\ t.job = proc[p].job /\ t.left = proc[p].left
      /\ t.imported = proc[p].imported /\ t.failed = proc[p].failed
  BY TaskIs DEF Task
<1>2. proc' = [proc EXCEPT ![p] = t]
  BY DEF Go
<1> HIDE DEF t
<1> QED
  BY <1>1, <1>2 DEF Goes, Others, TypeInv

LEMMA DoneEnds ==
  ASSUME TypeInv, NEW p \in Processes, Done(p)
  PROVE  Ends(p) /\ proc' \in [Processes -> Task \cup {Idle}]
BY DEF Done, Ends, Others, TypeInv

LEMMA BeginStarts ==
  ASSUME TypeInv, NEW p \in Processes, NEW j \in Jobs, NEW pc \in Pcs, Begin(p, j, pc)
  PROVE  Starts(p, j, pc) /\ proc' \in [Processes -> Task \cup {Idle}]
<1> DEFINE t == [pc |-> pc, job |-> j, known |-> {}, left |-> {}, imported |-> 0, failed |-> {}]
<1>1. /\ t \in Task /\ t.pc = pc /\ t.job = j /\ t.left = {} /\ t.imported = 0 /\ t.failed = {}
  BY DEF Task
<1>2. proc' = [proc EXCEPT ![p] = t] /\ proc[p] = Idle
  BY DEF Begin
<1> HIDE DEF t
<1> QED
  BY <1>1, <1>2 DEF Starts, Others, TypeInv

OtherJobs(j) == \A k \in Jobs \ {j} : job'[k] = job[k]

\* Job j gets the status s, for the same file.
Restates(j, s) ==
  /\ OtherJobs(j) /\ job[j] # NoJob /\ job'[j] \in JobRow
  /\ job'[j].file = job[j].file /\ job'[j].valid = job[j].valid
  /\ job'[j].pending = job[j].pending /\ job'[j].status = s
  /\ job'[j].errors \subseteq Rows(job[j].file)

LEMMA SetRestates ==
  ASSUME TypeInv, NEW j \in Jobs, job[j] # NoJob, NEW s \in Statuses, job' = Set(j, s)
  PROVE  Restates(j, s) /\ job' \in [Jobs -> JobRow \cup {NoJob}]
<1> DEFINE r == [job[j] EXCEPT !.status = s]
<1>1. /\ r \in JobRow /\ r.file = job[j].file /\ r.valid = job[j].valid /\ r.pending = job[j].pending
      /\ r.status = s /\ r.errors = job[j].errors
  BY JobIs DEF JobRow
<1>2. job' = [job EXCEPT ![j] = r]
  BY DEF Set
<1> HIDE DEF r
<1> QED
  BY <1>1, <1>2, JobIs DEF Restates, OtherJobs, TypeInv

LEMMA FailRestates ==
  ASSUME TypeInv, NEW j \in Jobs, job[j] # NoJob, job' = Fail(j)
  PROVE  Restates(j, "failed") /\ job' \in [Jobs -> JobRow \cup {NoJob}]
<1> DEFINE r == [job[j] EXCEPT !.status = "failed", !.errors = {}]
<1>1. /\ r \in JobRow /\ r.file = job[j].file /\ r.valid = job[j].valid /\ r.pending = job[j].pending
      /\ r.status = "failed" /\ r.errors = {}
  BY JobIs DEF JobRow, Statuses
<1>2. job' = [job EXCEPT ![j] = r]
  BY DEF Fail
<1> HIDE DEF r
<1> QED
  BY <1>1, <1>2 DEF Restates, OtherJobs, TypeInv

\* Process p is at a row of its job.
Works(p, known, left, imported, failed) ==
  /\ Others(p) /\ proc'[p] \in Task /\ proc'[p].pc = "row" /\ proc'[p].job = proc[p].job
  /\ proc'[p].known = known
  /\ proc'[p].left = left /\ proc'[p].imported = imported /\ proc'[p].failed = failed

LEMMA AtIs ==
  ASSUME TypeInv, NEW p \in Processes, NEW pc, At(p, pc)
  PROVE  /\ proc[p] # Idle /\ proc[p].pc = pc /\ proc[p].job \in Jobs /\ job[proc[p].job] # NoJob
         /\ proc[p] \in Task
BY TaskIs DEF At

LEMMA ValidateDoes ==
  ASSUME TypeInv, NEW p \in Processes, NEW j \in Jobs, Validate(p, j)
  PROVE  /\ job[j] = NoJob /\ job'[j] \in JobRow /\ job'[j].file = batch[j]
         /\ job'[j].status = "validated" /\ job'[j].pending = TRUE
         /\ job'[j].valid = Rows(batch[j]) \ Rejected(batch[j])
         /\ job'[j].valid \subseteq Rows(batch[j]) /\ job'[j].errors \subseteq Rows(batch[j])
         /\ OtherJobs(j) /\ job' \in [Jobs -> JobRow \cup {NoJob}]
         /\ members'[j] = [r \in Rows(batch[j]) |-> 0] /\ members' = [k \in Jobs |-> members'[k]]
         /\ \A k \in Jobs \ {j} : members'[k] = members[k]
         /\ Starts(p, j, "token") /\ proc' \in [Processes -> Task \cup {Idle}]
<1> DEFINE f == batch[j]
           r == [file |-> f, status |-> "validated", pending |-> TRUE, imported |-> 0,
                 valid |-> Rows(f) \ Rejected(f), errors |-> Rejected(f)]
<1>1. f \in File
  BY BulkUploadAssumption DEF TypeInv, TypeOK, Jobs
<1>2. Rejected(f) \subseteq Rows(f)
  BY DEF Rejected
<1>3. /\ r \in JobRow /\ r.file = f /\ r.status = "validated" /\ r.pending = TRUE
      /\ r.valid = Rows(f) \ Rejected(f) /\ r.errors = Rejected(f)
  BY <1>1, <1>2, RowsAre DEF JobRow, Statuses
<1>4. job' = [job EXCEPT ![j] = r] /\ job[j] = NoJob
  BY DEF Validate
<1>5. members' = [members EXCEPT ![j] = [x \in Rows(f) |-> 0]]
  BY DEF Validate
<1>6. "token" \in Pcs /\ Begin(p, j, "token")
  BY DEF Pcs, Validate
<1>7. Starts(p, j, "token") /\ proc' \in [Processes -> Task \cup {Idle}]
  BY <1>6, BeginStarts
<1>8. /\ members'[j] = [x \in Rows(f) |-> 0] /\ members' = [k \in Jobs |-> members'[k]]
      /\ \A k \in Jobs \ {j} : members'[k] = members[k]
  <2>1. members = [k \in Jobs |-> members[k]]
    BY DEF TypeInv
  <2> QED
    BY <1>5, <2>1
<1> HIDE DEF r
<1>9. job'[j] = r /\ OtherJobs(j) /\ job' \in [Jobs -> JobRow \cup {NoJob}]
  BY <1>3, <1>4 DEF TypeInv, OtherJobs
<1> HIDE DEF f
<1> QED
  BY <1>2, <1>3, <1>4, <1>7, <1>8, <1>9 DEF f

LEMMA IssueTokenDoes ==
  ASSUME TypeInv, NEW p \in Processes, IssueToken(p)
  PROVE  LET j == proc[p].job
         IN  /\ At(p, "token") /\ j \in Jobs /\ job[j] # NoJob
             /\ Ends(p) /\ proc' \in [Processes -> Task \cup {Idle}]
             /\ OtherJobs(j) /\ job'[j] \in JobRow /\ job'[j].file = job[j].file
             /\ job'[j].valid = job[j].valid /\ job'[j].status = job[j].status
             /\ job'[j].pending = FALSE /\ job'[j].errors \subseteq Rows(job[j].file)
             /\ job' \in [Jobs -> JobRow \cup {NoJob}]
             /\ cache' = cache \cup {j}
<1> DEFINE j == proc[p].job
           r == [job[j] EXCEPT !.pending = FALSE]
<1>1. At(p, "token") /\ j \in Jobs /\ job[j] # NoJob
  BY AtIs DEF IssueToken
<1>2. /\ r \in JobRow /\ r.file = job[j].file /\ r.valid = job[j].valid /\ r.pending = FALSE
      /\ r.status = job[j].status /\ r.errors = job[j].errors
  BY <1>1, JobIs, ZenonT(40) DEF JobRow
<1>3. job' = [job EXCEPT ![j] = r]
  BY DEF IssueToken
<1>4. Ends(p) /\ proc' \in [Processes -> Task \cup {Idle}] /\ cache' = cache \cup {j}
  BY DoneEnds DEF IssueToken
<1>5. job[j].errors \subseteq Rows(job[j].file)
  BY <1>1, JobIs
<1> HIDE DEF r
<1>6. job'[j] = r /\ OtherJobs(j) /\ job' \in [Jobs -> JobRow \cup {NoJob}]
  BY <1>1, <1>2, <1>3 DEF TypeInv, OtherJobs
<1> QED
  BY <1>1, <1>2, <1>4, <1>5, <1>6

LEMMA StartImportDoes ==
  ASSUME TypeInv, NEW p \in Processes, StartImport(p)
  PROVE  LET j == proc[p].job
         IN  /\ At(p, "start") /\ j \in Jobs /\ job[j] # NoJob
             /\ Works(p, registered, Listed(j), proc[p].imported, proc[p].failed)
             /\ proc' \in [Processes -> Task \cup {Idle}]
             /\ Restates(j, "processing") /\ job' \in [Jobs -> JobRow \cup {NoJob}]
<1> DEFINE j == proc[p].job
           t == [proc[p] EXCEPT !.pc = "row", !.known = registered, !.left = Listed(j)]
<1>1. At(p, "start") /\ j \in Jobs /\ job[j] # NoJob /\ proc[p] \in Task
  BY AtIs DEF StartImport
<1>2. Restates(j, "processing") /\ job' \in [Jobs -> JobRow \cup {NoJob}]
  BY <1>1, SetRestates DEF StartImport, Statuses
<1>3. Listed(j) \in SUBSET Nat
  BY <1>1, JobIs
<1>k. registered \subseteq Phones
  BY DEF TypeInv, TypeOK
<1>4. /\ t \in Task /\ t.pc = "row" /\ t.known = registered /\ t.left = Listed(j) /\ t.job = j
      /\ t.imported = proc[p].imported /\ t.failed = proc[p].failed
  BY <1>1, <1>3, <1>k DEF Task, Pcs
<1>5. proc' = [proc EXCEPT ![p] = t]
  BY DEF StartImport
<1> HIDE DEF t
<1>6. /\ Works(p, registered, Listed(j), proc[p].imported, proc[p].failed)
      /\ proc' \in [Processes -> Task \cup {Idle}]
  BY <1>4, <1>5 DEF Works, Others, TypeInv
<1> QED
  BY <1>1, <1>2, <1>6

\* A row is done with: process p has left, imported and failed as given.
LEMMA RowTurn ==
  ASSUME TypeInv, NEW p \in Processes, NEW t \in Task, proc' = [proc EXCEPT ![p] = t],
         t.pc = "row", t.job = proc[p].job
  PROVE  /\ Works(p, t.known, t.left, t.imported, t.failed)
         /\ proc' \in [Processes -> Task \cup {Idle}]
BY DEF Works, Others, TypeInv

LEMMA ImportRowDoes ==
  ASSUME TypeInv, NEW p \in Processes, ImportRow(p)
  PROVE  LET j == proc[p].job
         IN  /\ At(p, "row") /\ j \in Jobs /\ job[j] # NoJob
             /\ proc' \in [Processes -> Task \cup {Idle}]
             /\ \E r \in proc[p].left :
                  \/ /\ RowFails(j, proc[p].known, r) /\ members' = members
                     /\ Works(p, proc[p].known, proc[p].left \ {r},
                              proc[p].imported, proc[p].failed \cup {r})
                  \/ /\ ~RowFails(j, proc[p].known, r) /\ MakeMember(j, r)
                     /\ Works(p, proc[p].known, proc[p].left \ {r},
                              proc[p].imported + 1, proc[p].failed)
<1> DEFINE j == proc[p].job
           r == Min(proc[p].left)
           t == [proc[p] EXCEPT !.left = @ \ {r}, !.failed = @ \cup {r}]
           u == [proc[p] EXCEPT !.left = @ \ {r}, !.imported = @ + 1]
<1>1. At(p, "row") /\ j \in Jobs /\ job[j] # NoJob /\ proc[p] \in Task /\ proc[p].pc = "row"
  BY AtIs DEF ImportRow
<1>2. proc[p].left \in SUBSET Nat /\ proc[p].left # {}
  BY <1>1 DEF Task, ImportRow
<1>3. r \in proc[p].left /\ r \in Nat
  BY <1>2, LeastRow
<1>4. \/ RowFails(j, proc[p].known, r) /\ members' = members /\ proc' = [proc EXCEPT ![p] = t]
      \/ ~RowFails(j, proc[p].known, r) /\ MakeMember(j, r) /\ proc' = [proc EXCEPT ![p] = u]
  BY DEF ImportRow
<1> HIDE DEF r
<1>5. /\ t \in Task /\ t.pc = "row" /\ t.job = j /\ t.left = proc[p].left \ {r}
      /\ t.known = proc[p].known
      /\ t.imported = proc[p].imported /\ t.failed = proc[p].failed \cup {r}
  BY <1>1, <1>3 DEF Task
<1> HIDE DEF t
<1>n. proc[p].imported + 1 \in Nat
  BY <1>1 DEF Task
<1>6. /\ u \in Task /\ u.pc = "row" /\ u.job = j /\ u.left = proc[p].left \ {r}
      /\ u.known = proc[p].known
      /\ u.imported = proc[p].imported + 1 /\ u.failed = proc[p].failed
  BY <1>1, <1>3, <1>n DEF Task
<1> HIDE DEF u
<1>7. CASE RowFails(j, proc[p].known, r) /\ members' = members /\ proc' = [proc EXCEPT ![p] = t]
  BY <1>1, <1>3, <1>5, <1>7, RowTurn, ZenonT(30)
<1>8. CASE ~RowFails(j, proc[p].known, r) /\ MakeMember(j, r) /\ proc' = [proc EXCEPT ![p] = u]
  BY <1>1, <1>3, <1>6, <1>8, RowTurn
<1> QED
  BY <1>4, <1>7, <1>8

LEMMA RowRaisesDoes ==
  ASSUME TypeInv, NEW p \in Processes, RowRaises(p)
  PROVE  /\ At(p, "row") /\ proc[p].job \in Jobs /\ job[proc[p].job] # NoJob
         /\ proc' \in [Processes -> Task \cup {Idle}]
         /\ \E r \in proc[p].left :
              Works(p, proc[p].known, proc[p].left \ {r},
                    proc[p].imported, proc[p].failed \cup {r})
<1> DEFINE r == Min(proc[p].left)
           t == [proc[p] EXCEPT !.left = @ \ {r}, !.failed = @ \cup {r}]
<1>1. /\ At(p, "row") /\ proc[p].job \in Jobs /\ job[proc[p].job] # NoJob
      /\ proc[p] \in Task /\ proc[p].pc = "row"
  BY AtIs DEF RowRaises
<1>2. proc[p].left \in SUBSET Nat /\ proc[p].left # {}
  BY <1>1 DEF Task, RowRaises
<1>3. r \in proc[p].left /\ r \in Nat
  BY <1>2, LeastRow
<1>4. proc' = [proc EXCEPT ![p] = t]
  BY DEF RowRaises
<1> HIDE DEF r
<1>5. /\ t \in Task /\ t.pc = "row" /\ t.job = proc[p].job /\ t.left = proc[p].left \ {r}
      /\ t.known = proc[p].known
      /\ t.imported = proc[p].imported /\ t.failed = proc[p].failed \cup {r}
  BY <1>1, <1>3 DEF Task
<1> HIDE DEF t
<1> QED
  BY <1>1, <1>3, <1>4, <1>5, RowTurn, ZenonT(30)

LEMMA CompleteDoes ==
  ASSUME TypeInv, NEW p \in Processes, Complete(p)
  PROVE  LET j == proc[p].job
         IN  /\ At(p, "row") /\ j \in Jobs /\ job[j] # NoJob /\ proc[p].left = {}
             /\ Goes(p, "drop") /\ proc' \in [Processes -> Task \cup {Idle}]
             /\ Restates(j, "completed") /\ job' \in [Jobs -> JobRow \cup {NoJob}]
             /\ job'[j].imported = proc[p].imported
             /\ job'[j].errors =
                  IF IsLegacy(j) THEN (Rows(job[j].file) \ job[j].valid) \cup proc[p].failed
                  ELSE proc[p].failed
<1> DEFINE j == proc[p].job
           e == IF IsLegacy(j) THEN (Rows(job[j].file) \ job[j].valid) \cup proc[p].failed
                ELSE proc[p].failed
           r == [job[j] EXCEPT !.status = "completed", !.imported = proc[p].imported, !.errors = e]
<1>1. /\ At(p, "row") /\ j \in Jobs /\ job[j] # NoJob /\ proc[p].left = {} /\ proc[p] # Idle
  BY AtIs DEF Complete
<1>2. proc[p].failed \subseteq Rows(job[j].file) /\ proc[p].imported \in Nat
  BY <1>1, TaskIs
<1>3. job[j] \in JobRow /\ Rows(job[j].file) \subseteq Nat
  BY <1>1, JobIs
<1>4. e \subseteq Rows(job[j].file)
  BY <1>2
<1>5. job' = [job EXCEPT ![j] = r]
  BY DEF Complete
<1>6. Goes(p, "drop") /\ proc' \in [Processes -> Task \cup {Idle}]
  BY <1>1, GoGoes DEF Complete, Pcs
<1> HIDE DEF e
<1>7. /\ r \in JobRow /\ r.file = job[j].file /\ r.valid = job[j].valid /\ r.pending = job[j].pending
      /\ r.status = "completed" /\ r.imported = proc[p].imported /\ r.errors = e
  BY <1>2, <1>3, <1>4 DEF JobRow, Statuses
<1> HIDE DEF r
<1>8. job'[j] = r /\ OtherJobs(j) /\ job' \in [Jobs -> JobRow \cup {NoJob}]
  BY <1>1, <1>5, <1>7 DEF TypeInv, OtherJobs
<1>9. Restates(j, "completed")
  BY <1>1, <1>4, <1>7, <1>8 DEF Restates
<1> QED
  BY <1>1, <1>6, <1>7, <1>8, <1>9 DEF e

----------------------------------------------------------------------------
(* Types.                                                                    *)

Counters ==
  /\ batch \in Batches /\ cache \subseteq Jobs /\ queue \in [Jobs -> Nat]
  /\ registered \subseteq Phones /\ asked \in 0..MaxRequests /\ faults \in 0..MaxFaults
  /\ broken \subseteq Jobs /\ again \subseteq Jobs /\ overtaken \subseteq Jobs

\* A step leaves job k as it is, or writes its row and its members, for the same file.
Kept(k) ==
  \/ job'[k] = job[k] /\ members'[k] = members[k]
  \/ /\ job[k] # NoJob /\ job'[k] \in JobRow
     /\ job'[k].file = job[k].file /\ job'[k].valid = job[k].valid
     /\ job'[k].errors \subseteq Rows(job[k].file)
     /\ members'[k] \in [Rows(job[k].file) -> Nat]
  \/ /\ job[k] = NoJob /\ job'[k] \in JobRow /\ job'[k].file = batch[k]
     /\ job'[k].valid \subseteq Rows(batch[k]) /\ job'[k].errors \subseteq Rows(batch[k])
     /\ members'[k] \in [Rows(batch[k]) -> Nat]

QueueKept == \A k \in Jobs : queue'[k] > 0 => queue[k] > 0 \/ job[k] # NoJob

TaskKept(q) ==
  \/ proc'[q] \in {proc[q], Idle}
  \/ /\ proc'[q] \in Task /\ job'[proc'[q].job] # NoJob
     /\ proc'[q].left \cup proc'[q].failed \subseteq Rows(job'[proc'[q].job].file)

LEMMA KeptTypes ==
  ASSUME TypeInv, batch' = batch, Counters', QueueKept,
         job' \in [Jobs -> JobRow \cup {NoJob}], members' = [j \in Jobs |-> members'[j]],
         proc' \in [Processes -> Task \cup {Idle}],
         \A k \in Jobs : Kept(k), \A q \in Processes : TaskKept(q)
  PROVE  TypeInv'
<1>1. ASSUME NEW k \in Jobs
      PROVE  \/ job'[k] = NoJob /\ members'[k] = <<>>
             \/ /\ job'[k].file = batch'[k] /\ job'[k].status \in Statuses
                /\ job'[k].pending \in BOOLEAN /\ job'[k].imported \in Nat
                /\ job'[k].valid \subseteq Rows(job'[k].file) /\ job'[k].errors \subseteq Rows(job'[k].file)
                /\ members'[k] \in [Rows(job'[k].file) -> Nat]
  <2>1. CASE job'[k] = job[k] /\ members'[k] = members[k]
    BY <2>1 DEF TypeInv, TypeOK
  <2>2. job'[k] \in JobRow => job'[k].status \in Statuses /\ job'[k].pending \in BOOLEAN
                              /\ job'[k].imported \in Nat
    BY DEF JobRow
  <2>3. job[k] # NoJob => /\ job[k].file = batch[k] /\ job[k].valid \subseteq Rows(job[k].file)
    BY JobIs
  <2> QED
    BY <2>1, <2>2, <2>3 DEF Kept
<1>2. ASSUME NEW k \in Jobs, job[k] # NoJob
      PROVE  job'[k] # NoJob /\ job'[k].file = job[k].file
  BY <1>2, Kinds DEF Kept
<1>3. ASSUME NEW q \in Processes, proc'[q] # Idle
      PROVE  /\ proc'[q].pc \in Pcs /\ proc'[q].job \in Jobs /\ job'[proc'[q].job] # NoJob
             /\ proc'[q].imported \in Nat /\ proc'[q].known \subseteq Phones
             /\ proc'[q].left \cup proc'[q].failed \subseteq Rows(job'[proc'[q].job].file)
  <2>1. proc'[q] \in Task
    BY <1>3
  <2>2. /\ proc'[q].pc \in Pcs /\ proc'[q].job \in Jobs /\ proc'[q].imported \in Nat
        /\ proc'[q].known \subseteq Phones
    BY <2>1 DEF Task
  <2>3. CASE proc'[q] = proc[q]
    BY <1>2, <1>3, <2>2, <2>3, TaskIs
  <2> QED
    BY <1>3, <2>2, <2>3 DEF TaskKept
<1>4. TypeOK'
  BY <1>1, <1>3 DEF TypeOK, Counters
<1>5. \A j \in Jobs : queue'[j] > 0 => job'[j] # NoJob
  BY <1>2 DEF QueueKept, TypeInv
<1> QED
  BY <1>4, <1>5 DEF TypeInv

\* A step that writes no row and no member, and of whose processes p alone moves.
LEMMA QuietTypes ==
  ASSUME TypeInv, batch' = batch, Counters', QueueKept, job' = job, members' = members,
         proc' \in [Processes -> Task \cup {Idle}],
         NEW p \in Processes, Others(p), TaskKept(p)
  PROVE  TypeInv'
<1>1. job' \in [Jobs -> JobRow \cup {NoJob}] /\ members' = [j \in Jobs |-> members'[j]]
  BY DEF TypeInv
<1>2. \A k \in Jobs : Kept(k)
  BY DEF Kept
<1>3. \A q \in Processes : TaskKept(q)
  BY DEF TaskKept, Others
<1> QED
  BY <1>1, <1>2, <1>3, KeptTypes

\* A step that writes the row of one job.
LEMMA WriteTypes ==
  ASSUME TypeInv, batch' = batch, Counters', QueueKept, members' = members,
         proc' \in [Processes -> Task \cup {Idle}], job' \in [Jobs -> JobRow \cup {NoJob}],
         NEW p \in Processes, Others(p), TaskKept(p),
         NEW j \in Jobs, OtherJobs(j), job[j] # NoJob, job'[j] \in JobRow,
         job'[j].file = job[j].file, job'[j].valid = job[j].valid,
         job'[j].errors \subseteq Rows(job[j].file)
  PROVE  TypeInv'
<1>1. members' = [k \in Jobs |-> members'[k]]
  BY DEF TypeInv
<1>2. \A k \in Jobs : Kept(k)
  BY JobIs DEF Kept, OtherJobs
<1>3. \A q \in Processes : TaskKept(q)
  BY DEF TaskKept, Others
<1> QED
  BY <1>1, <1>2, <1>3, KeptTypes

LEMMA TaskGoes ==
  ASSUME TypeInv, NEW p \in Processes, proc[p] # Idle, NEW pc, Goes(p, pc),
         NEW j, j = proc[p].job, job'[j] # NoJob, job'[j].file = job[j].file
  PROVE  TaskKept(p)
BY TaskIs DEF Goes, TaskKept

LEMMA MembersMade ==
  ASSUME TypeInv, NEW j \in Jobs, job[j] # NoJob, NEW r \in Rows(job[j].file), MakeMember(j, r)
  PROVE  /\ members' = [k \in Jobs |-> members'[k]]
         /\ \A k \in Jobs \ {j} : members'[k] = members[k]
         /\ members'[j] \in [Rows(job[j].file) -> Nat]
         /\ members'[j][r] = members[j][r] + 1
         /\ \A x \in Rows(job[j].file) \ {r} : members'[j][x] = members[j][x]
<1>1. members[j] \in [Rows(job[j].file) -> Nat]
  BY JobIs
<1>2. members = [k \in Jobs |-> members[k]]
  BY DEF TypeInv
<1> DEFINE m == [members[j] EXCEPT ![r] = @ + 1]
<1>3. members' = [members EXCEPT ![j] = m]
  BY DEF MakeMember
<1>4. /\ m \in [Rows(job[j].file) -> Nat] /\ m[r] = members[j][r] + 1
      /\ \A x \in Rows(job[j].file) \ {r} : m[x] = members[j][x]
  BY <1>1
<1> HIDE DEF m
<1>5. /\ members'[j] = m /\ members' = [k \in Jobs |-> members'[k]]
      /\ \A k \in Jobs \ {j} : members'[k] = members[k]
  BY <1>2, <1>3
<1> QED
  BY <1>4, <1>5

LEMMA TypeInit ==
  ASSUME Init
  PROVE  TypeInv
<1>1. proc \in [Processes -> Task \cup {Idle}] /\ job \in [Jobs -> JobRow \cup {NoJob}]
  BY DEF Init
<1>2. 0 \in 0..MaxRequests /\ 0 \in 0..MaxFaults
  BY BulkUploadAssumption
<1>3. members = [j \in Jobs |-> members[j]] /\ \A j \in Jobs : job[j] = NoJob /\ members[j] = <<>>
  BY DEF Init
<1>4. \A p \in Processes : proc[p] = Idle
  BY DEF Init
<1>5. queue \in [Jobs -> Nat]
  BY DEF Init
<1>6. TypeOK
  BY <1>2, <1>3, <1>4, <1>5 DEF Init, TypeOK
<1>7. \A j \in Jobs : ~(queue[j] > 0)
  BY DEF Init
<1> QED
  BY <1>1, <1>3, <1>6, <1>7 DEF TypeInv

LEMMA TypeNext ==
  ASSUME TypeInv, [Next]_vars
  PROVE  TypeInv'
<1>c. Counters
  BY DEF TypeInv, TypeOK, Counters
<1>p. Threads \subseteq Processes /\ Runners \subseteq Processes
  BY DEF Processes
<1>q. {"token", "queue", "noted", "fetch", "start", "row", "drop"} \subseteq Pcs
  BY DEF Pcs
<1>e. \A p \in Processes : Ends(p) => TaskKept(p) /\ Others(p)
  BY DEF Ends, TaskKept
<1>g. \A p \in Processes, pc \in Pcs : Goes(p, pc) => Others(p)
  BY DEF Goes
<1>s. \A p \in Processes, j \in Jobs, pc \in Pcs :
        Starts(p, j, pc) /\ job'[j] # NoJob => TaskKept(p) /\ Others(p)
  BY DEF Starts, TaskKept
<1>1. ASSUME NEW p \in Processes, NEW j \in Jobs, Validate(p, j) PROVE TypeInv'
  <2>1. Counters' /\ QueueKept /\ batch' = batch
    BY <1>1, <1>c DEF Validate, Counters, QueueKept, history
  <2>2. \A k \in Jobs : Kept(k)
    <3>1. members'[j] = [r \in Rows(batch[j]) |-> 0]
      BY <1>1, ValidateDoes
    <3>2. members'[j] \in [Rows(batch[j]) -> Nat]
      BY <3>1
    <3>3. /\ job[j] = NoJob /\ job'[j] \in JobRow /\ job'[j].file = batch[j]
          /\ job'[j].valid \subseteq Rows(batch[j]) /\ job'[j].errors \subseteq Rows(batch[j])
      BY <1>1, ValidateDoes
    <3>4. \A k \in Jobs \ {j} : job'[k] = job[k] /\ members'[k] = members[k]
      BY <1>1, ValidateDoes DEF OtherJobs
    <3> QED
      BY <3>2, <3>3, <3>4 DEF Kept
  <2>3. TaskKept(p) /\ Others(p)
    BY <1>1, <1>s, <1>q, ValidateDoes, Kinds, ZenonT(40)
  <2>4. \A q \in Processes : TaskKept(q)
    BY <2>3 DEF Others, TaskKept
  <2> QED
    BY <1>1, <2>1, <2>2, <2>4, ValidateDoes, KeptTypes
<1>2. ASSUME NEW p \in Processes, IssueToken(p) PROVE TypeInv'
  <2>1. Counters' /\ QueueKept /\ batch' = batch /\ members' = members
    BY <1>2, <1>c, IssueTokenDoes, ZenonT(30) DEF IssueToken, Counters, QueueKept, history
  <2> QED
    BY <1>2, <1>e, <2>1, IssueTokenDoes, WriteTypes
<1>3. ASSUME NEW p \in Processes, Enqueue(p) PROVE TypeInv'
  <2>1. proc[p] # Idle /\ proc[p].job \in Jobs /\ job[proc[p].job] # NoJob
    BY <1>3, AtIs DEF Enqueue
  <2>2. Goes(p, "noted") /\ proc' \in [Processes -> Task \cup {Idle}]
    BY <1>3, <1>q, <2>1, GoGoes DEF Enqueue
  <2>3. Counters' /\ QueueKept /\ batch' = batch /\ members' = members /\ job' = job
    BY <1>3, <1>c, <2>1 DEF Enqueue, Counters, QueueKept, history
  <2> QED
    BY <1>g, <1>q, <2>1, <2>2, <2>3, TaskGoes, QuietTypes
<1>4. ASSUME NEW p \in Processes, NoteQueued(p) PROVE TypeInv'
  <2>1. proc[p] # Idle /\ proc[p].job \in Jobs /\ job[proc[p].job] # NoJob
    BY <1>4, AtIs DEF NoteQueued
  <2>2. Ends(p) /\ proc' \in [Processes -> Task \cup {Idle}]
    BY <1>4, DoneEnds DEF NoteQueued
  <2>3. Counters' /\ QueueKept /\ batch' = batch /\ members' = members
    BY <1>4, <1>c, <2>1 DEF NoteQueued, Counters, QueueKept
  <2>4. Restates(proc[p].job, "queued") /\ job' \in [Jobs -> JobRow \cup {NoJob}]
    BY <1>4, <2>1, SetRestates DEF NoteQueued, Statuses
  <2> QED
    BY <1>e, <2>1, <2>2, <2>3, <2>4, WriteTypes DEF Restates
<1>5. ASSUME NEW p \in Processes, NEW j \in Jobs, RequestImport(p, j) PROVE TypeInv'
  <2>1. Counters' /\ QueueKept /\ batch' = batch /\ members' = members /\ job' = job
    BY <1>5, <1>c, BulkUploadAssumption DEF RequestImport, Counters, QueueKept
  <2>2. PICK pc \in Pcs : Begin(p, j, pc)
    BY <1>5, <1>q DEF RequestImport
  <2>3. job[j] # NoJob
    BY <1>5 DEF RequestImport, Ready
  <2> QED
    BY <1>s, <2>1, <2>2, <2>3, BeginStarts, QuietTypes
<1>6. ASSUME NEW p \in Processes, NEW j \in Jobs, TakeTask(p, j) PROVE TypeInv'
  <2>1. Counters' /\ QueueKept /\ batch' = batch /\ members' = members /\ job' = job
    BY <1>6, <1>c DEF TakeTask, Counters, QueueKept, history
  <2>2. job[j] # NoJob
    BY <1>6 DEF TakeTask, TypeInv
  <2> QED
    BY <1>6, <2>2, <1>q, <1>s, <2>1, BeginStarts, QuietTypes DEF TakeTask
<1>7. ASSUME NEW p \in Processes, FetchRows(p) PROVE TypeInv'
  <2>1. proc[p] # Idle /\ proc[p].job \in Jobs /\ job[proc[p].job] # NoJob
    BY <1>7, AtIs DEF FetchRows
  <2>2. Goes(p, "start") /\ proc' \in [Processes -> Task \cup {Idle}]
    BY <1>7, <1>q, <2>1, GoGoes DEF FetchRows
  <2>3. Counters' /\ QueueKept /\ batch' = batch /\ members' = members /\ job' = job
    BY <1>7, <1>c DEF FetchRows, Counters, QueueKept, history
  <2> QED
    BY <1>g, <1>q, <2>1, <2>2, <2>3, TaskGoes, QuietTypes
<1>8. ASSUME NEW p \in Processes, FetchExpired(p) PROVE TypeInv'
  <2>1. proc[p].job \in Jobs /\ job[proc[p].job] # NoJob
    BY <1>8, AtIs DEF FetchExpired
  <2>2. Ends(p) /\ proc' \in [Processes -> Task \cup {Idle}]
    BY <1>8, DoneEnds DEF FetchExpired
  <2>3. Counters' /\ QueueKept /\ batch' = batch /\ members' = members
    BY <1>8, <1>c DEF FetchExpired, Counters, QueueKept, history
  <2>4. Restates(proc[p].job, "failed") /\ job' \in [Jobs -> JobRow \cup {NoJob}]
    BY <1>8, <2>1, FailRestates DEF FetchExpired
  <2> QED
    BY <1>e, <2>1, <2>2, <2>3, <2>4, WriteTypes DEF Restates
<1>9. ASSUME NEW p \in Processes, StartImport(p) PROVE TypeInv'
  <2>1. Counters' /\ QueueKept /\ batch' = batch /\ members' = members
    BY <1>9, <1>c DEF StartImport, Counters, QueueKept, history
  <2>2. /\ proc[p] # Idle /\ proc[p].job \in Jobs
        /\ Works(p, registered, Listed(proc[p].job), proc[p].imported, proc[p].failed)
        /\ Restates(proc[p].job, "processing")
    BY <1>9, StartImportDoes DEF At
  <2>3. TaskKept(p) /\ Others(p)
    BY <2>2, TaskIs, JobIs, Kinds DEF Works, TaskKept, Restates
  <2> QED
    BY <1>9, <2>1, <2>2, <2>3, StartImportDoes, WriteTypes DEF Restates
<1>10. ASSUME NEW p \in Processes, ImportRow(p) PROVE TypeInv'
  <2>1. Counters' /\ QueueKept /\ batch' = batch /\ job' = job
    BY <1>10, <1>c DEF ImportRow, Counters, QueueKept, history
  <2>2. PICK r \in proc[p].left :
          \/ /\ members' = members
             /\ Works(p, proc[p].known, proc[p].left \ {r},
                      proc[p].imported, proc[p].failed \cup {r})
          \/ /\ MakeMember(proc[p].job, r)
             /\ Works(p, proc[p].known, proc[p].left \ {r},
                      proc[p].imported + 1, proc[p].failed)
    BY <1>10, ImportRowDoes
  <2>3. /\ proc[p] # Idle /\ proc[p].job \in Jobs /\ job[proc[p].job] # NoJob
        /\ proc' \in [Processes -> Task \cup {Idle}]
    BY <1>10, ImportRowDoes DEF At
  <2>4. /\ proc[p].left \subseteq Rows(job[proc[p].job].file)
        /\ proc[p].failed \subseteq Rows(job[proc[p].job].file)
    BY <2>3, TaskIs
  <2>5. TaskKept(p) /\ Others(p)
    BY <2>1, <2>2, <2>3, <2>4 DEF Works, TaskKept
  <2>6. CASE members' = members
    BY <2>1, <2>3, <2>5, <2>6, QuietTypes
  <2>7. CASE MakeMember(proc[p].job, r)
    <3>1. \A k \in Jobs : Kept(k)
      BY <2>1, <2>3, <2>4, <2>7, MembersMade, JobIs DEF Kept
    <3>2. \A q \in Processes : TaskKept(q)
      BY <2>5 DEF Others, TaskKept
    <3>3. members' = [k \in Jobs |-> members'[k]]
      BY <2>3, <2>4, <2>7, MembersMade
    <3>4. job' \in [Jobs -> JobRow \cup {NoJob}]
      BY <2>1 DEF TypeInv
    <3> QED
      BY <2>1, <2>3, <3>1, <3>2, <3>3, <3>4, KeptTypes
  <2> QED
    BY <2>2, <2>6, <2>7
<1>11. ASSUME NEW p \in Processes, Complete(p) PROVE TypeInv'
  <2>1. Counters' /\ QueueKept /\ batch' = batch /\ members' = members
    BY <1>11, <1>c DEF Complete, Counters, QueueKept, history
  <2>2. /\ proc[p] # Idle /\ proc[p].job \in Jobs /\ Goes(p, "drop")
        /\ Restates(proc[p].job, "completed") /\ proc' \in [Processes -> Task \cup {Idle}]
        /\ job' \in [Jobs -> JobRow \cup {NoJob}]
    BY <1>11, CompleteDoes DEF At
  <2>3. TaskKept(p) /\ Others(p)
    BY <1>g, <1>q, <2>2, TaskGoes, Kinds DEF Restates
  <2> QED
    BY <2>1, <2>2, <2>3, WriteTypes DEF Restates
<1>12. ASSUME NEW p \in Processes, DropToken(p) PROVE TypeInv'
  <2>1. Counters' /\ QueueKept /\ batch' = batch /\ members' = members /\ job' = job
    BY <1>12, <1>c DEF DropToken, Counters, QueueKept, history
  <2> QED
    BY <1>12, <1>e, <2>1, DoneEnds, QuietTypes DEF DropToken
<1>13. ASSUME NEW p \in Processes, RowRaises(p) PROVE TypeInv'
  <2>1. Counters' /\ QueueKept /\ batch' = batch /\ members' = members /\ job' = job
    BY <1>13, <1>c, BulkUploadAssumption DEF RowRaises, Counters, QueueKept, history
  <2>2. /\ proc[p] # Idle /\ proc[p].job \in Jobs /\ job[proc[p].job] # NoJob
        /\ proc' \in [Processes -> Task \cup {Idle}]
    BY <1>13, RowRaisesDoes DEF At
  <2>3. PICK r \in proc[p].left :
          Works(p, proc[p].known, proc[p].left \ {r}, proc[p].imported, proc[p].failed \cup {r})
    BY <1>13, RowRaisesDoes
  <2>4. TaskKept(p) /\ Others(p)
    BY <2>1, <2>2, <2>3, TaskIs DEF Works, TaskKept
  <2> QED
    BY <2>1, <2>2, <2>4, QuietTypes
<1>14. ASSUME NEW p \in Processes, FileRaises(p) PROVE TypeInv'
  <2>1. proc[p] # Idle /\ proc[p].job \in Jobs /\ job[proc[p].job] # NoJob
    BY <1>14, AtIs DEF FileRaises
  <2>2. Counters' /\ QueueKept /\ batch' = batch /\ members' = members
    BY <1>14, <1>c, <2>1, BulkUploadAssumption DEF FileRaises, Counters, QueueKept
  <2>3. Restates(proc[p].job, "failed") /\ job' \in [Jobs -> JobRow \cup {NoJob}]
    BY <1>14, <2>1, FailRestates DEF FileRaises
  <2>4. (Goes(p, "drop") \/ Ends(p)) /\ proc' \in [Processes -> Task \cup {Idle}]
    BY <1>14, <1>q, <2>1, GoGoes, DoneEnds DEF FileRaises
  <2>5. TaskKept(p) /\ Others(p)
    BY <1>e, <1>g, <1>q, <2>1, <2>3, <2>4, TaskGoes, Kinds DEF Restates
  <2> QED
    BY <2>1, <2>2, <2>3, <2>4, <2>5, WriteTypes DEF Restates
<1>15. ASSUME NEW p \in Processes, Stop(p) PROVE TypeInv'
  <2>1. proc[p].job \in Jobs
    BY <1>15, TaskIs DEF Stop
  <2>2. Counters' /\ QueueKept /\ batch' = batch /\ members' = members /\ job' = job
    BY <1>15, <1>c, <2>1, BulkUploadAssumption DEF Stop, Counters, QueueKept
  <2> QED
    BY <1>15, <1>e, <2>2, DoneEnds, QuietTypes DEF Stop
<1>16. CASE \/ \E j \in Jobs : Expire(j)
            \/ \E n \in Phones : Register(n)
            \/ UNCHANGED vars
  <2>1. /\ Counters' /\ QueueKept /\ batch' = batch /\ members' = members /\ job' = job /\ proc' = proc
    BY <1>16, <1>c DEF Expire, Register, Counters, QueueKept, vars, history
  <2>2. /\ job' \in [Jobs -> JobRow \cup {NoJob}] /\ members' = [j \in Jobs |-> members'[j]]
        /\ proc' \in [Processes -> Task \cup {Idle}]
    BY <2>1 DEF TypeInv
  <2> QED
    BY <2>1, <2>2, KeptTypes DEF Kept, TaskKept
<1> QED
  BY <1>p, <1>1, <1>2, <1>3, <1>4, <1>5, <1>6, <1>7, <1>8, <1>9, <1>10, <1>11, <1>12, <1>13, <1>14,
     <1>15, <1>16 DEF Next, Import

\* Jobs, their rows and members, tokens, tasks and processes have their types; a process
\* is at a job that exists, and at rows of its file.
THEOREM TypeCorrect == Spec => []TypeOK
<1>1. TypeInv => TypeOK
  BY DEF TypeInv
<1> QED
  BY <1>1, TypeInit, TypeNext, PTL DEF Spec

----------------------------------------------------------------------------
(* The invariant of a job.                                                   *)

On(p, j) == proc[p] # Idle /\ proc[p].job = j

\* Process p has the import of j in hand, from the request on.
Holds(p, j) == On(p, j) /\ proc[p].pc \in {"queue", "fetch", "start", "row", "drop"}

\* No import of j has begun.
Untouched(j) == Ready(j) /\ job[j].status # "completed" /\ MembersFrom(j) = {}

\* Until its token is saved, a job belongs to the request that validated it.
TokenFirst(j) ==
  /\ ~Ready(j) => /\ queue[j] = 0 /\ j \notin cache /\ MembersFrom(j) = {}
                  /\ \A p \in Processes : On(p, j) => proc[p].pc = "token"
  /\ \A p \in Processes : On(p, j) /\ proc[p].pc = "token" =>
       /\ ~Ready(j) /\ job[j].status = "validated"
       /\ \A q \in Processes : On(q, j) => p = q

\* With those known, an import refuses what the validation refused in a legacy file.
Refuses(j, known) ==
  IsLegacy(j) => \A r \in Rows(job[j].file) \ job[j].valid : RowFails(j, known, r)

\* Only rows found valid become members.
Chosen(j) ==
  job[j] # NoJob =>
    /\ MembersFrom(j) \subseteq job[j].valid
    /\ Refuses(j, registered)
    /\ \A p \in Processes : On(p, j) /\ proc[p].pc = "row" =>
         proc[p].left \subseteq Listed(j) /\ Refuses(j, proc[p].known)

OnceFor(j) ==
  \A r \in DOMAIN members[j] :
    members[j][r] > 1 => j \in again /\ job[j].file.phone[r] = None

\* One process, or one task in the queue, has the import in hand.
Single(j) ==
  /\ queue[j] <= 1
  /\ \A p, q \in Processes : Holds(p, j) /\ Holds(q, j) => p = q
  /\ queue[j] > 0 => \A p \in Processes : ~Holds(p, j)

\* An import that is to start finds the job as the validation left it; a token that is
\* still good is that of such a job, or of one whose import is under way or broke.
Fresh(j) ==
  /\ queue[j] > 0 => Untouched(j)
  /\ \A p \in Processes : On(p, j) /\ proc[p].pc \in {"queue", "fetch", "start"} =>
       Untouched(j) /\ proc[p].imported = 0 /\ proc[p].failed = {}
  /\ j \in cache \ broken => Untouched(j) \/ \E p \in Processes : Holds(p, j)

\* The rows of the file are those made into members, those that failed, and those left.
Counts(p, j) ==
  /\ job[j].status # "completed"
  /\ proc[p].imported = Cardinality(MembersFrom(j))
  /\ proc[p].left \cap (proc[p].failed \cup MembersFrom(j)) = {}
  /\ proc[p].failed \cap MembersFrom(j) = {}
  /\ proc[p].left \cup proc[p].failed \cup MembersFrom(j) = Listed(j)

Counted(j) == \A p \in Processes : On(p, j) /\ proc[p].pc = "row" => Counts(p, j)

Adds(j) ==
  job[j] # NoJob /\ job[j].status = "completed" =>
    /\ job[j].imported = Cardinality(MembersFrom(j))
    /\ job[j].errors \cap Listed(j) = Listed(j) \ MembersFrom(j)

JobInv(j) ==
  /\ TokenFirst(j) /\ Chosen(j) /\ OnceFor(j)
  /\ j \notin again => Single(j) /\ Fresh(j) /\ Counted(j) /\ Adds(j)

ImportInv == TypeInv /\ \A j \in Jobs : JobInv(j)

----------------------------------------------------------------------------
(* What a step leaves to the other jobs.                                     *)

\* What has been imported stays.
Growing(k) ==
  job[k] # NoJob =>
    /\ job'[k] # NoJob /\ job'[k].file = job[k].file
    /\ MembersFrom(k) \subseteq MembersFrom(k)'

LEMMA NoMembers ==
  ASSUME TypeInv, NEW k \in Jobs, job[k] = NoJob
  PROVE  MembersFrom(k) = {}
<1>1. job[k].status \notin Statuses
  BY DEF NoJob, None, Statuses
<1>2. members[k] = <<>>
  BY <1>1 DEF TypeInv, TypeOK
<1> QED
  BY <1>2 DEF MembersFrom

LEMMA ImportedGrows ==
  ASSUME TypeInv, \A k \in Jobs : Growing(k)
  PROVE  Imported \subseteq Imported'
<1> SUFFICES ASSUME NEW n \in Phones, NEW k \in Jobs, NEW r \in MembersFrom(k),
                    job[k].file.phone[r] = n
             PROVE  r \in MembersFrom(k)' /\ job'[k].file.phone[r] = n
  BY DEF Imported
<1>1. job[k] # NoJob
  BY NoMembers
<1> QED
  BY <1>1 DEF Growing

LEMMA SameGrowing ==
  ASSUME NEW k \in Jobs, members'[k] = members[k],
         job[k] # NoJob => job'[k] # NoJob /\ job'[k].file = job[k].file
  PROVE  Growing(k)
BY DEF Growing, MembersFrom

LEMMA StepGrows ==
  ASSUME TypeInv, [Next]_vars
  PROVE  /\ Imported \subseteq Imported' /\ registered \subseteq registered'
         /\ again \subseteq again' /\ broken \subseteq broken'
<1>p. Threads \subseteq Processes /\ Runners \subseteq Processes
  BY DEF Processes
<1>h. /\ again \subseteq again' /\ broken \subseteq broken' /\ registered \subseteq registered'
  BY ZenonT(30) DEF Next, Import, vars, history, IssueToken, Enqueue, NoteQueued, Expire, Validate,
         RequestImport, TakeTask, FetchRows, FetchExpired, StartImport, ImportRow, Complete, DropToken, RowRaises,
         FileRaises, Stop, Register
<1>w. ASSUME members' = members, NEW j \in Jobs, OtherJobs(j),
             job[j] # NoJob => job'[j] \in JobRow /\ job'[j].file = job[j].file
      PROVE  \A k \in Jobs : Growing(k)
  BY <1>w, SameGrowing, Kinds DEF OtherJobs
<1>1. ASSUME NEW p \in Processes, NEW j \in Jobs, Validate(p, j)
      PROVE  \A k \in Jobs : Growing(k)
  BY <1>1, ValidateDoes, SameGrowing DEF OtherJobs, Growing
<1>2. ASSUME NEW p \in Processes, IssueToken(p)
      PROVE  \A k \in Jobs : Growing(k)
  BY <1>2, <1>w, IssueTokenDoes DEF IssueToken
<1>3. ASSUME NEW p \in Processes, StartImport(p)
      PROVE  \A k \in Jobs : Growing(k)
  BY <1>3, <1>w, StartImportDoes, Zenon DEF StartImport, Restates
<1>4. ASSUME NEW p \in Processes, Complete(p)
      PROVE  \A k \in Jobs : Growing(k)
  BY <1>4, <1>w, CompleteDoes, Zenon DEF Complete, Restates
<1>5. ASSUME NEW p \in Processes, NoteQueued(p) \/ FetchExpired(p) \/ FileRaises(p)
      PROVE  \A k \in Jobs : Growing(k)
  <2>1. proc[p].job \in Jobs /\ job[proc[p].job] # NoJob /\ members' = members
    BY <1>5, AtIs DEF NoteQueued, FetchExpired, FileRaises
  <2>2. Restates(proc[p].job, "queued") \/ Restates(proc[p].job, "failed")
    BY <1>5, <2>1, SetRestates, FailRestates DEF NoteQueued, FetchExpired, FileRaises, Statuses
  <2> QED
    BY <1>w, <2>1, <2>2 DEF Restates
<1>6. ASSUME NEW p \in Processes, ImportRow(p)
      PROVE  \A k \in Jobs : Growing(k)
  <2>1. job' = job
    BY <1>6 DEF ImportRow
  <2>2. CASE members' = members
    BY <2>1, <2>2, SameGrowing
  <2>3. ASSUME NEW r \in proc[p].left, MakeMember(proc[p].job, r)
        PROVE  \A k \in Jobs : Growing(k)
    <3>1. /\ proc[p].job \in Jobs /\ job[proc[p].job] # NoJob
          /\ r \in Rows(job[proc[p].job].file)
      BY <1>6, <2>3, AtIs, TaskIs DEF ImportRow
    <3>2. PICK j \in Jobs : j = proc[p].job
      BY <3>1
    <3>3. /\ members[j] \in [Rows(job[j].file) -> Nat]
          /\ members'[j] \in [Rows(job[j].file) -> Nat]
          /\ members'[j][r] = members[j][r] + 1
          /\ \A x \in Rows(job[j].file) \ {r} : members'[j][x] = members[j][x]
      BY <2>3, <3>1, <3>2, MembersMade, JobIs
    <3>4. ASSUME NEW x \in MembersFrom(j) PROVE x \in MembersFrom(j)'
      <4>1. x \in Rows(job[j].file) /\ members[j][x] > 0 /\ members[j][x] \in Nat
        BY <3>3 DEF MembersFrom
      <4>2. members'[j][x] = members[j][x] \/ members'[j][x] = members[j][x] + 1
        BY <3>3, <4>1
      <4>3. x \in DOMAIN members'[j] /\ members'[j][x] > 0
        BY <3>3, <4>1, <4>2
      <4> QED
        BY <4>3 DEF MembersFrom
    <3>5. Growing(j)
      BY <2>1, <3>1, <3>2, <3>4 DEF Growing
    <3> QED
      BY <2>1, <2>3, <3>1, <3>2, <3>5, MembersMade, SameGrowing
  <2> QED
    BY <1>6, <2>2, <2>3, ImportRowDoes
<1>7. ASSUME job' = job, members' = members
      PROVE  \A k \in Jobs : Growing(k)
  BY <1>7, SameGrowing
<1>8. \/ job' = job /\ members' = members
      \/ \E p \in Processes :
           \/ IssueToken(p) \/ StartImport(p) \/ Complete(p) \/ ImportRow(p)
           \/ NoteQueued(p) \/ FetchExpired(p) \/ FileRaises(p)
           \/ \E j \in Jobs : Validate(p, j)
  BY <1>p DEF Next, Import, vars, Enqueue, Expire, RequestImport, TakeTask, FetchRows, DropToken,
              RowRaises, Stop, Register
<1>9. \A k \in Jobs : Growing(k)
  BY <1>1, <1>2, <1>3, <1>4, <1>5, <1>6, <1>7, <1>8
<1> QED
  BY <1>h, <1>9, ImportedGrows, ZenonT(30)

\* The step is not about job k; its token may run out.
Elsewhere(k) ==
  /\ job'[k] = job[k] /\ members'[k] = members[k] /\ queue'[k] = queue[k]
  /\ k \in cache' => k \in cache
  /\ \A q \in Processes : On(q, k) \/ On(q, k)' => proc'[q] = proc[q]

\* What only grows.
Monotone ==
  /\ Imported \subseteq Imported' /\ registered \subseteq registered'
  /\ again \subseteq again' /\ broken \subseteq broken'

\* What the step leaves of job k: its rows, its members.
SameRows(k) ==
  /\ members'[k] = members[k] /\ job'[k].file = job[k].file /\ job'[k].valid = job[k].valid
  /\ job[k] = NoJob <=> job'[k] = NoJob

LEMMA SameRowsMeans ==
  ASSUME TypeInv, Monotone, NEW k \in Jobs, SameRows(k), JobInv(k)
  PROVE  /\ MembersFrom(k)' = MembersFrom(k) /\ Listed(k)' = Listed(k) /\ IsLegacy(k)' = IsLegacy(k)
         /\ \A known : Refuses(k, known) => Refuses(k, known)'
         /\ Refuses(k, registered) => Refuses(k, registered)'
         /\ OnceFor(k)'
<1>1. MembersFrom(k)' = MembersFrom(k)
  BY DEF SameRows, MembersFrom
<1>2. IsLegacy(k)' = IsLegacy(k)
  BY DEF SameRows, IsLegacy
<1>3. Listed(k)' = Listed(k)
  BY <1>2 DEF SameRows, Listed
<1>4. ASSUME NEW known, Refuses(k, known) PROVE Refuses(k, known)'
  BY <1>2, <1>4 DEF SameRows, Monotone, RowFails, Refuses
<1>6. ASSUME Refuses(k, registered) PROVE Refuses(k, registered)'
  BY <1>2, <1>6 DEF SameRows, Monotone, RowFails, Refuses
<1>5. OnceFor(k)'
  BY DEF JobInv, OnceFor, SameRows, Monotone
<1> QED
  BY <1>1, <1>2, <1>3, <1>4, <1>5, <1>6

LEMMA ElsewhereKeeps ==
  ASSUME TypeInv, Monotone, NEW k \in Jobs, JobInv(k), Elsewhere(k)
  PROVE  JobInv(k)'
<1>s. SameRows(k)
  BY DEF Elsewhere, SameRows
<1>m. /\ MembersFrom(k)' = MembersFrom(k) /\ Listed(k)' = Listed(k) /\ IsLegacy(k)' = IsLegacy(k)
      /\ \A known : Refuses(k, known) => Refuses(k, known)'
      /\ Refuses(k, registered) => Refuses(k, registered)'
      /\ OnceFor(k)'
  BY <1>s, SameRowsMeans
<1>r. Ready(k)' <=> Ready(k)
  BY DEF Elsewhere, Ready
<1>u. Untouched(k)' <=> Untouched(k)
  BY <1>m, <1>r DEF Untouched, Elsewhere
<1>o. \A q \in Processes : (On(q, k)' <=> On(q, k)) /\ (On(q, k) => proc'[q] = proc[q])
  BY DEF Elsewhere, On
<1>h. \A q \in Processes : Holds(q, k)' <=> Holds(q, k)
  BY <1>o DEF Holds
<1>1. TokenFirst(k)'
  BY <1>m, <1>r, <1>o DEF TokenFirst, JobInv, Elsewhere
<1>2. Chosen(k)'
  BY <1>m, <1>o DEF Chosen, JobInv, Elsewhere
<1>3. ASSUME k \notin again' PROVE Single(k)' /\ Fresh(k)' /\ Counted(k)' /\ Adds(k)'
  <2>1. Single(k) /\ Fresh(k) /\ Counted(k) /\ Adds(k)
    BY <1>3 DEF JobInv, Monotone
  <2>2. Single(k)'
    BY <1>h, <2>1 DEF Single, Elsewhere
  <2>3. Fresh(k)'
    BY <1>u, <1>o, <1>h, <2>1 DEF Fresh, Elsewhere, Monotone
  <2>4. Counted(k)'
    BY <1>m, <1>o, <2>1 DEF Counted, Counts, Elsewhere
  <2>5. Adds(k)'
    BY <1>m, <2>1 DEF Adds, Elsewhere
  <2> QED
    BY <2>2, <2>3, <2>4, <2>5
<1> QED
  BY <1>m, <1>1, <1>2, <1>3 DEF JobInv

\* The step is about job j, and taken by process p.
LEMMA ElsewhereOf ==
  ASSUME NEW j \in Jobs, NEW p \in Processes, Others(p),
         proc[p] = Idle \/ proc[p].job = j, proc'[p] = Idle \/ proc'[p].job = j,
         \A k \in Jobs \ {j} :
           /\ job'[k] = job[k] /\ members'[k] = members[k] /\ queue'[k] = queue[k]
           /\ k \in cache' => k \in cache
  PROVE  \A k \in Jobs \ {j} : Elsewhere(k)
BY DEF Elsewhere, Others, On

----------------------------------------------------------------------------
(* What a step leaves of its own job, when it writes no member.              *)

\* What holds of a job that no second import was asked for.
Alone(j) == Single(j) /\ Fresh(j) /\ Counted(j) /\ Adds(j)

LEMMA OthersStay ==
  ASSUME NEW j \in Jobs, NEW p \in Processes, Others(p)
  PROVE  \A q \in Processes \ {p} :
           /\ On(q, j)' <=> On(q, j)
           /\ Holds(q, j)' <=> Holds(q, j)
           /\ proc'[q] = proc[q]
BY DEF Others, On, Holds

\* Who has the import in hand has it alone.
LEMMA HoldsAlone ==
  ASSUME TypeInv, NEW j \in Jobs, NEW p \in Processes, Single(j), Holds(p, j)
  PROVE  queue[j] = 0 /\ \A q \in Processes \ {p} : ~Holds(q, j)
<1>1. queue[j] \in Nat
  BY DEF TypeInv, TypeOK
<1> QED
  BY <1>1 DEF Single

\* Process p alone has the import in hand after the step.
LEMMA HolderKeeps ==
  ASSUME NEW j \in Jobs, NEW p \in Processes, queue'[j] = 0, Holds(p, j)',
         \A q \in Processes \ {p} : ~Holds(q, j)',
         proc'[p].pc \in {"queue", "fetch", "start"} =>
           Untouched(j)' /\ proc'[p].imported = 0 /\ proc'[p].failed = {},
         proc'[p].pc = "row" => Counts(p, j)',
         Adds(j)'
  PROVE  Alone(j)'
<1>1. \A q \in Processes : On(q, j)' /\ proc'[q].pc \in {"queue", "fetch", "start", "row"} => q = p
  BY DEF Holds
<1>2. Single(j)'
  BY DEF Single
<1>3. Fresh(j)'
  BY <1>1 DEF Fresh
<1>4. Counted(j)'
  BY <1>1 DEF Counted
<1> QED
  BY <1>2, <1>3, <1>4 DEF Alone

\* Nobody has it in hand after the step.
LEMMA NobodyKeeps ==
  ASSUME NEW j \in Jobs, queue'[j] = 0, \A q \in Processes : ~Holds(q, j)',
         j \in cache' \ broken' => Untouched(j)', Adds(j)'
  PROVE  Alone(j)'
<1>1. \A q \in Processes : On(q, j)' => proc'[q].pc \notin {"queue", "fetch", "start", "row"}
  BY DEF Holds
<1>2. Single(j)' /\ Counted(j)'
  BY <1>1 DEF Single, Counted
<1>3. Fresh(j)'
  BY <1>1 DEF Fresh
<1> QED
  BY <1>2, <1>3 DEF Alone

\* A step that leaves the job with its token, and whose process does not wait for one.
LEMMA ReadyKeeps ==
  ASSUME TypeInv, Monotone, NEW j \in Jobs, JobInv(j), SameRows(j), NEW p \in Processes, Others(p),
         Ready(j)', Ready(j) \/ (On(p, j) /\ proc[p].pc = "token"),
         proc'[p] = Idle \/ /\ proc'[p].pc # "token"
                            /\ proc'[p].pc = "row" =>
                                 proc'[p].left \subseteq Listed(j) /\ Refuses(j, proc'[p].known)
  PROVE  TokenFirst(j)' /\ Chosen(j)' /\ OnceFor(j)'
<1>m. /\ MembersFrom(j)' = MembersFrom(j) /\ Listed(j)' = Listed(j) /\ IsLegacy(j)' = IsLegacy(j)
      /\ \A known : Refuses(j, known) => Refuses(j, known)'
      /\ Refuses(j, registered) => Refuses(j, registered)'
      /\ OnceFor(j)'
  BY SameRowsMeans
<1>o. \A q \in Processes \ {p} : (On(q, j)' <=> On(q, j)) /\ proc'[q] = proc[q]
  BY OthersStay
<1>1. ASSUME NEW q \in Processes, On(q, j)', proc'[q].pc = "token" PROVE FALSE
  <2>1. q # p
    BY <1>1 DEF On
  <2>2. On(q, j) /\ proc[q].pc = "token"
    BY <1>1, <1>o, <2>1
  <2> QED
    BY <2>1, <2>2 DEF JobInv, TokenFirst
<1>2. TokenFirst(j)'
  BY <1>1 DEF TokenFirst
<1>k. ASSUME NEW known, Refuses(j, known) PROVE Refuses(j, known)'
  BY <1>k, <1>m
<1>3. ASSUME NEW q \in Processes, On(q, j)', proc'[q].pc = "row"
      PROVE  proc'[q].left \subseteq Listed(j)' /\ Refuses(j, proc[q].known)'
  <2>1. PICK known : known = proc'[q].known
    OBVIOUS
  <2>2. CASE q = p
    BY <1>3, <1>k, <1>m, <2>1, <2>2 DEF On
  <2>3. CASE q # p
    BY <1>3, <1>k, <1>m, <1>o, <2>1, <2>3 DEF JobInv, Chosen, Ready, SameRows
  <2> QED
    BY <2>2, <2>3
<1>4. job[j] # NoJob
  BY DEF SameRows, Ready
<1>5. MembersFrom(j)' \subseteq job'[j].valid /\ Refuses(j, registered)'
  BY <1>m, <1>4 DEF JobInv, Chosen, SameRows
<1>6. Chosen(j)'
  BY <1>3, <1>5 DEF Chosen
<1> QED
  BY <1>m, <1>2, <1>6

\* The job of a process that is past the token has its own.
LEMMA PastToken ==
  ASSUME NEW j \in Jobs, JobInv(j), NEW p \in Processes, On(p, j), proc[p].pc # "token"
  PROVE  Ready(j)
BY DEF JobInv, TokenFirst

----------------------------------------------------------------------------
(* The invariant of the job that a step is about, one lemma for each action. *)

LEMMA AloneIs ==
  ASSUME NEW j \in Jobs, JobInv(j), Monotone, j \notin again'
  PROVE  Alone(j) /\ Single(j) /\ Fresh(j) /\ Counted(j) /\ Adds(j)
BY DEF JobInv, Monotone, Alone

LEMMA JobInvIs ==
  ASSUME NEW j \in Jobs, TokenFirst(j)', Chosen(j)', OnceFor(j)', j \notin again' => Alone(j)'
  PROVE  JobInv(j)'
BY DEF JobInv, Alone

LEMMA ValidateKeeps ==
  ASSUME TypeInv, Monotone, NEW j \in Jobs, JobInv(j), NEW p \in Processes, Validate(p, j)
  PROVE  JobInv(j)'
<1>1. /\ job[j] = NoJob /\ job'[j] \in JobRow /\ job'[j].file = batch[j]
      /\ job'[j].status = "validated" /\ job'[j].pending = TRUE
      /\ job'[j].valid = Rows(batch[j]) \ Rejected(batch[j])
      /\ members'[j] = [r \in Rows(batch[j]) |-> 0]
      /\ Starts(p, j, "token")
  BY ValidateDoes
<1>2. ~Ready(j) /\ ~Ready(j)'
  BY <1>1 DEF Ready
<1>3. queue'[j] = 0 /\ j \notin cache'
  BY <1>2 DEF JobInv, TokenFirst, Validate
<1>4. MembersFrom(j)' = {} /\ OnceFor(j)'
  BY <1>1 DEF MembersFrom, OnceFor
<1>5. \A q \in Processes \ {p} : ~On(q, j)'
  BY <1>1, TaskIs, OthersStay DEF Starts, On
<1>6. On(p, j)' /\ proc'[p].pc = "token"
  BY <1>1, Kinds DEF Starts, On
<1>7. TokenFirst(j)'
  BY <1>1, <1>2, <1>3, <1>4, <1>5, <1>6 DEF TokenFirst
<1>8. ASSUME NEW r \in Rows(job'[j].file) \ job'[j].valid, IsLegacy(j)'
      PROVE  RowFails(j, registered, r)'
  <2>1. r \in Rejected(batch[j])
    BY <1>1, <1>8
  <2>2. \/ batch[j].phone[r] \in Imported' \/ batch[j].phone[r] \in registered'
        \/ Repeats(batch[j], r)
    BY <2>1 DEF Rejected, Taken, Monotone
  <2> QED
    BY <1>1, <1>8, <2>2 DEF RowFails
<1>9. Chosen(j)'
  BY <1>4, <1>5, <1>6, <1>8 DEF Chosen, Refuses
<1>10. \A q \in Processes : ~Holds(q, j)'
  BY <1>5, <1>6 DEF Holds
<1>11. Adds(j)'
  BY <1>1 DEF Adds
<1>12. Alone(j)'
  BY <1>3, <1>10, <1>11, NobodyKeeps
<1> QED
  BY <1>4, <1>7, <1>9, <1>12, JobInvIs

LEMMA IssueTokenKeeps ==
  ASSUME TypeInv, Monotone, NEW j \in Jobs, JobInv(j), NEW p \in Processes, IssueToken(p),
         j = proc[p].job
  PROVE  JobInv(j)'
<1>1. /\ On(p, j) /\ proc[p].pc = "token" /\ job[j] # NoJob
      /\ Ends(p) /\ job'[j] \in JobRow /\ job'[j].file = job[j].file
      /\ job'[j].valid = job[j].valid /\ job'[j].status = job[j].status /\ job'[j].pending = FALSE
      /\ queue' = queue /\ members' = members
  BY IssueTokenDoes DEF At, On, IssueToken
<1>2. /\ ~Ready(j) /\ job[j].status = "validated" /\ queue[j] = 0 /\ MembersFrom(j) = {}
      /\ \A q \in Processes \ {p} : ~On(q, j)
  BY <1>1 DEF JobInv, TokenFirst
<1>3. Ready(j)' /\ SameRows(j)
  BY <1>1, Kinds DEF Ready, SameRows
<1>4. TokenFirst(j)' /\ Chosen(j)' /\ OnceFor(j)'
  BY <1>1, <1>3, ReadyKeeps DEF Ends
<1>5. Untouched(j)'
  BY <1>1, <1>2, <1>3, SameRowsMeans DEF Untouched
<1>6. \A q \in Processes : ~Holds(q, j)'
  BY <1>1, <1>2, OthersStay DEF Ends, Holds, On
<1>7. Adds(j)'
  BY <1>5 DEF Untouched, Adds
<1> QED
  BY <1>1, <1>2, <1>4, <1>5, <1>6, <1>7, NobodyKeeps, JobInvIs

LEMMA RequestImportKeeps ==
  ASSUME TypeInv, Monotone, NEW j \in Jobs, JobInv(j), NEW p \in Processes, RequestImport(p, j)
  PROVE  JobInv(j)'
<1>1. /\ Ready(j) /\ j \in cache /\ job' = job /\ members' = members /\ queue' = queue
      /\ cache' = cache /\ broken' = broken
      /\ again' = IF UnderWay(j) \/ j \in broken THEN again \cup {j} ELSE again
  BY DEF RequestImport
<1>2. PICK pc \in {"queue", "start", "fetch"} : Begin(p, j, pc)
  BY DEF RequestImport
<1>3. Starts(p, j, pc)
  BY <1>2, BeginStarts DEF Pcs
<1>4. proc[p] = Idle /\ Holds(p, j)' /\ Others(p) /\ proc'[p].pc = pc
      /\ proc'[p].imported = 0 /\ proc'[p].failed = {}
  BY <1>3, Kinds DEF Starts, Holds, On
<1>5. Ready(j)' /\ SameRows(j)
  BY <1>1 DEF Ready, SameRows
<1>6. TokenFirst(j)' /\ Chosen(j)' /\ OnceFor(j)'
  BY <1>1, <1>4, <1>5, ReadyKeeps
<1>7. ASSUME j \notin again' PROVE Alone(j)'
  <2>1. ~UnderWay(j) /\ j \notin broken
    BY <1>1, <1>7
  <2>2. /\ \A q \in Processes : ~On(q, j)
        /\ queue[j] = 0
    BY <2>1 DEF UnderWay, On, TypeInv, TypeOK
  <2>3. Untouched(j)
    BY <1>1, <1>7, <2>1, <2>2, AloneIs DEF Fresh, Holds
  <2>4. Untouched(j)' /\ Adds(j)'
    BY <1>1, <2>3 DEF Untouched, Ready, MembersFrom, Adds
  <2>5. \A q \in Processes \ {p} : ~Holds(q, j)'
    BY <1>4, <2>2, OthersStay DEF Holds
  <2> QED
    BY <1>1, <1>4, <2>2, <2>4, <2>5, HolderKeeps
<1> QED
  BY <1>6, <1>7, JobInvIs

LEMMA TakeTaskKeeps ==
  ASSUME TypeInv, Monotone, NEW j \in Jobs, JobInv(j), NEW p \in Processes, TakeTask(p, j)
  PROVE  JobInv(j)'
<1>1. /\ queue[j] > 0 /\ queue'[j] = queue[j] - 1 /\ job' = job /\ members' = members
  BY DEF TakeTask, TypeInv, TypeOK
<1>2. Starts(p, j, "fetch")
  BY BeginStarts DEF TakeTask, Pcs
<1>3. proc[p] = Idle /\ Holds(p, j)' /\ Others(p) /\ proc'[p].pc = "fetch"
      /\ proc'[p].imported = 0 /\ proc'[p].failed = {}
  BY <1>2, Kinds DEF Starts, Holds, On
<1>4. Ready(j)
  BY <1>1 DEF JobInv, TokenFirst
<1>5. Ready(j)' /\ SameRows(j)
  BY <1>1, <1>4 DEF Ready, SameRows
<1>6. TokenFirst(j)' /\ Chosen(j)' /\ OnceFor(j)'
  BY <1>3, <1>4, <1>5, ReadyKeeps
<1>7. ASSUME j \notin again' PROVE Alone(j)'
  <2>1. queue[j] <= 1 /\ Untouched(j) /\ \A q \in Processes : ~Holds(q, j)
    BY <1>1, <1>7, AloneIs DEF Fresh, Single
  <2>2. queue'[j] = 0
    BY <1>1, <2>1 DEF TypeInv, TypeOK
  <2>3. Untouched(j)' /\ Adds(j)'
    BY <1>1, <2>1 DEF Untouched, Ready, MembersFrom, Adds
  <2> QED
    BY <1>3, <2>1, <2>2, <2>3, OthersStay, HolderKeeps
<1> QED
  BY <1>6, <1>7, JobInvIs

LEMMA EnqueueKeeps ==
  ASSUME TypeInv, Monotone, NEW j \in Jobs, JobInv(j), NEW p \in Processes, Enqueue(p),
         j = proc[p].job
  PROVE  JobInv(j)'
<1>1. /\ On(p, j) /\ proc[p].pc = "queue" /\ job' = job /\ members' = members
      /\ queue'[j] = queue[j] + 1
  BY DEF Enqueue, At, On, TypeInv, TypeOK
<1>2. Goes(p, "noted")
  BY <1>1, GoGoes DEF Enqueue, Pcs, On
<1>3. Ready(j)
  BY <1>1, PastToken
<1>4. Ready(j)' /\ SameRows(j)
  BY <1>1, <1>3 DEF Ready, SameRows
<1>5. TokenFirst(j)' /\ Chosen(j)' /\ OnceFor(j)'
  BY <1>2, <1>3, <1>4, ReadyKeeps DEF Goes
<1>6. ASSUME j \notin again' PROVE Alone(j)'
  <2>1. Holds(p, j)
    BY <1>1 DEF Holds
  <2>2. queue[j] = 0 /\ \A q \in Processes \ {p} : ~Holds(q, j)
    BY <1>6, <2>1, AloneIs, HoldsAlone
  <2>3. Untouched(j)
    BY <1>1, <1>6, AloneIs DEF Fresh
  <2>4. Untouched(j)' /\ Adds(j)'
    BY <1>1, <2>3 DEF Untouched, Ready, MembersFrom, Adds
  <2>5. \A q \in Processes : ~Holds(q, j)'
    BY <1>2, <2>2, OthersStay DEF Goes, Holds
  <2>6. queue'[j] = 1
    BY <1>1, <2>2
  <2>7. Single(j)'
    BY <2>5, <2>6 DEF Single
  <2>8. \A q \in Processes : On(q, j)' => proc'[q].pc \notin {"queue", "fetch", "start", "row"}
    BY <2>5 DEF Holds
  <2>9. Fresh(j)' /\ Counted(j)'
    BY <2>4, <2>8 DEF Fresh, Counted
  <2> QED
    BY <2>4, <2>7, <2>9 DEF Alone
<1> QED
  BY <1>5, <1>6, JobInvIs

LEMMA NoteQueuedKeeps ==
  ASSUME TypeInv, Monotone, NEW j \in Jobs, JobInv(j), NEW p \in Processes, NoteQueued(p),
         j = proc[p].job
  PROVE  JobInv(j)'
<1>1. /\ On(p, j) /\ proc[p].pc = "noted" /\ job[j] # NoJob
      /\ members' = members /\ queue' = queue /\ cache' = cache /\ broken' = broken
  BY AtIs DEF NoteQueued, At, On
<1>2. Ends(p) /\ Restates(j, "queued")
  BY <1>1, DoneEnds, SetRestates DEF NoteQueued, Statuses
<1>3. Ready(j)
  BY <1>1, PastToken
<1>4. Ready(j)' /\ SameRows(j)
  BY <1>1, <1>2, <1>3, Kinds DEF Ready, SameRows, Restates
<1>5. TokenFirst(j)' /\ Chosen(j)' /\ OnceFor(j)'
  BY <1>2, <1>3, <1>4, ReadyKeeps DEF Ends
<1>6. ASSUME j \notin again' PROVE Alone(j)'
  <2>1. Single(j) /\ Fresh(j) /\ Counted(j)
    BY <1>6, AloneIs
  <2>2. MembersFrom(j)' = MembersFrom(j) /\ Listed(j)' = Listed(j) /\ job'[j].status # "completed"
    BY <1>2, <1>4, SameRowsMeans DEF Restates
  <2>3. Untouched(j) => Untouched(j)'
    BY <1>4, <2>2 DEF Untouched
  <2>4. /\ \A q \in Processes : On(q, j)' => On(q, j) /\ proc'[q] = proc[q]
        /\ \A q \in Processes : Holds(q, j)' <=> Holds(q, j)
    BY <1>1, <1>2, OthersStay DEF Ends, On, Holds
  <2>5. Single(j)'
    BY <1>1, <2>1, <2>4 DEF Single
  <2>6. Fresh(j)'
    BY <1>1, <2>1, <2>3, <2>4 DEF Fresh
  <2>7. Counted(j)'
    BY <2>1, <2>2, <2>4 DEF Counted, Counts
  <2>8. Adds(j)'
    BY <2>2 DEF Adds
  <2> QED
    BY <2>5, <2>6, <2>7, <2>8 DEF Alone
<1> QED
  BY <1>5, <1>6, JobInvIs

LEMMA FetchRowsKeeps ==
  ASSUME TypeInv, Monotone, NEW j \in Jobs, JobInv(j), NEW p \in Processes, FetchRows(p),
         j = proc[p].job
  PROVE  JobInv(j)'
<1>1. /\ On(p, j) /\ proc[p].pc = "fetch" /\ job' = job /\ members' = members /\ queue' = queue
  BY DEF FetchRows, At, On
<1>2. Goes(p, "start")
  BY <1>1, GoGoes DEF FetchRows, Pcs, On
<1>3. Ready(j)
  BY <1>1, PastToken
<1>4. Ready(j)' /\ SameRows(j)
  BY <1>1, <1>3 DEF Ready, SameRows
<1>5. TokenFirst(j)' /\ Chosen(j)' /\ OnceFor(j)'
  BY <1>2, <1>3, <1>4, ReadyKeeps DEF Goes
<1>6. ASSUME j \notin again' PROVE Alone(j)'
  <2>1. queue[j] = 0 /\ \A q \in Processes \ {p} : ~Holds(q, j)
    BY <1>1, <1>6, AloneIs, HoldsAlone DEF Holds
  <2>2. Untouched(j) /\ proc[p].imported = 0 /\ proc[p].failed = {}
    BY <1>1, <1>6, AloneIs DEF Fresh
  <2>3. Untouched(j)' /\ Adds(j)'
    BY <1>1, <2>2 DEF Untouched, Ready, MembersFrom, Adds
  <2>4. Holds(p, j)' /\ proc'[p].pc = "start" /\ proc'[p].imported = 0 /\ proc'[p].failed = {}
    BY <1>1, <1>2, <2>2, Kinds DEF Goes, Holds, On
  <2> QED
    BY <1>1, <1>2, <2>1, <2>3, <2>4, OthersStay, HolderKeeps DEF Goes
<1> QED
  BY <1>5, <1>6, JobInvIs

LEMMA FetchExpiredKeeps ==
  ASSUME TypeInv, Monotone, NEW j \in Jobs, JobInv(j), NEW p \in Processes, FetchExpired(p),
         j = proc[p].job
  PROVE  JobInv(j)'
<1>1. /\ On(p, j) /\ proc[p].pc = "fetch" /\ job[j] # NoJob
      /\ members' = members /\ queue' = queue /\ j \notin cache'
  BY AtIs DEF FetchExpired, At, On
<1>2. Ends(p) /\ Restates(j, "failed")
  BY <1>1, DoneEnds, FailRestates DEF FetchExpired
<1>3. Ready(j)
  BY <1>1, PastToken
<1>4. Ready(j)' /\ SameRows(j)
  BY <1>1, <1>2, <1>3, Kinds DEF Ready, SameRows, Restates
<1>5. TokenFirst(j)' /\ Chosen(j)' /\ OnceFor(j)'
  BY <1>2, <1>3, <1>4, ReadyKeeps DEF Ends
<1>6. ASSUME j \notin again' PROVE Alone(j)'
  <2>1. queue[j] = 0 /\ \A q \in Processes \ {p} : ~Holds(q, j)
    BY <1>1, <1>6, AloneIs, HoldsAlone DEF Holds
  <2>2. \A q \in Processes : ~Holds(q, j)'
    BY <1>2, <2>1, OthersStay DEF Ends, Holds, On
  <2>3. Adds(j)'
    BY <1>2 DEF Restates, Adds
  <2> QED
    BY <1>1, <2>1, <2>2, <2>3, NobodyKeeps
<1> QED
  BY <1>5, <1>6, JobInvIs

LEMMA StartImportKeeps ==
  ASSUME TypeInv, Monotone, NEW j \in Jobs, JobInv(j), NEW p \in Processes, StartImport(p),
         j = proc[p].job
  PROVE  JobInv(j)'
<1>1. /\ On(p, j) /\ proc[p].pc = "start" /\ job[j] # NoJob
      /\ members' = members /\ queue' = queue
      /\ Works(p, registered, Listed(j), proc[p].imported, proc[p].failed)
      /\ Restates(j, "processing")
  BY StartImportDoes DEF StartImport, At, On
<1>2. Ready(j)
  BY <1>1, PastToken
<1>3. Ready(j)' /\ SameRows(j)
  BY <1>1, <1>2, Kinds DEF Ready, SameRows, Restates
<1>r. Refuses(j, registered)
  BY <1>1 DEF JobInv, Chosen
<1>4. TokenFirst(j)' /\ Chosen(j)' /\ OnceFor(j)'
  BY <1>1, <1>2, <1>3, <1>r, ReadyKeeps DEF Works
<1>5. ASSUME j \notin again' PROVE Alone(j)'
  <2>1. queue[j] = 0 /\ \A q \in Processes \ {p} : ~Holds(q, j)
    BY <1>1, <1>5, AloneIs, HoldsAlone DEF Holds
  <2>2. Untouched(j) /\ proc[p].imported = 0 /\ proc[p].failed = {}
    BY <1>1, <1>5, AloneIs DEF Fresh
  <2>3. MembersFrom(j)' = {} /\ Listed(j)' = Listed(j) /\ job'[j].status = "processing"
    BY <1>1, <1>3, <2>2, SameRowsMeans DEF Untouched, Restates
  <2>4. Cardinality(MembersFrom(j)') = 0
    BY <2>3, FS_EmptySet
  <2>5. proc'[p].left = Listed(j) /\ proc'[p].imported = 0 /\ proc'[p].failed = {}
    BY <1>1, <2>2 DEF Works
  <2>6. Counts(p, j)'
    BY <2>3, <2>4, <2>5 DEF Counts
  <2>7. Holds(p, j)' /\ proc'[p].pc = "row"
    BY <1>1, Kinds DEF Works, Holds, On
  <2>8. Adds(j)'
    BY <2>3 DEF Adds
  <2> QED
    BY <1>1, <2>1, <2>6, <2>7, <2>8, OthersStay, HolderKeeps DEF Works
<1> QED
  BY <1>4, <1>5, JobInvIs

\* A row that makes no member: it is refused, or it raises.
LEMMA FailedRowKeeps ==
  ASSUME TypeInv, Monotone, NEW j \in Jobs, JobInv(j), NEW p \in Processes, j = proc[p].job,
         At(p, "row"), job' = job, members' = members, queue' = queue, NEW r \in proc[p].left,
         Works(p, proc[p].known, proc[p].left \ {r}, proc[p].imported, proc[p].failed \cup {r})
  PROVE  JobInv(j)'
<1>1. On(p, j) /\ proc[p].pc = "row" /\ job[j] # NoJob
  BY AtIs DEF On
<1>2. Ready(j)
  BY <1>1, PastToken
<1>3. Ready(j)' /\ SameRows(j)
  BY <1>2 DEF Ready, SameRows
<1>m. MembersFrom(j)' = MembersFrom(j) /\ Listed(j)' = Listed(j)
  BY <1>3, SameRowsMeans
<1>4. proc[p].left \subseteq Listed(j) /\ Refuses(j, proc[p].known)
  BY <1>1 DEF JobInv, Chosen
<1>5. TokenFirst(j)' /\ Chosen(j)' /\ OnceFor(j)'
  BY <1>2, <1>3, <1>4, ReadyKeeps DEF Works
<1>6. ASSUME j \notin again' PROVE Alone(j)'
  <2>1. queue[j] = 0 /\ \A q \in Processes \ {p} : ~Holds(q, j)
    BY <1>1, <1>6, AloneIs, HoldsAlone DEF Holds
  <2>2. Counts(p, j)
    BY <1>1, <1>6, AloneIs DEF Counted
  <2>3. /\ proc'[p].left = proc[p].left \ {r} /\ proc'[p].imported = proc[p].imported
        /\ proc'[p].failed = proc[p].failed \cup {r}
    BY DEF Works
  <2>4. Counts(p, j)'
    BY <1>m, <2>2, <2>3 DEF Counts
  <2>5. Holds(p, j)' /\ proc'[p].pc = "row"
    BY <1>1, Kinds DEF Works, Holds, On
  <2>6. Adds(j)'
    BY <2>2 DEF Adds, Counts
  <2> QED
    BY <2>1, <2>4, <2>5, <2>6, OthersStay, HolderKeeps DEF Works
<1> QED
  BY <1>5, <1>6, JobInvIs

\* The row of a number that no member has becomes a member.
LEMMA MadeRowKeeps ==
  ASSUME TypeInv, Monotone, NEW j \in Jobs, JobInv(j), NEW p \in Processes, j = proc[p].job,
         At(p, "row"), job' = job, queue' = queue, NEW r \in proc[p].left,
         ~RowFails(j, proc[p].known, r), MakeMember(j, r),
         Works(p, proc[p].known, proc[p].left \ {r}, proc[p].imported + 1, proc[p].failed)
  PROVE  JobInv(j)'
<1>1. On(p, j) /\ proc[p].pc = "row" /\ job[j] # NoJob
  BY AtIs DEF On
<1>2. Ready(j) /\ Ready(j)'
  BY <1>1, PastToken DEF Ready
<1>3. proc[p].left \subseteq Listed(j) /\ Listed(j) \subseteq Rows(job[j].file)
  BY <1>1, JobIs DEF JobInv, Chosen
<1>4. /\ members[j] \in [Rows(job[j].file) -> Nat]
      /\ members'[j] \in [Rows(job[j].file) -> Nat]
      /\ members'[j][r] = members[j][r] + 1
      /\ \A x \in Rows(job[j].file) \ {r} : members'[j][x] = members[j][x]
  BY <1>1, <1>3, MembersMade, JobIs
<1>5. MembersFrom(j)' = MembersFrom(j) \cup {r}
  <2>1. r \in MembersFrom(j)'
    <3>1. members[j][r] \in Nat /\ r \in Rows(job[j].file)
      BY <1>3, <1>4
    <3>2. r \in DOMAIN members'[j] /\ members'[j][r] > 0
      BY <1>4, <3>1
    <3> QED
      BY <3>2 DEF MembersFrom
  <2>2. \A x \in Rows(job[j].file) \ {r} : x \in MembersFrom(j)' <=> x \in MembersFrom(j)
    BY <1>4 DEF MembersFrom
  <2>3. MembersFrom(j)' \subseteq Rows(job[j].file) /\ MembersFrom(j) \subseteq Rows(job[j].file)
    BY <1>4 DEF MembersFrom
  <2> QED
    BY <2>1, <2>2, <2>3
<1>6. Listed(j)' = Listed(j) /\ IsLegacy(j)' = IsLegacy(j)
  BY DEF Listed, IsLegacy
<1>7. r \in job[j].valid
  BY <1>1, <1>3 DEF JobInv, Chosen, Listed, Refuses
<1>8. ASSUME NEW known, Refuses(j, known) PROVE Refuses(j, known)'
  BY <1>6, <1>8 DEF RowFails, Refuses, Monotone
<1>o. \A q \in Processes \ {p} : (On(q, j)' <=> On(q, j)) /\ proc'[q] = proc[q]
  BY OthersStay DEF Works
<1>w. /\ proc'[p].pc = "row" /\ proc'[p].left = proc[p].left \ {r}
      /\ proc'[p].known = proc[p].known
      /\ proc'[p].imported = proc[p].imported + 1 /\ proc'[p].failed = proc[p].failed
  BY DEF Works
<1>9. TokenFirst(j)'
  <2>1. ASSUME NEW q \in Processes, On(q, j)', proc'[q].pc = "token" PROVE FALSE
    BY <1>o, <1>w, <1>2, <2>1 DEF JobInv, TokenFirst
  <2> QED
    BY <1>2, <2>1 DEF TokenFirst
<1>10. Chosen(j)'
  <2>1. ASSUME NEW q \in Processes, On(q, j)', proc'[q].pc = "row"
        PROVE  proc'[q].left \subseteq Listed(j)' /\ Refuses(j, proc[q].known)'
    <3>1. proc'[q].left \subseteq proc[q].left /\ proc'[q].known = proc[q].known
      BY <1>o, <1>w, <2>1
    <3>2. On(q, j) /\ proc[q].pc = "row"
      BY <1>1, <1>o, <2>1
    <3>3. proc[q].left \subseteq Listed(j) /\ Refuses(j, proc[q].known)
      BY <1>1, <3>2 DEF JobInv, Chosen
    <3>4. PICK known : known = proc[q].known
      OBVIOUS
    <3> QED
      BY <1>6, <1>8, <3>1, <3>3, <3>4
  <2>2. MembersFrom(j)' \subseteq job'[j].valid
    BY <1>1, <1>5, <1>7 DEF JobInv, Chosen
  <2>3. Refuses(j, registered)'
    BY <1>1, <1>6 DEF JobInv, Chosen, RowFails, Refuses, Monotone
  <2> QED
    BY <2>1, <2>2, <2>3 DEF Chosen
\* A row made before has a number that is a member's, or none, and then it is made again.
<1>11. r \in MembersFrom(j) => job[j].file.phone[r] = None /\ j \in again
  <2> SUFFICES ASSUME r \in MembersFrom(j)
               PROVE  job[j].file.phone[r] = None /\ j \in again
    OBVIOUS
  <2>1. job[j].file.phone[r] \notin Imported
    BY Zenon DEF RowFails
  <2>2. job[j].file.phone[r] = None
    <3>1. job[j].file.phone[r] \in Phones \cup {None}
      <4>1. job[j].file \in File /\ r \in Rows(job[j].file)
        BY <1>1, <1>3, JobIs
      <4> QED
        BY <4>1 DEF File, Rows
    <3> QED
      BY <2>1, <3>1 DEF Imported
  <2>3. j \in again
    BY <1>1 DEF JobInv, Counted, Counts
  <2> QED
    BY <2>2, <2>3
<1>12. OnceFor(j)'
  <2> SUFFICES ASSUME NEW x \in DOMAIN members'[j], members'[j][x] > 1
               PROVE  j \in again' /\ job'[j].file.phone[x] = None
    BY DEF OnceFor
  <2>1. x \in Rows(job[j].file) /\ members[j][x] \in Nat
    BY <1>4
  <2>2. CASE x = r
    <3>1. members[j][x] > 0
      BY <1>4, <2>1, <2>2
    <3>2. r \in MembersFrom(j)
      BY <1>4, <2>1, <2>2, <3>1 DEF MembersFrom
    <3> QED
      BY <1>11, <2>2, <3>2 DEF Monotone
  <2>3. CASE x # r
    <3>1. x \in DOMAIN members[j] /\ members[j][x] > 1
      BY <1>4, <2>1, <2>3
    <3> QED
      BY <3>1 DEF JobInv, OnceFor, Monotone
  <2> QED
    BY <2>2, <2>3
<1>13. ASSUME j \notin again' PROVE Alone(j)'
  <2>1. queue[j] = 0 /\ \A q \in Processes \ {p} : ~Holds(q, j)
    BY <1>1, <1>13, AloneIs, HoldsAlone DEF Holds
  <2>2. Counts(p, j)
    BY <1>1, <1>13, AloneIs DEF Counted
  <2>3. r \notin MembersFrom(j)
    BY <1>11, <1>13 DEF Monotone
  <2>4. Cardinality(MembersFrom(j)') = Cardinality(MembersFrom(j)) + 1
    <3>1. PICK S : S = MembersFrom(j)
      OBVIOUS
    <3>2. IsFiniteSet(S) /\ r \notin S
      BY <1>1, <2>3, <3>1, JobIs
    <3>3. Cardinality(S \cup {r}) = Cardinality(S) + 1
      BY <3>2, FS_AddElement
    <3> QED
      BY <1>5, <3>1, <3>3
  <2>5. Counts(p, j)'
    <3>1. proc'[p].imported = Cardinality(MembersFrom(j)') /\ job'[j].status # "completed"
      BY <1>w, <2>2, <2>4 DEF Counts
    <3> QED
      BY <1>5, <1>6, <1>w, <2>2, <3>1 DEF Counts
  <2>6. Holds(p, j)'
    BY <1>1, Kinds DEF Works, Holds, On
  <2>7. Adds(j)'
    BY <2>2 DEF Adds, Counts
  <2> QED
    BY <1>w, <2>1, <2>5, <2>6, <2>7, OthersStay, HolderKeeps DEF Works
<1> QED
  BY <1>9, <1>10, <1>12, <1>13, JobInvIs

LEMMA ImportRowKeeps ==
  ASSUME TypeInv, Monotone, NEW j \in Jobs, JobInv(j), NEW p \in Processes, ImportRow(p),
         j = proc[p].job
  PROVE  JobInv(j)'
<1>1. At(p, "row") /\ job' = job /\ queue' = queue
  BY DEF ImportRow
<1>2. PICK r \in proc[p].left :
        \/ /\ RowFails(j, proc[p].known, r) /\ members' = members
           /\ Works(p, proc[p].known, proc[p].left \ {r},
                    proc[p].imported, proc[p].failed \cup {r})
        \/ /\ ~RowFails(j, proc[p].known, r) /\ MakeMember(j, r)
           /\ Works(p, proc[p].known, proc[p].left \ {r}, proc[p].imported + 1, proc[p].failed)
  BY ImportRowDoes
<1> QED
  BY <1>1, <1>2, FailedRowKeeps, MadeRowKeeps

LEMMA FileRaisesKeeps ==
  ASSUME TypeInv, Monotone, NEW j \in Jobs, JobInv(j), NEW p \in Processes, FileRaises(p),
         j = proc[p].job
  PROVE  JobInv(j)'
<1>1. /\ On(p, j) /\ proc[p].pc = "row" /\ job[j] # NoJob
      /\ members' = members /\ queue' = queue /\ j \in broken'
  BY AtIs DEF FileRaises, At, On
<1>2. Restates(j, "failed") /\ (Goes(p, "drop") \/ Ends(p))
  BY <1>1, GoGoes, DoneEnds, FailRestates DEF FileRaises, Pcs, On
<1>3. Ready(j)
  BY <1>1, PastToken
<1>4. Ready(j)' /\ SameRows(j)
  BY <1>1, <1>2, <1>3, Kinds DEF Ready, SameRows, Restates
<1>5. TokenFirst(j)' /\ Chosen(j)' /\ OnceFor(j)'
  BY <1>2, <1>3, <1>4, ReadyKeeps DEF Goes, Ends
<1>6. ASSUME j \notin again' PROVE Alone(j)'
  <2>1. queue[j] = 0 /\ \A q \in Processes \ {p} : ~Holds(q, j)
    BY <1>1, <1>6, AloneIs, HoldsAlone DEF Holds
  <2>2. \A q \in Processes \ {p} : ~Holds(q, j)'
    BY <1>2, <2>1, OthersStay DEF Goes, Ends
  <2>3. Adds(j)'
    BY <1>2 DEF Restates, Adds
  <2>4. CASE Goes(p, "drop")
    <3>1. Holds(p, j)' /\ proc'[p].pc = "drop"
      BY <1>1, <2>4, Kinds DEF Goes, Holds, On
    <3> QED
      BY <1>1, <2>1, <2>2, <2>3, <3>1, HolderKeeps
  <2>5. CASE Ends(p)
    <3>1. \A q \in Processes : ~Holds(q, j)'
      BY <2>2, <2>5, ZenonT(30) DEF Ends, Holds, On
    <3> QED
      BY <1>1, <2>1, <2>3, <3>1, NobodyKeeps
  <2> QED
    BY <1>2, <2>4, <2>5
<1> QED
  BY <1>5, <1>6, JobInvIs

LEMMA CompleteKeeps ==
  ASSUME TypeInv, Monotone, NEW j \in Jobs, JobInv(j), NEW p \in Processes, Complete(p),
         j = proc[p].job
  PROVE  JobInv(j)'
<1>1. /\ On(p, j) /\ proc[p].pc = "row" /\ job[j] # NoJob /\ proc[p].left = {}
      /\ members' = members /\ queue' = queue
      /\ Goes(p, "drop") /\ Restates(j, "completed") /\ job'[j].imported = proc[p].imported
      /\ job'[j].errors = IF IsLegacy(j) THEN (Rows(job[j].file) \ job[j].valid) \cup proc[p].failed
                          ELSE proc[p].failed
  BY CompleteDoes, ZenonT(30) DEF Complete, At, On
<1>2. Ready(j)
  BY <1>1, PastToken
<1>3. Ready(j)' /\ SameRows(j)
  BY <1>1, <1>2, Kinds DEF Ready, SameRows, Restates
<1>4. TokenFirst(j)' /\ Chosen(j)' /\ OnceFor(j)'
  BY <1>1, <1>2, <1>3, ReadyKeeps DEF Goes
<1>5. ASSUME j \notin again' PROVE Alone(j)'
  <2>1. queue[j] = 0 /\ \A q \in Processes \ {p} : ~Holds(q, j)
    BY <1>1, <1>5, AloneIs, HoldsAlone DEF Holds
  <2>2. /\ proc[p].imported = Cardinality(MembersFrom(j))
        /\ proc[p].failed \cap MembersFrom(j) = {}
        /\ proc[p].failed \cup MembersFrom(j) = Listed(j)
    BY <1>1, <1>5, AloneIs DEF Counted, Counts
  <2>3. MembersFrom(j)' = MembersFrom(j) /\ Listed(j)' = Listed(j)
    BY <1>3, SameRowsMeans
  <2>4. MembersFrom(j) \subseteq job[j].valid
    BY <1>1 DEF JobInv, Chosen
  <2>5. job'[j].errors \cap Listed(j) = Listed(j) \ MembersFrom(j)
    BY <1>1, <2>2, <2>4 DEF Listed
  <2>6. Adds(j)'
    BY <1>1, <2>2, <2>3, <2>5 DEF Adds
  <2>7. Holds(p, j)' /\ proc'[p].pc = "drop"
    BY <1>1, Kinds DEF Goes, Holds, On
  <2> QED
    BY <1>1, <2>1, <2>6, <2>7, OthersStay, HolderKeeps DEF Goes
<1> QED
  BY <1>4, <1>5, JobInvIs

LEMMA DropTokenKeeps ==
  ASSUME TypeInv, Monotone, NEW j \in Jobs, JobInv(j), NEW p \in Processes, DropToken(p),
         j = proc[p].job
  PROVE  JobInv(j)'
<1>1. /\ On(p, j) /\ proc[p].pc = "drop" /\ job' = job /\ members' = members /\ queue' = queue
      /\ j \notin cache'
  BY DEF DropToken, At, On
<1>2. Ends(p)
  BY DoneEnds DEF DropToken
<1>3. Ready(j)
  BY <1>1, PastToken
<1>4. Ready(j)' /\ SameRows(j)
  BY <1>1, <1>3 DEF Ready, SameRows
<1>5. TokenFirst(j)' /\ Chosen(j)' /\ OnceFor(j)'
  BY <1>2, <1>3, <1>4, ReadyKeeps DEF Ends
<1>6. ASSUME j \notin again' PROVE Alone(j)'
  <2>1. queue[j] = 0 /\ \A q \in Processes \ {p} : ~Holds(q, j)
    BY <1>1, <1>6, AloneIs, HoldsAlone DEF Holds
  <2>2. \A q \in Processes : ~Holds(q, j)'
    BY <1>2, <2>1, OthersStay DEF Ends, Holds, On
  <2>3. Adds(j)'
    BY <1>1, <1>4, <1>6, AloneIs, SameRowsMeans DEF Adds
  <2> QED
    BY <1>1, <2>1, <2>2, <2>3, NobodyKeeps
<1> QED
  BY <1>5, <1>6, JobInvIs

\* A process that stops leaves the job as it found it.
LEMMA StopKeeps ==
  ASSUME TypeInv, Monotone, NEW j \in Jobs, JobInv(j), NEW p \in Processes, Stop(p),
         j = proc[p].job
  PROVE  JobInv(j)'
<1>1. /\ job' = job /\ members' = members /\ queue' = queue /\ cache' = cache /\ j \in broken'
      /\ Ends(p)
  BY DoneEnds DEF Stop
<1>2. /\ SameRows(j)
      /\ Ready(j)' <=> Ready(j)
      /\ Untouched(j)' <=> Untouched(j)
  BY <1>1 DEF SameRows, Ready, Untouched, MembersFrom
<1>m. /\ MembersFrom(j)' = MembersFrom(j) /\ Listed(j)' = Listed(j) /\ IsLegacy(j)' = IsLegacy(j)
      /\ \A known : Refuses(j, known) => Refuses(j, known)'
      /\ Refuses(j, registered) => Refuses(j, registered)'
      /\ OnceFor(j)'
  BY <1>2, SameRowsMeans
<1>3. \A q \in Processes : On(q, j)' => On(q, j) /\ proc'[q] = proc[q]
  BY <1>1, OthersStay DEF Ends, On
<1>4. \A q \in Processes : Holds(q, j)' => Holds(q, j)
  BY <1>3 DEF Holds
<1>5. TokenFirst(j)'
  BY <1>1, <1>2, <1>3, <1>m DEF JobInv, TokenFirst
<1>6. Chosen(j)'
  BY <1>1, <1>3, <1>m DEF JobInv, Chosen
<1>7. ASSUME j \notin again' PROVE Alone(j)'
  <2>1. Single(j) /\ Fresh(j) /\ Counted(j) /\ Adds(j)
    BY <1>7, AloneIs
  <2>2. Single(j)'
    BY <1>1, <1>4, <2>1 DEF Single
  <2>3. Fresh(j)'
    BY <1>1, <1>2, <1>3, <2>1 DEF Fresh
  <2>4. Counted(j)'
    BY <1>1, <1>3, <1>m, <2>1 DEF Counted, Counts
  <2>5. Adds(j)'
    BY <1>1, <1>m, <2>1 DEF Adds
  <2> QED
    BY <2>2, <2>3, <2>4, <2>5 DEF Alone
<1> QED
  BY <1>5, <1>6, <1>7, <1>m, JobInvIs

----------------------------------------------------------------------------
(* Every step keeps the invariant of every job.                              *)

LEMMA ImportInit == Init => ImportInv
<1> SUFFICES ASSUME Init PROVE ImportInv
  OBVIOUS
<1>1. TypeInv
  BY TypeInit
<1>2. ASSUME NEW j \in Jobs PROVE JobInv(j)
  <2>1. /\ job[j] = NoJob /\ members[j] = <<>> /\ queue[j] = 0 /\ cache = {}
        /\ \A p \in Processes : ~On(p, j)
    BY DEF Init, On
  <2>2. MembersFrom(j) = {} /\ OnceFor(j) /\ ~Ready(j)
    BY <2>1 DEF MembersFrom, OnceFor, Ready
  <2>3. TokenFirst(j) /\ Chosen(j)
    BY <2>1, <2>2 DEF TokenFirst, Chosen
  <2>4. Single(j) /\ Fresh(j) /\ Counted(j) /\ Adds(j)
    BY <2>1 DEF Single, Fresh, Counted, Adds, Holds
  <2> QED
    BY <2>2, <2>3, <2>4 DEF JobInv
<1> QED
  BY <1>1, <1>2 DEF ImportInv

LEMMA ImportNext == ImportInv /\ [Next]_vars => ImportInv'
<1> SUFFICES ASSUME ImportInv, [Next]_vars PROVE ImportInv'
  OBVIOUS
<1>i. TypeInv /\ \A j \in Jobs : JobInv(j)
  BY DEF ImportInv
<1>t. TypeInv' /\ Monotone
  BY <1>i, TypeNext, StepGrows DEF Monotone
<1>p. Threads \subseteq Processes /\ Runners \subseteq Processes
  BY DEF Processes
<1>e. ASSUME \A k \in Jobs : Elsewhere(k) PROVE \A k \in Jobs : JobInv(k)'
  BY <1>e, <1>i, <1>t, ElsewhereKeeps
<1>o. ASSUME NEW j \in Jobs, JobInv(j)', \A k \in Jobs \ {j} : Elsewhere(k)
      PROVE  \A k \in Jobs : JobInv(k)'
  BY <1>o, <1>i, <1>t, ElsewhereKeeps
<1>j. ASSUME NEW p \in Processes, proc[p] # Idle PROVE \E j \in Jobs : j = proc[p].job
  BY <1>i, <1>j, TaskIs
<1>1. ASSUME NEW p \in Processes, NEW j \in Jobs, Validate(p, j) PROVE \A k \in Jobs : JobInv(k)'
  <2>1. JobInv(j)'
    BY <1>1, <1>i, <1>t, ValidateKeeps
  <2>2. \A k \in Jobs \ {j} : Elsewhere(k)
    <3>1. /\ OtherJobs(j) /\ Starts(p, j, "token") /\ \A k \in Jobs \ {j} : members'[k] = members[k]
          /\ queue' = queue /\ cache' = cache
      BY <1>1, <1>i, ValidateDoes DEF Validate
    <3> QED
      BY <3>1, ElsewhereOf DEF OtherJobs, Starts
  <2> QED
    BY <1>o, <2>1, <2>2
<1>2. ASSUME NEW p \in Processes, NEW j \in Jobs, RequestImport(p, j) PROVE \A k \in Jobs : JobInv(k)'
  <2>1. JobInv(j)'
    BY <1>2, <1>i, <1>t, RequestImportKeeps
  <2>2. PICK pc \in {"queue", "start", "fetch"} : Begin(p, j, pc)
    BY <1>2 DEF RequestImport
  <2>3. Starts(p, j, pc)
    BY <1>i, <2>2, BeginStarts DEF Pcs
  <2>4. job' = job /\ members' = members /\ queue' = queue /\ cache' = cache
    BY <1>2 DEF RequestImport
  <2> QED
    BY <1>o, <2>1, <2>3, <2>4, ElsewhereOf DEF Starts
<1>3. ASSUME NEW p \in Processes, NEW j \in Jobs, TakeTask(p, j) PROVE \A k \in Jobs : JobInv(k)'
  <2>1. JobInv(j)'
    BY <1>3, <1>i, <1>t, TakeTaskKeeps
  <2>2. Starts(p, j, "fetch")
    BY <1>3, <1>i, BeginStarts DEF TakeTask, Pcs
  <2>3. /\ job' = job /\ members' = members /\ cache' = cache
        /\ \A k \in Jobs \ {j} : queue'[k] = queue[k]
    BY <1>3, <1>i DEF TakeTask, TypeInv, TypeOK
  <2> QED
    BY <1>o, <2>1, <2>2, <2>3, ElsewhereOf DEF Starts
\* The steps of a process that has a job.
<1>4. ASSUME NEW p \in Processes, proc[p] # Idle,
             IssueToken(p) \/ NoteQueued(p) \/ FetchExpired(p) \/ Complete(p) \/ FileRaises(p)
               \/ StartImport(p)
      PROVE  \A k \in Jobs : JobInv(k)'
  <2>1. PICK j \in Jobs : j = proc[p].job
    BY <1>4, <1>j
  <2>2. job[j] # NoJob
    BY <1>4, <1>i, <2>1, TaskIs
  <2>3. JobInv(j)'
    BY <1>4, <1>i, <1>t, <2>1, IssueTokenKeeps, NoteQueuedKeeps, FetchExpiredKeeps, CompleteKeeps,
       FileRaisesKeeps, StartImportKeeps
  <2>4. members' = members /\ queue' = queue /\ \A k \in Jobs \ {j} : k \in cache' => k \in cache
    BY <1>4, <2>1 DEF IssueToken, NoteQueued, FetchExpired, Complete, FileRaises, StartImport
  <2>5. OtherJobs(j) /\ Others(p) /\ (proc'[p] = Idle \/ proc'[p].job = j)
    <3>1. CASE IssueToken(p)
      BY <1>i, <2>1, <3>1, IssueTokenDoes DEF Ends
    <3>2. CASE NoteQueued(p)
      BY <1>i, <2>1, <2>2, <3>2, SetRestates, DoneEnds DEF NoteQueued, Statuses, Restates, Ends
    <3>3. CASE FetchExpired(p)
      BY <1>i, <2>1, <2>2, <3>3, FailRestates, DoneEnds DEF FetchExpired, Restates, Ends
    <3>4. CASE Complete(p)
      BY <1>i, <2>1, <3>4, CompleteDoes DEF Restates, Goes
    <3>5. CASE FileRaises(p)
      BY <1>4, <1>i, <2>1, <2>2, <3>5, FailRestates, GoGoes, DoneEnds
         DEF FileRaises, Restates, Goes, Ends, Pcs
    <3>6. CASE StartImport(p)
      BY <1>i, <2>1, <3>6, StartImportDoes DEF Restates, Works
    <3> QED
      BY <1>4, <3>1, <3>2, <3>3, <3>4, <3>5, <3>6
  <2> QED
    BY <1>o, <2>1, <2>3, <2>4, <2>5, ElsewhereOf DEF OtherJobs
<1>5. ASSUME NEW p \in Processes, proc[p] # Idle,
             Enqueue(p) \/ FetchRows(p) \/ DropToken(p) \/ Stop(p)
      PROVE  \A k \in Jobs : JobInv(k)'
  <2>1. PICK j \in Jobs : j = proc[p].job
    BY <1>5, <1>j
  <2>2. JobInv(j)'
    BY <1>5, <1>i, <1>t, <2>1, EnqueueKeeps, FetchRowsKeeps, DropTokenKeeps, StopKeeps
  <2>3. /\ job' = job /\ members' = members
        /\ \A k \in Jobs \ {j} : queue'[k] = queue[k] /\ (k \in cache' => k \in cache)
    BY <1>5, <1>i, <2>1 DEF Enqueue, FetchRows, DropToken, Stop, TypeInv, TypeOK
  <2>4. Goes(p, "noted") \/ Goes(p, "start") \/ Ends(p)
    BY <1>5, <1>i, GoGoes, DoneEnds DEF Enqueue, FetchRows, DropToken, Stop, Pcs
  <2> QED
    BY <1>o, <2>1, <2>2, <2>3, <2>4, ElsewhereOf DEF Goes, Ends
<1>6. ASSUME NEW p \in Processes, proc[p] # Idle, ImportRow(p) PROVE \A k \in Jobs : JobInv(k)'
  <2>1. PICK j \in Jobs : j = proc[p].job
    BY <1>6, <1>j
  <2>2. JobInv(j)'
    BY <1>6, <1>i, <1>t, <2>1, ImportRowKeeps
  <2>3. job' = job /\ queue' = queue /\ cache' = cache
    BY <1>6 DEF ImportRow
  <2>4. PICK r \in proc[p].left :
          \/ /\ members' = members
             /\ Works(p, proc[p].known, proc[p].left \ {r},
                      proc[p].imported, proc[p].failed \cup {r})
          \/ /\ MakeMember(j, r)
             /\ Works(p, proc[p].known, proc[p].left \ {r},
                      proc[p].imported + 1, proc[p].failed)
    BY <1>6, <1>i, <2>1, ImportRowDoes
  <2>5. r \in Rows(job[j].file) /\ job[j] # NoJob
    BY <1>6, <1>i, <2>1, TaskIs
  <2>6. \A k \in Jobs \ {j} : members'[k] = members[k]
    BY <1>i, <2>4, <2>5, MembersMade
  <2>7. Others(p) /\ proc'[p].job = j
    BY <2>1, <2>4 DEF Works
  <2> QED
    BY <1>o, <2>1, <2>2, <2>3, <2>6, <2>7, ElsewhereOf
<1>7. ASSUME NEW p \in Processes, proc[p] # Idle, RowRaises(p) PROVE \A k \in Jobs : JobInv(k)'
  <2>1. PICK j \in Jobs : j = proc[p].job
    BY <1>7, <1>j
  <2>2. job' = job /\ members' = members /\ queue' = queue /\ cache' = cache /\ At(p, "row")
    BY <1>7 DEF RowRaises
  <2>3. PICK r \in proc[p].left :
          Works(p, proc[p].known, proc[p].left \ {r}, proc[p].imported, proc[p].failed \cup {r})
    BY <1>7, <1>i, RowRaisesDoes
  <2>4. JobInv(j)'
    BY <1>i, <1>t, <2>1, <2>2, <2>3, FailedRowKeeps
  <2>5. Others(p) /\ proc'[p].job = j
    BY <2>1, <2>3 DEF Works
  <2> QED
    BY <1>o, <2>1, <2>2, <2>4, <2>5, ElsewhereOf
<1>8. ASSUME \/ \E j \in Jobs : Expire(j)
             \/ \E n \in Phones : Register(n)
             \/ UNCHANGED vars
      PROVE  \A k \in Jobs : JobInv(k)'
  <2>1. job' = job /\ members' = members /\ queue' = queue /\ proc' = proc /\ cache' \subseteq cache
    BY <1>8, ZenonT(30) DEF Expire, Register, vars
  <2> QED
    BY <1>e, <1>t, <2>1 DEF ImportInv, Elsewhere
<1>9. \A p \in Processes :
        Import(p) \/ RowRaises(p) \/ FileRaises(p) \/ Stop(p) \/ IssueToken(p) \/ Enqueue(p)
          \/ NoteQueued(p) => proc[p] # Idle
  BY ZenonT(30) DEF Import, FetchRows, FetchExpired, StartImport, ImportRow, Complete, DropToken, RowRaises,
         FileRaises, Stop, IssueToken, Enqueue, NoteQueued, At
<1>10. \A k \in Jobs : JobInv(k)'
  <2>1. ASSUME NEW p \in Processes,
               Import(p) \/ RowRaises(p) \/ FileRaises(p) \/ Stop(p) \/ IssueToken(p) \/ Enqueue(p)
                 \/ NoteQueued(p)
        PROVE  \A k \in Jobs : JobInv(k)'
    <3>1. proc[p] # Idle
      BY <1>9, <2>1
    <3> QED
      BY <2>1, <3>1, <1>4, <1>5, <1>6, <1>7 DEF Import
  <2>2. CASE \E t \in Threads : IssueToken(t) \/ Enqueue(t) \/ NoteQueued(t)
    BY <1>p, <2>1, <2>2
  <2>3. ASSUME NEW j \in Jobs, NEW t \in Threads, Validate(t, j) \/ RequestImport(t, j)
        PROVE  \A k \in Jobs : JobInv(k)'
    BY <1>p, <1>1, <1>2, <2>3
  <2>4. CASE \E r \in Runners, j \in Jobs : TakeTask(r, j)
    BY <1>p, <1>3, <2>4
  <2>5. CASE \E p \in Processes : Import(p) \/ RowRaises(p) \/ FileRaises(p) \/ Stop(p)
    BY <2>1, <2>5
  <2>6. \/ \E j \in Jobs : Expire(j)
        \/ \E n \in Phones : Register(n)
        \/ UNCHANGED vars
        \/ \E t \in Threads : IssueToken(t) \/ Enqueue(t) \/ NoteQueued(t)
        \/ \E j \in Jobs, t \in Threads : Validate(t, j) \/ RequestImport(t, j)
        \/ \E r \in Runners, j \in Jobs : TakeTask(r, j)
        \/ \E p \in Processes : Import(p) \/ RowRaises(p) \/ FileRaises(p) \/ Stop(p)
    BY DEF Next
  <2> QED
    BY <1>8, <2>2, <2>3, <2>4, <2>5, <2>6
<1> QED
  BY <1>t, <1>10 DEF ImportInv

LEMMA ImportHolds == Spec => []ImportInv
BY ImportInit, ImportNext, PTL DEF Spec

\* However often an import is asked for, runs twice at once or stops half way, a row with
\* a number becomes one member, and so does a row without one, unless the job was imported
\* again: the number is looked up among the members before each row.
THEOREM RowOnce == Spec => []RowImportedOnce
<1>1. ImportInv => RowImportedOnce
  BY DEF ImportInv, JobInv, OnceFor, RowImportedOnce
<1> QED
  BY <1>1, ImportHolds, PTL

\* A job completed by its only import reports the members it made and lists every other
\* row it went through as an error: one process has the import in hand, and started with
\* no member made.
THEOREM ReportsAgree == Spec => []ReportAddsUp
<1>1. ImportInv => ReportAddsUp
  BY DEF ImportInv, JobInv, Adds, ReportAddsUp
<1> QED
  BY <1>1, ImportHolds, PTL

\* A completed job is not reopened, nor marked as failed, by a task or a request that
\* comes late, but for an import asked for twice and a job noted as queued too late.
THEOREM CompletedKept == Spec => CompletedStays
<1>1. ASSUME ImportInv, [Next]_vars, NEW j \in Jobs, job[j] # NoJob, job[j].status = "completed"
      PROVE  job'[j].status = "completed" \/ j \in again' \cup overtaken'
  <2> SUFFICES ASSUME j \notin again', j \notin overtaken', job'[j] # job[j]
               PROVE  job'[j].status = "completed"
    BY <1>1
  <2>i. TypeInv /\ JobInv(j) /\ Monotone
    BY <1>1, StepGrows DEF ImportInv, Monotone
  <2>1. /\ queue[j] = 0
        /\ \A p \in Processes : On(p, j) => proc[p].pc \notin {"fetch", "start"}
        /\ \A p \in Processes : ~(On(p, j) /\ proc[p].pc = "row")
    BY <1>1, <2>i, AloneIs DEF Fresh, Counted, Counts, Untouched, TypeInv, TypeOK
  <2>2. PICK p \in Processes :
          \/ IssueToken(p) \/ StartImport(p) \/ Complete(p) \/ NoteQueued(p) \/ FetchExpired(p)
          \/ FileRaises(p) \/ \E k \in Jobs : Validate(p, k)
    BY <1>1 DEF Next, Import, Processes, vars, Enqueue, Expire, RequestImport, TakeTask, FetchRows,
                ImportRow, DropToken, RowRaises, Stop, Register
  <2>3. ASSUME NEW k \in Jobs, Validate(p, k) PROVE FALSE
    BY <1>1, <2>i, <2>3, ValidateDoes DEF OtherJobs
  <2>4. On(p, j)
    <3>1. proc[p] # Idle
      BY <2>2, <2>3 DEF IssueToken, StartImport, Complete, NoteQueued, FetchExpired, FileRaises, At
    <3>2. PICK k \in Jobs : k = proc[p].job
      BY <2>i, <3>1, TaskIs
    <3>3. job' = [job EXCEPT ![k] = job'[k]]
      BY <2>i, <2>2, <2>3, <3>2
         DEF IssueToken, StartImport, Complete, NoteQueued, FetchExpired, FileRaises, Set, Fail, TypeInv
    <3> QED
      BY <2>i, <3>1, <3>2, <3>3 DEF On, TypeInv
  <2>5. CASE IssueToken(p)
    BY <1>1, <2>i, <2>4, <2>5, IssueTokenDoes DEF On
  <2>6. CASE StartImport(p) \/ FetchExpired(p) \/ FileRaises(p)
    BY <2>1, <2>4, <2>6 DEF StartImport, FetchExpired, FileRaises, At
  <2>7. CASE Complete(p)
    BY <2>i, <2>4, <2>7, CompleteDoes DEF Restates, On
  <2>8. CASE NoteQueued(p)
    <3>1. PICK k \in Jobs : k = proc[p].job
      BY <2>4 DEF On
    <3>2. k = j /\ ~Running(j)
      BY <2>1, <2>4, <3>1 DEF On, Running
    <3>3. j \in overtaken'
      BY <2>1, <2>8, <3>1, <3>2 DEF NoteQueued
    <3> QED
      BY <3>3
  <2> QED
    BY <2>2, <2>3, <2>5, <2>6, <2>7, <2>8
<1>2. ImportInv /\ [Next]_vars =>
        [\A j \in Jobs :
           job[j] # NoJob /\ job[j].status = "completed" =>
             job'[j].status = "completed" \/ j \in again' \cup overtaken']_vars
  BY <1>1
<1> QED
  BY <1>2, ImportHolds, PTL DEF Spec, CompletedStays

----------------------------------------------------------------------------
(* Office.                                                                   *)

\* The requests there are, kind by kind.
Creates == [kind : {"create"}, pc : {"insert"}, mobile : Mobiles, branch : Branches]
Edits ==
  [kind : {"edit"}, pc : {"login", "staff"}, s : Staff, change : Changes,
   ofStaff : StaffRow, ofLogin : LoginRow]
Toggles == [kind : {"toggle"}, pc : {"staff", "login"}, s : Staff, to : BOOLEAN]
Destroys == [kind : {"destroy"}, pc : {"staff", "login"}, s : Staff]
Phonings == [kind : {"phone"}, pc : {"login", "staff", "drop"}, s : Staff, mobile : Mobiles]
Switches ==
  [kind : {"switch", "close"}, pc : {"list", "commit"}, b : Branches, to : BOOLEAN,
   listed : SUBSET Staff]
Amends == [kind : {"amend"}, pc : {"save"}, b : Branches, row : BranchRow]
Logins ==
  [kind : OnLogin, pc : {"save", "forget", "clear", "count", "put", "accept", "reset"},
   s : Staff, mobile : Mobiles, code : Codes \cup {NoCode}, n : Nat]

\* A request is about staff there are, and about a code that was sent.
Sound(r) ==
  /\ r.kind \in OnStaff \cup OnLogin => Exists(r.s)
  /\ r.pc \in {"count", "put", "accept"} => r.code \in Codes
  /\ r.kind \in {"switch", "close"} => \A s \in r.listed : Exists(s)

OfficeTypeInv ==
  /\ OfficeTypeOK
  /\ \A s \in Staff : Exists(s) <=> login[s] # NoRow
  /\ \A s \in Staff : ~Exists(s) => offBy[s] = "nobody" /\ s \notin relit
  /\ \A w \in Workers : Sound(req[w])

----------------------------------------------------------------------------
(* Rows and requests.                                                        *)

LEMMA RequestKinds ==
  Request \cup {Free} = Creates \cup Edits \cup Toggles \cup Destroys \cup Phonings
                          \cup Switches \cup Amends \cup Logins \cup {Free}
BY DEF Request, Creates, Edits, Toggles, Destroys, Phonings, Switches, Amends, Logins

\* The kind of a request says which fields it has.
LEMMA KindIs ==
  ASSUME NEW r \in Request \cup {Free}
  PROVE  /\ r.kind = "create" => r \in Creates
         /\ r.kind = "edit" => r \in Edits
         /\ r.kind = "toggle" => r \in Toggles
         /\ r.kind = "destroy" => r \in Destroys
         /\ r.kind = "phone" => r \in Phonings
         /\ r.kind \in {"switch", "close"} => r \in Switches
         /\ r.kind = "amend" => r \in Amends
         /\ r.kind \in OnLogin => r \in Logins
         /\ r.kind \in {"create", "amend", "idle"} \cup {"switch", "close"} \cup OnStaff \cup OnLogin
<1>1. /\ Creates = {x \in Creates : x.kind = "create"}
      /\ Edits = {x \in Edits : x.kind = "edit"}
      /\ Toggles = {x \in Toggles : x.kind = "toggle"}
      /\ Destroys = {x \in Destroys : x.kind = "destroy"}
      /\ Phonings = {x \in Phonings : x.kind = "phone"}
      /\ Switches = {x \in Switches : x.kind \in {"switch", "close"}}
      /\ Amends = {x \in Amends : x.kind = "amend"}
      /\ Logins = {x \in Logins : x.kind \in OnLogin}
      /\ Free.kind = "idle"
  BY DEF Creates, Edits, Toggles, Destroys, Phonings, Switches, Amends, Logins, Free
<1> QED
  BY <1>1, RequestKinds DEF OnLogin, OnStaff

LEMMA StaffIs ==
  ASSUME OfficeTypeInv, NEW s \in Staff, Exists(s)
  PROVE  /\ staff[s] \in StaffRow /\ login[s] \in LoginRow
         /\ staff[s].mobile \in Numbers /\ staff[s].branch \in Branches
         /\ staff[s].active \in BOOLEAN /\ staff[s].deleted \in BOOLEAN /\ staff[s].byBranch \in BOOLEAN
         /\ login[s].mobile \in Numbers /\ login[s].branch \in Branches
         /\ login[s].active \in BOOLEAN /\ login[s].code \in Codes \cup {NoCode}
<1>1. staff[s] \in StaffRow /\ login[s] \in LoginRow
  BY DEF OfficeTypeInv, OfficeTypeOK, Exists
<1> QED
  BY <1>1 DEF StaffRow, LoginRow

LEMMA RowsAreRows ==
  /\ \A r \in StaffRow \cup LoginRow : r # NoRow
  /\ NoRow \notin StaffRow /\ NoRow \notin LoginRow
BY DEF StaffRow, LoginRow, NoRow

\* An edit changes a row of either table into a row of it.
LEMMA ApplyIs ==
  ASSUME NEW change \in Changes
  PROVE  /\ \A p \in StaffRow :
              /\ Apply(change, p) \in StaffRow
              /\ Apply(change, p).deleted = p.deleted /\ Apply(change, p).byBranch = p.byBranch
         /\ \A l \in LoginRow : Apply(change, l) \in LoginRow /\ Apply(change, l).code = l.code
<1>1. \/ change \in [mobile : Mobiles] /\ DOMAIN change = {"mobile"}
      \/ change \in [branch : Branches] /\ DOMAIN change = {"branch"}
      \/ change \in [active : BOOLEAN] /\ DOMAIN change = {"active"}
      \/ change \in [other : {"column"}] /\ DOMAIN change = {"other"}
  BY DEF Changes
<1>2. ASSUME NEW p \in StaffRow
      PROVE  /\ Apply(change, p) \in StaffRow
             /\ Apply(change, p).deleted = p.deleted /\ Apply(change, p).byBranch = p.byBranch
  <2>1. DOMAIN p = {"mobile", "branch", "active", "deleted", "byBranch"}
    BY DEF StaffRow
  <2>2. p \in StaffRow
    OBVIOUS
  <2> QED
    BY <1>1, <2>1, <2>2 DEF StaffRow, Apply, Numbers
<1>3. ASSUME NEW l \in LoginRow
      PROVE  Apply(change, l) \in LoginRow /\ Apply(change, l).code = l.code
  <2>1. DOMAIN l = {"mobile", "branch", "active", "code"}
    BY DEF LoginRow
  <2> QED
    BY <1>1, <2>1 DEF LoginRow, Apply, Numbers
<1> QED
  BY <1>2, <1>3

LEMMA AskIs ==
  ASSUME OfficeTypeInv, NEW w \in Workers
  PROVE  /\ req[w] \in Request \cup {Free} /\ Sound(req[w])
         /\ req[w].kind = "create" => req[w] \in Creates
         /\ req[w].kind = "edit" => req[w] \in Edits
         /\ req[w].kind = "toggle" => req[w] \in Toggles
         /\ req[w].kind = "destroy" => req[w] \in Destroys
         /\ req[w].kind = "phone" => req[w] \in Phonings
         /\ req[w].kind \in {"switch", "close"} => req[w] \in Switches
         /\ req[w].kind = "amend" => req[w] \in Amends
         /\ req[w].kind \in OnLogin => req[w] \in Logins
<1>1. req[w] \in Request \cup {Free} /\ Sound(req[w])
  BY DEF OfficeTypeInv, OfficeTypeOK
<1> QED
  BY <1>1, KindIs

\* A request about staff is about somebody.
LEMMA AskedIs ==
  ASSUME OfficeTypeInv, NEW w \in Workers, req[w].kind \in OnStaff \cup OnLogin
  PROVE  req[w].s \in Staff /\ Exists(req[w].s)
<1>1. req[w].s \in Staff
  BY AskIs DEF OnStaff, Edits, Toggles, Destroys, Phonings, Logins
<1> QED
  BY <1>1, AskIs DEF Sound

\* A request that goes on to its next step stays what it is.
LEMMA MoveIs ==
  ASSUME NEW r \in Request \cup {Free}, NEW pc
  PROVE  LET q == [r EXCEPT !.pc = pc]
         IN  /\ r \in Edits /\ pc \in {"login", "staff"} =>
                  /\ q \in Edits /\ q.pc = pc /\ q.kind = r.kind /\ q.s = r.s /\ q.change = r.change
                  /\ q.ofStaff = r.ofStaff /\ q.ofLogin = r.ofLogin
             /\ r \in Toggles /\ pc \in {"login", "staff"} =>
                  q \in Toggles /\ q.pc = pc /\ q.kind = r.kind /\ q.s = r.s /\ q.to = r.to
             /\ r \in Destroys /\ pc \in {"login", "staff"} =>
                  q \in Destroys /\ q.pc = pc /\ q.kind = r.kind /\ q.s = r.s
             /\ r \in Phonings /\ pc \in {"login", "staff", "drop"} =>
                  q \in Phonings /\ q.pc = pc /\ q.kind = r.kind /\ q.s = r.s /\ q.mobile = r.mobile
             /\ r \in Logins
                  /\ pc \in {"save", "forget", "clear", "count", "put", "accept", "reset"} =>
                  /\ q \in Logins /\ q.pc = pc /\ q.kind = r.kind /\ q.s = r.s
                  /\ q.mobile = r.mobile /\ q.code = r.code /\ q.n = r.n
<1> DEFINE q == [r EXCEPT !.pc = pc]
<1>1. ASSUME r \in Edits, pc \in {"login", "staff"}
      PROVE  /\ q \in Edits /\ q.pc = pc /\ q.kind = r.kind /\ q.s = r.s /\ q.change = r.change
             /\ q.ofStaff = r.ofStaff /\ q.ofLogin = r.ofLogin
  BY <1>1 DEF Edits
<1>2. ASSUME r \in Toggles, pc \in {"login", "staff"}
      PROVE  q \in Toggles /\ q.pc = pc /\ q.kind = r.kind /\ q.s = r.s /\ q.to = r.to
  BY <1>2 DEF Toggles
<1>3. ASSUME r \in Destroys, pc \in {"login", "staff"}
      PROVE  q \in Destroys /\ q.pc = pc /\ q.kind = r.kind /\ q.s = r.s
  BY <1>3 DEF Destroys
<1>4. ASSUME r \in Phonings, pc \in {"login", "staff", "drop"}
      PROVE  q \in Phonings /\ q.pc = pc /\ q.kind = r.kind /\ q.s = r.s /\ q.mobile = r.mobile
  BY <1>4 DEF Phonings
<1>5. ASSUME r \in Logins,
             pc \in {"save", "forget", "clear", "count", "put", "accept", "reset"}
      PROVE  /\ q \in Logins /\ q.pc = pc /\ q.kind = r.kind /\ q.s = r.s
             /\ q.mobile = r.mobile /\ q.code = r.code /\ q.n = r.n
  BY <1>5 DEF Logins
<1> QED
  BY <1>1, <1>2, <1>3, <1>4, <1>5

----------------------------------------------------------------------------
(* Types.                                                                    *)

RowTypes ==
  /\ staff \in [Staff -> StaffRow \cup {NoRow}]
  /\ login \in [Staff -> LoginRow \cup {NoRow}]
  /\ \A s \in Staff : staff[s] # NoRow <=> login[s] # NoRow
BranchTypes == branch \in [Branches -> BranchRow]
CacheTypes ==
  /\ offer \in [Staff -> Mobiles \cup {NoMobile}]
  /\ tries \in [Mobiles -> Nat] /\ locked \subseteq Mobiles
CodeTypes ==
  /\ sent \in [Codes -> Mobiles \cup {NoMobile}] /\ lapsed \subseteq Codes
  /\ shared \subseteq Codes \cup {NoCode}
  /\ accepted \in [Codes -> 0..2] /\ wrong \in [Codes -> 0..(FailLimit + 1)]
SwitchTypes ==
  /\ relit \subseteq Staff /\ offBy \in [Staff -> Offs]
  /\ \A s \in Staff : staff[s] = NoRow => offBy[s] = "nobody" /\ s \notin relit
AskTypes == mix \in Mixes /\ mixed \subseteq Staff /\ req \in [Workers -> Request \cup {Free}]

LEMMA TypeParts ==
  OfficeTypeInv <=>
    /\ RowTypes /\ BranchTypes /\ CacheTypes /\ CodeTypes /\ SwitchTypes /\ AskTypes
    /\ \A w \in Workers : Sound(req[w])
BY DEF OfficeTypeInv, OfficeTypeOK, RowTypes, BranchTypes, CacheTypes, CodeTypes, SwitchTypes,
       AskTypes, Exists

LEMMA TypesKept ==
  ASSUME OfficeTypeInv
  PROVE  /\ UNCHANGED <<staff, login>> => RowTypes'
         /\ UNCHANGED branch => BranchTypes'
         /\ UNCHANGED caches => CacheTypes'
         /\ UNCHANGED codes => CodeTypes'
         /\ UNCHANGED <<staff, switches>> => SwitchTypes'
<1> USE TypeParts
<1>1. UNCHANGED <<staff, login>> => RowTypes'
  BY DEF RowTypes
<1>2. UNCHANGED branch => BranchTypes'
  BY DEF BranchTypes
<1>3. UNCHANGED caches => CacheTypes'
  BY DEF CacheTypes, caches
<1>4. UNCHANGED codes => CodeTypes'
  BY DEF CodeTypes, codes
<1>5. UNCHANGED <<staff, switches>> => SwitchTypes'
  BY DEF SwitchTypes, switches
<1> QED
  BY <1>1, <1>2, <1>3, <1>4, <1>5

\* Worker w's request is r from here on.
OtherWorkers(w) == \A v \in Workers \ {w} : req'[v] = req[v]

LEMMA TypeStep ==
  ASSUME OfficeTypeInv, NEW w \in Workers, NEW r \in Request \cup {Free}, Sound(r),
         req' = [req EXCEPT ![w] = r], mix' = mix, mixed' \subseteq Staff,
         RowTypes', BranchTypes', CacheTypes', CodeTypes', SwitchTypes',
         \A s \in Staff : staff[s] # NoRow => staff'[s] # NoRow
  PROVE  OfficeTypeInv' /\ OtherWorkers(w) /\ req'[w] = r
<1>1. AskTypes /\ \A v \in Workers : Sound(req[v])
  BY TypeParts
<1>2. AskTypes' /\ OtherWorkers(w) /\ req'[w] = r
  BY <1>1 DEF AskTypes, OtherWorkers
<1>3. ASSUME NEW v \in Workers
      PROVE  Sound(req[v])'
  <2> PICK q \in Request \cup {Free} : q = req'[v]
    BY <1>2 DEF AskTypes
  <2>1. Sound(q)
    BY <1>1, <1>2 DEF OtherWorkers
  <2>2. /\ q.kind \in OnStaff \cup OnLogin => q.s \in Staff
        /\ q.kind \in {"switch", "close"} => q.listed \subseteq Staff
    BY KindIs DEF OnStaff, Edits, Toggles, Destroys, Phonings, Logins, Switches
  <2> QED
    BY <2>1, <2>2 DEF Sound, Exists
<1> QED
  BY <1>2, <1>3 DEF OfficeTypeInv, OfficeTypeOK, RowTypes, BranchTypes, CacheTypes, CodeTypes,
                    SwitchTypes, AskTypes, Exists

LEMMA OpenTypes ==
  ASSUME OfficeTypeInv, NEW w \in Workers, NEW r \in Request, Sound(r), Open(w, r)
  PROVE  OfficeTypeInv' /\ OtherWorkers(w) /\ req'[w] = r /\ req[w] = Free
<1>0. /\ req[w] = Free /\ req' = [req EXCEPT ![w] = r] /\ mix' = mix
      /\ UNCHANGED <<staff, login>> /\ UNCHANGED branch /\ UNCHANGED caches
      /\ UNCHANGED <<sent, lapsed, accepted, wrong>> /\ UNCHANGED switches
  BY DEF Open, tables
<1>1. RowTypes' /\ BranchTypes' /\ CacheTypes' /\ SwitchTypes'
  BY <1>0, TypesKept DEF switches
<1>2. AskTypes /\ CodeTypes
  BY TypeParts
<1>3. r.kind \in OnStaff \cup OnLogin => r.s \in Staff
  BY KindIs DEF OnStaff, OnLogin, Edits, Toggles, Destroys, Phonings, Logins
<1>4. Concerned(req', w) \subseteq Staff
  BY <1>0, <1>2, <1>3 DEF Concerned, AskTypes
<1>5. mixed' \subseteq Staff
  BY <1>0, <1>2, <1>4 DEF Open, AskTypes
<1>6. ASSUME NEW v \in Workers, Overlap(r, req[v])
      PROVE  login[r.s].code \in Codes \cup {NoCode}
  <2>1. r.kind \in OnStaff \cup OnLogin
    BY <1>6 DEF Overlap, OnStaff
  <2> QED
    BY <2>1, <1>3, StaffIs DEF Sound
<1>7. shared' \subseteq Codes \cup {NoCode}
  <2>1. shared' = shared \cup
          (IF \E v \in {v \in Workers \ {w} : req[v] # Free} : Overlap(r, req[v])
           THEN {login[r.s].code} ELSE {})
    BY DEF Open
  <2> QED
    BY <2>1, <1>2, <1>6 DEF CodeTypes
<1>8. CodeTypes'
  BY <1>0, <1>2, <1>7 DEF CodeTypes
<1> QED
  BY <1>0, <1>1, <1>5, <1>8, TypeStep

LEMMA OpenCreateDoes ==
  ASSUME OfficeTypeInv, NEW w \in Workers, NEW m \in Mobiles, NEW b \in Branches, OpenCreate(w, m, b)
  PROVE  \E r \in Creates : Open(w, r) /\ Sound(r) /\ r.kind = "create"
<1> DEFINE r == [kind |-> "create", pc |-> "insert", mobile |-> m, branch |-> b]
<1>1. r \in Creates /\ Open(w, r)
  BY DEF OpenCreate, Creates
<1>2. Sound(r)
  BY DEF Sound, OnStaff, OnLogin
<1> QED
  BY <1>1, <1>2

LEMMA OpenEditDoes ==
  ASSUME OfficeTypeInv, NEW w \in Workers, NEW s \in Staff, NEW change \in Changes,
         OpenEdit(w, s, change)
  PROVE  \E r \in Edits :
           /\ Open(w, r) /\ Sound(r) /\ Exists(s)
           /\ r.kind = "edit" /\ r.pc = "login" /\ r.s = s /\ r.change = change
           /\ r.ofStaff = staff[s] /\ r.ofLogin = login[s]
<1> DEFINE r == [kind |-> "edit", pc |-> "login", s |-> s, change |-> change,
                 ofStaff |-> staff[s], ofLogin |-> login[s]]
<1>1. Exists(s) /\ Open(w, r)
  BY DEF OpenEdit
<1>2. r \in Edits
  BY <1>1, StaffIs DEF Edits
<1>3. Sound(r)
  BY <1>1 DEF Sound, OnStaff, OnLogin
<1> QED
  BY <1>1, <1>2, <1>3

LEMMA OpenToggleDoes ==
  ASSUME OfficeTypeInv, NEW w \in Workers, NEW s \in Staff, OpenToggle(w, s)
  PROVE  \E r \in Toggles :
           /\ Open(w, r) /\ Sound(r) /\ Exists(s)
           /\ r.kind = "toggle" /\ r.pc = "staff" /\ r.s = s
<1> DEFINE r == [kind |-> "toggle", pc |-> "staff", s |-> s, to |-> ~staff[s].active]
<1>1. Exists(s) /\ Open(w, r)
  BY DEF OpenToggle
<1>2. r \in Toggles
  BY <1>1, StaffIs DEF Toggles
<1>3. Sound(r)
  BY <1>1 DEF Sound, OnStaff, OnLogin
<1> QED
  BY <1>1, <1>2, <1>3

LEMMA OpenDestroyDoes ==
  ASSUME OfficeTypeInv, NEW w \in Workers, NEW s \in Staff, OpenDestroy(w, s)
  PROVE  \E r \in Destroys :
           /\ Open(w, r) /\ Sound(r) /\ Exists(s)
           /\ r.kind = "destroy" /\ r.pc = "staff" /\ r.s = s
<1> DEFINE r == [kind |-> "destroy", pc |-> "staff", s |-> s]
<1>1. Exists(s) /\ Open(w, r)
  BY DEF OpenDestroy
<1>2. r \in Destroys
  BY DEF Destroys
<1>3. Sound(r)
  BY <1>1 DEF Sound, OnStaff, OnLogin
<1> QED
  BY <1>1, <1>2, <1>3

LEMMA OpenPhoneDoes ==
  ASSUME OfficeTypeInv, NEW w \in Workers, NEW s \in Staff, OpenPhone(w, s)
  PROVE  \E r \in Phonings :
           /\ Open(w, r) /\ Sound(r) /\ Exists(s)
           /\ r.kind = "phone" /\ r.pc = "login" /\ r.s = s
<1> DEFINE r == [kind |-> "phone", pc |-> "login", s |-> s, mobile |-> offer[s]]
<1>1. Exists(s) /\ Open(w, r) /\ offer[s] # NoMobile
  BY DEF OpenPhone
<1>2. offer[s] \in Mobiles
  BY <1>1, TypeParts DEF CacheTypes
<1>3. r \in Phonings
  BY <1>2 DEF Phonings
<1>4. Sound(r)
  BY <1>1 DEF Sound, OnStaff, OnLogin
<1> QED
  BY <1>1, <1>3, <1>4

LEMMA OpenBranchDoes ==
  ASSUME OfficeTypeInv, NEW w \in Workers, NEW kind \in OnBranch, NEW b \in Branches,
         OpenBranch(w, kind, b)
  PROVE  \E r \in Switches \cup Amends :
           /\ Open(w, r) /\ Sound(r) /\ r.b = b /\ r.kind = kind /\ r.pc \in {"list", "save"}
           /\ kind = "switch" => r.to = ~branch[b].active
<1>1. branch[b] \in BranchRow
  BY TypeParts DEF BranchTypes
<1>2. CASE kind \in {"switch", "close"}
  <2> DEFINE r == [kind |-> kind, pc |-> "list", b |-> b, listed |-> {},
                   to |-> kind = "switch" /\ ~branch[b].active]
  <2>1. Open(w, r)
    BY <1>2 DEF OpenBranch
  <2>2. r \in Switches
    BY <1>2 DEF Switches
  <2>3. Sound(r)
    BY <1>2 DEF Sound, OnStaff, OnLogin
  <2>4. kind = "switch" => r.to = ~branch[b].active
    OBVIOUS
  <2> QED
    BY <2>1, <2>2, <2>3, <2>4
<1>3. CASE kind = "amend"
  <2>1. PICK to \in BOOLEAN : Open(w, [kind |-> kind, pc |-> "save", b |-> b,
                                       row |-> [branch[b] EXCEPT !.active = to]])
    BY <1>3 DEF OpenBranch
  <2> DEFINE row == [branch[b] EXCEPT !.active = to]
  <2>2. row \in BranchRow
    BY <1>1 DEF BranchRow
  <2> HIDE DEF row
  <2> DEFINE r == [kind |-> kind, pc |-> "save", b |-> b, row |-> row]
  <2>3. r \in Amends
    BY <1>3, <2>2 DEF Amends
  <2>4. Sound(r)
    BY <1>3 DEF Sound, OnStaff, OnLogin
  <2>5. Open(w, r)
    BY <2>1 DEF row
  <2> QED
    BY <1>3, <2>3, <2>4, <2>5
<1> QED
  BY <1>2, <1>3 DEF OnBranch

LEMMA OpenLoginDoes ==
  ASSUME OfficeTypeInv, NEW w \in Workers, NEW kind \in OnLogin, NEW s \in Staff,
         NEW pc \in {"save", "clear", "count", "accept"}, OpenLogin(w, kind, pc, s),
         pc \in {"count", "accept"} => login[s].code # NoCode
  PROVE  \E r \in Logins :
           /\ Open(w, r) /\ Sound(r) /\ Exists(s)
           /\ r.kind = kind /\ r.pc = pc /\ r.s = s
           /\ r.mobile = login[s].mobile /\ r.mobile \notin locked /\ r.code = login[s].code
<1> DEFINE r == [kind |-> kind, pc |-> pc, s |-> s, mobile |-> login[s].mobile,
                 code |-> login[s].code, n |-> 0]
<1>1. Exists(s) /\ Open(w, r) /\ login[s].mobile \in Mobiles \ locked
  BY DEF OpenLogin
<1>2. login[s].code \in Codes \cup {NoCode}
  BY <1>1, StaffIs
<1>3. r \in Logins
  BY <1>1, <1>2 DEF Logins
<1>4. Sound(r)
  BY <1>1, <1>2 DEF Sound, OnStaff, OnLogin
<1> QED
  BY <1>1, <1>3, <1>4

LEMMA OpenSendDoes ==
  ASSUME OfficeTypeInv, NEW w \in Workers, NEW s \in Staff, OpenSend(w, s)
  PROVE  \E r \in Logins :
           /\ Open(w, r) /\ Sound(r) /\ Exists(s)
           /\ r.kind = "send" /\ r.pc = "save" /\ r.s = s
           /\ r.mobile = login[s].mobile /\ r.mobile \notin locked /\ r.code = login[s].code
BY OpenLoginDoes DEF OpenSend, OnLogin

LEMMA OpenVerifyDoes ==
  ASSUME OfficeTypeInv, NEW w \in Workers, NEW s \in Staff, NEW right \in BOOLEAN,
         OpenVerify(w, s, right)
  PROVE  \E r \in Logins :
           /\ Open(w, r) /\ Sound(r) /\ Exists(s)
           /\ r.kind = "verify" /\ r.pc \in {"clear", "count", "accept"} /\ r.s = s
           /\ r.mobile = login[s].mobile /\ r.mobile \notin locked /\ r.code = login[s].code
           /\ r.pc # "clear" => r.code \notin lapsed
<1> DEFINE pc == IF login[s].code \in lapsed \cup {NoCode} THEN "clear"
                 ELSE IF right THEN "accept" ELSE "count"
<1>1. pc \in {"save", "clear", "count", "accept"} /\ pc \in {"clear", "count", "accept"}
  OBVIOUS
<1>2. pc # "clear" => login[s].code \notin lapsed \cup {NoCode}
  OBVIOUS
<1>3. OpenLogin(w, "verify", pc, s)
  BY DEF OpenVerify
<1> HIDE DEF pc
<1>4. PICK r \in Logins :
           /\ Open(w, r) /\ Sound(r) /\ Exists(s)
           /\ r.kind = "verify" /\ r.pc = pc /\ r.s = s
           /\ r.mobile = login[s].mobile /\ r.mobile \notin locked /\ r.code = login[s].code
  BY <1>1, <1>2, <1>3, OpenLoginDoes DEF OnLogin
<1> QED
  BY <1>1, <1>2, <1>4

\* A request is taken up.
LEMMA TakeDoes ==
  ASSUME OfficeTypeInv, NEW w \in Workers, Take(w)
  PROVE  \E r \in Request : Open(w, r) /\ Sound(r)
<1>0. Creates \cup Edits \cup Toggles \cup Destroys \cup Phonings \cup Switches \cup Amends
        \cup Logins \subseteq Request
  BY DEF Request, Creates, Edits, Toggles, Destroys, Phonings, Switches, Amends, Logins
<1>1. ASSUME NEW m \in Mobiles, NEW b \in Branches, OpenCreate(w, m, b)
      PROVE  \E r \in Request : Open(w, r) /\ Sound(r)
  BY <1>0, <1>1, OpenCreateDoes
<1>2. ASSUME NEW s \in Staff, NEW change \in Changes, OpenEdit(w, s, change)
      PROVE  \E r \in Request : Open(w, r) /\ Sound(r)
  BY <1>0, <1>2, OpenEditDoes
<1>3. ASSUME NEW s \in Staff, OpenToggle(w, s) \/ OpenDestroy(w, s) \/ OpenPhone(w, s)
      PROVE  \E r \in Request : Open(w, r) /\ Sound(r)
  BY <1>0, <1>3, OpenToggleDoes, OpenDestroyDoes, OpenPhoneDoes
<1>4. ASSUME NEW s \in Staff, OpenSend(w, s)
      PROVE  \E r \in Request : Open(w, r) /\ Sound(r)
  BY <1>0, <1>4, OpenSendDoes
<1>5. ASSUME NEW s \in Staff, NEW right \in BOOLEAN, OpenVerify(w, s, right)
      PROVE  \E r \in Request : Open(w, r) /\ Sound(r)
  BY <1>0, <1>5, OpenVerifyDoes
<1>6. ASSUME NEW kind \in OnBranch, NEW b \in Branches, OpenBranch(w, kind, b)
      PROVE  \E r \in Request : Open(w, r) /\ Sound(r)
  BY <1>0, <1>6, OpenBranchDoes
<1> QED
  BY <1>1, <1>2, <1>3, <1>4, <1>5, <1>6 DEF Take

\* One row of either table is saved.
LEMMA RowSaved ==
  ASSUME OfficeTypeInv, NEW s \in Staff, Exists(s), NEW p \in StaffRow, NEW l \in LoginRow,
         staff' = [staff EXCEPT ![s] = p] \/ staff' = staff,
         login' = [login EXCEPT ![s] = l] \/ login' = login
  PROVE  /\ RowTypes' /\ \A t \in Staff : staff[t] # NoRow => staff'[t] # NoRow
         /\ \A t \in Staff \ {s} : staff'[t] = staff[t] /\ login'[t] = login[t]
         /\ staff' = [staff EXCEPT ![s] = p] => staff'[s] = p
         /\ login' = [login EXCEPT ![s] = l] => login'[s] = l
<1>1. RowTypes
  BY TypeParts
<1>2. p # NoRow /\ l # NoRow
  BY RowsAreRows
<1>3. staff[s] # NoRow /\ login[s] # NoRow
  BY <1>1 DEF Exists, RowTypes
<1>4. staff' \in [Staff -> StaffRow \cup {NoRow}] /\ login' \in [Staff -> LoginRow \cup {NoRow}]
  BY <1>1 DEF RowTypes
<1>5. /\ \A t \in Staff \ {s} : staff'[t] = staff[t] /\ login'[t] = login[t]
      /\ staff' = [staff EXCEPT ![s] = p] => staff'[s] = p
      /\ login' = [login EXCEPT ![s] = l] => login'[s] = l
  BY <1>1 DEF RowTypes
<1>6. \A t \in Staff : (staff'[t] # NoRow <=> staff[t] # NoRow) /\ (login'[t] # NoRow <=> login[t] # NoRow)
  BY <1>2, <1>3, <1>5
<1> QED
  BY <1>1, <1>4, <1>5, <1>6 DEF RowTypes

\* is_active saved by the office.
LEMMA SwitchedTypes ==
  ASSUME OfficeTypeInv, NEW s \in Staff, Exists(s), NEW to \in BOOLEAN, Switched(s, to),
         \A t \in Staff : staff[t] # NoRow => staff'[t] # NoRow
  PROVE  /\ SwitchTypes'
         /\ \A t \in Staff \ {s} : offBy'[t] = offBy[t] /\ (t \in relit' <=> t \in relit)
         /\ offBy'[s] = IF to THEN "nobody" ELSE IF staff[s].active THEN "office" ELSE offBy[s]
         /\ s \in relit' <=> s \in relit \/ (to /\ ~staff[s].active /\ offBy[s] \in Branches)
<1>1. SwitchTypes
  BY TypeParts
<1>2. /\ offBy' \in [Staff -> Offs] /\ relit' \subseteq Staff
      /\ \A t \in Staff \ {s} : offBy'[t] = offBy[t] /\ (t \in relit' <=> t \in relit)
      /\ offBy'[s] = IF to THEN "nobody" ELSE IF staff[s].active THEN "office" ELSE offBy[s]
      /\ s \in relit' <=> s \in relit \/ (to /\ ~staff[s].active /\ offBy[s] \in Branches)
  BY <1>1 DEF Switched, SwitchTypes, Offs
<1> QED
  BY <1>1, <1>2 DEF SwitchTypes, Exists

\* What no step of worker w on other rows and codes touches.
LEMMA CodesShared ==
  ASSUME OfficeTypeInv, NEW C \in SUBSET (Codes \cup {NoCode}), shared' = shared \cup C,
         UNCHANGED <<sent, lapsed, accepted, wrong>>
  PROVE  CodeTypes'
BY TypeParts DEF CodeTypes

LEMMA CarriedIs ==
  ASSUME OfficeTypeInv, NEW s \in Staff, Exists(s), NEW m
  PROVE  Carried(s, m) \in SUBSET (Codes \cup {NoCode})
BY StaffIs DEF Carried

LEMMA FreeSound == Free \in Request \cup {Free} /\ Sound(Free) /\ Free.kind = "idle"
BY DEF Sound, Free, OnStaff, OnLogin

\* Everything but the tables and the office's own history is left alone.
Aside(w) ==
  /\ UNCHANGED branch /\ UNCHANGED caches /\ mix' = mix
  /\ UNCHANGED <<sent, lapsed, accepted, wrong>> /\ OtherWorkers(w)

LEMMA EditLoginDoes ==
  ASSUME OfficeTypeInv, NEW w \in Workers, EditLogin(w)
  PROVE  LET s == req[w].s
             row == Apply(req[w].change, req[w].ofLogin)
         IN  /\ OfficeTypeInv' /\ Aside(w)
             /\ req[w] \in Edits /\ req[w].kind = "edit" /\ req[w].pc = "login"
             /\ s \in Staff /\ Exists(s) /\ row \in LoginRow
             /\ staff' = staff /\ mixed' = mixed /\ UNCHANGED switches
             /\ \/ req'[w] = Free /\ login' = login /\ shared' = shared
                \/ /\ ~LoginTaken(row.mobile, s) /\ shared' = shared \cup Carried(s, row.mobile)
                   /\ login'[s] = row /\ \A t \in Staff \ {s} : login'[t] = login[t]
                   /\ req'[w] \in Edits /\ req'[w].kind = "edit" /\ req'[w].pc = "staff"
                   /\ req'[w].s = s /\ req'[w].change = req[w].change
                   /\ req'[w].ofStaff = req[w].ofStaff /\ req'[w].ofLogin = req[w].ofLogin
<1> PICK e \in Request \cup {Free} : e = req[w]
  BY AskIs
<1> PICK s \in Staff : s = e.s /\ Exists(s)
  BY AskedIs DEF EditLogin, Doing, OnStaff
<1>1. e \in Edits /\ e.kind = "edit" /\ e.pc = "login" /\ Sound(e)
  BY AskIs DEF EditLogin, Doing
<1> PICK row \in LoginRow : row = Apply(e.change, e.ofLogin)
  BY <1>1, ApplyIs DEF Edits
<1>2. /\ UNCHANGED branch /\ UNCHANGED caches /\ mix' = mix /\ staff' = staff /\ mixed' = mixed
      /\ UNCHANGED <<sent, lapsed, accepted, wrong>> /\ UNCHANGED switches
  BY DEF EditLogin
<1>3. BranchTypes' /\ CacheTypes' /\ SwitchTypes' /\ mixed' \subseteq Staff
  BY <1>2, TypesKept, TypeParts DEF AskTypes
<1>4. \/ Finish(w) /\ login' = login /\ shared' = shared
      \/ /\ ~LoginTaken(row.mobile, s) /\ login' = [login EXCEPT ![s] = row] /\ Move(w, "staff")
         /\ shared' = shared \cup Carried(s, row.mobile)
  BY DEF EditLogin
<1>5. CASE Finish(w) /\ login' = login /\ shared' = shared
  <2>1. RowTypes' /\ CodeTypes'
    BY <1>2, <1>5, TypesKept DEF codes
  <2>2. OfficeTypeInv' /\ OtherWorkers(w) /\ req'[w] = Free
    BY <1>2, <1>3, <1>5, <2>1, FreeSound, TypeStep DEF Finish
  <2> QED
    BY <1>1, <1>2, <1>5, <2>2 DEF Aside
<1>6. CASE /\ ~LoginTaken(row.mobile, s) /\ login' = [login EXCEPT ![s] = row] /\ Move(w, "staff")
           /\ shared' = shared \cup Carried(s, row.mobile)
  <2> PICK p \in StaffRow : p = staff[s]
    BY StaffIs
  <2>1. /\ RowTypes' /\ \A t \in Staff : staff[t] # NoRow => staff'[t] # NoRow
        /\ login'[s] = row /\ \A t \in Staff \ {s} : login'[t] = login[t]
    BY <1>2, <1>6, RowSaved
  <2>2. CodeTypes'
    BY <1>2, <1>6, CarriedIs, CodesShared
  <2> DEFINE q == [e EXCEPT !.pc = "staff"]
  <2>3. /\ q \in Edits /\ q.pc = "staff" /\ q.kind = "edit" /\ q.s = s /\ q.change = e.change
        /\ q.ofStaff = e.ofStaff /\ q.ofLogin = e.ofLogin
    BY <1>1, MoveIs
  <2>4. q \in Request \cup {Free} /\ Sound(q)
    BY <1>1, <2>3, RequestKinds DEF Sound, OnStaff
  <2>5. req' = [req EXCEPT ![w] = q]
    BY <1>6 DEF Move
  <2> HIDE DEF q
  <2>6. OfficeTypeInv' /\ OtherWorkers(w) /\ req'[w] = q
    BY <1>2, <1>3, <2>1, <2>2, <2>4, <2>5, TypeStep
  <2> QED
    BY <1>1, <1>2, <1>6, <2>1, <2>3, <2>6 DEF Aside
<1> QED
  BY <1>4, <1>5, <1>6

LEMMA InsertStaffDoes ==
  ASSUME OfficeTypeInv, NEW w \in Workers, InsertStaff(w)
  PROVE  /\ OfficeTypeInv' /\ Aside(w) /\ UNCHANGED switches /\ shared' = shared
         /\ req[w].kind = "create" /\ req'[w] = Free
         /\ \/ staff' = staff /\ login' = login /\ mixed' = mixed
            \/ \E s \in Staff :
                 /\ ~Exists(s) /\ ~LoginTaken(req[w].mobile, s)
                 /\ req[w].mobile \in Mobiles /\ req[w].branch \in Branches
                 /\ staff'[s] = NewStaff(req[w].mobile, req[w].branch)
                 /\ login'[s] = NewLogin(req[w].mobile, req[w].branch)
                 /\ \A t \in Staff \ {s} : staff'[t] = staff[t] /\ login'[t] = login[t]
                 /\ mixed' = IF \E v \in Workers : req[v].kind \in OnBranch /\ req[v].b = req[w].branch
                             THEN mixed \cup {s} ELSE mixed
<1> PICK e \in Request \cup {Free} : e = req[w]
  BY AskIs
<1>1. e \in Creates /\ e.kind = "create" /\ e.mobile \in Mobiles /\ e.branch \in Branches
  BY AskIs DEF InsertStaff, Doing, Creates
<1>2. /\ UNCHANGED branch /\ UNCHANGED caches /\ mix' = mix /\ UNCHANGED codes /\ UNCHANGED switches
      /\ Finish(w)
  BY DEF InsertStaff
<1>3. BranchTypes' /\ CacheTypes' /\ CodeTypes' /\ RowTypes /\ SwitchTypes /\ mixed \subseteq Staff
  BY <1>2, TypesKept, TypeParts DEF AskTypes
<1> PICK s \in Staff :
     /\ ~Exists(s)
     /\ IF LoginTaken(e.mobile, s) \/ StaffTaken(e.mobile, s)
        THEN UNCHANGED <<staff, login, mixed>>
        ELSE /\ staff' = [staff EXCEPT ![s] = NewStaff(e.mobile, e.branch)]
             /\ login' = [login EXCEPT ![s] = NewLogin(e.mobile, e.branch)]
             /\ mixed' = IF \E v \in Workers : req[v].kind \in OnBranch /\ req[v].b = e.branch
                         THEN mixed \cup {s} ELSE mixed
  BY DEF InsertStaff
<1>4. NewStaff(e.mobile, e.branch) \in StaffRow /\ NewLogin(e.mobile, e.branch) \in LoginRow
  BY <1>1 DEF NewStaff, NewLogin, StaffRow, LoginRow, Numbers
<1>5. CASE staff' = staff /\ login' = login /\ mixed' = mixed
  <2>1. RowTypes' /\ SwitchTypes'
    BY <1>2, <1>5, TypesKept
  <2>2. OfficeTypeInv' /\ OtherWorkers(w) /\ req'[w] = Free
    BY <1>2, <1>3, <1>5, <2>1, FreeSound, TypeStep DEF Finish
  <2> QED
    BY <1>1, <1>2, <1>5, <2>2 DEF Aside, codes
<1>6. CASE /\ ~LoginTaken(e.mobile, s)
           /\ staff' = [staff EXCEPT ![s] = NewStaff(e.mobile, e.branch)]
           /\ login' = [login EXCEPT ![s] = NewLogin(e.mobile, e.branch)]
           /\ mixed' = IF \E v \in Workers : req[v].kind \in OnBranch /\ req[v].b = e.branch
                       THEN mixed \cup {s} ELSE mixed
  <2>1. /\ staff'[s] = NewStaff(e.mobile, e.branch) /\ login'[s] = NewLogin(e.mobile, e.branch)
        /\ \A t \in Staff \ {s} : staff'[t] = staff[t] /\ login'[t] = login[t]
    BY <1>3, <1>6 DEF RowTypes
  <2>2. /\ staff' \in [Staff -> StaffRow \cup {NoRow}] /\ login' \in [Staff -> LoginRow \cup {NoRow}]
    BY <1>3, <1>4, <1>6 DEF RowTypes
  <2>3. RowTypes' /\ \A t \in Staff : staff[t] # NoRow => staff'[t] # NoRow
    BY <1>3, <1>4, <2>1, <2>2, RowsAreRows DEF RowTypes
  <2>4. SwitchTypes'
    BY <1>2, <1>3, <2>3 DEF SwitchTypes, switches
  <2>5. mixed' \subseteq Staff
    BY <1>3, <1>6
  <2>6. OfficeTypeInv' /\ OtherWorkers(w) /\ req'[w] = Free
    BY <1>2, <1>3, <2>3, <2>4, <2>5, FreeSound, TypeStep DEF Finish
  <2> QED
    BY <1>1, <1>2, <1>6, <2>1, <2>6 DEF Aside, codes
<1> QED
  BY <1>5, <1>6

LEMMA EditStaffDoes ==
  ASSUME OfficeTypeInv, NEW w \in Workers, EditStaff(w)
  PROVE  LET s == req[w].s
             row == Apply(req[w].change, req[w].ofStaff)
         IN  /\ OfficeTypeInv' /\ Aside(w) /\ shared' = shared /\ login' = login
             /\ req[w] \in Edits /\ req[w].kind = "edit" /\ req[w].pc = "staff" /\ req'[w] = Free
             /\ s \in Staff /\ Exists(s) /\ row \in StaffRow
             /\ \/ staff' = staff /\ mixed' = mixed \cup {s} /\ UNCHANGED switches
                \/ /\ staff'[s] = row /\ \A t \in Staff \ {s} : staff'[t] = staff[t]
                   /\ Switched(s, row.active) /\ mixed' = mixed
<1> PICK e \in Request \cup {Free} : e = req[w]
  BY AskIs
<1> PICK s \in Staff : s = e.s /\ Exists(s)
  BY AskedIs DEF EditStaff, Doing, OnStaff
<1>1. e \in Edits /\ e.kind = "edit" /\ e.pc = "staff"
  BY AskIs DEF EditStaff, Doing
<1> PICK row \in StaffRow : row = Apply(e.change, e.ofStaff)
  BY <1>1, ApplyIs DEF Edits
<1>2. /\ UNCHANGED branch /\ UNCHANGED caches /\ mix' = mix /\ login' = login /\ UNCHANGED codes
      /\ Finish(w)
  BY DEF EditStaff
<1>3. BranchTypes' /\ CacheTypes' /\ CodeTypes' /\ mixed \subseteq Staff
  BY <1>2, TypesKept, TypeParts DEF AskTypes
<1>4. \/ mixed' = mixed \cup {s} /\ staff' = staff /\ UNCHANGED switches
      \/ staff' = [staff EXCEPT ![s] = row] /\ Switched(s, row.active) /\ mixed' = mixed
  BY DEF EditStaff
<1>5. CASE mixed' = mixed \cup {s} /\ staff' = staff /\ UNCHANGED switches
  <2>1. RowTypes' /\ SwitchTypes'
    BY <1>2, <1>5, TypesKept
  <2>2. OfficeTypeInv' /\ OtherWorkers(w) /\ req'[w] = Free
    BY <1>2, <1>3, <1>5, <2>1, FreeSound, TypeStep DEF Finish
  <2> QED
    BY <1>1, <1>2, <1>5, <2>2 DEF Aside, codes
<1>6. CASE staff' = [staff EXCEPT ![s] = row] /\ Switched(s, row.active) /\ mixed' = mixed
  <2> PICK l \in LoginRow : l = login[s]
    BY StaffIs
  <2>1. /\ RowTypes' /\ \A t \in Staff : staff[t] # NoRow => staff'[t] # NoRow
        /\ staff'[s] = row /\ \A t \in Staff \ {s} : staff'[t] = staff[t]
    BY <1>2, <1>6, RowSaved
  <2>2. SwitchTypes'
    BY <1>6, <2>1, SwitchedTypes DEF StaffRow
  <2>3. OfficeTypeInv' /\ OtherWorkers(w) /\ req'[w] = Free
    BY <1>2, <1>3, <1>6, <2>1, <2>2, FreeSound, TypeStep DEF Finish
  <2> QED
    BY <1>1, <1>2, <1>6, <2>1, <2>3 DEF Aside, codes
<1> QED
  BY <1>4, <1>5, <1>6

LEMMA ToggleStaffDoes ==
  ASSUME OfficeTypeInv, NEW w \in Workers, ToggleStaff(w)
  PROVE  LET s == req[w].s
         IN  /\ OfficeTypeInv' /\ Aside(w) /\ shared' = shared /\ login' = login /\ mixed' = mixed
             /\ req[w].kind = "toggle" /\ req[w].pc = "staff" /\ req[w].to \in BOOLEAN
             /\ s \in Staff /\ Exists(s)
             /\ req'[w].kind = "toggle" /\ req'[w].pc = "login" /\ req'[w].s = s
             /\ req'[w].to = req[w].to
             /\ staff'[s] = [staff[s] EXCEPT !.active = req[w].to]
             /\ \A t \in Staff \ {s} : staff'[t] = staff[t]
             /\ Switched(s, req[w].to)
<1> PICK e \in Request \cup {Free} : e = req[w]
  BY AskIs
<1> PICK s \in Staff : s = e.s /\ Exists(s)
  BY AskedIs DEF ToggleStaff, Doing, OnStaff
<1>1. e \in Toggles /\ e.kind = "toggle" /\ e.pc = "staff" /\ e.to \in BOOLEAN /\ Sound(e)
  BY AskIs DEF ToggleStaff, Doing, Toggles
<1>2. /\ UNCHANGED branch /\ UNCHANGED caches /\ mix' = mix /\ login' = login /\ UNCHANGED codes
      /\ mixed' = mixed /\ Switched(s, e.to)
  BY DEF ToggleStaff
<1>3. BranchTypes' /\ CacheTypes' /\ CodeTypes' /\ mixed \subseteq Staff
  BY <1>2, TypesKept, TypeParts DEF AskTypes
<1> PICK old \in StaffRow : old = staff[s]
  BY StaffIs
<1> DEFINE p == [old EXCEPT !.active = e.to]
<1>4. p \in StaffRow
  BY <1>1 DEF StaffRow
<1>5. staff' = [staff EXCEPT ![s] = p]
  BY DEF ToggleStaff
<1> PICK l \in LoginRow : l = login[s]
  BY StaffIs
<1> HIDE DEF p
<1>6. /\ RowTypes' /\ \A t \in Staff : staff[t] # NoRow => staff'[t] # NoRow
      /\ staff'[s] = p /\ \A t \in Staff \ {s} : staff'[t] = staff[t]
  BY <1>2, <1>4, <1>5, RowSaved
<1>7. SwitchTypes'
  BY <1>1, <1>2, <1>6, SwitchedTypes
<1> DEFINE q == [e EXCEPT !.pc = "login"]
<1>8. q \in Toggles /\ q.pc = "login" /\ q.kind = "toggle" /\ q.s = s /\ q.to = e.to
  BY <1>1, MoveIs
<1>9. q \in Request \cup {Free} /\ Sound(q) /\ req' = [req EXCEPT ![w] = q]
  BY <1>1, <1>8, RequestKinds DEF Sound, OnStaff, ToggleStaff, Move
<1> HIDE DEF q
<1>10. OfficeTypeInv' /\ OtherWorkers(w) /\ req'[w] = q
  BY <1>2, <1>3, <1>6, <1>7, <1>9, TypeStep
<1> QED
  BY <1>1, <1>2, <1>6, <1>8, <1>10 DEF Aside, codes, p

LEMMA ToggleLoginDoes ==
  ASSUME OfficeTypeInv, NEW w \in Workers, ToggleLogin(w)
  PROVE  LET s == req[w].s
         IN  /\ OfficeTypeInv' /\ Aside(w) /\ shared' = shared /\ staff' = staff /\ mixed' = mixed
             /\ UNCHANGED switches
             /\ req[w].kind = "toggle" /\ req[w].pc = "login" /\ req'[w] = Free
             /\ s \in Staff /\ Exists(s)
             /\ login'[s] = [login[s] EXCEPT !.active = req[w].to]
             /\ \A t \in Staff \ {s} : login'[t] = login[t]
<1> PICK e \in Request \cup {Free} : e = req[w]
  BY AskIs
<1> PICK s \in Staff : s = e.s /\ Exists(s)
  BY AskedIs DEF ToggleLogin, Doing, OnStaff
<1>1. e \in Toggles /\ e.kind = "toggle" /\ e.pc = "login" /\ e.to \in BOOLEAN
  BY AskIs DEF ToggleLogin, Doing, Toggles
<1>2. /\ UNCHANGED branch /\ UNCHANGED caches /\ mix' = mix /\ staff' = staff /\ UNCHANGED codes
      /\ mixed' = mixed /\ UNCHANGED switches /\ Finish(w)
  BY DEF ToggleLogin
<1>3. BranchTypes' /\ CacheTypes' /\ CodeTypes' /\ SwitchTypes' /\ mixed \subseteq Staff
  BY <1>2, TypesKept, TypeParts DEF AskTypes
<1> PICK old \in LoginRow : old = login[s]
  BY StaffIs
<1> DEFINE l == [old EXCEPT !.active = e.to]
<1>4. l \in LoginRow
  BY <1>1 DEF LoginRow
<1>5. login' = [login EXCEPT ![s] = l]
  BY DEF ToggleLogin
<1> PICK p \in StaffRow : p = staff[s]
  BY StaffIs
<1> HIDE DEF l
<1>6. /\ RowTypes' /\ \A t \in Staff : staff[t] # NoRow => staff'[t] # NoRow
      /\ login'[s] = l /\ \A t \in Staff \ {s} : login'[t] = login[t]
  BY <1>2, <1>4, <1>5, RowSaved
<1>7. OfficeTypeInv' /\ OtherWorkers(w) /\ req'[w] = Free
  BY <1>2, <1>3, <1>6, FreeSound, TypeStep DEF Finish
<1> QED
  BY <1>1, <1>2, <1>6, <1>7 DEF Aside, codes, l

LEMMA ReleasedIs ==
  ASSUME OfficeTypeInv, NEW s \in Staff, Exists(s)
  PROVE  /\ ReleasedStaff(s) \in StaffRow /\ ReleasedLogin(s) \in LoginRow
         /\ ReleasedStaff(s).mobile = Tomb(s) /\ ReleasedStaff(s).branch = staff[s].branch
         /\ ReleasedStaff(s).active = FALSE /\ ReleasedStaff(s).deleted = TRUE
         /\ ReleasedStaff(s).byBranch = staff[s].byBranch
         /\ ReleasedLogin(s).mobile = Tomb(s) /\ ReleasedLogin(s).branch = login[s].branch
         /\ ReleasedLogin(s).active = FALSE /\ ReleasedLogin(s).code = login[s].code
<1> PICK p \in StaffRow, l \in LoginRow : p = staff[s] /\ l = login[s]
  BY StaffIs
<1>1. Tomb(s) \in Numbers
  BY DEF Numbers
<1> DEFINE P == [p EXCEPT !.mobile = Tomb(s), !.active = FALSE, !.deleted = TRUE]
           L == [l EXCEPT !.mobile = Tomb(s), !.active = FALSE]
<1>2. /\ P \in StaffRow /\ P.mobile = Tomb(s) /\ P.branch = p.branch /\ P.active = FALSE
      /\ P.deleted = TRUE /\ P.byBranch = p.byBranch
  BY <1>1 DEF StaffRow
<1>3. /\ L \in LoginRow /\ L.mobile = Tomb(s) /\ L.branch = l.branch /\ L.active = FALSE
      /\ L.code = l.code
  BY <1>1 DEF LoginRow
<1> QED
  BY <1>2, <1>3 DEF ReleasedStaff, ReleasedLogin

LEMMA ReleaseStaffDoes ==
  ASSUME OfficeTypeInv, NEW w \in Workers, ReleaseStaff(w)
  PROVE  LET s == req[w].s
         IN  /\ OfficeTypeInv' /\ Aside(w) /\ shared' = shared /\ login' = login /\ mixed' = mixed
             /\ req[w].kind = "destroy" /\ req[w].pc = "staff"
             /\ s \in Staff /\ Exists(s)
             /\ req'[w].kind = "destroy" /\ req'[w].pc = "login" /\ req'[w].s = s
             /\ staff'[s] = ReleasedStaff(s) /\ \A t \in Staff \ {s} : staff'[t] = staff[t]
             /\ Switched(s, FALSE)
<1> PICK e \in Request \cup {Free} : e = req[w]
  BY AskIs
<1> PICK s \in Staff : s = e.s /\ Exists(s)
  BY AskedIs DEF ReleaseStaff, Doing, OnStaff
<1>1. e \in Destroys /\ e.kind = "destroy" /\ e.pc = "staff" /\ Sound(e)
  BY AskIs DEF ReleaseStaff, Doing, Destroys
<1>2. /\ UNCHANGED branch /\ UNCHANGED caches /\ mix' = mix /\ login' = login /\ UNCHANGED codes
      /\ mixed' = mixed /\ Switched(s, FALSE)
  BY DEF ReleaseStaff
<1>3. BranchTypes' /\ CacheTypes' /\ CodeTypes' /\ mixed \subseteq Staff
  BY <1>2, TypesKept, TypeParts DEF AskTypes
<1> PICK p \in StaffRow : p = ReleasedStaff(s)
  BY ReleasedIs
<1> PICK l \in LoginRow : l = login[s]
  BY StaffIs
<1>5. staff' = [staff EXCEPT ![s] = p]
  BY DEF ReleaseStaff
<1>6. /\ RowTypes' /\ \A t \in Staff : staff[t] # NoRow => staff'[t] # NoRow
      /\ staff'[s] = p /\ \A t \in Staff \ {s} : staff'[t] = staff[t]
  BY <1>2, <1>5, RowSaved
<1>7. SwitchTypes'
  BY <1>1, <1>2, <1>6, SwitchedTypes
<1> DEFINE q == [e EXCEPT !.pc = "login"]
<1>8. q \in Destroys /\ q.pc = "login" /\ q.kind = "destroy" /\ q.s = s
  BY <1>1, MoveIs
<1>9. q \in Request \cup {Free} /\ Sound(q) /\ req' = [req EXCEPT ![w] = q]
  BY <1>1, <1>8, RequestKinds DEF Sound, OnStaff, ReleaseStaff, Move
<1> HIDE DEF q
<1>10. OfficeTypeInv' /\ OtherWorkers(w) /\ req'[w] = q
  BY <1>2, <1>3, <1>6, <1>7, <1>9, TypeStep
<1> QED
  BY <1>1, <1>2, <1>6, <1>8, <1>10 DEF Aside, codes

LEMMA ReleaseLoginDoes ==
  ASSUME OfficeTypeInv, NEW w \in Workers, ReleaseLogin(w)
  PROVE  LET s == req[w].s
         IN  /\ OfficeTypeInv' /\ Aside(w) /\ staff' = staff /\ mixed' = mixed
             /\ UNCHANGED switches
             /\ req[w].kind = "destroy" /\ req[w].pc = "login" /\ req'[w] = Free
             /\ s \in Staff /\ Exists(s)
             /\ login'[s] = ReleasedLogin(s) /\ \A t \in Staff \ {s} : login'[t] = login[t]
             /\ shared' = shared \cup Carried(s, Tomb(s))
<1> PICK e \in Request \cup {Free} : e = req[w]
  BY AskIs
<1> PICK s \in Staff : s = e.s /\ Exists(s)
  BY AskedIs DEF ReleaseLogin, Doing, OnStaff
<1>1. e \in Destroys /\ e.kind = "destroy" /\ e.pc = "login"
  BY AskIs DEF ReleaseLogin, Doing, Destroys
<1>2. /\ UNCHANGED branch /\ UNCHANGED caches /\ mix' = mix /\ staff' = staff
      /\ UNCHANGED <<sent, lapsed, accepted, wrong>> /\ shared' = shared \cup Carried(s, Tomb(s))
      /\ mixed' = mixed /\ UNCHANGED switches /\ Finish(w)
  BY DEF ReleaseLogin
<1>3. BranchTypes' /\ CacheTypes' /\ SwitchTypes' /\ mixed \subseteq Staff
  BY <1>2, TypesKept, TypeParts DEF AskTypes
<1>4. CodeTypes'
  BY <1>2, CarriedIs, CodesShared
<1> PICK p \in StaffRow : p = staff[s]
  BY StaffIs
<1> PICK l \in LoginRow : l = ReleasedLogin(s)
  BY ReleasedIs
<1>5. login' = [login EXCEPT ![s] = l]
  BY DEF ReleaseLogin
<1>6. /\ RowTypes' /\ \A t \in Staff : staff[t] # NoRow => staff'[t] # NoRow
      /\ login'[s] = l /\ \A t \in Staff \ {s} : login'[t] = login[t]
  BY <1>2, <1>5, RowSaved
<1>7. OfficeTypeInv' /\ OtherWorkers(w) /\ req'[w] = Free
  BY <1>2, <1>3, <1>4, <1>6, FreeSound, TypeStep DEF Finish
<1> QED
  BY <1>1, <1>2, <1>6, <1>7 DEF Aside

LEMMA PhoneLoginDoes ==
  ASSUME OfficeTypeInv, NEW w \in Workers, PhoneLogin(w)
  PROVE  LET s == req[w].s
             m == req[w].mobile
         IN  /\ OfficeTypeInv' /\ Aside(w) /\ staff' = staff /\ mixed' = mixed
             /\ UNCHANGED switches
             /\ req[w].kind = "phone" /\ req[w].pc = "login" /\ m \in Mobiles
             /\ s \in Staff /\ Exists(s)
             /\ \/ req'[w] = Free /\ login' = login /\ shared' = shared
                \/ /\ ~LoginTaken(m, s) /\ shared' = shared \cup Carried(s, m)
                   /\ login'[s] = [login[s] EXCEPT !.mobile = m]
                   /\ \A t \in Staff \ {s} : login'[t] = login[t]
                   /\ req'[w].kind = "phone" /\ req'[w].pc = "staff" /\ req'[w].s = s
                   /\ req'[w].mobile = m
<1> PICK e \in Request \cup {Free} : e = req[w]
  BY AskIs
<1> PICK s \in Staff : s = e.s /\ Exists(s)
  BY AskedIs DEF PhoneLogin, Doing, OnStaff
<1>1. e \in Phonings /\ e.kind = "phone" /\ e.pc = "login" /\ e.mobile \in Mobiles /\ Sound(e)
  BY AskIs DEF PhoneLogin, Doing, Phonings
<1>2. /\ UNCHANGED branch /\ UNCHANGED caches /\ mix' = mix /\ staff' = staff /\ mixed' = mixed
      /\ UNCHANGED <<sent, lapsed, accepted, wrong>> /\ UNCHANGED switches
  BY DEF PhoneLogin
<1>3. BranchTypes' /\ CacheTypes' /\ SwitchTypes' /\ mixed' \subseteq Staff
  BY <1>2, TypesKept, TypeParts DEF AskTypes
<1> PICK old \in LoginRow : old = login[s]
  BY StaffIs
<1> DEFINE l == [old EXCEPT !.mobile = e.mobile]
<1>4. l \in LoginRow
  BY <1>1 DEF LoginRow, Numbers
<1>5. \/ Finish(w) /\ login' = login /\ shared' = shared
      \/ /\ ~LoginTaken(e.mobile, s) /\ login' = [login EXCEPT ![s] = l] /\ Move(w, "staff")
         /\ shared' = shared \cup Carried(s, e.mobile)
  BY DEF PhoneLogin
<1> HIDE DEF l
<1>6. CASE Finish(w) /\ login' = login /\ shared' = shared
  <2>1. RowTypes' /\ CodeTypes'
    BY <1>2, <1>6, TypesKept DEF codes
  <2>2. OfficeTypeInv' /\ OtherWorkers(w) /\ req'[w] = Free
    BY <1>2, <1>3, <1>6, <2>1, FreeSound, TypeStep DEF Finish
  <2> QED
    BY <1>1, <1>2, <1>6, <2>2 DEF Aside
<1>7. CASE /\ ~LoginTaken(e.mobile, s) /\ login' = [login EXCEPT ![s] = l] /\ Move(w, "staff")
           /\ shared' = shared \cup Carried(s, e.mobile)
  <2> PICK p \in StaffRow : p = staff[s]
    BY StaffIs
  <2>1. /\ RowTypes' /\ \A t \in Staff : staff[t] # NoRow => staff'[t] # NoRow
        /\ login'[s] = l /\ \A t \in Staff \ {s} : login'[t] = login[t]
    BY <1>2, <1>4, <1>7, RowSaved
  <2>2. CodeTypes'
    BY <1>2, <1>7, CarriedIs, CodesShared
  <2> DEFINE q == [e EXCEPT !.pc = "staff"]
  <2>3. q \in Phonings /\ q.pc = "staff" /\ q.kind = "phone" /\ q.s = s /\ q.mobile = e.mobile
    BY <1>1, MoveIs
  <2>4. q \in Request \cup {Free} /\ Sound(q) /\ req' = [req EXCEPT ![w] = q]
    BY <1>1, <1>7, <2>3, RequestKinds DEF Sound, OnStaff, Move
  <2> HIDE DEF q
  <2>6. OfficeTypeInv' /\ OtherWorkers(w) /\ req'[w] = q
    BY <1>2, <1>3, <2>1, <2>2, <2>4, TypeStep
  <2> QED
    BY <1>1, <1>2, <1>7, <2>1, <2>3, <2>6 DEF Aside, l
<1> QED
  BY <1>5, <1>6, <1>7

LEMMA PhoneStaffDoes ==
  ASSUME OfficeTypeInv, NEW w \in Workers, PhoneStaff(w)
  PROVE  LET s == req[w].s
             m == req[w].mobile
         IN  /\ OfficeTypeInv' /\ Aside(w) /\ login' = login /\ shared' = shared
             /\ UNCHANGED switches
             /\ req[w].kind = "phone" /\ req[w].pc = "staff" /\ m \in Mobiles
             /\ s \in Staff /\ Exists(s)
             /\ \/ req'[w] = Free /\ staff' = staff /\ mixed' = mixed \cup {s}
                \/ /\ mixed' = mixed
                   /\ staff'[s] = [staff[s] EXCEPT !.mobile = m]
                   /\ \A t \in Staff \ {s} : staff'[t] = staff[t]
                   /\ req'[w].kind = "phone" /\ req'[w].pc = "drop" /\ req'[w].s = s
<1> PICK e \in Request \cup {Free} : e = req[w]
  BY AskIs
<1> PICK s \in Staff : s = e.s /\ Exists(s)
  BY AskedIs DEF PhoneStaff, Doing, OnStaff
<1>1. e \in Phonings /\ e.kind = "phone" /\ e.pc = "staff" /\ e.mobile \in Mobiles /\ Sound(e)
  BY AskIs DEF PhoneStaff, Doing, Phonings
<1>2. /\ UNCHANGED branch /\ UNCHANGED caches /\ mix' = mix /\ login' = login
      /\ UNCHANGED codes /\ UNCHANGED switches
  BY DEF PhoneStaff
<1>3. BranchTypes' /\ CacheTypes' /\ CodeTypes' /\ mixed \subseteq Staff /\ SwitchTypes
  BY <1>2, TypesKept, TypeParts DEF AskTypes
<1> PICK old \in StaffRow : old = staff[s]
  BY StaffIs
<1> DEFINE p == [old EXCEPT !.mobile = e.mobile]
<1>4. p \in StaffRow
  BY <1>1 DEF StaffRow, Numbers
<1>5. \/ Finish(w) /\ staff' = staff /\ mixed' = mixed \cup {s}
      \/ staff' = [staff EXCEPT ![s] = p] /\ Move(w, "drop") /\ mixed' = mixed
  BY DEF PhoneStaff
<1> HIDE DEF p
<1>6. CASE Finish(w) /\ staff' = staff /\ mixed' = mixed \cup {s}
  <2>1. RowTypes' /\ SwitchTypes'
    BY <1>2, <1>6, TypesKept
  <2>2. OfficeTypeInv' /\ OtherWorkers(w) /\ req'[w] = Free
    BY <1>2, <1>3, <1>6, <2>1, FreeSound, TypeStep DEF Finish
  <2> QED
    BY <1>1, <1>2, <1>6, <2>2 DEF Aside, codes
<1>7. CASE staff' = [staff EXCEPT ![s] = p] /\ Move(w, "drop") /\ mixed' = mixed
  <2> PICK l \in LoginRow : l = login[s]
    BY StaffIs
  <2>1. /\ RowTypes' /\ \A t \in Staff : staff[t] # NoRow => staff'[t] # NoRow
        /\ staff'[s] = p /\ \A t \in Staff \ {s} : staff'[t] = staff[t]
    BY <1>2, <1>4, <1>7, RowSaved
  <2>2. SwitchTypes'
    BY <1>2, <1>3, <2>1 DEF SwitchTypes, switches
  <2> DEFINE q == [e EXCEPT !.pc = "drop"]
  <2>3. q \in Phonings /\ q.pc = "drop" /\ q.kind = "phone" /\ q.s = s /\ q.mobile = e.mobile
    BY <1>1, MoveIs
  <2>4. q \in Request \cup {Free} /\ Sound(q) /\ req' = [req EXCEPT ![w] = q]
    BY <1>1, <1>7, <2>3, RequestKinds DEF Sound, OnStaff, Move
  <2> HIDE DEF q
  <2>6. OfficeTypeInv' /\ OtherWorkers(w) /\ req'[w] = q
    BY <1>2, <1>3, <1>7, <2>1, <2>2, <2>4, TypeStep
  <2> QED
    BY <1>1, <1>2, <1>7, <2>1, <2>3, <2>6 DEF Aside, p, codes
<1> QED
  BY <1>5, <1>6, <1>7

LEMMA DropOfferDoes ==
  ASSUME OfficeTypeInv, NEW w \in Workers, DropOffer(w)
  PROVE  /\ OfficeTypeInv' /\ OtherWorkers(w) /\ UNCHANGED <<tables, codes, switches, mixed>>
         /\ tries' = tries /\ locked' = locked
         /\ req[w].kind = "phone" /\ req[w].pc = "drop" /\ req'[w] = Free
<1>1. /\ UNCHANGED <<staff, login>> /\ UNCHANGED branch /\ UNCHANGED codes /\ UNCHANGED switches
      /\ tries' = tries /\ locked' = locked /\ mix' = mix /\ mixed' = mixed /\ Finish(w)
      /\ req[w].kind = "phone" /\ req[w].pc = "drop"
      /\ offer' = [offer EXCEPT ![req[w].s] = NoMobile]
  BY DEF DropOffer, tables, Doing
<1>2. RowTypes' /\ BranchTypes' /\ CodeTypes' /\ SwitchTypes' /\ mixed \subseteq Staff /\ CacheTypes
  BY <1>1, TypesKept, TypeParts DEF AskTypes
<1>3. CacheTypes'
  BY <1>1, <1>2 DEF CacheTypes
<1>4. OfficeTypeInv' /\ OtherWorkers(w) /\ req'[w] = Free
  BY <1>1, <1>2, <1>3, FreeSound, TypeStep DEF Finish
<1> QED
  BY <1>1, <1>4 DEF tables

Whom(r) == IF r.kind = "switch" THEN Found(r.b, r.to) ELSE InBranch(r.b)

\* The staff of a branch, those its switch finds, those a request lists.
LEMMA BranchStaff ==
  ASSUME NEW b, NEW to
  PROVE  /\ InBranch(b) \in SUBSET Staff /\ \A s \in InBranch(b) : Exists(s)
         /\ Found(b, to) \in SUBSET Staff /\ \A s \in Found(b, to) : Exists(s)
<1>1. InBranch(b) \in SUBSET Staff /\ \A s \in InBranch(b) : Exists(s)
  BY DEF InBranch
<1>2. Found(b, to) \subseteq InBranch(b)
  BY DEF Found
<1> QED
  BY <1>1, <1>2

LEMMA ListStaffDoes ==
  ASSUME OfficeTypeInv, NEW w \in Workers, ListStaff(w)
  PROVE  /\ OfficeTypeInv' /\ OtherWorkers(w)
         /\ UNCHANGED <<tables, caches, codes, switches, mixed>>
         /\ req[w] \in Switches /\ req[w].pc = "list"
         /\ req'[w] \in Switches /\ req'[w].kind = req[w].kind /\ req'[w].pc = "commit"
         /\ req'[w].b = req[w].b /\ req'[w].to = req[w].to /\ req'[w].listed = Whom(req[w])
<1> PICK e \in Request \cup {Free} : e = req[w]
  BY AskIs
<1>1. e \in Switches /\ e.pc = "list" /\ e.kind \in {"switch", "close"}
  <2>1. e.pc = "list"
    BY DEF ListStaff
  <2>2. e \in Switches
    BY <2>1, RequestKinds DEF Creates, Edits, Toggles, Destroys, Phonings, Amends, Logins, Free
  <2> QED
    BY <2>1, <2>2 DEF Switches
<1>2. /\ UNCHANGED <<staff, login>> /\ UNCHANGED branch /\ UNCHANGED caches /\ UNCHANGED codes
      /\ UNCHANGED switches /\ mix' = mix /\ mixed' = mixed
  BY DEF ListStaff, tables
<1>3. RowTypes' /\ BranchTypes' /\ CacheTypes' /\ CodeTypes' /\ SwitchTypes' /\ mixed \subseteq Staff
  BY <1>2, TypesKept, TypeParts DEF AskTypes
<1> PICK L \in SUBSET Staff : L = Whom(e) /\ \A s \in L : Exists(s)
  BY BranchStaff DEF Whom
<1> DEFINE q == [e EXCEPT !.pc = "commit", !.listed = L]
<1>4. /\ q \in Switches /\ q.kind = e.kind /\ q.pc = "commit" /\ q.b = e.b /\ q.to = e.to
      /\ q.listed = L
  BY <1>1 DEF Switches
<1>5. req' = [req EXCEPT ![w] = q]
  BY <1>1 DEF ListStaff, Whom
<1>6. q \in Request \cup {Free} /\ Sound(q)
  BY <1>1, <1>4, RequestKinds DEF Sound, OnStaff, OnLogin
<1> HIDE DEF q
<1>7. OfficeTypeInv' /\ OtherWorkers(w) /\ req'[w] = q
  BY <1>2, <1>3, <1>5, <1>6, TypeStep, Zenon
<1> QED
  BY <1>1, <1>2, <1>4, <1>7 DEF tables

LEMMA CommitSwitchDoes ==
  ASSUME OfficeTypeInv, NEW w \in Workers, CommitSwitch(w)
  PROVE  LET b == req[w].b
             to == req[w].to
         IN  /\ OfficeTypeInv' /\ OtherWorkers(w) /\ UNCHANGED <<caches, codes, mixed>>
             /\ req[w] \in Switches /\ req[w].kind = "switch" /\ req[w].pc = "commit"
             /\ req'[w] = Free
             /\ branch'[b].active = to /\ \A c \in Branches \ {b} : branch'[c] = branch[c]
             /\ \A s \in Found(b, to) :
                  /\ staff'[s] = [staff[s] EXCEPT !.active = to, !.byBranch = ~to]
                  /\ offBy'[s] = (IF to THEN "nobody" ELSE b) /\ s \notin relit'
             /\ \A s \in Staff \ Found(b, to) :
                  staff'[s] = staff[s] /\ offBy'[s] = offBy[s] /\ (s \in relit' <=> s \in relit)
             /\ \A s \in req[w].listed : login'[s] = [login[s] EXCEPT !.active = to]
             /\ \A s \in Staff \ req[w].listed : login'[s] = login[s]
<1> PICK e \in Request \cup {Free} : e = req[w]
  BY AskIs
<1>1. /\ e \in Switches /\ e.kind = "switch" /\ e.pc = "commit" /\ e.b \in Branches
      /\ e.to \in BOOLEAN /\ e.listed \in SUBSET Staff /\ \A s \in e.listed : Exists(s)
  BY AskIs DEF CommitSwitch, Doing, Switches, Sound
<1> PICK b \in Branches, to \in BOOLEAN, L \in SUBSET Staff : b = e.b /\ to = e.to /\ L = e.listed
  BY <1>1
<1> PICK F \in SUBSET Staff : F = Found(b, to) /\ \A s \in F : Exists(s)
  BY BranchStaff
<1>2. /\ UNCHANGED caches /\ UNCHANGED codes /\ mix' = mix /\ mixed' = mixed /\ Finish(w)
      /\ relit' = relit \ F
      /\ branch' = [branch EXCEPT ![b].active = to]
  BY DEF CommitSwitch
<1>3. CacheTypes' /\ CodeTypes' /\ mixed \subseteq Staff /\ RowTypes /\ BranchTypes /\ SwitchTypes
  BY <1>2, TypesKept, TypeParts DEF AskTypes
<1>4. staff' = [s \in Staff |->
        IF s \in F THEN [staff[s] EXCEPT !.active = to, !.byBranch = ~to] ELSE staff[s]]
  BY DEF CommitSwitch
<1>5. login' = [s \in Staff |-> IF s \in L THEN [login[s] EXCEPT !.active = to] ELSE login[s]]
  BY DEF CommitSwitch
<1>6. offBy' = [s \in Staff |->
        IF s \notin F THEN offBy[s] ELSE IF to THEN "nobody" ELSE b]
  BY DEF CommitSwitch
<1>7. ASSUME NEW s \in Staff
      PROVE  /\ staff'[s] \in StaffRow \cup {NoRow} /\ (staff'[s] # NoRow <=> staff[s] # NoRow)
             /\ login'[s] \in LoginRow \cup {NoRow} /\ (login'[s] # NoRow <=> login[s] # NoRow)
  <2>1. /\ staff'[s] \in StaffRow \cup {NoRow} /\ (staff'[s] # NoRow <=> staff[s] # NoRow)
    <3>1. CASE s \in F
      <4> PICK old \in StaffRow : old = staff[s]
        BY <3>1, StaffIs
      <4> DEFINE new == [old EXCEPT !.active = to, !.byBranch = ~to]
      <4>1. new \in StaffRow
        BY DEF StaffRow
      <4> HIDE DEF new
      <4>2. staff'[s] = new
        BY <1>4, <3>1 DEF new
      <4> QED
        BY <4>1, <4>2, RowsAreRows
    <3>2. CASE s \notin F
      BY <1>3, <1>4, <3>2 DEF RowTypes
    <3> QED
      BY <3>1, <3>2
  <2>2. login'[s] \in LoginRow \cup {NoRow} /\ (login'[s] # NoRow <=> login[s] # NoRow)
    <3>1. CASE s \in L
      <4> PICK old \in LoginRow : old = login[s]
        BY <1>1, <3>1, StaffIs
      <4> DEFINE new == [old EXCEPT !.active = to]
      <4>1. new \in LoginRow
        BY DEF LoginRow
      <4> HIDE DEF new
      <4>2. login'[s] = new
        BY <1>5, <3>1 DEF new
      <4> QED
        BY <4>1, <4>2, RowsAreRows
    <3>2. CASE s \notin L
      BY <1>3, <1>5, <3>2 DEF RowTypes
    <3> QED
      BY <3>1, <3>2
  <2> QED
    BY <2>1, <2>2
<1>8. RowTypes'
  <2>1. \A s \in Staff : staff'[s] # NoRow <=> login'[s] # NoRow
    BY <1>3, <1>7 DEF RowTypes
  <2>2. staff' \in [Staff -> StaffRow \cup {NoRow}]
    <3> HIDE <1>5
    <3>1. staff' = [s \in Staff |-> staff'[s]]
      BY <1>4
    <3> QED
      BY <3>1, <1>7
  <2>3. login' \in [Staff -> LoginRow \cup {NoRow}]
    <3>1. login' = [s \in Staff |-> login'[s]]
      BY <1>5
    <3> QED
      BY <3>1, <1>7
  <2> QED
    BY <2>1, <2>2, <2>3 DEF RowTypes
<1>9. SwitchTypes'
  <2>1. relit' \subseteq Staff /\ offBy' \in [Staff -> Offs]
    BY <1>2, <1>3, <1>6 DEF SwitchTypes, Offs
  <2>2. \A s \in Staff : staff'[s] = NoRow => offBy'[s] = "nobody" /\ s \notin relit'
    BY <1>2, <1>3, <1>6, <1>7 DEF SwitchTypes, Exists
  <2> QED
    BY <2>1, <2>2 DEF SwitchTypes
<1>10. BranchTypes' /\ branch'[b].active = to /\ \A c \in Branches \ {b} : branch'[c] = branch[c]
  <2> PICK old \in BranchRow : old = branch[b]
    BY <1>3 DEF BranchTypes
  <2> DEFINE new == [old EXCEPT !.active = to]
  <2>1. new \in BranchRow /\ new.active = to
    BY DEF BranchRow
  <2>2. branch' = [branch EXCEPT ![b] = new]
    BY <1>2
  <2> HIDE DEF new
  <2> QED
    BY <1>3, <2>1, <2>2 DEF BranchTypes
<1>11. OfficeTypeInv' /\ OtherWorkers(w) /\ req'[w] = Free
  BY <1>2, <1>3, <1>7, <1>8, <1>9, <1>10, FreeSound, TypeStep, Zenon DEF Finish
<1>12. /\ \A s \in F :
            /\ staff'[s] = [staff[s] EXCEPT !.active = to, !.byBranch = ~to]
            /\ offBy'[s] = (IF to THEN "nobody" ELSE b) /\ s \notin relit'
       /\ \A s \in Staff \ F :
            staff'[s] = staff[s] /\ offBy'[s] = offBy[s] /\ (s \in relit' <=> s \in relit)
  BY <1>2, <1>4, <1>6, Zenon
<1>13. /\ \A s \in L : login'[s] = [login[s] EXCEPT !.active = to]
       /\ \A s \in Staff \ L : login'[s] = login[s]
  BY <1>5
<1> QED
  BY <1>1, <1>2, <1>10, <1>11, <1>12, <1>13, ZenonT(40)

LEMMA CommitCloseDoes ==
  ASSUME OfficeTypeInv, NEW w \in Workers, CommitClose(w)
  PROVE  LET b == req[w].b
             L == req[w].listed
         IN  /\ OfficeTypeInv' /\ OtherWorkers(w)
             /\ UNCHANGED <<caches, sent, lapsed, accepted, wrong, relit, mixed>>
             /\ req[w] \in Switches /\ req[w].kind = "close" /\ req[w].pc = "commit"
             /\ req'[w] = Free
             /\ \A c \in Branches \ {b} : branch'[c] = branch[c]
             /\ \A s \in L : staff'[s] = ReleasedStaff(s) /\ login'[s] = ReleasedLogin(s)
             /\ \A s \in Staff \ L : staff'[s] = staff[s]
             /\ \A s \in Staff \ L :
                  IF Exists(s) /\ login[s].branch = b
                  THEN login'[s] = [login[s] EXCEPT !.active = FALSE]
                  ELSE login'[s] = login[s]
             /\ \A s \in Staff :
                  offBy'[s] = IF s \in L /\ staff[s].active THEN "office" ELSE offBy[s]
             /\ shared' = shared \cup {login[s].code : s \in L}
<1> PICK e \in Request \cup {Free} : e = req[w]
  BY AskIs
<1>1. /\ e \in Switches /\ e.kind = "close" /\ e.pc = "commit" /\ e.b \in Branches
      /\ e.listed \in SUBSET Staff /\ \A s \in e.listed : Exists(s)
  BY AskIs DEF CommitClose, Doing, Switches, Sound
<1> PICK b \in Branches, L \in SUBSET Staff : b = e.b /\ L = e.listed
  BY <1>1
<1>2. /\ UNCHANGED caches /\ UNCHANGED <<sent, lapsed, accepted, wrong>> /\ mix' = mix
      /\ mixed' = mixed /\ relit' = relit /\ Finish(w)
      /\ branch' = [branch EXCEPT ![b] = [active |-> FALSE, deleted |-> TRUE]]
      /\ shared' = shared \cup {login[s].code : s \in L}
  BY DEF CommitClose
<1>3. CacheTypes' /\ mixed \subseteq Staff /\ RowTypes /\ BranchTypes /\ SwitchTypes
  BY <1>2, TypesKept, TypeParts DEF AskTypes
<1>4. staff' = [s \in Staff |-> IF s \in L THEN ReleasedStaff(s) ELSE staff[s]]
  BY DEF CommitClose
<1>5. /\ login' = [s \in Staff |-> login'[s]]
      /\ \A s \in L : login'[s] = ReleasedLogin(s)
      /\ \A s \in Staff \ L :
           IF Exists(s) /\ login[s].branch = b
           THEN login'[s] = [login[s] EXCEPT !.active = FALSE]
           ELSE login'[s] = login[s]
  <2>1. login' = [s \in Staff |->
            CASE s \in L -> ReleasedLogin(s)
              [] s \notin L /\ Exists(s) /\ login[s].branch = b ->
                   [login[s] EXCEPT !.active = FALSE]
              [] OTHER -> login[s]]
    BY DEF CommitClose
  <2>2. login' = [s \in Staff |-> login'[s]]
    BY <2>1
  <2>3. ASSUME NEW s \in L
        PROVE  login'[s] = ReleasedLogin(s)
    BY <2>1
  <2>4. ASSUME NEW s \in Staff \ L
        PROVE  IF Exists(s) /\ login[s].branch = b
               THEN login'[s] = [login[s] EXCEPT !.active = FALSE]
               ELSE login'[s] = login[s]
    BY <2>1
  <2> QED
    BY <2>2, <2>3, <2>4
<1>6. offBy' = [s \in Staff |-> IF s \in L /\ staff[s].active THEN "office" ELSE offBy[s]]
  BY DEF CommitClose
<1>7. ASSUME NEW s \in Staff
      PROVE  /\ staff'[s] \in StaffRow \cup {NoRow} /\ (staff'[s] # NoRow <=> staff[s] # NoRow)
             /\ login'[s] \in LoginRow \cup {NoRow} /\ (login'[s] # NoRow <=> login[s] # NoRow)
  <2>1. CASE s \in L
    <3>1. Exists(s) /\ ReleasedStaff(s) \in StaffRow /\ ReleasedLogin(s) \in LoginRow
      BY <1>1, <2>1, ReleasedIs
    <3>2. staff'[s] = ReleasedStaff(s) /\ login'[s] = ReleasedLogin(s)
      BY <1>4, <1>5, <2>1
    <3>3. staff[s] # NoRow /\ login[s] # NoRow
      BY <1>3, <3>1 DEF Exists, RowTypes
    <3> QED
      BY <3>1, <3>2, <3>3, RowsAreRows
  <2>2. CASE s \notin L /\ Exists(s) /\ login[s].branch = b
    <3> PICK old \in LoginRow : old = login[s]
      BY <2>2, StaffIs
    <3> DEFINE new == [old EXCEPT !.active = FALSE]
    <3>1. new \in LoginRow
      BY DEF LoginRow
    <3> HIDE DEF new
    <3>2. login'[s] = new /\ staff'[s] = staff[s]
      BY <1>4, <1>5, <2>2 DEF new
    <3> QED
      BY <1>3, <3>1, <3>2, RowsAreRows DEF RowTypes
  <2>3. CASE s \notin L /\ ~(Exists(s) /\ login[s].branch = b)
    BY <1>3, <1>4, <1>5, <2>3 DEF RowTypes
  <2> QED
    BY <2>1, <2>2, <2>3
<1>8. RowTypes'
  <2>1. \A s \in Staff : staff'[s] # NoRow <=> login'[s] # NoRow
    BY <1>3, <1>7 DEF RowTypes
  <2>2. staff' \in [Staff -> StaffRow \cup {NoRow}]
    <3>1. staff' = [s \in Staff |-> staff'[s]]
      BY <1>4
    <3> QED
      BY <3>1, <1>7
  <2>3. login' \in [Staff -> LoginRow \cup {NoRow}]
    BY <1>5, <1>7
  <2> QED
    BY <2>1, <2>2, <2>3 DEF RowTypes
<1>9. SwitchTypes'
  <2>1. relit' \subseteq Staff /\ offBy' \in [Staff -> Offs]
    BY <1>2, <1>3, <1>6 DEF SwitchTypes, Offs
  <2>2. \A s \in Staff : staff'[s] = NoRow => offBy'[s] = "nobody" /\ s \notin relit'
    BY <1>1, <1>2, <1>3, <1>6, <1>7 DEF SwitchTypes, Exists
  <2> QED
    BY <2>1, <2>2 DEF SwitchTypes
<1>10. BranchTypes' /\ \A c \in Branches \ {b} : branch'[c] = branch[c]
  BY <1>2, <1>3 DEF BranchTypes, BranchRow
<1>11. CodeTypes'
  <2>1. ASSUME NEW s \in L
        PROVE  login[s].code \in Codes \cup {NoCode}
    BY <1>1, StaffIs
  <2>2. {login[s].code : s \in L} \in SUBSET (Codes \cup {NoCode})
    BY <2>1
  <2> QED
    BY <1>2, <2>2, CodesShared
<1>12. OfficeTypeInv' /\ OtherWorkers(w) /\ req'[w] = Free
  BY <1>2, <1>3, <1>7, <1>8, <1>9, <1>10, <1>11, FreeSound, TypeStep DEF Finish
<1>13. /\ \A s \in L : staff'[s] = ReleasedStaff(s)
       /\ \A s \in Staff \ L : staff'[s] = staff[s]
       /\ \A s \in Staff :
            offBy'[s] = IF s \in L /\ staff[s].active THEN "office" ELSE offBy[s]
  BY <1>4, <1>6
<1> QED
  BY <1>1, <1>2, <1>5, <1>10, <1>12, <1>13

LEMMA SaveBranchDoes ==
  ASSUME OfficeTypeInv, NEW w \in Workers, SaveBranch(w)
  PROVE  /\ OfficeTypeInv' /\ OtherWorkers(w)
         /\ UNCHANGED <<staff, login, caches, codes, switches, mixed>>
         /\ req[w].kind = "amend" /\ req[w].b \in Branches /\ req'[w] = Free
         /\ \A c \in Branches \ {req[w].b} : branch'[c] = branch[c]
<1> PICK e \in Request \cup {Free} : e = req[w]
  BY AskIs
<1>1. e \in Amends /\ e.kind = "amend" /\ e.b \in Branches /\ e.row \in BranchRow
  BY AskIs DEF SaveBranch, Doing, Amends
<1>2. /\ UNCHANGED <<staff, login>> /\ UNCHANGED caches /\ UNCHANGED codes /\ UNCHANGED switches
      /\ mix' = mix /\ mixed' = mixed /\ Finish(w)
      /\ branch' = [branch EXCEPT ![e.b] = e.row]
  BY DEF SaveBranch
<1>3. RowTypes' /\ CacheTypes' /\ CodeTypes' /\ SwitchTypes' /\ mixed \subseteq Staff /\ BranchTypes
  BY <1>2, TypesKept, TypeParts DEF AskTypes
<1>4. BranchTypes' /\ \A c \in Branches \ {e.b} : branch'[c] = branch[c]
  BY <1>1, <1>2, <1>3 DEF BranchTypes
<1>5. OfficeTypeInv' /\ OtherWorkers(w) /\ req'[w] = Free
  BY <1>2, <1>3, <1>4, FreeSound, TypeStep DEF Finish
<1> QED
  BY <1>1, <1>2, <1>4, <1>5

\* Of the tables, a request to log in touches the code of one login.
Coded(s, c) ==
  /\ staff' = staff /\ branch' = branch /\ mixed' = mixed /\ UNCHANGED switches
  /\ login'[s].mobile = login[s].mobile /\ login'[s].branch = login[s].branch
  /\ login'[s].active = login[s].active /\ login'[s].code = c
  /\ \A t \in Staff \ {s} : login'[t] = login[t]

LEMMA CodeSaved ==
  ASSUME OfficeTypeInv, NEW s \in Staff, Exists(s), NEW c \in Codes \cup {NoCode},
         login' = [login EXCEPT ![s].code = c], staff' = staff, branch' = branch,
         mixed' = mixed, UNCHANGED switches
  PROVE  Coded(s, c) /\ RowTypes' /\ BranchTypes' /\ SwitchTypes' /\ mixed' \subseteq Staff
<1> PICK old \in LoginRow, p \in StaffRow : old = login[s] /\ p = staff[s]
  BY StaffIs
<1> DEFINE new == [old EXCEPT !.code = c]
<1>1. /\ new \in LoginRow /\ new.mobile = old.mobile /\ new.branch = old.branch
      /\ new.active = old.active /\ new.code = c
  BY DEF LoginRow
<1>2. login' = [login EXCEPT ![s] = new]
  OBVIOUS
<1> HIDE DEF new
<1>3. RowTypes' /\ login'[s] = new /\ \A t \in Staff \ {s} : login'[t] = login[t]
  BY <1>1, <1>2, RowSaved
<1>4. BranchTypes' /\ SwitchTypes' /\ mixed' \subseteq Staff
  BY TypesKept, TypeParts DEF AskTypes
<1> QED
  BY <1>1, <1>3, <1>4 DEF Coded

LEMMA LoginIs ==
  ASSUME OfficeTypeInv, NEW w \in Workers, req[w].kind \in OnLogin
  PROVE  /\ req[w] \in Logins /\ Sound(req[w]) /\ req[w].s \in Staff /\ Exists(req[w].s)
         /\ req[w].mobile \in Mobiles /\ req[w].code \in Codes \cup {NoCode} /\ req[w].n \in Nat
         /\ req[w].pc \in {"count", "put", "accept"} => req[w].code \in Codes
<1>1. req[w] \in Logins /\ Sound(req[w])
  BY AskIs
<1> QED
  BY <1>1, AskedIs DEF Logins, Sound

\* A request to log in goes on.
LEMMA LoginMoves ==
  ASSUME OfficeTypeInv, NEW w \in Workers, req[w].kind \in OnLogin,
         NEW pc \in {"forget", "reset"}, Move(w, pc), mix' = mix, mixed' \subseteq Staff,
         RowTypes', BranchTypes', CacheTypes', CodeTypes', SwitchTypes', staff' = staff
  PROVE  /\ OfficeTypeInv' /\ OtherWorkers(w)
         /\ req'[w].kind = req[w].kind /\ req'[w].pc = pc /\ req'[w].s = req[w].s
         /\ req'[w].mobile = req[w].mobile /\ req'[w].code = req[w].code
<1> PICK e \in Request \cup {Free} : e = req[w] /\ e \in Logins /\ Sound(e)
  BY AskIs
<1> DEFINE q == [e EXCEPT !.pc = pc]
<1>1. /\ q \in Logins /\ q.pc = pc /\ q.kind = e.kind /\ q.s = e.s
      /\ q.mobile = e.mobile /\ q.code = e.code
  BY MoveIs
<1>2. q \in Request \cup {Free} /\ Sound(q) /\ req' = [req EXCEPT ![w] = q]
  BY <1>1, RequestKinds DEF Sound, OnStaff, OnLogin, Move
<1> HIDE DEF q
<1>3. OfficeTypeInv' /\ OtherWorkers(w) /\ req'[w] = q
  BY <1>2, TypeStep
<1> QED
  BY <1>1, <1>3

LEMMA SaveCodeDoes ==
  ASSUME OfficeTypeInv, NEW w \in Workers, SaveCode(w)
  PROVE  LET s == req[w].s
             m == req[w].mobile
         IN  /\ OfficeTypeInv' /\ OtherWorkers(w)
             /\ UNCHANGED <<caches, lapsed, accepted, wrong>>
             /\ req[w].kind = "send" /\ req[w].pc = "save" /\ s \in Staff /\ Exists(s) /\ m \in Mobiles
             /\ req'[w].kind = "send" /\ req'[w].pc = "forget" /\ req'[w].s = s
             /\ req'[w].mobile = m /\ req'[w].code = req[w].code
             /\ \E n \in Codes :
                  /\ sent[n] = NoMobile /\ sent'[n] = m /\ Coded(s, n)
                  /\ \A k \in Codes \ {n} : sent'[k] = sent[k]
                  /\ shared' = IF login[s].mobile = m THEN shared ELSE shared \cup {n}
<1>1. req[w].kind = "send" /\ req[w].pc = "save" /\ req[w].kind \in OnLogin
  BY DEF SaveCode, Doing, OnLogin
<1> PICK s \in Staff, m \in Mobiles : s = req[w].s /\ m = req[w].mobile /\ Exists(s)
  BY <1>1, LoginIs
<1>2. /\ UNCHANGED caches /\ UNCHANGED <<lapsed, accepted, wrong>> /\ mix' = mix /\ mixed' = mixed
      /\ staff' = staff /\ branch' = branch /\ UNCHANGED switches /\ Move(w, "forget")
  BY DEF SaveCode
<1>3. PICK n \in Codes :
        /\ sent[n] = NoMobile
        /\ sent' = [sent EXCEPT ![n] = m]
        /\ login' = [login EXCEPT ![s].code = n]
        /\ shared' = IF login[s].mobile = m THEN shared ELSE shared \cup {n}
  BY DEF SaveCode
<1>4. Coded(s, n) /\ RowTypes' /\ BranchTypes' /\ SwitchTypes' /\ mixed' \subseteq Staff
  BY <1>2, <1>3, CodeSaved
<1>5. CodeTypes /\ CacheTypes'
  BY <1>2, TypesKept, TypeParts
<1>6. CodeTypes' /\ sent'[n] = m /\ \A k \in Codes \ {n} : sent'[k] = sent[k]
  BY <1>2, <1>3, <1>5 DEF CodeTypes
<1>7. /\ OfficeTypeInv' /\ OtherWorkers(w)
      /\ req'[w].kind = req[w].kind /\ req'[w].pc = "forget" /\ req'[w].s = req[w].s
      /\ req'[w].mobile = req[w].mobile /\ req'[w].code = req[w].code
  BY <1>1, <1>2, <1>4, <1>5, <1>6, LoginMoves
<1> QED
  BY <1>1, <1>2, <1>3, <1>4, <1>6, <1>7

LEMMA ForgetTriesDoes ==
  ASSUME OfficeTypeInv, NEW w \in Workers, ForgetTries(w)
  PROVE  /\ OfficeTypeInv' /\ OtherWorkers(w) /\ UNCHANGED <<tables, locked, codes, switches, mixed>>
         /\ req[w].kind = "send" /\ req[w].pc = "forget" /\ req[w].mobile \in Mobiles
         /\ req'[w] = Free /\ tries' = [tries EXCEPT ![req[w].mobile] = 0]
<1>1. /\ UNCHANGED <<staff, login>> /\ UNCHANGED branch /\ UNCHANGED codes /\ UNCHANGED switches
      /\ offer' = offer /\ locked' = locked /\ mix' = mix /\ mixed' = mixed /\ Finish(w)
      /\ req[w].kind = "send" /\ req[w].pc = "forget" /\ req[w].kind \in OnLogin
      /\ tries' = [tries EXCEPT ![req[w].mobile] = 0]
  BY DEF ForgetTries, tables, Doing, OnLogin
<1>2. RowTypes' /\ BranchTypes' /\ CodeTypes' /\ SwitchTypes' /\ mixed \subseteq Staff /\ CacheTypes
  BY <1>1, TypesKept, TypeParts DEF AskTypes
<1>3. CacheTypes'
  BY <1>1, <1>2 DEF CacheTypes
<1>4. OfficeTypeInv' /\ OtherWorkers(w) /\ req'[w] = Free
  BY <1>1, <1>2, <1>3, FreeSound, TypeStep DEF Finish
<1> QED
  BY <1>1, <1>4, LoginIs DEF tables

LEMMA ClearCodeDoes ==
  ASSUME OfficeTypeInv, NEW w \in Workers, ClearCode(w)
  PROVE  /\ OfficeTypeInv' /\ OtherWorkers(w) /\ UNCHANGED <<caches, codes>>
         /\ req[w].kind = "verify" /\ req[w].pc = "clear" /\ req[w].s \in Staff /\ Exists(req[w].s)
         /\ req'[w] = Free /\ Coded(req[w].s, NoCode)
<1>1. req[w].kind = "verify" /\ req[w].pc = "clear" /\ req[w].kind \in OnLogin
  BY DEF ClearCode, Doing, OnLogin
<1> PICK s \in Staff : s = req[w].s /\ Exists(s)
  BY <1>1, LoginIs
<1>2. /\ UNCHANGED caches /\ UNCHANGED codes /\ mix' = mix /\ mixed' = mixed
      /\ staff' = staff /\ branch' = branch /\ UNCHANGED switches /\ Finish(w)
      /\ login' = [login EXCEPT ![s].code = NoCode]
  BY DEF ClearCode
<1>3. Coded(s, NoCode) /\ RowTypes' /\ BranchTypes' /\ SwitchTypes' /\ mixed' \subseteq Staff
  BY <1>2, CodeSaved
<1>4. CodeTypes' /\ CacheTypes'
  BY <1>2, TypesKept
<1>5. OfficeTypeInv' /\ OtherWorkers(w) /\ req'[w] = Free
  BY <1>2, <1>3, <1>4, FreeSound, TypeStep DEF Finish
<1> QED
  BY <1>1, <1>2, <1>3, <1>5

LEMMA CountTryDoes ==
  ASSUME OfficeTypeInv, NEW w \in Workers, CountTry(w)
  PROVE  /\ OfficeTypeInv' /\ OtherWorkers(w)
         /\ UNCHANGED <<tables, caches, codes, switches, mixed>>
         /\ req[w].kind = "verify" /\ req[w].pc = "count" /\ req[w].mobile \in Mobiles
         /\ req'[w].kind = "verify" /\ req'[w].pc = "put" /\ req'[w].s = req[w].s
         /\ req'[w].mobile = req[w].mobile /\ req'[w].code = req[w].code
         /\ req'[w].n = tries[req[w].mobile] + 1 /\ tries[req[w].mobile] \in Nat
<1>1. req[w].kind = "verify" /\ req[w].pc = "count" /\ req[w].kind \in OnLogin
  BY DEF CountTry, Doing, OnLogin
<1>2. /\ UNCHANGED <<staff, login>> /\ UNCHANGED branch /\ UNCHANGED caches /\ UNCHANGED codes
      /\ UNCHANGED switches /\ mix' = mix /\ mixed' = mixed
  BY DEF CountTry, tables
<1>3. RowTypes' /\ BranchTypes' /\ CacheTypes' /\ CodeTypes' /\ SwitchTypes' /\ mixed \subseteq Staff
      /\ CacheTypes
  BY <1>2, TypesKept, TypeParts DEF AskTypes
<1> PICK e \in Request \cup {Free} : e = req[w] /\ e \in Logins /\ Sound(e) /\ e.mobile \in Mobiles
  BY <1>1, AskIs, LoginIs
<1>c. tries[e.mobile] \in Nat
  BY <1>3 DEF CacheTypes
<1> PICK k \in Nat : k = tries[e.mobile] + 1
  BY <1>c
<1> DEFINE q == [e EXCEPT !.pc = "put", !.n = k]
<1>4. /\ q \in Logins /\ q.pc = "put" /\ q.kind = e.kind /\ q.s = e.s
      /\ q.mobile = e.mobile /\ q.code = e.code /\ q.n = k
  BY DEF Logins
<1>5. req' = [req EXCEPT ![w] = q]
  BY DEF CountTry
<1>6. q \in Request \cup {Free} /\ Sound(q)
  BY <1>1, <1>4, RequestKinds DEF Sound, OnStaff, OnLogin
<1> HIDE DEF q
<1>7. OfficeTypeInv' /\ OtherWorkers(w) /\ req'[w] = q
  BY <1>2, <1>3, <1>5, <1>6, TypeStep
<1> QED
  BY <1>1, <1>2, <1>4, <1>7, <1>c DEF tables

LEMMA PutTryDoes ==
  ASSUME OfficeTypeInv, NEW w \in Workers, PutTry(w)
  PROVE  LET m == req[w].mobile
             c == req[w].code
         IN  /\ OfficeTypeInv' /\ OtherWorkers(w)
             /\ UNCHANGED <<tables, sent, lapsed, shared, accepted, switches, mixed>>
             /\ req[w].kind = "verify" /\ req[w].pc = "put" /\ req'[w] = Free
             /\ m \in Mobiles /\ c \in Codes /\ req[w].n \in Nat
             /\ tries' = [tries EXCEPT ![m] = req[w].n]
             /\ locked' = IF req[w].n >= FailLimit THEN locked \cup {m} ELSE locked
             /\ wrong'[c] = (IF wrong[c] > FailLimit THEN wrong[c] ELSE wrong[c] + 1)
             /\ \A k \in Codes \ {c} : wrong'[k] = wrong[k]
<1>1. req[w].kind = "verify" /\ req[w].pc = "put" /\ req[w].kind \in OnLogin
  BY DEF PutTry, Doing, OnLogin
<1>2. /\ UNCHANGED <<staff, login>> /\ UNCHANGED branch /\ UNCHANGED switches
      /\ UNCHANGED <<sent, lapsed, shared, accepted>> /\ mix' = mix /\ mixed' = mixed
      /\ offer' = offer /\ Finish(w)
  BY DEF PutTry, tables
<1> PICK m \in Mobiles, c \in Codes, k \in Nat : m = req[w].mobile /\ c = req[w].code /\ k = req[w].n
  BY <1>1, LoginIs
<1>3. /\ tries' = [tries EXCEPT ![m] = k]
      /\ locked' = IF k >= FailLimit THEN locked \cup {m} ELSE locked
      /\ wrong' = [wrong EXCEPT ![c] = IF wrong[c] > FailLimit THEN wrong[c] ELSE wrong[c] + 1]
  BY DEF PutTry
<1>4. RowTypes' /\ BranchTypes' /\ SwitchTypes' /\ mixed \subseteq Staff /\ CacheTypes /\ CodeTypes
  BY <1>2, TypesKept, TypeParts DEF AskTypes
<1>5. CacheTypes'
  BY <1>2, <1>3, <1>4 DEF CacheTypes
<1>6. CodeTypes' /\ wrong'[c] = (IF wrong[c] > FailLimit THEN wrong[c] ELSE wrong[c] + 1)
      /\ \A j \in Codes \ {c} : wrong'[j] = wrong[j]
  <2>1. wrong[c] \in 0..(FailLimit + 1) /\ FailLimit \in Nat
    BY <1>4, OfficeAssumption DEF CodeTypes
  <2>2. (IF wrong[c] > FailLimit THEN wrong[c] ELSE wrong[c] + 1) \in 0..(FailLimit + 1)
    BY <2>1
  <2> QED
    BY <1>2, <1>3, <1>4, <2>2 DEF CodeTypes
<1>7. OfficeTypeInv' /\ OtherWorkers(w) /\ req'[w] = Free
  BY <1>2, <1>4, <1>5, <1>6, FreeSound, TypeStep DEF Finish
<1> QED
  BY <1>1, <1>2, <1>3, <1>6, <1>7 DEF tables

LEMMA AcceptCodeDoes ==
  ASSUME OfficeTypeInv, NEW w \in Workers, AcceptCode(w)
  PROVE  LET s == req[w].s
             c == req[w].code
         IN  /\ OfficeTypeInv' /\ OtherWorkers(w) /\ UNCHANGED <<caches, sent, lapsed, shared, wrong>>
             /\ req[w].kind = "verify" /\ req[w].pc = "accept" /\ s \in Staff /\ Exists(s)
             /\ c \in Codes /\ Coded(s, NoCode)
             /\ accepted'[c] = (IF accepted[c] = 0 THEN 1 ELSE 2)
             /\ \A k \in Codes \ {c} : accepted'[k] = accepted[k]
             /\ req'[w].kind = "verify" /\ req'[w].pc = "reset" /\ req'[w].s = s
             /\ req'[w].mobile = req[w].mobile /\ req'[w].code = c
<1>1. req[w].kind = "verify" /\ req[w].pc = "accept" /\ req[w].kind \in OnLogin
  BY DEF AcceptCode, Doing, OnLogin
<1> PICK s \in Staff, c \in Codes : s = req[w].s /\ Exists(s) /\ c = req[w].code
  BY <1>1, LoginIs
<1>2. /\ UNCHANGED caches /\ UNCHANGED <<sent, lapsed, shared, wrong>> /\ mix' = mix /\ mixed' = mixed
      /\ staff' = staff /\ branch' = branch /\ UNCHANGED switches /\ Move(w, "reset")
      /\ login' = [login EXCEPT ![s].code = NoCode]
      /\ accepted' = [accepted EXCEPT ![c] = IF accepted[c] = 0 THEN 1 ELSE 2]
  BY DEF AcceptCode
<1>3. Coded(s, NoCode) /\ RowTypes' /\ BranchTypes' /\ SwitchTypes' /\ mixed' \subseteq Staff
  BY <1>2, CodeSaved
<1>4. CodeTypes /\ CacheTypes'
  BY <1>2, TypesKept, TypeParts
<1>5. CodeTypes' /\ accepted'[c] = (IF accepted[c] = 0 THEN 1 ELSE 2)
      /\ \A k \in Codes \ {c} : accepted'[k] = accepted[k]
  BY <1>2, <1>4 DEF CodeTypes
<1>6. /\ OfficeTypeInv' /\ OtherWorkers(w)
      /\ req'[w].kind = req[w].kind /\ req'[w].pc = "reset" /\ req'[w].s = req[w].s
      /\ req'[w].mobile = req[w].mobile /\ req'[w].code = req[w].code
  BY <1>1, <1>2, <1>3, <1>4, <1>5, LoginMoves
<1> QED
  BY <1>1, <1>2, <1>3, <1>5, <1>6

LEMMA ResetTriesDoes ==
  ASSUME OfficeTypeInv, NEW w \in Workers, ResetTries(w)
  PROVE  /\ OfficeTypeInv' /\ OtherWorkers(w) /\ UNCHANGED <<tables, codes, switches, mixed>>
         /\ req[w].kind = "verify" /\ req[w].pc = "reset" /\ req[w].mobile \in Mobiles
         /\ req'[w] = Free /\ tries' = [tries EXCEPT ![req[w].mobile] = 0]
         /\ locked' = locked \ {req[w].mobile}
<1>1. /\ UNCHANGED <<staff, login>> /\ UNCHANGED branch /\ UNCHANGED codes /\ UNCHANGED switches
      /\ offer' = offer /\ mix' = mix /\ mixed' = mixed /\ Finish(w)
      /\ req[w].kind = "verify" /\ req[w].pc = "reset" /\ req[w].kind \in OnLogin
      /\ tries' = [tries EXCEPT ![req[w].mobile] = 0] /\ locked' = locked \ {req[w].mobile}
  BY DEF ResetTries, tables, Doing, OnLogin
<1>2. RowTypes' /\ BranchTypes' /\ CodeTypes' /\ SwitchTypes' /\ mixed \subseteq Staff /\ CacheTypes
  BY <1>1, TypesKept, TypeParts DEF AskTypes
<1>3. CacheTypes'
  BY <1>1, <1>2 DEF CacheTypes
<1>4. OfficeTypeInv' /\ OtherWorkers(w) /\ req'[w] = Free
  BY <1>1, <1>2, <1>3, FreeSound, TypeStep DEF Finish
<1> QED
  BY <1>1, <1>4, LoginIs DEF tables

LEMMA BreakOffDoes ==
  ASSUME OfficeTypeInv, NEW w \in Workers, BreakOff(w)
  PROVE  /\ OfficeTypeInv' /\ OtherWorkers(w) /\ UNCHANGED <<tables, caches, codes, switches>>
         /\ req[w] # Free /\ req'[w] = Free
         /\ mixed' = IF HalfSaved(req[w]) THEN mixed \cup {req[w].s} ELSE mixed
<1>1. /\ UNCHANGED <<staff, login>> /\ UNCHANGED branch /\ UNCHANGED caches /\ UNCHANGED codes
      /\ UNCHANGED switches /\ mix' = mix /\ Finish(w) /\ req[w] # Free
      /\ mixed' = IF HalfSaved(req[w]) THEN mixed \cup {req[w].s} ELSE mixed
  BY DEF BreakOff, tables
<1>2. RowTypes' /\ BranchTypes' /\ CacheTypes' /\ CodeTypes' /\ SwitchTypes' /\ mixed \subseteq Staff
  BY <1>1, TypesKept, TypeParts DEF AskTypes
<1>3. HalfSaved(req[w]) => req[w].s \in Staff
  BY AskedIs DEF HalfSaved, OnStaff
<1>4. OfficeTypeInv' /\ OtherWorkers(w) /\ req'[w] = Free
  BY <1>1, <1>2, <1>3, FreeSound, TypeStep DEF Finish
<1> QED
  BY <1>1, <1>4 DEF tables

\* What happens beside the requests.
Beside ==
  \/ \E s \in Staff : LoseOffer(s) \/ \E m \in Mobiles : OfferPhone(s, m)
  \/ \E n \in Codes : Lapse(n)
  \/ \E m \in Mobiles : CacheLapses(m)

LEMMA BesideTypes ==
  ASSUME OfficeTypeInv, Beside
  PROVE  OfficeTypeInv' /\ UNCHANGED <<tables, sent, shared, accepted, wrong, switches, mixed, req>>
<1>1. UNCHANGED <<tables, sent, shared, accepted, wrong, switches, mixed, req, mix>>
  BY DEF Beside, LoseOffer, OfferPhone, Lapse, CacheLapses, codes
<1>2. CacheTypes' /\ CodeTypes'
  <2>1. CacheTypes /\ CodeTypes
    BY TypeParts
  <2>2. ASSUME NEW s \in Staff, LoseOffer(s)
        PROVE  CacheTypes' /\ CodeTypes'
    BY <2>1, <2>2 DEF LoseOffer, CacheTypes, CodeTypes, codes
  <2>3. ASSUME NEW s \in Staff, NEW m \in Mobiles, OfferPhone(s, m)
        PROVE  CacheTypes' /\ CodeTypes'
    BY <2>1, <2>3 DEF OfferPhone, CacheTypes, CodeTypes, codes
  <2>4. ASSUME NEW n \in Codes, Lapse(n)
        PROVE  CacheTypes' /\ CodeTypes'
    BY <2>1, <2>4 DEF Lapse, CacheTypes, CodeTypes, caches
  <2>5. ASSUME NEW m \in Mobiles, CacheLapses(m)
        PROVE  CacheTypes' /\ CodeTypes'
    BY <2>1, <2>5 DEF CacheLapses, CacheTypes, CodeTypes, codes
  <2> QED
    BY <2>2, <2>3, <2>4, <2>5 DEF Beside
<1> QED
  BY <1>1, <1>2, TypeParts DEF OfficeTypeInv, OfficeTypeOK, CacheTypes, CodeTypes, tables, switches,
     Sound, Exists

LEMMA OfficeTypeInit ==
  ASSUME OfficeInit
  PROVE  OfficeTypeInv
<1>1. ASSUME NEW s \in Hired
      PROVE  /\ NewStaff(FirstMobile[s], FirstBranch) \in StaffRow
             /\ NewLogin(FirstMobile[s], FirstBranch) \in LoginRow
  <2>1. FirstMobile[s] \in Numbers /\ FirstBranch \in Branches
    BY OfficeAssumption DEF Numbers
  <2> QED
    BY <2>1 DEF NewStaff, NewLogin, StaffRow, LoginRow
<1>2. RowTypes
  BY <1>1, RowsAreRows DEF OfficeInit, RowTypes
<1>3. BranchTypes /\ CacheTypes /\ SwitchTypes /\ AskTypes
  BY DEF OfficeInit, BranchTypes, BranchRow, CacheTypes, SwitchTypes, AskTypes, Offs
<1>4. CodeTypes
  BY OfficeAssumption DEF OfficeInit, CodeTypes
<1>5. \A w \in Workers : Sound(req[w])
  BY FreeSound DEF OfficeInit
<1> QED
  BY <1>2, <1>3, <1>4, <1>5, TypeParts

LEMMA OfficeTypeNext ==
  ASSUME OfficeTypeInv, [OfficeNext]_officeVars
  PROVE  OfficeTypeInv'
<1>1. ASSUME NEW w \in Workers, Take(w)
      PROVE  OfficeTypeInv'
  BY <1>1, TakeDoes, OpenTypes
<1>2. ASSUME NEW w \in Workers, StaffStep(w)
      PROVE  OfficeTypeInv'
  BY <1>2, InsertStaffDoes, EditLoginDoes, EditStaffDoes, ToggleStaffDoes, ToggleLoginDoes,
     ReleaseStaffDoes, ReleaseLoginDoes, PhoneLoginDoes, PhoneStaffDoes, DropOfferDoes DEF StaffStep
<1>3. ASSUME NEW w \in Workers, BranchStep(w)
      PROVE  OfficeTypeInv'
  BY <1>3, ListStaffDoes, CommitSwitchDoes, CommitCloseDoes, SaveBranchDoes DEF BranchStep
<1>4. ASSUME NEW w \in Workers, LoginStep(w)
      PROVE  OfficeTypeInv'
  BY <1>4, SaveCodeDoes, ForgetTriesDoes, ClearCodeDoes, CountTryDoes, PutTryDoes, AcceptCodeDoes,
     ResetTriesDoes DEF LoginStep
<1>5. ASSUME NEW w \in Workers, BreakOff(w)
      PROVE  OfficeTypeInv'
  BY <1>5, BreakOffDoes
<1>6. ASSUME Beside
      PROVE  OfficeTypeInv'
  BY <1>6, BesideTypes
<1>7. ASSUME UNCHANGED officeVars
      PROVE  OfficeTypeInv'
  BY <1>7 DEF officeVars, tables, caches, codes, switches, OfficeTypeInv, OfficeTypeOK, Sound, Exists
<1> QED
  BY <1>1, <1>2, <1>3, <1>4, <1>5, <1>6, <1>7 DEF OfficeNext, Beside

\* Every state of the office is of its types: rows, cached counts and offers, the
\* requests at work and the histories.
THEOREM OfficeTypeCorrect == OfficeSpec => []OfficeTypeOK
<1>1. OfficeTypeInv => OfficeTypeOK
  BY DEF OfficeTypeInv
<1> QED
  BY <1>1, OfficeTypeInit, OfficeTypeNext, PTL DEF OfficeSpec

----------------------------------------------------------------------------
(* Codes: who has one, and what has been counted against it.                 *)

Readers == OnLogin \cup {"edit"}
Holding == {"save", "clear", "count", "put", "accept"}

\* Request r has read the code n; it has yet to use it.
Names(r, n) ==
  \/ r.kind = "edit" /\ r.ofLogin.code = n
  \/ r.kind \in OnLogin /\ r.code = n
Has(r, n) ==
  \/ r.kind = "edit" /\ r.pc = "login" /\ r.ofLogin.code = n
  \/ r.kind \in OnLogin /\ r.pc \in Holding /\ r.code = n

\* n is the code of s, or was when a request of his read it.
Bears(s, n) ==
  \/ Exists(s) /\ login[s].code = n
  \/ \E w \in Workers : req[w].kind \in Readers /\ req[w].s = s /\ Names(req[w], n)

\* A login's mobile is its own, or marks it as gone.
OwnMobile ==
  /\ \A s \in Staff : Exists(s) => login[s].mobile \in Mobiles \cup {Tomb(s)}
  /\ \A w \in Workers : req[w].kind = "edit" =>
       req[w].ofLogin.mobile \in Mobiles \cup {Tomb(req[w].s)}
  /\ \A s, t \in Staff : Exists(s) /\ Exists(t) /\ login[s].mobile = login[t].mobile => s = t

\* A code not sent yet is nobody's, one that is, is one person's.
NewCodes ==
  \A n \in Codes : sent[n] = NoMobile =>
    accepted[n] = 0 /\ wrong[n] = 0 /\ n \notin lapsed /\ \A s \in Staff : ~Bears(s, n)
OneBearer == \A n \in Codes : \A s, t \in Staff : Bears(s, n) /\ Bears(t, n) => s = t

\* Who has a code that is not shared has it alone, and it still is the login's.
Sole ==
  \A n \in Codes \ shared : \A w \in Workers : Has(req[w], n) =>
    /\ login[req[w].s].code = n
    /\ \A v \in Workers \ {w} : ~Overlap(req[w], req[v])
    /\ req[w].kind \in OnLogin => login[req[w].s].mobile = req[w].mobile

\* A login's code that is not shared has opened no session; the mobile's count is at
\* least its wrong answers, and whoever may reset that count came before them.
Current ==
  \A n \in Codes \ shared : \A s \in Staff : Exists(s) /\ login[s].code = n =>
    /\ login[s].mobile \in Mobiles /\ accepted[n] = 0
    /\ n \notin lapsed => wrong[n] <= tries[login[s].mobile]
    /\ \A v \in Workers : req[v].kind \in OnLogin /\ req[v].mobile = login[s].mobile =>
         wrong[n] = 0 \/ (req[v].s = s /\ Has(req[v], n))

\* A wrong answer that is being counted is within the limit, and goes on from the last.
Trying ==
  \A n \in Codes \ shared : \A w \in Workers :
    req[w].kind \in OnLogin /\ req[w].pc \in {"count", "put"} /\ req[w].code = n =>
      /\ wrong[n] < FailLimit
      /\ req[w].pc = "put" /\ n \notin lapsed => req[w].n > wrong[n]

Unlock == \A m \in Mobiles \ locked : tries[m] < FailLimit

CodesInv ==
  OwnMobile /\ NewCodes /\ OneBearer /\ Sole /\ Current /\ Trying /\ Unlock /\ CodeLimits

----------------------------------------------------------------------------

\* A request that has read a code goes no further than it was, or is done.
Wound(v) ==
  \/ req'[v] = req[v]
  \/ req'[v].kind \notin Readers
  \/ /\ req[v].kind = "edit" /\ req'[v].kind = "edit" /\ req'[v].s = req[v].s
     /\ req'[v].ofLogin = req[v].ofLogin /\ req'[v].pc = "staff"
  \/ /\ req[v].kind \in OnLogin /\ req'[v].kind = req[v].kind /\ req'[v].s = req[v].s
     /\ req'[v].mobile = req[v].mobile /\ req'[v].code = req[v].code
     /\ \/ req'[v].pc \in {"forget", "reset"}
        \/ req[v].pc = "count" /\ req'[v].pc = "put"

LEMMA WoundMeans ==
  ASSUME NEW v, Wound(v), req'[v].kind \in Readers
  PROVE  /\ req[v].kind = req'[v].kind /\ req'[v].s = req[v].s
         /\ req'[v].kind \in OnLogin => req'[v].mobile = req[v].mobile /\ req'[v].code = req[v].code
         /\ req'[v].kind = "edit" => req'[v].ofLogin = req[v].ofLogin
         /\ \A n : (Names(req[v], n)' => Names(req[v], n)) /\ (Has(req[v], n)' => Has(req[v], n))
BY DEF Wound, Readers, OnLogin, Names, Has, Holding

LEMMA WoundOverlap ==
  ASSUME NEW v, NEW w, Wound(v), Wound(w), Overlap(req[v], req[w])'
  PROVE  Overlap(req[v], req[w])
<1>1. req'[v].kind \in Readers /\ req'[w].kind \in Readers
  BY DEF Overlap, Readers
<1> QED
  BY <1>1, WoundMeans DEF Overlap, Readers

\* Nobody gets a code that was not his, and one that is not shared stays with its login,
\* on its mobile, or has been used.
LoginsKeep ==
  /\ \A s \in Staff, n \in Codes : Exists(s)' /\ login'[s].code = n => Bears(s, n)
  /\ \A n \in Codes \ shared' : \A s \in Staff :
       /\ Exists(s)' /\ login'[s].code = n =>
            Exists(s) /\ login[s].code = n /\ login'[s].mobile = login[s].mobile
       /\ Exists(s) /\ login[s].code = n /\ login'[s].code # n =>
            \A v \in Workers : ~Has(req[v], n)'

LEMMA BearsKept ==
  ASSUME OfficeTypeInv, OfficeTypeInv', LoginsKeep, \A v \in Workers : Wound(v),
         NEW s \in Staff, NEW n \in Codes, Bears(s, n)'
  PROVE  Bears(s, n)
<1>1. CASE Exists(s)' /\ login'[s].code = n
  BY <1>1 DEF LoginsKeep
<1>2. CASE \E w \in Workers : req'[w].kind \in Readers /\ req'[w].s = s /\ Names(req[w], n)'
  <2> PICK w \in Workers : req'[w].kind \in Readers /\ req'[w].s = s /\ Names(req[w], n)'
    BY <1>2
  <2>1. Wound(w)
    OBVIOUS
  <2>2. req[w].kind = req'[w].kind /\ req'[w].s = req[w].s /\ Names(req[w], n)
    BY <2>1, WoundMeans
  <2> QED
    BY <2>2 DEF Bears
<1> QED
  BY <1>1, <1>2 DEF Bears

LEMMA BearersKept ==
  ASSUME OfficeTypeInv, OfficeTypeInv', CodesInv, LoginsKeep, \A v \in Workers : Wound(v),
         sent' = sent, shared \subseteq shared',
         \A n \in Codes : sent[n] = NoMobile => accepted'[n] = 0 /\ wrong'[n] = 0 /\ n \notin lapsed'
  PROVE  NewCodes' /\ OneBearer' /\ Sole'
<1>1. \A s \in Staff, n \in Codes : Bears(s, n)' => Bears(s, n)
  BY BearsKept
<1>2. NewCodes'
  BY <1>1 DEF CodesInv, NewCodes
<1>3. OneBearer'
  BY <1>1 DEF CodesInv, OneBearer
<1>4. ASSUME NEW n \in Codes \ shared', NEW w \in Workers, Has(req[w], n)'
      PROVE  /\ login'[req'[w].s].code = n
             /\ \A v \in Workers \ {w} : ~Overlap(req[w], req[v])'
             /\ req'[w].kind \in OnLogin => login'[req'[w].s].mobile = req'[w].mobile
  <2>1. Wound(w) /\ req'[w].kind \in Readers
    BY <1>4 DEF Has, Readers
  <2>2. /\ req[w].kind = req'[w].kind /\ req'[w].s = req[w].s /\ Has(req[w], n)
        /\ req'[w].kind \in OnLogin => req'[w].mobile = req[w].mobile
    BY <1>4, <2>1, WoundMeans
  <2>3. /\ login[req[w].s].code = n /\ \A v \in Workers \ {w} : ~Overlap(req[w], req[v])
        /\ req[w].kind \in OnLogin => login[req[w].s].mobile = req[w].mobile
    BY <2>2 DEF CodesInv, Sole
  <2>4. \A v \in Workers \ {w} : ~Overlap(req[w], req[v])'
    BY <2>3, WoundOverlap
  <2>5. req[w].kind \in OnStaff \cup OnLogin
    BY <2>1, <2>2 DEF Readers, OnStaff
  <2> PICK s \in Staff : s = req[w].s /\ Exists(s)
    BY <2>5, AskedIs
  <2>6. Exists(s)'
    <3>1. Sound(req[w])'
      BY DEF OfficeTypeInv
    <3> QED
      BY <2>2, <2>5, <3>1 DEF Sound
  <2>7. login'[s].code = n
    BY <1>4, <2>3 DEF LoginsKeep
  <2>8. login'[s].mobile = login[s].mobile
    BY <2>6, <2>7 DEF LoginsKeep
  <2> QED
    BY <2>2, <2>3, <2>4, <2>7, <2>8
<1>5. Sole'
  BY <1>4 DEF Sole
<1> QED
  BY <1>2, <1>3, <1>5

\* The counts are as they were, and no request goes on counting.
LEMMA CountsKept ==
  ASSUME OfficeTypeInv, OfficeTypeInv', CodesInv, LoginsKeep, \A v \in Workers : Wound(v),
         sent' = sent, shared \subseteq shared', lapsed \subseteq lapsed',
         UNCHANGED <<tries, locked, wrong>>,
         \A n \in Codes \ shared' :
           accepted'[n] = accepted[n]
             \/ (accepted'[n] <= 1 /\ \A s \in Staff : Exists(s)' => login'[s].code # n),
         \A v \in Workers : req'[v].kind \in OnLogin /\ req'[v].pc # req[v].pc =>
           req'[v].pc # "put" /\ login'[req[v].s].code # req[v].code
  PROVE  Current' /\ Trying' /\ Unlock' /\ CodeLimits'
<1>1. ASSUME NEW n \in Codes \ shared', NEW s \in Staff, Exists(s)', login'[s].code = n
      PROVE  /\ login'[s].mobile \in Mobiles /\ accepted'[n] = 0
             /\ n \notin lapsed' => wrong'[n] <= tries'[login'[s].mobile]
             /\ \A v \in Workers : req'[v].kind \in OnLogin /\ req'[v].mobile = login'[s].mobile =>
                  wrong'[n] = 0 \/ (req'[v].s = s /\ Has(req[v], n)')
  <2>1. Exists(s) /\ login[s].code = n /\ login'[s].mobile = login[s].mobile /\ n \notin shared
    BY <1>1 DEF LoginsKeep
  <2>2. /\ login[s].mobile \in Mobiles /\ accepted[n] = 0
        /\ n \notin lapsed => wrong[n] <= tries[login[s].mobile]
        /\ \A v \in Workers : req[v].kind \in OnLogin /\ req[v].mobile = login[s].mobile =>
             wrong[n] = 0 \/ (req[v].s = s /\ Has(req[v], n))
    BY <2>1 DEF CodesInv, Current
  <2>3. accepted'[n] = 0
    BY <1>1, <2>2
  <2>4. ASSUME NEW v \in Workers, req'[v].kind \in OnLogin, req'[v].mobile = login'[s].mobile
        PROVE  wrong'[n] = 0 \/ (req'[v].s = s /\ Has(req[v], n)')
    <3>1. Wound(v) /\ req'[v].kind \in Readers
      BY <2>4 DEF Readers
    <3>2. /\ req[v].kind = req'[v].kind /\ req'[v].s = req[v].s
          /\ req'[v].mobile = req[v].mobile /\ req'[v].code = req[v].code
      BY <2>4, <3>1, WoundMeans
    <3>3. wrong[n] = 0 \/ (req[v].s = s /\ Has(req[v], n))
      BY <2>1, <2>2, <2>4, <3>2
    <3>4. CASE req[v].s = s /\ Has(req[v], n)
      <4>1. req[v].code = n
        BY <2>4, <3>2, <3>4 DEF Has, OnLogin
      <4>2. req'[v].pc = req[v].pc
        BY <1>1, <2>4, <3>4, <4>1
      <4> QED
        BY <2>4, <3>2, <3>4, <4>2 DEF Has, OnLogin
    <3> QED
      BY <3>3, <3>4
  <2> QED
    BY <2>1, <2>2, <2>3, <2>4
<1>2. Current'
  BY <1>1 DEF Current
<1>3. ASSUME NEW n \in Codes \ shared', NEW w \in Workers, req'[w].kind \in OnLogin,
             req'[w].pc \in {"count", "put"}, req'[w].code = n
      PROVE  wrong'[n] < FailLimit /\ (req'[w].pc = "put" /\ n \notin lapsed' => req'[w].n > wrong'[n])
  <2>1. Wound(w) /\ req'[w].kind \in Readers
    BY <1>3 DEF Readers
  <2>2. req'[w].pc \in {"forget", "reset", "put"} \/ req'[w] = req[w]
    BY <1>3, <2>1 DEF Wound, Readers, OnLogin
  <2>3. req'[w] = req[w]
    BY <1>3, <2>1, <2>2 DEF Wound, Readers, OnLogin
  <2> QED
    BY <1>3, <2>3 DEF CodesInv, Trying
<1>4. Trying'
  BY <1>3 DEF Trying
<1>5. Unlock' /\ CodeLimits'
  BY DEF CodesInv, Unlock, CodeLimits
<1> QED
  BY <1>2, <1>4, <1>5

\* The logins keep their codes and mobiles.
SameLogins ==
  \A s \in Staff :
    /\ Exists(s)' <=> Exists(s)
    /\ Exists(s) => login'[s].code = login[s].code /\ login'[s].mobile = login[s].mobile

LEMMA EditsKeep ==
  ASSUME OfficeTypeInv, CodesInv, \A v \in Workers : Wound(v), NEW w \in Workers,
         req'[w].kind = "edit"
  PROVE  req'[w].ofLogin.mobile \in Mobiles \cup {Tomb(req'[w].s)}
<1>1. Wound(w) /\ req'[w].kind \in Readers
  BY DEF Readers
<1> QED
  BY <1>1, WoundMeans DEF CodesInv, OwnMobile

LEMMA SameLoginsKeep ==
  ASSUME OfficeTypeInv, CodesInv, \A v \in Workers : Wound(v), SameLogins
  PROVE  LoginsKeep /\ OwnMobile'
<1>1. LoginsKeep
  BY DEF SameLogins, LoginsKeep, Bears
<1>2. OwnMobile'
  <2>1. /\ \A s \in Staff : Exists(s)' => login'[s].mobile \in Mobiles \cup {Tomb(s)}
        /\ \A s, t \in Staff :
             Exists(s)' /\ Exists(t)' /\ login'[s].mobile = login'[t].mobile => s = t
    BY DEF SameLogins, CodesInv, OwnMobile
  <2> QED
    BY <2>1, EditsKeep DEF OwnMobile
<1> QED
  BY <1>1, <1>2

\* A step that has nothing to do with logging in.
LEMMA QuietCodes ==
  ASSUME OfficeTypeInv, OfficeTypeInv', CodesInv, LoginsKeep, OwnMobile', \A v \in Workers : Wound(v),
         UNCHANGED <<tries, locked, sent, lapsed, accepted, wrong>>, shared \subseteq shared',
         \A v \in Workers : req'[v].kind \in OnLogin => req'[v] = req[v]
  PROVE  CodesInv'
<1>1. \A n \in Codes : sent[n] = NoMobile => accepted'[n] = 0 /\ wrong'[n] = 0 /\ n \notin lapsed'
  BY DEF CodesInv, NewCodes
<1>2. NewCodes' /\ OneBearer' /\ Sole'
  BY <1>1, BearersKept
<1>3. Current' /\ Trying' /\ Unlock' /\ CodeLimits'
  BY CountsKept
<1> QED
  BY <1>2, <1>3 DEF CodesInv

\* Worker w is done, or at a step of a request that reads no code.
LEMMA Winding ==
  ASSUME NEW w \in Workers, OtherWorkers(w),
         \/ req'[w] = Free
         \/ req'[w].kind \notin Readers
         \/ /\ req[w].kind = "edit" /\ req'[w].kind = "edit" /\ req'[w].s = req[w].s
            /\ req'[w].ofLogin = req[w].ofLogin /\ req'[w].pc = "staff"
  PROVE  /\ \A v \in Workers : Wound(v)
         /\ \A v \in Workers : req'[v].kind \in OnLogin => req'[v] = req[v]
BY DEF OtherWorkers, Wound, Readers, OnLogin, Free

LEMMA QuietStep ==
  ASSUME OfficeTypeInv, OfficeTypeInv', CodesInv, NEW w \in Workers, OtherWorkers(w), SameLogins,
         req'[w] = Free \/ req'[w].kind \notin Readers,
         UNCHANGED <<tries, locked, codes>>
  PROVE  CodesInv'
<1>1. /\ \A v \in Workers : Wound(v)
      /\ \A v \in Workers : req'[v].kind \in OnLogin => req'[v] = req[v]
  BY Winding
<1>2. LoginsKeep /\ OwnMobile'
  BY <1>1, SameLoginsKeep
<1> QED
  BY <1>1, <1>2, QuietCodes DEF codes

\* One login's mobile or code is saved.
LEMMA MobileSaved ==
  ASSUME OfficeTypeInv, CodesInv, \A v \in Workers : Wound(v), NEW s \in Staff, Exists(s)',
         login'[s].mobile \in Mobiles \cup {Tomb(s)}, ~LoginTaken(login'[s].mobile, s),
         \A t \in Staff \ {s} : login'[t] = login[t] /\ (Exists(t)' <=> Exists(t))
  PROVE  OwnMobile'
<1>1. \A t \in Staff \ {s} : Exists(t) => login[t].mobile # login'[s].mobile
  BY DEF LoginTaken
<1>2. /\ \A t \in Staff : Exists(t)' => login'[t].mobile \in Mobiles \cup {Tomb(t)}
      /\ \A t, u \in Staff : Exists(t)' /\ Exists(u)' /\ login'[t].mobile = login'[u].mobile => t = u
  BY <1>1 DEF CodesInv, OwnMobile
<1> QED
  BY <1>2, EditsKeep DEF OwnMobile

\* A tombstone is nobody else's.
LEMMA TombFree ==
  ASSUME OfficeTypeInv, CodesInv, NEW s \in Staff
  PROVE  ~LoginTaken(Tomb(s), s)
<1>1. \A t \in Staff : Tomb(t) = Tomb(s) => t = s
  BY DEF Tomb
<1>2. Tomb(s) \notin Mobiles
  BY OfficeAssumption
<1> QED
  BY <1>1, <1>2 DEF LoginTaken, CodesInv, OwnMobile

\* While a request of s reads his code, no other has it, unless it is shared.
LEMMA NobodyElseHas ==
  ASSUME OfficeTypeInv, CodesInv, NEW n \in Codes \ shared, NEW s \in Staff, Exists(s),
         login[s].code = n, NEW w \in Workers, req[w].kind \in Readers, req[w].s = s
  PROVE  \A v \in Workers \ {w} : ~Has(req[v], n)
<1> SUFFICES ASSUME NEW v \in Workers \ {w}, Has(req[v], n)
             PROVE  FALSE
  OBVIOUS
<1>1. login[req[v].s].code = n /\ ~Overlap(req[v], req[w])
  BY DEF CodesInv, Sole
<1>2. req[v].kind \in Readers /\ req[v].kind \in OnStaff \cup OnLogin
  BY DEF Has, Readers, OnStaff
<1>3. req[v].s \in Staff /\ Exists(req[v].s)
  BY <1>2, AskedIs
<1>4. Bears(req[v].s, n) /\ Bears(s, n)
  BY <1>1, <1>3 DEF Bears
<1>5. req[v].s = s
  BY <1>3, <1>4 DEF CodesInv, OneBearer
<1> QED
  BY <1>1, <1>2, <1>5 DEF Overlap, Readers

LEMMA ApplyMobile ==
  ASSUME NEW change \in Changes, NEW l \in LoginRow
  PROVE  Apply(change, l).mobile \in Mobiles \cup {l.mobile}
<1>1. "mobile" \in DOMAIN l
  BY DEF LoginRow
<1>2. "mobile" \in DOMAIN change => change["mobile"] \in Mobiles
  BY DEF Changes
<1>3. Apply(change, l).mobile = IF "mobile" \in DOMAIN change THEN change["mobile"] ELSE l.mobile
  BY <1>1 DEF Apply
<1> QED
  BY <1>2, <1>3

LEMMA EditLoginCodes ==
  ASSUME OfficeTypeInv, CodesInv, NEW w \in Workers, EditLogin(w)
  PROVE  CodesInv'
<1> PICK s \in Staff : s = req[w].s /\ Exists(s)
  BY EditLoginDoes
<1> PICK row \in LoginRow : row = Apply(req[w].change, req[w].ofLogin)
  BY EditLoginDoes
<1>1. /\ OfficeTypeInv' /\ Aside(w) /\ req[w] \in Edits /\ req[w].kind = "edit" /\ req[w].pc = "login"
      /\ staff' = staff
  BY EditLoginDoes
<1>2. CASE req'[w] = Free /\ login' = login /\ shared' = shared
  BY <1>1, <1>2, QuietStep DEF Aside, SameLogins, Exists, codes, caches
<1>3. CASE /\ ~LoginTaken(row.mobile, s) /\ shared' = shared \cup Carried(s, row.mobile)
           /\ login'[s] = row /\ \A t \in Staff \ {s} : login'[t] = login[t]
           /\ req'[w].kind = "edit" /\ req'[w].pc = "staff" /\ req'[w].s = s
           /\ req'[w].ofLogin = req[w].ofLogin
  <2>1. /\ \A v \in Workers : Wound(v)
        /\ \A v \in Workers : req'[v].kind \in OnLogin => req'[v] = req[v]
    BY <1>1, <1>3, Winding DEF Aside
  <2>2. /\ row.code = req[w].ofLogin.code
        /\ row.mobile \in Mobiles \cup {req[w].ofLogin.mobile}
    BY <1>1, ApplyIs, ApplyMobile DEF Edits
  <2>3. OwnMobile'
    <3>1. row.mobile \in Mobiles \cup {Tomb(s)}
      BY <1>1, <2>2 DEF CodesInv, OwnMobile
    <3> QED
      BY <1>1, <1>3, <2>1, <3>1, MobileSaved DEF Exists
  <2>4. \A n \in Codes : row.code = n => Names(req[w], n) /\ Has(req[w], n)
    BY <1>1, <2>2 DEF Names, Has
  <2>5. ASSUME NEW t \in Staff, NEW n \in Codes, Exists(t)', login'[t].code = n
        PROVE  Bears(t, n)
    BY <1>1, <1>3, <2>4, <2>5 DEF Bears, Readers, Exists
  <2>6. ASSUME NEW t \in Staff, NEW n \in Codes \ shared', Exists(t)', login'[t].code = n
        PROVE  Exists(t) /\ login[t].code = n /\ login'[t].mobile = login[t].mobile
    <3>1. CASE t # s
      BY <1>1, <1>3, <2>6, <3>1 DEF Exists
    <3>2. CASE t = s
      <4>1. Has(req[w], n) /\ n \notin shared
        BY <1>3, <2>4, <2>6, <3>2
      <4>2. login[s].code = n
        BY <4>1 DEF CodesInv, Sole
      <4> QED
        BY <1>3, <2>6, <3>2, <4>2 DEF Carried
    <3> QED
      BY <3>1, <3>2
  <2>7. ASSUME NEW t \in Staff, NEW n \in Codes \ shared', Exists(t), login[t].code = n,
               login'[t].code # n, NEW v \in Workers
        PROVE  ~Has(req[v], n)'
    <3>1. t = s
      BY <1>3, <2>7
    <3>2. CASE v = w
      BY <1>3, <3>2 DEF Has, OnLogin
    <3>3. CASE v # w
      <4>1. ~Has(req[v], n)
        BY <1>1, <1>3, <2>7, <3>1, <3>3, NobodyElseHas DEF Readers
      <4> QED
        BY <1>1, <3>3, <4>1 DEF Aside, OtherWorkers, Has
    <3> QED
      BY <3>2, <3>3
  <2>8. LoginsKeep
    BY <2>5, <2>6, <2>7 DEF LoginsKeep
  <2> QED
    BY <1>1, <1>3, <2>1, <2>3, <2>8, QuietCodes DEF Aside, caches
<1> QED
  BY <1>2, <1>3, EditLoginDoes

\* A login that changes its mobile keeps its code, which is shared from then on.
LEMMA CarriedCodes ==
  ASSUME OfficeTypeInv, OfficeTypeInv', CodesInv, NEW w \in Workers, Aside(w),
         req'[w].kind \notin Readers, staff' = staff, NEW s \in Staff, Exists(s),
         NEW m \in Mobiles \cup {Tomb(s)}, ~LoginTaken(m, s),
         login'[s].mobile = m, login'[s].code = login[s].code,
         \A t \in Staff \ {s} : login'[t] = login[t],
         shared' = shared \cup Carried(s, m)
  PROVE  CodesInv'
<1>1. /\ \A v \in Workers : Wound(v)
      /\ \A v \in Workers : req'[v].kind \in OnLogin => req'[v] = req[v]
  BY Winding DEF Aside
<1>2. OwnMobile'
  BY <1>1, MobileSaved DEF Exists
<1>3. LoginsKeep
  BY DEF LoginsKeep, Bears, Carried, Exists
<1> QED
  BY <1>1, <1>2, <1>3, QuietCodes DEF Aside, caches

LEMMA PhoneLoginCodes ==
  ASSUME OfficeTypeInv, CodesInv, NEW w \in Workers, PhoneLogin(w)
  PROVE  CodesInv'
<1> PICK s \in Staff, m \in Mobiles : s = req[w].s /\ Exists(s) /\ m = req[w].mobile
  BY PhoneLoginDoes
<1>1. OfficeTypeInv' /\ Aside(w) /\ staff' = staff
  BY PhoneLoginDoes
<1>2. CASE req'[w] = Free /\ login' = login /\ shared' = shared
  BY <1>1, <1>2, QuietStep DEF Aside, SameLogins, Exists, codes, caches
<1>3. CASE /\ ~LoginTaken(m, s) /\ shared' = shared \cup Carried(s, m)
           /\ login'[s] = [login[s] EXCEPT !.mobile = m]
           /\ \A t \in Staff \ {s} : login'[t] = login[t]
           /\ req'[w].kind = "phone"
  <2> PICK l \in LoginRow : l = login[s]
    BY StaffIs
  <2>1. login'[s].mobile = m /\ login'[s].code = login[s].code
    BY <1>3 DEF LoginRow
  <2>2. req'[w].kind \notin Readers
    BY <1>3 DEF Readers, OnLogin
  <2> QED
    BY <1>1, <1>3, <2>1, <2>2, CarriedCodes
<1> QED
  BY <1>2, <1>3, PhoneLoginDoes

LEMMA ReleaseLoginCodes ==
  ASSUME OfficeTypeInv, CodesInv, NEW w \in Workers, ReleaseLogin(w)
  PROVE  CodesInv'
<1> PICK s \in Staff : s = req[w].s /\ Exists(s)
  BY ReleaseLoginDoes
<1>1. /\ OfficeTypeInv' /\ Aside(w) /\ staff' = staff /\ req'[w] = Free
      /\ login'[s] = ReleasedLogin(s) /\ \A t \in Staff \ {s} : login'[t] = login[t]
      /\ shared' = shared \cup Carried(s, Tomb(s))
  BY ReleaseLoginDoes
<1>2. login'[s].mobile = Tomb(s) /\ login'[s].code = login[s].code
  BY <1>1, ReleasedIs
<1>3. req'[w].kind \notin Readers
  BY <1>1 DEF Readers, OnLogin, Free
<1>4. ~LoginTaken(Tomb(s), s)
  BY TombFree
<1> QED
  BY <1>1, <1>2, <1>3, <1>4, CarriedCodes

LEMMA InsertStaffCodes ==
  ASSUME OfficeTypeInv, CodesInv, NEW w \in Workers, InsertStaff(w)
  PROVE  CodesInv'
<1>1. OfficeTypeInv' /\ Aside(w) /\ req'[w] = Free /\ shared' = shared
  BY InsertStaffDoes
<1>2. CASE staff' = staff /\ login' = login
  BY <1>1, <1>2, QuietStep DEF Aside, SameLogins, Exists, codes, caches
<1>3. ASSUME NEW s \in Staff, ~Exists(s), ~LoginTaken(req[w].mobile, s), req[w].mobile \in Mobiles,
             staff'[s] = NewStaff(req[w].mobile, req[w].branch),
             login'[s] = NewLogin(req[w].mobile, req[w].branch),
             \A t \in Staff \ {s} : staff'[t] = staff[t] /\ login'[t] = login[t]
      PROVE  CodesInv'
  <2>1. /\ \A v \in Workers : Wound(v)
        /\ \A v \in Workers : req'[v].kind \in OnLogin => req'[v] = req[v]
    BY <1>1, Winding DEF Aside
  <2>2. login'[s].mobile = req[w].mobile /\ login'[s].code = NoCode /\ NoCode \notin Codes
    BY <1>3 DEF NewLogin, NoCode, Codes
  <2>3. Exists(s)'
    BY <1>3 DEF Exists, NewStaff, NoRow
  <2>4. OwnMobile'
    BY <1>3, <2>1, <2>2, <2>3, MobileSaved DEF Exists
  <2>5. LoginsKeep
    BY <1>3, <2>2 DEF LoginsKeep, Bears, Exists
  <2> QED
    BY <1>1, <2>1, <2>4, <2>5, QuietCodes DEF Aside, caches
<1> QED
  BY <1>2, <1>3, InsertStaffDoes

LEMMA CommitCloseCodes ==
  ASSUME OfficeTypeInv, CodesInv, NEW w \in Workers, CommitClose(w)
  PROVE  CodesInv'
<1> PICK L \in SUBSET Staff : L = req[w].listed /\ \A s \in L : Exists(s)
  BY CommitCloseDoes, AskIs DEF Switches, Sound
<1>1. /\ OfficeTypeInv' /\ OtherWorkers(w) /\ UNCHANGED <<caches, sent, lapsed, accepted, wrong>>
      /\ req'[w] = Free
      /\ \A s \in L : staff'[s] = ReleasedStaff(s) /\ login'[s] = ReleasedLogin(s)
      /\ \A s \in Staff \ L : staff'[s] = staff[s]
      /\ \A s \in Staff \ L :
           login'[s] = login[s] \/ (Exists(s) /\ login'[s] = [login[s] EXCEPT !.active = FALSE])
      /\ shared' = shared \cup {login[s].code : s \in L}
  BY CommitCloseDoes
<1>2. /\ \A v \in Workers : Wound(v)
      /\ \A v \in Workers : req'[v].kind \in OnLogin => req'[v] = req[v]
  BY <1>1, Winding
<1>3. ASSUME NEW s \in Staff
      PROVE  /\ Exists(s)' <=> Exists(s)
             /\ Exists(s) => login'[s].code = login[s].code
             /\ s \in L => login'[s].mobile = Tomb(s)
             /\ Exists(s) /\ s \notin L => login'[s].mobile = login[s].mobile
  <2>1. CASE s \in L
    BY <1>1, <2>1, ReleasedIs, RowsAreRows DEF Exists
  <2>2. CASE s \notin L
    <3>1. (Exists(s)' <=> Exists(s)) /\ (login'[s] = login[s] \/ Exists(s))
      BY <1>1, <2>2 DEF Exists
    <3>2. CASE login'[s] = login[s]
      BY <2>2, <3>1, <3>2
    <3>3. CASE Exists(s) /\ login'[s] = [login[s] EXCEPT !.active = FALSE]
      <4> PICK l \in LoginRow : l = login[s]
        BY <3>3, StaffIs
      <4> QED
        BY <2>2, <3>1, <3>3 DEF LoginRow
    <3> QED
      BY <1>1, <2>2, <3>2, <3>3
  <2> QED
    BY <2>1, <2>2
<1>4. OwnMobile'
  <2>1. \A s \in Staff : Exists(s)' => login'[s].mobile \in Mobiles \cup {Tomb(s)}
    BY <1>3 DEF CodesInv, OwnMobile
  <2>2. ASSUME NEW s \in Staff, NEW t \in Staff, Exists(s)', Exists(t)',
               login'[s].mobile = login'[t].mobile
        PROVE  s = t
    <3>1. \A u \in Staff : Tomb(u) \notin Mobiles
      BY OfficeAssumption
    <3>t. Tomb(s) = Tomb(t) => s = t
      BY DEF Tomb
    <3>2. CASE s \in L
      BY <1>3, <2>1, <2>2, <3>1, <3>t, <3>2
    <3>3. CASE t \in L
      BY <1>3, <2>1, <2>2, <3>1, <3>t, <3>3
    <3>4. CASE s \notin L /\ t \notin L
      BY <1>3, <2>2, <3>4 DEF CodesInv, OwnMobile
    <3> QED
      BY <3>2, <3>3, <3>4
  <2> QED
    BY <1>2, <2>1, <2>2, EditsKeep DEF OwnMobile
<1>5. LoginsKeep
  BY <1>1, <1>3 DEF LoginsKeep, Bears
<1> QED
  BY <1>1, <1>2, <1>4, <1>5, QuietCodes DEF caches

LEMMA LoginsStay ==
  ASSUME OfficeTypeInv, OfficeTypeInv', login' = login
  PROVE  SameLogins
BY DEF OfficeTypeInv, SameLogins

LEMMA ToggleLoginCodes ==
  ASSUME OfficeTypeInv, CodesInv, NEW w \in Workers, ToggleLogin(w)
  PROVE  CodesInv'
<1> PICK s \in Staff : s = req[w].s /\ Exists(s)
  BY ToggleLoginDoes
<1>1. /\ OfficeTypeInv' /\ Aside(w) /\ staff' = staff /\ shared' = shared /\ req'[w] = Free
      /\ login'[s] = [login[s] EXCEPT !.active = req[w].to]
      /\ \A t \in Staff \ {s} : login'[t] = login[t]
  BY ToggleLoginDoes
<1> PICK l \in LoginRow : l = login[s]
  BY StaffIs
<1>2. login'[s].code = l.code /\ login'[s].mobile = l.mobile
  BY <1>1 DEF LoginRow
<1>3. SameLogins
  BY <1>1, <1>2 DEF SameLogins, Exists
<1> QED
  BY <1>1, <1>3, QuietStep DEF Aside, caches, codes

LEMMA CommitSwitchCodes ==
  ASSUME OfficeTypeInv, CodesInv, NEW w \in Workers, CommitSwitch(w)
  PROVE  CodesInv'
<1> PICK L \in SUBSET Staff : L = req[w].listed /\ \A s \in L : Exists(s)
  BY CommitSwitchDoes, AskIs DEF Switches, Sound
<1>1. /\ OfficeTypeInv' /\ OtherWorkers(w) /\ UNCHANGED <<caches, codes>> /\ req'[w] = Free
      /\ \A s \in L : login'[s] = [login[s] EXCEPT !.active = req[w].to]
      /\ \A s \in Staff \ L : login'[s] = login[s]
  BY CommitSwitchDoes
<1>2. ASSUME NEW s \in Staff
      PROVE  /\ Exists(s)' <=> Exists(s)
             /\ Exists(s) => login'[s].code = login[s].code /\ login'[s].mobile = login[s].mobile
  <2>1. CASE s \in L
    <3> PICK l \in LoginRow : l = login[s]
      BY <2>1, StaffIs
    <3>1. login'[s].code = l.code /\ login'[s].mobile = l.mobile /\ DOMAIN login'[s] = DOMAIN l
      BY <1>1, <2>1 DEF LoginRow
    <3>2. login'[s] # NoRow
      BY <3>1 DEF LoginRow, NoRow
    <3> QED
      BY <1>1, <2>1, <3>1, <3>2 DEF OfficeTypeInv
  <2>2. CASE s \notin L
    BY <1>1, <2>2 DEF OfficeTypeInv
  <2> QED
    BY <2>1, <2>2
<1>3. SameLogins
  BY <1>2 DEF SameLogins
<1> QED
  BY <1>1, <1>3, QuietStep DEF caches

\* The other steps that leave the logins alone.
LEMMA StaffCodes ==
  ASSUME OfficeTypeInv, CodesInv, NEW w \in Workers,
         \/ EditStaff(w) \/ ToggleStaff(w) \/ ReleaseStaff(w) \/ PhoneStaff(w) \/ DropOffer(w)
         \/ ListStaff(w) \/ SaveBranch(w) \/ BreakOff(w)
  PROVE  CodesInv'
<1>1. ASSUME EditStaff(w) \/ ToggleStaff(w) \/ ReleaseStaff(w) \/ PhoneStaff(w)
      PROVE  CodesInv'
  <2>1. /\ OfficeTypeInv' /\ Aside(w) /\ login' = login /\ shared' = shared
        /\ req'[w] = Free \/ req'[w].kind \in {"toggle", "destroy", "phone"}
    BY <1>1, EditStaffDoes, ToggleStaffDoes, ReleaseStaffDoes, PhoneStaffDoes
  <2>2. req'[w] = Free \/ req'[w].kind \notin Readers
    BY <2>1 DEF Readers, OnLogin
  <2> QED
    BY <2>1, <2>2, LoginsStay, QuietStep DEF Aside, caches, codes
<1>2. ASSUME DropOffer(w)
      PROVE  CodesInv'
  BY <1>2, DropOfferDoes, LoginsStay, QuietStep DEF tables
<1>3. ASSUME ListStaff(w)
      PROVE  CodesInv'
  <2>1. req'[w].kind \notin Readers
    BY <1>3, ListStaffDoes DEF Switches, Readers, OnLogin
  <2> QED
    BY <1>3, <2>1, ListStaffDoes, LoginsStay, QuietStep DEF tables, caches
<1>4. ASSUME SaveBranch(w)
      PROVE  CodesInv'
  BY <1>4, SaveBranchDoes, LoginsStay, QuietStep DEF caches
<1>5. ASSUME BreakOff(w)
      PROVE  CodesInv'
  BY <1>5, BreakOffDoes, LoginsStay, QuietStep DEF tables, caches
<1> QED
  BY <1>1, <1>2, <1>3, <1>4, <1>5

\* The code of s is used up, or wiped.
LEMMA CodeGone ==
  ASSUME OfficeTypeInv, OfficeTypeInv', CodesInv, NEW w \in Workers, OtherWorkers(w), Wound(w),
         req[w].kind = "verify", NEW s \in Staff, s = req[w].s, Exists(s), Coded(s, NoCode),
         req'[w] = Free \/ req'[w].pc = "reset", shared' = shared
  PROVE  (\A v \in Workers : Wound(v)) /\ LoginsKeep /\ OwnMobile'
<1>1. \A v \in Workers : Wound(v)
  BY DEF OtherWorkers, Wound
<1>2. NoCode \notin Codes /\ req[w].kind \in Readers
  BY DEF NoCode, Codes, Readers, OnLogin
<1>3. ASSUME NEW t \in Staff, NEW n \in Codes \ shared', Exists(t), login[t].code = n,
             login'[t].code # n, NEW v \in Workers
      PROVE  ~Has(req[v], n)'
  <2>1. t = s
    BY <1>3 DEF Coded
  <2>2. CASE v = w
    BY <2>2, <1>1 DEF Has, Holding, OnLogin, Free, Wound
  <2>3. CASE v # w
    <3>1. ~Has(req[v], n)
      BY <1>2, <1>3, <2>1, <2>3, NobodyElseHas
    <3> QED
      BY <2>3, <3>1 DEF OtherWorkers, Has
  <2> QED
    BY <2>2, <2>3
<1>4. LoginsKeep
  BY <1>2, <1>3 DEF LoginsKeep, Bears, Coded, Exists
<1>5. OwnMobile'
  <2>1. /\ \A t \in Staff : Exists(t)' => login'[t].mobile \in Mobiles \cup {Tomb(t)}
        /\ \A t, u \in Staff : Exists(t)' /\ Exists(u)' /\ login'[t].mobile = login'[u].mobile => t = u
    BY DEF Coded, CodesInv, OwnMobile, Exists
  <2> QED
    BY <1>1, <2>1, EditsKeep DEF OwnMobile
<1> QED
  BY <1>1, <1>4, <1>5

LEMMA ClearCodeCodes ==
  ASSUME OfficeTypeInv, CodesInv, NEW w \in Workers, ClearCode(w)
  PROVE  CodesInv'
<1>1. /\ OfficeTypeInv' /\ OtherWorkers(w) /\ UNCHANGED <<caches, codes>>
      /\ req[w].kind = "verify" /\ req[w].s \in Staff /\ Exists(req[w].s)
      /\ req'[w] = Free /\ Coded(req[w].s, NoCode)
  BY ClearCodeDoes
<1> PICK s \in Staff : s = req[w].s
  BY <1>1
<1>2. Wound(w) /\ shared' = shared
  BY <1>1 DEF Wound, Readers, OnLogin, Free, codes
<1>3. LoginsKeep /\ OwnMobile' /\ \A v \in Workers : Wound(v)
  BY <1>1, <1>2, CodeGone
<1>4. \A v \in Workers : req'[v].kind \in OnLogin => req'[v] = req[v]
  BY <1>1 DEF OtherWorkers, OnLogin, Free
<1> QED
  BY <1>1, <1>3, <1>4, QuietCodes DEF caches, codes

LEMMA AcceptCodeCodes ==
  ASSUME OfficeTypeInv, CodesInv, NEW w \in Workers, AcceptCode(w)
  PROVE  CodesInv'
<1>1. /\ OfficeTypeInv' /\ OtherWorkers(w) /\ UNCHANGED <<caches, sent, lapsed, shared, wrong>>
      /\ req[w].kind = "verify" /\ req[w].pc = "accept"
      /\ req'[w].kind = "verify" /\ req'[w].pc = "reset" /\ req'[w].s = req[w].s
      /\ req'[w].mobile = req[w].mobile /\ req'[w].code = req[w].code
  BY AcceptCodeDoes
<1> PICK s \in Staff, c \in Codes : s = req[w].s /\ c = req[w].code /\ Exists(s)
  BY AcceptCodeDoes
<1>2. /\ Coded(s, NoCode) /\ accepted'[c] = (IF accepted[c] = 0 THEN 1 ELSE 2)
      /\ \A k \in Codes \ {c} : accepted'[k] = accepted[k]
  BY AcceptCodeDoes
<1>3. Wound(w)
  BY <1>1 DEF Wound, OnLogin
<1>4. LoginsKeep /\ OwnMobile' /\ \A v \in Workers : Wound(v)
  BY <1>1, <1>2, <1>3, CodeGone
<1>5. req[w].kind \in Readers /\ Names(req[w], c) /\ Has(req[w], c)
  BY <1>1 DEF Readers, OnLogin, Names, Has, Holding
<1>6. sent[c] # NoMobile
  BY <1>5 DEF CodesInv, NewCodes, Bears
<1>7. \A n \in Codes : sent[n] = NoMobile => accepted'[n] = 0 /\ wrong'[n] = 0 /\ n \notin lapsed'
  BY <1>1, <1>2, <1>6 DEF CodesInv, NewCodes
<1>8. NewCodes' /\ OneBearer' /\ Sole'
  BY <1>1, <1>4, <1>7, BearersKept
<1>9. ASSUME c \notin shared
      PROVE  accepted'[c] <= 1 /\ \A t \in Staff : Exists(t)' => login'[t].code # c
  <2>1. login[s].code = c
    BY <1>5, <1>9 DEF CodesInv, Sole
  <2>2. accepted[c] = 0
    BY <1>9, <2>1 DEF CodesInv, Current
  <2>3. \A t \in Staff : Exists(t) /\ login[t].code = c => t = s
    BY <2>1 DEF CodesInv, OneBearer, Bears
  <2>4. NoCode # c
    BY DEF NoCode, Codes
  <2> QED
    BY <1>2, <2>2, <2>3, <2>4 DEF Coded, Exists
<1>10. \A n \in Codes \ shared' : accepted'[n] = accepted[n]
         \/ (accepted'[n] <= 1 /\ \A t \in Staff : Exists(t)' => login'[t].code # n)
  BY <1>1, <1>2, <1>9
<1>11. \A v \in Workers : req'[v].kind \in OnLogin /\ req'[v].pc # req[v].pc =>
         req'[v].pc # "put" /\ login'[req[v].s].code # req[v].code
  BY <1>1, <1>2 DEF OtherWorkers, Coded, NoCode, Codes
<1>12. Current' /\ Trying' /\ Unlock' /\ CodeLimits'
  BY <1>1, <1>4, <1>10, <1>11, CountsKept DEF caches
<1> QED
  BY <1>4, <1>8, <1>12 DEF CodesInv

\* A count is dropped for a mobile: nothing was counted there against a code still good.
LEMMA TriesDropped ==
  ASSUME OfficeTypeInv, OfficeTypeInv', CodesInv, NEW m \in Mobiles,
         UNCHANGED <<login, codes>>, tries' = [tries EXCEPT ![m] = 0],
         locked' = locked \/ locked' = locked \ {m},
         \A v \in Workers : req'[v] = req[v] \/ req'[v] = Free,
         \A n \in Codes \ (shared \cup lapsed), s \in Staff :
           Exists(s) /\ login[s].code = n /\ login[s].mobile = m => wrong[n] = 0
  PROVE  CodesInv'
<1>1. \A v \in Workers : Wound(v)
  BY DEF Wound, Readers, OnLogin, Free
<1>2. SameLogins /\ LoginsKeep /\ OwnMobile'
  BY <1>1, LoginsStay, SameLoginsKeep
<1>3. \A n \in Codes : sent[n] = NoMobile => accepted'[n] = 0 /\ wrong'[n] = 0 /\ n \notin lapsed'
  BY DEF CodesInv, NewCodes, codes
<1>4. NewCodes' /\ OneBearer' /\ Sole'
  BY <1>1, <1>2, <1>3, BearersKept DEF codes
<1>5. \A k \in Mobiles : tries'[k] = (IF k = m THEN 0 ELSE tries[k])
  BY TypeParts DEF CacheTypes
<1>6. ASSUME NEW n \in Codes \ shared', NEW s \in Staff, Exists(s)', login'[s].code = n
      PROVE  /\ login'[s].mobile \in Mobiles /\ accepted'[n] = 0
             /\ n \notin lapsed' => wrong'[n] <= tries'[login'[s].mobile]
             /\ \A v \in Workers : req'[v].kind \in OnLogin /\ req'[v].mobile = login'[s].mobile =>
                  wrong'[n] = 0 \/ (req'[v].s = s /\ Has(req[v], n)')
  <2>1. Exists(s) /\ login[s].code = n /\ n \notin shared
    BY <1>2, <1>6 DEF SameLogins, codes
  <2>2. /\ login[s].mobile \in Mobiles /\ accepted[n] = 0
        /\ n \notin lapsed => wrong[n] <= tries[login[s].mobile]
        /\ \A v \in Workers : req[v].kind \in OnLogin /\ req[v].mobile = login[s].mobile =>
             wrong[n] = 0 \/ (req[v].s = s /\ Has(req[v], n))
    BY <2>1 DEF CodesInv, Current
  <2>3. n \notin lapsed' => wrong'[n] <= tries'[login'[s].mobile]
    <3>1. CASE login[s].mobile = m
      <4>1. tries'[login'[s].mobile] = 0
        BY <1>5, <3>1
      <4>2. n \notin lapsed' => wrong'[n] = 0
        BY <2>1, <3>1 DEF codes
      <4> QED
        BY <4>1, <4>2
    <3>2. CASE login[s].mobile # m
      BY <1>5, <2>2, <3>2 DEF codes
    <3> QED
      BY <3>1, <3>2
  <2>4. \A v \in Workers : req'[v].kind \in OnLogin /\ req'[v].mobile = login'[s].mobile =>
          wrong'[n] = 0 \/ (req'[v].s = s /\ Has(req[v], n)')
    BY <2>2 DEF codes, Free, OnLogin, Has
  <2> QED
    BY <2>2, <2>3, <2>4 DEF codes
<1>7. Current'
  BY <1>6 DEF Current
<1>8. Trying'
  BY DEF CodesInv, Trying, codes, Free, OnLogin
<1>9. Unlock'
  BY <1>5, OfficeAssumption DEF CodesInv, Unlock
<1>10. CodeLimits'
  BY DEF CodesInv, CodeLimits, codes
<1> QED
  BY <1>2, <1>4, <1>7, <1>8, <1>9, <1>10 DEF CodesInv

\* A request past the code has not counted, nor has anybody since.
LEMMA NothingCounted ==
  ASSUME CodesInv, NEW w \in Workers, req[w].kind \in OnLogin, req[w].pc \notin Holding
  PROVE  \A n \in Codes \ (shared \cup lapsed), s \in Staff :
           Exists(s) /\ login[s].code = n /\ login[s].mobile = req[w].mobile => wrong[n] = 0
<1>1. \A n : ~Has(req[w], n)
  BY DEF Has, OnLogin
<1> QED
  BY <1>1 DEF CodesInv, Current

LEMMA ForgetTriesCodes ==
  ASSUME OfficeTypeInv, CodesInv, NEW w \in Workers, ForgetTries(w)
  PROVE  CodesInv'
<1>1. /\ OfficeTypeInv' /\ OtherWorkers(w) /\ UNCHANGED <<tables, locked, codes, switches, mixed>>
      /\ req[w].kind = "send" /\ req[w].pc = "forget" /\ req[w].mobile \in Mobiles
      /\ req'[w] = Free /\ tries' = [tries EXCEPT ![req[w].mobile] = 0]
  BY ForgetTriesDoes
<1>2. \A n \in Codes \ (shared \cup lapsed), s \in Staff :
        Exists(s) /\ login[s].code = n /\ login[s].mobile = req[w].mobile => wrong[n] = 0
  BY <1>1, NothingCounted DEF OnLogin, Holding
<1> PICK m \in Mobiles : m = req[w].mobile
  BY <1>1
<1> QED
  BY <1>1, <1>2, TriesDropped DEF OtherWorkers, tables

LEMMA ResetTriesCodes ==
  ASSUME OfficeTypeInv, CodesInv, NEW w \in Workers, ResetTries(w)
  PROVE  CodesInv'
<1>1. /\ OfficeTypeInv' /\ OtherWorkers(w) /\ UNCHANGED <<tables, codes, switches, mixed>>
      /\ req[w].kind = "verify" /\ req[w].pc = "reset" /\ req[w].mobile \in Mobiles
      /\ req'[w] = Free /\ tries' = [tries EXCEPT ![req[w].mobile] = 0]
      /\ locked' = locked \ {req[w].mobile}
  BY ResetTriesDoes
<1>2. \A n \in Codes \ (shared \cup lapsed), s \in Staff :
        Exists(s) /\ login[s].code = n /\ login[s].mobile = req[w].mobile => wrong[n] = 0
  BY <1>1, NothingCounted DEF OnLogin, Holding
<1> PICK m \in Mobiles : m = req[w].mobile
  BY <1>1
<1> QED
  BY <1>1, <1>2, TriesDropped DEF OtherWorkers, tables

LEMMA CacheLapsesCodes ==
  ASSUME OfficeTypeInv, CodesInv, NEW m \in Mobiles, CacheLapses(m)
  PROVE  CodesInv'
<1>1. /\ OfficeTypeInv' /\ UNCHANGED <<tables, codes, req>>
      /\ tries' = [tries EXCEPT ![m] = 0] /\ locked' = locked \ {m}
      /\ \A n \in Codes : sent[n] # NoMobile => n \in lapsed
  BY BesideTypes DEF CacheLapses, Beside
<1>2. \A n \in Codes \ (shared \cup lapsed), s \in Staff : ~(Exists(s) /\ login[s].code = n)
  BY <1>1 DEF CodesInv, NewCodes, Bears
<1> QED
  BY <1>1, <1>2, TriesDropped DEF tables

LEMMA LapseCodes ==
  ASSUME OfficeTypeInv, CodesInv, NEW n \in Codes, Lapse(n)
  PROVE  CodesInv'
<1>1. /\ OfficeTypeInv' /\ UNCHANGED <<tables, caches, sent, shared, accepted, wrong, req>>
      /\ lapsed' = lapsed \cup {n} /\ sent[n] # NoMobile
  BY BesideTypes DEF Lapse, Beside
<1>2. \A v \in Workers : Wound(v)
  BY <1>1 DEF Wound
<1>3. LoginsKeep /\ OwnMobile'
  BY <1>1, <1>2, LoginsStay, SameLoginsKeep DEF tables
<1>4. \A k \in Codes : sent[k] = NoMobile => accepted'[k] = 0 /\ wrong'[k] = 0 /\ k \notin lapsed'
  BY <1>1 DEF CodesInv, NewCodes
<1>5. NewCodes' /\ OneBearer' /\ Sole'
  BY <1>1, <1>2, <1>3, <1>4, BearersKept
<1>6. Current' /\ Trying' /\ Unlock' /\ CodeLimits'
  BY <1>1, <1>2, <1>3, CountsKept DEF caches
<1> QED
  BY <1>3, <1>5, <1>6 DEF CodesInv

LEMMA CountTryCodes ==
  ASSUME OfficeTypeInv, CodesInv, NEW w \in Workers, CountTry(w)
  PROVE  CodesInv'
<1>1. /\ OfficeTypeInv' /\ OtherWorkers(w) /\ UNCHANGED <<tables, caches, codes, switches, mixed>>
      /\ req[w].kind = "verify" /\ req[w].pc = "count" /\ req[w].mobile \in Mobiles
      /\ req'[w].kind = "verify" /\ req'[w].pc = "put" /\ req'[w].s = req[w].s
      /\ req'[w].mobile = req[w].mobile /\ req'[w].code = req[w].code
      /\ req'[w].n = tries[req[w].mobile] + 1 /\ tries[req[w].mobile] \in Nat
  BY CountTryDoes
<1>2. \A v \in Workers : Wound(v)
  BY <1>1 DEF OtherWorkers, Wound, OnLogin
<1>3. SameLogins /\ LoginsKeep /\ OwnMobile'
  BY <1>1, <1>2, LoginsStay, SameLoginsKeep DEF tables
<1>4. \A k \in Codes : sent[k] = NoMobile => accepted'[k] = 0 /\ wrong'[k] = 0 /\ k \notin lapsed'
  BY <1>1 DEF CodesInv, NewCodes, codes
<1>5. NewCodes' /\ OneBearer' /\ Sole'
  BY <1>1, <1>2, <1>3, <1>4, BearersKept DEF codes
<1>6. \A v \in Workers : /\ req'[v].kind = req[v].kind /\ req[v].kind \in OnLogin =>
                              req'[v].mobile = req[v].mobile /\ req'[v].s = req[v].s
                         /\ \A n : Has(req[v], n) => Has(req[v], n)'
  BY <1>1 DEF OtherWorkers, Has, OnLogin, Holding
<1>7. Current'
  BY <1>1, <1>3, <1>6 DEF CodesInv, Current, SameLogins, tables, caches, codes, OtherWorkers
<1>8. Trying'
  <2> SUFFICES ASSUME NEW n \in Codes \ shared, NEW v \in Workers, req'[v].kind \in OnLogin,
                      req'[v].pc \in {"count", "put"}, req'[v].code = n
               PROVE  /\ wrong[n] < FailLimit
                      /\ req'[v].pc = "put" /\ n \notin lapsed => req'[v].n > wrong[n]
    BY <1>1 DEF Trying, codes
  <2>1. CASE v # w
    BY <1>1, <2>1 DEF OtherWorkers, CodesInv, Trying
  <2>2. CASE v = w
    <3>1. wrong[n] < FailLimit
      BY <1>1, <2>2 DEF CodesInv, Trying, OnLogin
    <3>2. Has(req[w], n)
      BY <1>1, <2>2 DEF Has, OnLogin, Holding
    <3>3. login[req[w].s].code = n /\ login[req[w].s].mobile = req[w].mobile
      BY <1>1, <3>2 DEF CodesInv, Sole, OnLogin
    <3>4. req[w].s \in Staff /\ Exists(req[w].s)
      BY <1>1, LoginIs DEF OnLogin
    <3>5. n \notin lapsed => wrong[n] <= tries[req[w].mobile]
      BY <3>3, <3>4 DEF CodesInv, Current
    <3>6. wrong[n] \in Nat
      BY OfficeAssumption, TypeParts DEF CodeTypes
    <3> QED
      BY <1>1, <2>2, <3>1, <3>5, <3>6
  <2> QED
    BY <2>1, <2>2
<1>9. Unlock' /\ CodeLimits'
  BY <1>1 DEF CodesInv, Unlock, CodeLimits, caches, codes
<1> QED
  BY <1>3, <1>5, <1>7, <1>8, <1>9 DEF CodesInv

LEMMA PutTryCodes ==
  ASSUME OfficeTypeInv, CodesInv, NEW w \in Workers, PutTry(w)
  PROVE  CodesInv'
<1> PICK m \in Mobiles, c \in Codes, k \in Nat :
     m = req[w].mobile /\ c = req[w].code /\ k = req[w].n
  BY PutTryDoes
<1> PICK s \in Staff : s = req[w].s /\ Exists(s)
  BY PutTryDoes, LoginIs DEF OnLogin
<1>1. /\ OfficeTypeInv' /\ OtherWorkers(w)
      /\ UNCHANGED <<tables, sent, lapsed, shared, accepted, switches, mixed>>
      /\ req[w].kind = "verify" /\ req[w].pc = "put" /\ req'[w] = Free
      /\ tries' = [tries EXCEPT ![m] = k]
      /\ locked' = IF k >= FailLimit THEN locked \cup {m} ELSE locked
      /\ wrong'[c] = (IF wrong[c] > FailLimit THEN wrong[c] ELSE wrong[c] + 1)
      /\ \A n \in Codes \ {c} : wrong'[n] = wrong[n]
  BY PutTryDoes
<1>2. \A v \in Workers : Wound(v)
  BY <1>1, Winding
<1>3. SameLogins /\ LoginsKeep /\ OwnMobile'
  BY <1>1, <1>2, LoginsStay, SameLoginsKeep DEF tables
<1>4. /\ req[w].kind \in OnLogin /\ req[w].kind \in Readers
      /\ Has(req[w], c) /\ Names(req[w], c)
  BY <1>1 DEF Has, Names, OnLogin, Holding, Readers
<1>5. Bears(s, c) /\ sent[c] # NoMobile
  <2>1. Bears(s, c)
    BY <1>4 DEF Bears
  <2> QED
    BY <2>1 DEF CodesInv, NewCodes
<1>6. \A n \in Codes : sent[n] = NoMobile => accepted'[n] = 0 /\ wrong'[n] = 0 /\ n \notin lapsed'
  BY <1>1, <1>5 DEF CodesInv, NewCodes
<1>7. NewCodes' /\ OneBearer' /\ Sole'
  BY <1>1, <1>2, <1>3, <1>6, BearersKept
<1>8. \A j \in Mobiles : tries'[j] = (IF j = m THEN k ELSE tries[j])
  BY <1>1, TypeParts DEF CacheTypes
<1>9. FailLimit \in Nat /\ \A n \in Codes : wrong[n] \in Nat
  BY OfficeAssumption, TypeParts DEF CodeTypes
<1>10. ASSUME c \notin shared
       PROVE  /\ login[s].code = c /\ login[s].mobile = m
              /\ \A v \in Workers \ {w} : ~Has(req[v], c) /\ ~Overlap(req[w], req[v])
              /\ wrong[c] < FailLimit /\ (c \notin lapsed => k > wrong[c])
              /\ wrong'[c] = wrong[c] + 1
  <2>1. /\ login[s].code = c /\ login[s].mobile = m
        /\ \A v \in Workers \ {w} : ~Overlap(req[w], req[v])
    BY <1>4, <1>10 DEF CodesInv, Sole
  <2>2. \A v \in Workers \ {w} : ~Has(req[v], c)
    BY <1>4, <1>10, <2>1, NobodyElseHas
  <2>3. wrong[c] < FailLimit /\ (c \notin lapsed => k > wrong[c])
    BY <1>1, <1>4, <1>10 DEF CodesInv, Trying
  <2> QED
    BY <1>1, <1>9, <2>1, <2>2, <2>3
<1>11. ASSUME NEW n \in Codes \ shared, NEW t \in Staff, Exists(t), login[t].code = n
       PROVE  /\ n \notin lapsed => wrong'[n] <= tries'[login[t].mobile]
              /\ \A v \in Workers : req'[v].kind \in OnLogin /\ req'[v].mobile = login[t].mobile =>
                   wrong'[n] = 0 \/ (req'[v].s = t /\ Has(req[v], n)')
  <2>1. /\ login[t].mobile \in Mobiles
        /\ n \notin lapsed => wrong[n] <= tries[login[t].mobile]
        /\ \A v \in Workers : req[v].kind \in OnLogin /\ req[v].mobile = login[t].mobile =>
             wrong[n] = 0 \/ (req[v].s = t /\ Has(req[v], n))
    BY <1>11 DEF CodesInv, Current
  <2>2. ASSUME NEW v \in Workers, req'[v].kind \in OnLogin
        PROVE  v # w /\ req'[v] = req[v]
    BY <1>1, <2>2 DEF OtherWorkers, OnLogin, Free
  <2>3. CASE n = c
    <3>1. t = s
      BY <1>5, <1>11, <2>3 DEF CodesInv, OneBearer, Bears
    <3>2. n \notin lapsed => wrong'[n] <= tries'[login[t].mobile]
      BY <1>8, <1>9, <1>10, <2>3, <3>1
    <3>3. ASSUME NEW v \in Workers, req'[v].kind \in OnLogin, req'[v].mobile = login[t].mobile
          PROVE  FALSE
      <4>1. v # w /\ req'[v] = req[v]
        BY <2>2, <3>3
      <4>2. ~Overlap(req[w], req[v]) /\ req[v].mobile = m /\ req[v].kind \in OnLogin
        BY <1>10, <2>3, <3>1, <3>3, <4>1
      <4> QED
        BY <1>4, <4>2 DEF Overlap
    <3> QED
      BY <3>2, <3>3
  <2>4. CASE n # c
    <3>1. wrong'[n] = wrong[n]
      BY <1>1, <2>4
    <3>2. n \notin lapsed => wrong'[n] <= tries'[login[t].mobile]
      <4>1. CASE login[t].mobile = m
        <5>1. ~Has(req[w], n)
          BY <1>1, <2>4 DEF Has, OnLogin
        <5>2. wrong[n] = 0
          BY <1>4, <2>1, <4>1, <5>1
        <5> QED
          BY <1>8, <3>1, <4>1, <5>2
      <4>2. CASE login[t].mobile # m
        BY <1>8, <2>1, <3>1, <4>2
      <4> QED
        BY <4>1, <4>2
    <3> QED
      BY <2>1, <2>2, <3>1, <3>2 DEF Has
  <2> QED
    BY <2>3, <2>4
<1>12. Current'
  <2> SUFFICES ASSUME NEW n \in Codes \ shared, NEW t \in Staff, Exists(t), login[t].code = n
               PROVE  /\ login[t].mobile \in Mobiles /\ accepted[n] = 0
                      /\ n \notin lapsed => wrong'[n] <= tries'[login[t].mobile]
                      /\ \A v \in Workers : req'[v].kind \in OnLogin /\ req'[v].mobile = login[t].mobile =>
                           wrong'[n] = 0 \/ (req'[v].s = t /\ Has(req[v], n)')
    BY <1>1 DEF Current, tables, Exists
  <2>1. login[t].mobile \in Mobiles /\ accepted[n] = 0
    BY DEF CodesInv, Current
  <2> QED
    BY <1>11, <2>1
<1>13. Trying'
  <2> SUFFICES ASSUME NEW n \in Codes \ shared, NEW v \in Workers, req'[v].kind \in OnLogin,
                      req'[v].pc \in {"count", "put"}, req'[v].code = n
               PROVE  /\ wrong'[n] < FailLimit
                      /\ req'[v].pc = "put" /\ n \notin lapsed => req'[v].n > wrong'[n]
    BY <1>1 DEF Trying
  <2>1. v # w /\ req'[v] = req[v]
    BY <1>1 DEF OtherWorkers, OnLogin, Free
  <2>2. Has(req[v], n)
    BY <2>1 DEF Has, Holding
  <2>3. n # c
    BY <1>10, <2>1, <2>2
  <2> QED
    BY <1>1, <2>1, <2>3 DEF CodesInv, Trying
<1>14. Unlock'
  BY <1>1, <1>8, <1>9 DEF CodesInv, Unlock
<1>15. CodeLimits'
  BY <1>1, <1>9, <1>10 DEF CodesInv, CodeLimits
<1> QED
  BY <1>3, <1>7, <1>12, <1>13, <1>14, <1>15 DEF CodesInv

LEMMA SaveCodeCodes ==
  ASSUME OfficeTypeInv, CodesInv, NEW w \in Workers, SaveCode(w)
  PROVE  CodesInv'
<1> PICK s \in Staff, m \in Mobiles : s = req[w].s /\ m = req[w].mobile /\ Exists(s)
  BY SaveCodeDoes
<1>1. /\ OfficeTypeInv' /\ OtherWorkers(w) /\ UNCHANGED <<caches, lapsed, accepted, wrong>>
      /\ req[w].kind = "send" /\ req[w].pc = "save"
      /\ req'[w].kind = "send" /\ req'[w].pc = "forget" /\ req'[w].s = s
      /\ req'[w].mobile = m /\ req'[w].code = req[w].code
  BY SaveCodeDoes
<1> PICK n \in Codes :
     /\ sent[n] = NoMobile /\ sent'[n] = m /\ Coded(s, n)
     /\ \A k \in Codes \ {n} : sent'[k] = sent[k]
     /\ shared' = IF login[s].mobile = m THEN shared ELSE shared \cup {n}
  BY SaveCodeDoes
<1>2. \A v \in Workers : Wound(v)
  BY <1>1 DEF OtherWorkers, Wound, OnLogin
<1>3. (\A t \in Staff : ~Bears(t, n)) /\ accepted[n] = 0 /\ wrong[n] = 0 /\ m # NoMobile
  BY OfficeAssumption DEF CodesInv, NewCodes
<1>4. OwnMobile'
  <2>1. /\ \A t \in Staff : Exists(t)' => login'[t].mobile \in Mobiles \cup {Tomb(t)}
        /\ \A t, u \in Staff : Exists(t)' /\ Exists(u)' /\ login'[t].mobile = login'[u].mobile => t = u
    BY DEF Coded, CodesInv, OwnMobile, Exists
  <2> QED
    BY <1>2, <2>1, EditsKeep DEF OwnMobile
<1>5. ASSUME NEW t \in Staff, NEW k \in Codes, Bears(t, k)'
      PROVE  IF k = n THEN t = s ELSE Bears(t, k)
  <2>1. CASE Exists(t)' /\ login'[t].code = k
    BY <1>3, <2>1 DEF Coded, Bears, Exists
  <2>2. CASE \E v \in Workers : req'[v].kind \in Readers /\ req'[v].s = t /\ Names(req[v], k)'
    <3> PICK v \in Workers : req'[v].kind \in Readers /\ req'[v].s = t /\ Names(req[v], k)'
      BY <2>2
    <3>1. req[v].kind \in Readers /\ req[v].s = t /\ Names(req[v], k)
      BY <1>2, WoundMeans
    <3>2. Bears(t, k)
      BY <3>1 DEF Bears
    <3> QED
      BY <1>3, <3>2
  <2> QED
    BY <1>5, <2>1, <2>2 DEF Bears
<1>6. NewCodes'
  BY <1>1, <1>3, <1>5 DEF CodesInv, NewCodes
<1>7. OneBearer'
  <2> SUFFICES ASSUME NEW k \in Codes, NEW t \in Staff, NEW u \in Staff, Bears(t, k)', Bears(u, k)'
               PROVE  t = u
    BY DEF OneBearer
  <2>1. CASE k = n
    BY <1>5, <2>1
  <2>2. CASE k # n
    BY <1>5, <2>2 DEF CodesInv, OneBearer
  <2> QED
    BY <2>1, <2>2
<1>8. ASSUME NEW k \in Codes, NEW v \in Workers, Has(req[v], k)'
      PROVE  /\ v # w /\ k # n /\ req'[v] = req[v] /\ Has(req[v], k)
             /\ req[v].kind \in Readers /\ req[v].s \in Staff /\ Exists(req[v].s)
  <2>1. v # w
    BY <1>1, <1>8 DEF Has, Holding
  <2>2. req'[v] = req[v] /\ Has(req[v], k)
    BY <1>1, <1>8, <2>1 DEF OtherWorkers, Has
  <2>3. req[v].kind \in Readers /\ req[v].kind \in OnStaff \cup OnLogin /\ Names(req[v], k)
    BY <2>2 DEF Has, Names, Readers, OnStaff
  <2>4. req[v].s \in Staff /\ Exists(req[v].s)
    BY <2>3, AskedIs
  <2> QED
    BY <1>3, <2>1, <2>2, <2>3, <2>4 DEF Bears
<1>9. Sole'
  <2> SUFFICES ASSUME NEW k \in Codes \ shared', NEW v \in Workers, Has(req[v], k)'
               PROVE  /\ login'[req'[v].s].code = k
                      /\ \A u \in Workers \ {v} : ~Overlap(req[v], req[u])'
                      /\ req'[v].kind \in OnLogin => login'[req'[v].s].mobile = req'[v].mobile
    BY DEF Sole
  <2> PICK t \in Staff : t = req[v].s
    BY <1>8
  <2>1. v # w /\ req'[v] = req[v] /\ Has(req[v], k) /\ req[v].kind \in Readers /\ k \notin shared
    BY <1>8
  <2>2. /\ login[t].code = k /\ \A u \in Workers \ {v} : ~Overlap(req[v], req[u])
        /\ req[v].kind \in OnLogin => login[t].mobile = req[v].mobile
    BY <2>1 DEF CodesInv, Sole
  <2>3. t # s
    BY <1>1, <2>1, <2>2 DEF Overlap, Readers, OnLogin
  <2>4. \A u \in Workers \ {v} : ~Overlap(req[v], req[u])'
    BY <1>2, <2>2, WoundOverlap
  <2> QED
    BY <2>1, <2>2, <2>3, <2>4 DEF Coded
<1>10. Current'
  <2> SUFFICES ASSUME NEW k \in Codes \ shared', NEW t \in Staff, Exists(t)', login'[t].code = k
               PROVE  /\ login'[t].mobile \in Mobiles /\ accepted'[k] = 0
                      /\ k \notin lapsed' => wrong'[k] <= tries'[login'[t].mobile]
                      /\ \A v \in Workers : req'[v].kind \in OnLogin /\ req'[v].mobile = login'[t].mobile =>
                           wrong'[k] = 0 \/ (req'[v].s = t /\ Has(req[v], k)')
    BY DEF Current
  <2>1. CASE k = n
    <3>1. t = s
      BY <1>3, <2>1 DEF Coded, Bears, Exists
    <3>2. login'[s].mobile = m
      BY <2>1 DEF Coded
    <3>3. tries[m] \in Nat
      BY TypeParts DEF CacheTypes
    <3> QED
      BY <1>1, <1>3, <2>1, <3>1, <3>2, <3>3 DEF caches
  <2>2. CASE k # n
    <3>1. t # s /\ login'[t] = login[t] /\ Exists(t) /\ login[t].code = k /\ k \notin shared
      BY <2>2 DEF Coded, Exists
    <3>2. /\ login[t].mobile \in Mobiles /\ accepted[k] = 0
          /\ k \notin lapsed => wrong[k] <= tries[login[t].mobile]
          /\ \A v \in Workers : req[v].kind \in OnLogin /\ req[v].mobile = login[t].mobile =>
               wrong[k] = 0 \/ (req[v].s = t /\ Has(req[v], k))
      BY <3>1 DEF CodesInv, Current
    <3>3. ASSUME NEW v \in Workers, req'[v].kind \in OnLogin, req'[v].mobile = login'[t].mobile
          PROVE  wrong'[k] = 0 \/ (req'[v].s = t /\ Has(req[v], k)')
      <4>1. CASE v = w
        BY <1>1, <3>1, <3>2, <3>3, <4>1 DEF OnLogin
      <4>2. CASE v # w
        BY <1>1, <3>1, <3>2, <3>3, <4>2 DEF OtherWorkers, Has
      <4> QED
        BY <4>1, <4>2
    <3> QED
      BY <1>1, <3>1, <3>2, <3>3 DEF caches
  <2> QED
    BY <2>1, <2>2
<1>11. Trying'
  <2> SUFFICES ASSUME NEW k \in Codes \ shared', NEW v \in Workers, req'[v].kind \in OnLogin,
                      req'[v].pc \in {"count", "put"}, req'[v].code = k
               PROVE  /\ wrong[k] < FailLimit
                      /\ req'[v].pc = "put" /\ k \notin lapsed => req'[v].n > wrong[k]
    BY <1>1 DEF Trying
  <2>1. req'[v] = req[v] /\ k \notin shared
    BY <1>1 DEF OtherWorkers
  <2> QED
    BY <2>1 DEF CodesInv, Trying
<1>12. Unlock' /\ CodeLimits'
  BY <1>1 DEF CodesInv, Unlock, CodeLimits, caches
<1> QED
  BY <1>4, <1>6, <1>7, <1>9, <1>10, <1>11, <1>12 DEF CodesInv

\* A request that reads a code reads the one there is.
Asks(r) ==
  /\ r.kind = "edit" => r.ofLogin = login[r.s]
  /\ r.kind \in OnLogin =>
       /\ r.code = login[r.s].code /\ r.mobile = login[r.s].mobile /\ r.mobile \notin locked
       /\ r.pc \in Holding \ {"put"} /\ (r.pc = "count" => r.code \notin lapsed)

LEMMA TakeAsks ==
  ASSUME OfficeTypeInv, NEW w \in Workers, Take(w)
  PROVE  \E r \in Request : Open(w, r) /\ Sound(r) /\ Asks(r)
<1>0. Creates \cup Edits \cup Toggles \cup Destroys \cup Phonings \cup Switches \cup Amends
        \cup Logins \subseteq Request
  BY DEF Request, Creates, Edits, Toggles, Destroys, Phonings, Switches, Amends, Logins
<1>a. \A r : r.kind \notin Readers => Asks(r)
  BY DEF Asks, Readers
<1>1. ASSUME NEW m \in Mobiles, NEW b \in Branches, OpenCreate(w, m, b)
      PROVE  \E r \in Request : Open(w, r) /\ Sound(r) /\ Asks(r)
  BY <1>0, <1>1, <1>a, OpenCreateDoes DEF Readers, OnLogin
<1>2. ASSUME NEW s \in Staff, NEW change \in Changes, OpenEdit(w, s, change)
      PROVE  \E r \in Request : Open(w, r) /\ Sound(r) /\ Asks(r)
  BY <1>0, <1>2, OpenEditDoes DEF Asks, OnLogin
<1>3. ASSUME NEW s \in Staff, OpenToggle(w, s) \/ OpenDestroy(w, s) \/ OpenPhone(w, s)
      PROVE  \E r \in Request : Open(w, r) /\ Sound(r) /\ Asks(r)
  BY <1>0, <1>3, <1>a, OpenToggleDoes, OpenDestroyDoes, OpenPhoneDoes DEF Readers, OnLogin
<1>4. ASSUME NEW s \in Staff, OpenSend(w, s)
      PROVE  \E r \in Request : Open(w, r) /\ Sound(r) /\ Asks(r)
  BY <1>0, <1>4, OpenSendDoes DEF Asks, Holding
<1>5. ASSUME NEW s \in Staff, NEW right \in BOOLEAN, OpenVerify(w, s, right)
      PROVE  \E r \in Request : Open(w, r) /\ Sound(r) /\ Asks(r)
  BY <1>0, <1>5, OpenVerifyDoes DEF Asks, Holding
<1>6. ASSUME NEW kind \in OnBranch, NEW b \in Branches, OpenBranch(w, kind, b)
      PROVE  \E r \in Request : Open(w, r) /\ Sound(r) /\ Asks(r)
  BY <1>0, <1>6, <1>a, OpenBranchDoes DEF Readers, OnLogin, OnBranch
<1> QED
  BY <1>1, <1>2, <1>3, <1>4, <1>5, <1>6 DEF Take

LEMMA TakeCodes ==
  ASSUME OfficeTypeInv, CodesInv, NEW w \in Workers, Take(w)
  PROVE  CodesInv'
<1> PICK r \in Request : Open(w, r) /\ Sound(r) /\ Asks(r)
  BY TakeAsks
<1>1. OfficeTypeInv' /\ OtherWorkers(w) /\ req'[w] = r /\ req[w] = Free
  BY OpenTypes
<1>2. /\ UNCHANGED <<staff, login>> /\ UNCHANGED caches
      /\ UNCHANGED <<sent, lapsed, accepted, wrong>> /\ shared \subseteq shared'
  BY DEF Open, tables
<1>3. ASSUME r.kind \in Readers
      PROVE  r.s \in Staff /\ Exists(r.s)
  <2>1. r.kind \in OnStaff \cup OnLogin
    BY <1>3 DEF Readers, OnStaff
  <2>2. r.s \in Staff
    BY <2>1, KindIs DEF OnStaff, Edits, Toggles, Destroys, Phonings, Logins
  <2> QED
    BY <2>1, <2>2 DEF Sound
<1>4. ASSUME NEW k, Names(r, k) \/ Has(r, k)
      PROVE  r.kind \in Readers /\ login[r.s].code = k
  BY <1>4 DEF Asks, Names, Has, Readers
<1>5. ASSUME NEW v \in Workers \ {w}, Overlap(r, req[v])
      PROVE  login[r.s].code \in shared'
  <2>1. req[v] # Free
    BY <1>5 DEF Overlap, OnLogin, Free
  <2>2. \E u \in {u \in Workers \ {w} : req[u] # Free} : Overlap(r, req[u])
    BY <1>5, <2>1
  <2> QED
    BY <2>2 DEF Open
<1>6. \A t \in Staff, k \in Codes : Bears(t, k)' => Bears(t, k)
  BY <1>1, <1>2, <1>3, <1>4 DEF Bears, OtherWorkers, Names, Exists
<1>7. NewCodes' /\ OneBearer'
  <2>1. NewCodes'
    BY <1>2, <1>6 DEF CodesInv, NewCodes
  <2>2. OneBearer'
    BY <1>6 DEF CodesInv, OneBearer
  <2> QED
    BY <2>1, <2>2
<1>8. OwnMobile'
  <2>1. /\ \A t \in Staff : Exists(t)' => login'[t].mobile \in Mobiles \cup {Tomb(t)}
        /\ \A t, u \in Staff : Exists(t)' /\ Exists(u)' /\ login'[t].mobile = login'[u].mobile => t = u
    BY <1>2 DEF CodesInv, OwnMobile, Exists
  <2>2. r.kind = "edit" => r.ofLogin.mobile \in Mobiles \cup {Tomb(r.s)}
    BY <1>3 DEF CodesInv, OwnMobile, Asks, Readers
  <2>3. \A v \in Workers : req'[v].kind = "edit" =>
          req'[v].ofLogin.mobile \in Mobiles \cup {Tomb(req'[v].s)}
    BY <1>1, <2>2 DEF CodesInv, OwnMobile, OtherWorkers
  <2> QED
    BY <2>1, <2>3 DEF OwnMobile
<1>9. Sole'
  <2> SUFFICES ASSUME NEW k \in Codes \ shared', NEW v \in Workers, Has(req[v], k)'
               PROVE  /\ login[req'[v].s].code = k
                      /\ \A u \in Workers \ {v} : ~Overlap(req[v], req[u])'
                      /\ req'[v].kind \in OnLogin => login[req'[v].s].mobile = req'[v].mobile
    BY <1>2 DEF Sole
  <2>1. CASE v = w
    <3>1. Has(r, k) /\ r.kind \in Readers /\ login[r.s].code = k
      BY <1>1, <1>4, <2>1 DEF Has
    <3>2. \A u \in Workers \ {v} : ~Overlap(r, req[u])
      BY <1>5, <2>1, <3>1
    <3>3. \A u \in Workers \ {v} : ~Overlap(req[v], req[u])'
      BY <1>1, <2>1, <3>2 DEF OtherWorkers, Overlap
    <3> QED
      BY <1>1, <2>1, <3>1, <3>3 DEF Asks
  <2>2. CASE v # w
    <3>1. req'[v] = req[v] /\ Has(req[v], k)
      BY <1>1, <2>2 DEF OtherWorkers, Has
    <3>2. /\ login[req[v].s].code = k /\ \A u \in Workers \ {v} : ~Overlap(req[v], req[u])
          /\ req[v].kind \in OnLogin => login[req[v].s].mobile = req[v].mobile
      BY <1>2, <3>1 DEF CodesInv, Sole
    <3>3. req[v].s \in Staff /\ Exists(req[v].s)
      <4>1. req[v].kind \in OnStaff \cup OnLogin
        BY <3>1 DEF Has, OnStaff
      <4> QED
        BY <4>1, AskedIs
    <3>4. ~Overlap(req[v], r)
      <4> SUFFICES ASSUME Overlap(req[v], r)
                   PROVE  FALSE
        OBVIOUS
      <4>1. Overlap(r, req[v]) /\ r.kind \in Readers
        BY DEF Overlap, Readers
      <4>2. login[r.s].code \in shared' /\ r.s \in Staff /\ Exists(r.s)
        BY <1>3, <1>5, <2>2, <4>1
      <4>3. r.s = req[v].s
        <5>1. CASE r.s = req[v].s
          BY <5>1
        <5>2. CASE {r.kind, req[v].kind} \subseteq OnLogin /\ r.mobile = req[v].mobile
          <6>1. login[r.s].mobile = login[req[v].s].mobile
            BY <3>2, <5>2 DEF Asks
          <6> QED
            BY <3>3, <4>2, <6>1 DEF CodesInv, OwnMobile
        <5> QED
          BY <4>1, <5>1, <5>2 DEF Overlap
      <4> QED
        BY <3>2, <4>2, <4>3
    <3>5. \A u \in Workers \ {v} : ~Overlap(req[v], req[u])'
      BY <1>1, <3>1, <3>2, <3>4 DEF OtherWorkers, Overlap
    <3> QED
      BY <3>1, <3>2, <3>5
  <2> QED
    BY <2>1, <2>2
<1>10. Current'
  <2> SUFFICES ASSUME NEW k \in Codes \ shared', NEW t \in Staff, Exists(t), login[t].code = k
               PROVE  /\ login[t].mobile \in Mobiles /\ accepted[k] = 0
                      /\ k \notin lapsed => wrong[k] <= tries[login[t].mobile]
                      /\ \A v \in Workers : req'[v].kind \in OnLogin /\ req'[v].mobile = login[t].mobile =>
                           wrong[k] = 0 \/ (req'[v].s = t /\ Has(req[v], k)')
    BY <1>2 DEF Current, Exists, caches
  <2>1. /\ login[t].mobile \in Mobiles /\ accepted[k] = 0
        /\ k \notin lapsed => wrong[k] <= tries[login[t].mobile]
        /\ \A v \in Workers : req[v].kind \in OnLogin /\ req[v].mobile = login[t].mobile =>
             wrong[k] = 0 \/ (req[v].s = t /\ Has(req[v], k))
    BY <1>2 DEF CodesInv, Current
  <2>2. ASSUME NEW v \in Workers, req'[v].kind \in OnLogin, req'[v].mobile = login[t].mobile
        PROVE  wrong[k] = 0 \/ (req'[v].s = t /\ Has(req[v], k)')
    <3>1. CASE v = w
      <4>1. r.kind \in OnLogin /\ r.mobile = login[t].mobile /\ r.kind \in Readers
        BY <1>1, <2>2, <3>1 DEF Readers
      <4>2. r.s = t
        BY <1>3, <4>1 DEF Asks, CodesInv, OwnMobile
      <4>3. Has(r, k)
        BY <4>1, <4>2 DEF Asks, Has
      <4> QED
        BY <1>1, <3>1, <4>2, <4>3 DEF Has
    <3>2. CASE v # w
      BY <1>1, <2>1, <2>2, <3>2 DEF OtherWorkers, Has
    <3> QED
      BY <3>1, <3>2
  <2> QED
    BY <2>1, <2>2
<1>11. Trying'
  <2> SUFFICES ASSUME NEW k \in Codes \ shared', NEW v \in Workers, req'[v].kind \in OnLogin,
                      req'[v].pc \in {"count", "put"}, req'[v].code = k
               PROVE  /\ wrong[k] < FailLimit
                      /\ req'[v].pc = "put" /\ k \notin lapsed => req'[v].n > wrong[k]
    BY <1>2 DEF Trying
  <2>1. CASE v = w
    <3>1. /\ r.kind \in OnLogin /\ r.kind \in Readers /\ r.pc = "count" /\ login[r.s].code = k
          /\ k \notin lapsed /\ login[r.s].mobile \notin locked
      BY <1>1, <2>1 DEF Asks, Readers
    <3>2. login[r.s].mobile \in Mobiles /\ wrong[k] <= tries[login[r.s].mobile]
      BY <1>2, <1>3, <3>1 DEF CodesInv, Current
    <3>3. tries[login[r.s].mobile] < FailLimit
      BY <3>1, <3>2 DEF CodesInv, Unlock
    <3>4. wrong[k] \in Nat /\ tries[login[r.s].mobile] \in Nat /\ FailLimit \in Nat
      BY <3>2, OfficeAssumption, TypeParts DEF CodeTypes, CacheTypes
    <3> QED
      BY <1>1, <2>1, <3>1, <3>2, <3>3, <3>4
  <2>2. CASE v # w
    BY <1>1, <1>2, <2>2 DEF OtherWorkers, CodesInv, Trying
  <2> QED
    BY <2>1, <2>2
<1>12. Unlock' /\ CodeLimits'
  BY <1>2 DEF CodesInv, Unlock, CodeLimits, caches
<1> QED
  BY <1>7, <1>8, <1>9, <1>10, <1>11, <1>12 DEF CodesInv

\* Nothing to do with codes happens.
LEMMA StillCodes ==
  ASSUME OfficeTypeInv, OfficeTypeInv', CodesInv, UNCHANGED <<login, req, tries, locked, codes>>
  PROVE  CodesInv'
<1>1. /\ \A v \in Workers : Wound(v)
      /\ \A v \in Workers : req'[v].kind \in OnLogin => req'[v] = req[v]
  BY DEF Wound
<1>2. LoginsKeep /\ OwnMobile'
  BY <1>1, LoginsStay, SameLoginsKeep
<1> QED
  BY <1>1, <1>2, QuietCodes DEF codes

LEMMA BesideCodes ==
  ASSUME OfficeTypeInv, CodesInv, Beside
  PROVE  CodesInv'
<1>1. ASSUME NEW s \in Staff, LoseOffer(s) \/ \E m \in Mobiles : OfferPhone(s, m)
      PROVE  CodesInv'
  <2>1. UNCHANGED <<login, req, tries, locked, codes>>
    BY <1>1 DEF LoseOffer, OfferPhone, tables
  <2> QED
    BY <2>1, BesideTypes, StillCodes
<1> QED
  BY <1>1, LapseCodes, CacheLapsesCodes DEF Beside

LEMMA FirstRows ==
  ASSUME OfficeInit, NEW s \in Staff
  PROVE  /\ Exists(s) <=> s \in Hired
         /\ s \in Hired =>
              /\ staff[s] = NewStaff(FirstMobile[s], FirstBranch)
              /\ login[s] = NewLogin(FirstMobile[s], FirstBranch)
              /\ login[s].mobile = FirstMobile[s] /\ login[s].code = NoCode
<1>1. ASSUME s \in Hired
      PROVE  NewStaff(FirstMobile[s], FirstBranch) \in StaffRow
  <2>1. FirstMobile[s] \in Numbers /\ FirstBranch \in Branches
    BY <1>1, OfficeAssumption DEF Numbers
  <2> QED
    BY <2>1 DEF NewStaff, StaffRow
<1> QED
  BY <1>1, RowsAreRows DEF OfficeInit, Exists, NewLogin

LEMMA CodesInit ==
  ASSUME OfficeInit
  PROVE  CodesInv
<1>1. req = [w \in Workers |-> Free]
  BY DEF OfficeInit
<1>2. \A w \in Workers : req[w].kind \notin Readers /\ req[w].pc \notin Holding
  BY <1>1 DEF Free, Readers, OnLogin, Holding
<1>3. NoCode \notin Codes
  BY DEF NoCode, Codes
<1>4. \A s \in Staff, n \in Codes : ~Bears(s, n)
  BY <1>2, <1>3, FirstRows DEF Bears
<1>5. OwnMobile
  BY <1>2, FirstRows, OfficeAssumption DEF OwnMobile, Readers
<1>6. NewCodes /\ OneBearer
  BY <1>4 DEF OfficeInit, NewCodes, OneBearer
<1>7. Sole /\ Current /\ Trying
  BY <1>2, <1>4 DEF Sole, Current, Trying, Bears, Has, Readers
<1>8. Unlock /\ CodeLimits
  BY OfficeAssumption DEF OfficeInit, Unlock, CodeLimits
<1> QED
  BY <1>5, <1>6, <1>7, <1>8 DEF CodesInv

LEMMA CodesNext ==
  ASSUME OfficeTypeInv, CodesInv, [OfficeNext]_officeVars
  PROVE  CodesInv'
<1>1. ASSUME NEW w \in Workers, Take(w)
      PROVE  CodesInv'
  BY <1>1, TakeCodes
<1>2. ASSUME NEW w \in Workers, StaffStep(w)
      PROVE  CodesInv'
  BY <1>2, InsertStaffCodes, EditLoginCodes, ToggleLoginCodes, ReleaseLoginCodes, PhoneLoginCodes,
     StaffCodes DEF StaffStep
<1>3. ASSUME NEW w \in Workers, BranchStep(w)
      PROVE  CodesInv'
  BY <1>3, CommitSwitchCodes, CommitCloseCodes, StaffCodes DEF BranchStep
<1>4. ASSUME NEW w \in Workers, LoginStep(w)
      PROVE  CodesInv'
  BY <1>4, SaveCodeCodes, ForgetTriesCodes, ClearCodeCodes, CountTryCodes, PutTryCodes,
     AcceptCodeCodes, ResetTriesCodes DEF LoginStep
<1>5. ASSUME NEW w \in Workers, BreakOff(w)
      PROVE  CodesInv'
  BY <1>5, StaffCodes
<1>6. ASSUME Beside
      PROVE  CodesInv'
  BY <1>6, BesideCodes
<1>7. ASSUME UNCHANGED officeVars
      PROVE  CodesInv'
  BY <1>7, OfficeTypeNext, StillCodes DEF officeVars, tables, caches, codes
<1> QED
  BY <1>1, <1>2, <1>3, <1>4, <1>5, <1>6, <1>7 DEF OfficeNext, Beside

\* A login code opens one session and allows FailLimit wrong answers, whatever the
\* requests that send, try and wipe codes do at once, unless two of them overlapped on
\* it or it moved to a new mobile (SendOTPView, VerifyOTPView).
THEOREM CodesHold == OfficeSpec => []CodeLimits
<1>1. CodesInv => CodeLimits
  BY DEF CodesInv
<1> QED
  BY <1>1, OfficeTypeInit, OfficeTypeNext, CodesInit, CodesNext, PTL DEF OfficeSpec

----------------------------------------------------------------------------
(* Rows: what a login and a row of the staff agree on, and who is at work on them. *)

Agreed(mobile, b, on, p) ==
  /\ mobile = p.mobile /\ b = p.branch
  /\ on => p.active
  /\ p.active => on \/ p.deleted
Agree(l, p) == Agreed(l.mobile, l.branch, l.active, p)

\* Request r moves s to branch b.
Into(r, s, b) == r.kind = "edit" /\ r.s = s /\ "branch" \in DOMAIN r.change /\ r.change.branch = b

\* Of the requests q, worker w's concerns s.
Touches(q, s, w) ==
  \/ q[w].kind \in OnStaff /\ q[w].s = s
  \/ /\ q[w].kind \in OnBranch
     /\ staff[s].branch = q[w].b \/ \E v \in Workers : Into(q[v], s, q[w].b)
Busy(s, w) == Touches(req, s, w)

\* Where request r has left the rows of s.
Half(s, r) ==
  /\ r.kind = "edit" => r.ofStaff = staff[s]
  /\ r.kind = "edit" /\ r.pc = "login" =>
       /\ r.ofLogin.mobile = login[s].mobile /\ r.ofLogin.branch = login[s].branch
       /\ r.ofLogin.active = login[s].active
  /\ r.kind = "edit" /\ r.pc = "staff" => Agree(login[s], Apply(r.change, staff[s]))
  /\ r.kind = "toggle" /\ r.pc = "login" =>
       Agreed(login[s].mobile, login[s].branch, r.to, staff[s])
  /\ r.kind = "destroy" /\ r.pc = "login" => Agreed(Tomb(s), login[s].branch, FALSE, staff[s])
  /\ r.kind = "phone" /\ r.pc = "staff" =>
       login[s].mobile = r.mobile
         /\ Agreed(staff[s].mobile, login[s].branch, login[s].active, staff[s])
  /\ ~HalfSaved(r) => Agree(login[s], staff[s])

\* A request to switch or close a branch finds s.
Finds(s, r) ==
  /\ Exists(s) /\ staff[s].branch = r.b /\ ~staff[s].deleted
  /\ r.kind = "switch" => IF r.to THEN staff[s].byBranch ELSE staff[s].active

OnlyOne(s) == \A v, w \in Workers : Busy(s, v) /\ Busy(s, w) => v = w
Halves(s) == \A w \in Workers : Busy(s, w) => Half(s, req[w])
Left(s) == (\A w \in Workers : ~Busy(s, w)) => Agree(login[s], staff[s])
ListedRight(s) ==
  \A w \in Workers : req[w].pc = "commit" => (s \in req[w].listed <=> Finds(s, req[w]))
SwitchRight(s) ==
  \A w \in Workers : req[w].kind = "switch" /\ staff[s].branch = req[w].b =>
    req[w].to = ~branch[req[w].b].active
OffRight(s) ==
  /\ offBy[s] # "nobody" => ~staff[s].active
  /\ offBy[s] \in Branches => staff[s].byBranch
  /\ staff[s].byBranch => offBy[s] \in Branches \/ s \in relit

RowInv(s) == OnlyOne(s) /\ Halves(s) /\ Left(s) /\ ListedRight(s) /\ SwitchRight(s) /\ OffRight(s)
RowsInv == \A s \in Staff \ mixed : Exists(s) => RowInv(s)

LEMMA TouchesIs ==
  ASSUME NEW q, NEW w, NEW s \in Staff, Exists(s)
  PROVE  s \in Concerned(q, w) <=> Touches(q, s, w)
<1>1. OnStaff \cap OnBranch = {}
  BY DEF OnStaff, OnBranch
<1> QED
  BY <1>1 DEF Concerned, Touches, Into

LEMMA WhomIs ==
  ASSUME NEW s \in Staff, NEW r
  PROVE  s \in Whom(r) <=> Finds(s, r)
BY DEF Whom, Finds, Found, InBranch

LEMMA HalfIs ==
  ASSUME NEW r
  PROVE  HalfSaved(r) <=>
           \/ r.kind = "edit" /\ r.pc = "staff"
           \/ r.kind = "toggle" /\ r.pc = "login"
           \/ r.kind = "destroy" /\ r.pc = "login"
           \/ r.kind = "phone" /\ r.pc = "staff"
BY DEF HalfSaved

\* The rows of s stay, but for the code.
RowStays(s) ==
  /\ staff'[s] = staff[s] /\ offBy'[s] = offBy[s] /\ (s \in relit' <=> s \in relit)
  /\ login'[s].mobile = login[s].mobile /\ login'[s].branch = login[s].branch
  /\ login'[s].active = login[s].active

LEMMA RowStaysMeans ==
  ASSUME NEW s, RowStays(s), NEW r
  PROVE  /\ Half(s, r) => Half(s, r)'
         /\ Agree(login[s], staff[s]) => Agree(login[s], staff[s])'
         /\ OffRight(s) => OffRight(s)'
         /\ Finds(s, r)' <=> Finds(s, r)
<1>1. Half(s, r) => Half(s, r)'
  BY DEF RowStays, Half, Agree, Agreed, HalfSaved, Apply
<1>2. Agree(login[s], staff[s]) => Agree(login[s], staff[s])'
  BY DEF RowStays, Agree, Agreed
<1>3. OffRight(s) => OffRight(s)'
  BY DEF RowStays, OffRight
<1>4. Finds(s, r)' <=> Finds(s, r)
  BY DEF RowStays, Finds, Exists
<1> QED
  BY <1>1, <1>2, <1>3, <1>4

\* A request at work on a branch comes to concern nobody through another's step.
LEMMA BusyStays ==
  ASSUME NEW s \in Staff, NEW w \in Workers, OtherWorkers(w),
         staff'[s].branch = staff[s].branch \/ Into(req[w], s, staff'[s].branch),
         \A b : Into(req'[w], s, b) => Into(req[w], s, b),
         NEW v \in Workers \ {w}, Busy(s, v)'
  PROVE  Busy(s, v)
<1>1. req'[v] = req[v]
  BY DEF OtherWorkers
<1>2. CASE req[v].kind \in OnStaff /\ req[v].s = s
  BY <1>2 DEF Busy, Touches
<1>3. CASE req[v].kind \in OnBranch /\ staff'[s].branch = req[v].b
  BY <1>3 DEF Busy, Touches
<1>4. CASE req[v].kind \in OnBranch /\ \E u \in Workers : Into(req'[u], s, req[v].b)
  BY <1>4 DEF Busy, Touches, OtherWorkers
<1> QED
  BY <1>1, <1>2, <1>3, <1>4 DEF Busy, Touches

\* What a request at "commit" is.
LEMMA CommitIs ==
  ASSUME OfficeTypeInv, NEW w \in Workers, req[w].pc = "commit"
  PROVE  req[w] \in Switches /\ req[w].kind \in {"switch", "close"} /\ req[w].kind \in OnBranch
<1>1. req[w] \in Switches
  BY AskIs, RequestKinds DEF Creates, Edits, Toggles, Destroys, Phonings, Amends, Logins, Free
<1> QED
  BY <1>1 DEF Switches, OnBranch

\* Worker w is at work on s, alone.
LEMMA BusyStep ==
  ASSUME OfficeTypeInv, OfficeTypeInv', NEW s \in Staff, RowInv(s), NEW w \in Workers,
         OtherWorkers(w), Busy(s, w),
         staff'[s].branch = staff[s].branch \/ Into(req[w], s, staff'[s].branch),
         \A b : Into(req'[w], s, b) => Into(req[w], s, b),
         Busy(s, w)' => Half(s, req[w])',
         ~Busy(s, w)' => Agree(login[s], staff[s])',
         req'[w].pc = "commit" => (s \in req'[w].listed <=> Finds(s, req[w])'),
         req'[w].kind = "switch" /\ staff'[s].branch = req'[w].b =>
           req'[w].to = ~branch'[req'[w].b].active,
         OffRight(s)'
  PROVE  RowInv(s)'
<1>1. \A v \in Workers \ {w} : ~Busy(s, v)
  BY DEF RowInv, OnlyOne
<1>2. \A v \in Workers \ {w} : ~Busy(s, v)'
  BY <1>1, BusyStays
<1>3. OnlyOne(s)' /\ Halves(s)' /\ Left(s)'
  BY <1>2 DEF OnlyOne, Halves, Left
<1>4. ListedRight(s)'
  <2> SUFFICES ASSUME NEW v \in Workers \ {w}, req'[v].pc = "commit"
               PROVE  s \in req'[v].listed <=> Finds(s, req[v])'
    BY DEF ListedRight
  <2>1. req'[v] = req[v]
    BY DEF OtherWorkers
  <2>2. req[v].kind \in OnBranch
    BY <2>1, CommitIs
  <2>3. s \in req[v].listed <=> Finds(s, req[v])
    BY <2>1 DEF RowInv, ListedRight
  <2>4. ~Finds(s, req[v])
    BY <1>1, <2>2 DEF Finds, Busy, Touches
  <2>5. ~Finds(s, req[v])'
    BY <1>2, <2>1, <2>2 DEF Finds, Busy, Touches
  <2> QED
    BY <2>1, <2>3, <2>4, <2>5
<1>5. SwitchRight(s)'
  <2> SUFFICES ASSUME NEW v \in Workers \ {w}, req'[v].kind = "switch", staff'[s].branch = req'[v].b
               PROVE  FALSE
    BY DEF SwitchRight
  <2>1. Busy(s, v)'
    BY DEF Busy, Touches, OnBranch
  <2> QED
    BY <1>2, <2>1
<1> QED
  BY <1>3, <1>4, <1>5 DEF RowInv

\* Request q is the request r, or a later step of it.
Continues(r, q) ==
  \/ q = Free
  \/ /\ q.kind = r.kind
     /\ r.kind \in OnStaff => q.s = r.s
     /\ r.kind \in OnBranch => q.b = r.b
     /\ r.kind = "switch" => q.to = r.to

\* Worker w is at work on others.
LEMMA AwayStep ==
  ASSUME OfficeTypeInv, OfficeTypeInv', NEW s \in Staff, RowInv(s), NEW w \in Workers,
         OtherWorkers(w), ~Busy(s, w), RowStays(s), Continues(req[w], req'[w]),
         \A c \in Branches : branch'[c] = branch[c] \/ (req[w].kind \in OnBranch /\ c = req[w].b),
         req'[w].pc = "commit" => (s \in req'[w].listed <=> Finds(s, req[w])')
  PROVE  RowInv(s)'
<1>1. \A v \in Workers \ {w} : req'[v] = req[v]
  BY DEF OtherWorkers
<1>2. staff'[s] = staff[s]
  BY DEF RowStays
<1>3. \A b : ~Into(req'[w], s, b) /\ ~Into(req[w], s, b)
  BY DEF Continues, Into, Busy, Touches, OnStaff, Free
<1>4. ASSUME NEW v \in Workers \ {w}
      PROVE  Busy(s, v)' <=> Busy(s, v)
  <2>1. Busy(s, v)' => Busy(s, v)
    BY <1>2, <1>3, BusyStays
  <2>2. Busy(s, v) => Busy(s, v)'
    BY <1>1, <1>2, <1>3 DEF Busy, Touches
  <2> QED
    BY <2>1, <2>2
<1>5. ~Busy(s, w)'
  <2> SUFFICES ASSUME Busy(s, w)'
               PROVE  FALSE
    OBVIOUS
  <2>1. CASE req'[w].kind \in OnStaff /\ req'[w].s = s
    BY <2>1 DEF Continues, Busy, Touches, OnStaff, Free
  <2>2. CASE req'[w].kind \in OnBranch /\ staff'[s].branch = req'[w].b
    BY <1>2, <2>2 DEF Continues, Busy, Touches, OnBranch, Free
  <2>3. CASE req'[w].kind \in OnBranch /\ \E u \in Workers : Into(req'[u], s, req'[w].b)
    <3> PICK u \in Workers : Into(req'[u], s, req'[w].b)
      BY <2>3
    <3>1. u # w /\ Into(req[u], s, req'[w].b)
      BY <1>1, <1>3
    <3>2. req[w].kind \in OnBranch /\ req'[w].b = req[w].b
      BY <2>3 DEF Continues, OnBranch, Free
    <3> QED
      BY <3>1, <3>2 DEF Busy, Touches
  <2> QED
    BY <2>1, <2>2, <2>3 DEF Busy, Touches
<1>6. OnlyOne(s)' /\ Left(s)'
  <2>1. OnlyOne(s)'
    BY <1>4, <1>5 DEF RowInv, OnlyOne
  <2>2. Left(s)'
    BY <1>4, <1>5, RowStaysMeans DEF RowInv, Left
  <2> QED
    BY <2>1, <2>2
<1>7. Halves(s)'
  <2> SUFFICES ASSUME NEW v \in Workers \ {w}, Busy(s, v)'
               PROVE  Half(s, req[v])'
    BY <1>5 DEF Halves
  <2> PICK r : r = req[v]
    OBVIOUS
  <2>1. Half(s, r)
    BY <1>4 DEF RowInv, Halves
  <2>2. Half(s, r)'
    BY <2>1, RowStaysMeans
  <2> QED
    BY <1>1, <2>2
<1>8. ListedRight(s)'
  <2> SUFFICES ASSUME NEW v \in Workers \ {w}, req'[v].pc = "commit"
               PROVE  s \in req'[v].listed <=> Finds(s, req[v])'
    BY DEF ListedRight
  <2>1. s \in req[v].listed <=> Finds(s, req[v])
    BY <1>1 DEF RowInv, ListedRight
  <2> QED
    BY <1>1, <1>2, <2>1 DEF Finds, Exists
<1>9. SwitchRight(s)'
  <2> SUFFICES ASSUME NEW v \in Workers, req'[v].kind = "switch", staff'[s].branch = req'[v].b
               PROVE  req'[v].to = ~branch'[req'[v].b].active
    BY DEF SwitchRight
  <2>1. v # w
    BY <1>5 DEF Busy, Touches, OnBranch
  <2>2. req'[v] = req[v] /\ req[v].to = ~branch[req[v].b].active
    BY <1>1, <1>2, <2>1 DEF RowInv, SwitchRight
  <2>3. req[v].b \in Branches
    BY <2>2, AskIs DEF Switches
  <2>4. branch'[req[v].b] = branch[req[v].b]
    BY <1>2, <2>2, <2>3 DEF Busy, Touches
  <2> QED
    BY <2>2, <2>4
<1>10. OffRight(s)'
  BY RowStaysMeans DEF RowInv
<1> QED
  BY <1>6, <1>7, <1>8, <1>9, <1>10 DEF RowInv

\* The same change leaves rows that agree in agreement.
LEMMA ApplyAgree ==
  ASSUME NEW change \in Changes, NEW l \in LoginRow, NEW p \in StaffRow, Agree(l, p)
  PROVE  Agree(Apply(change, l), Apply(change, p))
<1>1. /\ DOMAIN l = {"mobile", "branch", "active", "code"}
      /\ DOMAIN p = {"mobile", "branch", "active", "deleted", "byBranch"}
      /\ p.active \in BOOLEAN /\ p.deleted \in BOOLEAN /\ l.active \in BOOLEAN
  BY DEF LoginRow, StaffRow
<1>2. Apply(change, p).deleted = p.deleted
  BY ApplyIs
<1>3. \A f \in {"mobile", "branch", "active"} :
        /\ Apply(change, l)[f] = IF f \in DOMAIN change THEN change[f] ELSE l[f]
        /\ Apply(change, p)[f] = IF f \in DOMAIN change THEN change[f] ELSE p[f]
  BY <1>1 DEF Apply
<1>4. "active" \in DOMAIN change => change["active"] \in BOOLEAN
  BY DEF Changes
<1> QED
  BY <1>2, <1>3, <1>4 DEF Agree, Agreed

\* is_active saved by the office, the rest of the row as it was.
LEMMA SwitchedRight ==
  ASSUME OfficeTypeInv, NEW s \in Staff, Exists(s), OffRight(s), NEW to \in BOOLEAN, Switched(s, to),
         \A t \in Staff : staff[t] # NoRow => staff'[t] # NoRow,
         staff'[s].active = to, staff'[s].byBranch = staff[s].byBranch
  PROVE  OffRight(s)'
<1>1. /\ offBy'[s] = IF to THEN "nobody" ELSE IF staff[s].active THEN "office" ELSE offBy[s]
      /\ s \in relit' <=> s \in relit \/ (to /\ ~staff[s].active /\ offBy[s] \in Branches)
  BY SwitchedTypes
<1>2. staff[s].active \in BOOLEAN /\ staff[s].byBranch \in BOOLEAN
  BY StaffIs
<1> QED
  BY <1>1, <1>2, OfficeAssumption DEF OffRight

\* A request starts from the rows there are.
Opens(r) ==
  /\ r.kind = "edit" => r.pc = "login" /\ r.ofStaff = staff[r.s] /\ r.ofLogin = login[r.s]
  /\ r.kind \in {"toggle", "destroy"} => r.pc = "staff"
  /\ r.kind = "phone" => r.pc = "login"
  /\ r.kind = "switch" => r.to = ~branch[r.b].active
  /\ r.pc # "commit"

LEMMA TakeOpens ==
  ASSUME OfficeTypeInv, NEW w \in Workers, Take(w)
  PROVE  \E r \in Request : Open(w, r) /\ Sound(r) /\ Opens(r)
<1>0. Creates \cup Edits \cup Toggles \cup Destroys \cup Phonings \cup Switches \cup Amends
        \cup Logins \subseteq Request
  BY DEF Request, Creates, Edits, Toggles, Destroys, Phonings, Switches, Amends, Logins
<1>1. ASSUME NEW m \in Mobiles, NEW b \in Branches, OpenCreate(w, m, b)
      PROVE  \E r \in Request : Open(w, r) /\ Sound(r) /\ Opens(r)
  BY <1>0, <1>1, OpenCreateDoes DEF Opens, Creates
<1>2. ASSUME NEW s \in Staff, NEW change \in Changes, OpenEdit(w, s, change)
      PROVE  \E r \in Request : Open(w, r) /\ Sound(r) /\ Opens(r)
  BY <1>0, <1>2, OpenEditDoes DEF Opens
<1>3. ASSUME NEW s \in Staff, OpenToggle(w, s)
      PROVE  \E r \in Request : Open(w, r) /\ Sound(r) /\ Opens(r)
  BY <1>0, <1>3, OpenToggleDoes DEF Opens
<1>4. ASSUME NEW s \in Staff, OpenDestroy(w, s)
      PROVE  \E r \in Request : Open(w, r) /\ Sound(r) /\ Opens(r)
  BY <1>0, <1>4, OpenDestroyDoes DEF Opens
<1>5. ASSUME NEW s \in Staff, OpenPhone(w, s)
      PROVE  \E r \in Request : Open(w, r) /\ Sound(r) /\ Opens(r)
  BY <1>0, <1>5, OpenPhoneDoes DEF Opens
<1>6. ASSUME NEW s \in Staff, OpenSend(w, s)
      PROVE  \E r \in Request : Open(w, r) /\ Sound(r) /\ Opens(r)
  BY <1>0, <1>6, OpenSendDoes DEF Opens
<1>7. ASSUME NEW s \in Staff, NEW right \in BOOLEAN, OpenVerify(w, s, right)
      PROVE  \E r \in Request : Open(w, r) /\ Sound(r) /\ Opens(r)
  BY <1>0, <1>7, OpenVerifyDoes DEF Opens
<1>8. ASSUME NEW kind \in OnBranch, NEW b \in Branches, OpenBranch(w, kind, b)
      PROVE  \E r \in Request : Open(w, r) /\ Sound(r) /\ Opens(r)
  BY <1>0, <1>8, OpenBranchDoes DEF Opens, OnBranch
<1> QED
  BY <1>1, <1>2, <1>3, <1>4, <1>5, <1>6, <1>7, <1>8 DEF Take

\* Whom a request concerns from the start, another does too, or nobody else.
LEMMA TakeRow ==
  ASSUME OfficeTypeInv, OfficeTypeInv', NEW w \in Workers, NEW r \in Request, Open(w, r), Opens(r),
         OtherWorkers(w), req'[w] = r, req[w] = Free,
         NEW s \in Staff, s \notin mixed', Exists(s), RowInv(s)
  PROVE  RowInv(s)'
<1>1. /\ UNCHANGED <<staff, login>> /\ UNCHANGED branch /\ UNCHANGED switches
      /\ \A v \in Workers \ {w} : req'[v] = req[v]
  BY DEF Open, tables, OtherWorkers
<1>2. ~Busy(s, w) /\ \A b : ~Into(req[w], s, b)
  BY DEF Busy, Touches, Free, OnStaff, OnBranch, Into
<1>3. ASSUME NEW v \in Workers, Busy(s, v)
      PROVE  Busy(s, v)' /\ v # w
  BY <1>1, <1>2, <1>3 DEF Busy, Touches
<1>4. ASSUME Busy(s, w)', NEW v \in Workers \ {w}, Busy(s, v)'
      PROVE  FALSE
  <2> PICK q : q = [req EXCEPT ![w] = r]
    OBVIOUS
  <2>1. /\ q = req'
        /\ mixed' = mixed \cup
             (Concerned(q, w) \cap UNION {Concerned(q, u) : u \in {u \in Workers \ {w} : req[u] # Free}})
    BY DEF Open
  <2>2. Touches(q, s, w) /\ Touches(q, s, v)
    BY <1>1, <1>4, <2>1 DEF Busy, Touches
  <2>3. s \in Concerned(q, w) /\ s \in Concerned(q, v)
    BY <2>2, TouchesIs
  <2>4. req[v] # Free
    BY <1>1, <1>4 DEF Busy, Touches, OnStaff, OnBranch, Free
  <2> QED
    BY <2>1, <2>3, <2>4
<1>5. ASSUME NEW v \in Workers \ {w}, Busy(s, v)', ~Busy(s, v)
      PROVE  Busy(s, w)'
  <2>1. \E u \in Workers : Into(req'[u], s, req[v].b) /\ ~Into(req[u], s, req[v].b)
    BY <1>1, <1>5 DEF Busy, Touches
  <2>2. Into(r, s, req[v].b)
    BY <1>1, <2>1
  <2> QED
    BY <2>2 DEF Busy, Touches, Into, OnStaff
<1>6. \A v \in Workers \ {w} : Busy(s, v)' => Busy(s, v)
  BY <1>4, <1>5
<1>7. \/ \A v \in Workers \ {w} : ~Busy(s, v)'
      \/ ~Busy(s, w)'
  BY <1>4
<1>8. RowStays(s)
  BY <1>1 DEF RowStays, switches
<1>9. OnlyOne(s)'
  BY <1>6, <1>7 DEF RowInv, OnlyOne
<1>10. Left(s)'
  BY <1>3, <1>8, RowStaysMeans DEF RowInv, Left
<1>11. ASSUME NEW v \in Workers, Busy(s, v)'
       PROVE  Half(s, req[v])'
  <2>1. CASE v # w
    <3> PICK q : q = req[v]
      OBVIOUS
    <3>1. Half(s, q)
      BY <1>6, <1>11, <2>1 DEF RowInv, Halves
    <3> QED
      BY <1>1, <1>8, <2>1, <3>1, RowStaysMeans
  <2>2. CASE v = w
    <3>1. \A u \in Workers : ~Busy(s, u)
      BY <1>2, <1>3, <1>7, <1>11, <2>2
    <3>2. Agree(login[s], staff[s])
      BY <3>1 DEF RowInv, Left
    <3>3. r.kind = "edit" => r.s = s
      BY <1>1, <1>11, <2>2 DEF Busy, Touches, OnStaff, OnBranch
    <3>4. Half(s, r)
      BY <3>2, <3>3, HalfIs DEF Half, Opens
    <3> QED
      BY <1>8, <2>2, <3>4, RowStaysMeans
  <2> QED
    BY <2>1, <2>2
<1>12. ListedRight(s)'
  BY <1>1 DEF RowInv, ListedRight, Opens, Finds, Exists
<1>13. SwitchRight(s)'
  BY <1>1 DEF RowInv, SwitchRight, Opens
<1>14. OffRight(s)'
  BY <1>8, RowStaysMeans DEF RowInv
<1> QED
  BY <1>9, <1>10, <1>11, <1>12, <1>13, <1>14 DEF RowInv, Halves

\* Of the rows there were, each that is not mixed is as it should be.
RowsKept == \A s \in Staff \ mixed' : Exists(s) => RowInv(s)'

LEMMA KeptRows ==
  ASSUME RowsInv, RowsKept, mixed \subseteq mixed', \A s \in Staff : Exists(s)' => Exists(s)
  PROVE  RowsInv'
BY DEF RowsInv, RowsKept

LEMMA TakeRows ==
  ASSUME OfficeTypeInv, RowsInv, NEW w \in Workers, Take(w)
  PROVE  RowsInv'
<1> PICK r \in Request : Open(w, r) /\ Sound(r) /\ Opens(r)
  BY TakeOpens
<1>1. OfficeTypeInv' /\ OtherWorkers(w) /\ req'[w] = r /\ req[w] = Free
  BY OpenTypes
<1>2. mixed \subseteq mixed' /\ staff' = staff
  BY DEF Open, tables
<1>3. RowsKept
  BY <1>1, <1>2, TakeRow DEF RowsKept, RowsInv
<1> QED
  BY <1>2, <1>3, KeptRows DEF Exists

\* A request about s goes on, or is done.
LEMMA OwnRows ==
  ASSUME OfficeTypeInv, OfficeTypeInv', RowsInv, NEW w \in Workers, OtherWorkers(w),
         UNCHANGED branch, req[w].kind \in OnStaff, NEW s \in Staff, s = req[w].s, Exists(s),
         Continues(req[w], req'[w]), req'[w].kind = "edit" => req'[w].change = req[w].change,
         \A t \in Staff \ {s} : staff'[t] = staff[t] /\ RowStays(t),
         mixed \subseteq mixed',
         s \notin mixed' /\ RowInv(s) =>
           /\ staff'[s].branch = staff[s].branch \/ Into(req[w], s, staff'[s].branch)
           /\ OffRight(s)'
           /\ IF req'[w] = Free THEN Agree(login[s], staff[s])' ELSE Half(s, req[w])'
  PROVE  RowsInv'
<1>0. OnStaff \cap OnBranch = {} /\ Free.kind \notin OnStaff \cup OnBranch /\ Free.pc # "commit"
  BY DEF OnStaff, OnBranch, Free
<1>1. req'[w].pc # "commit" /\ req'[w].kind # "switch"
  <2>1. CASE req'[w] = Free
    BY <1>0, <2>1 DEF Free
  <2>2. CASE req'[w].kind = req[w].kind
    <3>1. req'[w].kind \notin OnBranch
      BY <1>0, <2>2
    <3>2. req'[w].pc = "commit" => req'[w].kind \in OnBranch
      <4>1. req'[w] \in Request \cup {Free}
        BY DEF OfficeTypeInv, OfficeTypeOK
      <4>2. req'[w].pc = "commit" => req'[w] \in Switches
        BY <4>1, RequestKinds DEF Creates, Edits, Toggles, Destroys, Phonings, Amends, Logins, Free
      <4> QED
        BY <4>2 DEF Switches, OnBranch
    <3> QED
      BY <3>1, <3>2 DEF OnBranch
  <2> QED
    BY <2>1, <2>2 DEF Continues
<1>2. ASSUME NEW t \in Staff \ {s}, RowInv(t)
      PROVE  RowInv(t)'
  <2>1. ~Busy(t, w)
    BY <1>0 DEF Busy, Touches
  <2> QED
    BY <1>1, <1>2, <2>1, AwayStep
<1>3. ASSUME s \notin mixed', RowInv(s)
      PROVE  RowInv(s)'
  <2>1. Busy(s, w)
    BY DEF Busy, Touches
  <2>2. \A b : Into(req'[w], s, b) => Into(req[w], s, b)
    BY DEF Into, Continues, Free
  <2>3. Busy(s, w)' => Half(s, req[w])'
    BY <1>0, <1>3 DEF Busy, Touches
  <2>4. ~Busy(s, w)' => Agree(login[s], staff[s])'
    BY <1>3 DEF Busy, Touches, Continues
  <2> QED
    BY <1>1, <1>3, <2>1, <2>2, <2>3, <2>4, BusyStep
<1>4. RowsKept
  BY <1>2, <1>3 DEF RowsKept, RowsInv
<1> QED
  BY <1>4, KeptRows DEF Exists

LEMMA ToggleRows ==
  ASSUME OfficeTypeInv, RowsInv, NEW w \in Workers, ToggleStaff(w) \/ ToggleLogin(w)
  PROVE  RowsInv'
<1>1. CASE ToggleStaff(w)
  <2> PICK s \in Staff, to \in BOOLEAN : s = req[w].s /\ to = req[w].to /\ Exists(s)
    BY <1>1, ToggleStaffDoes, AskIs DEF Toggles
  <2>1. /\ OfficeTypeInv' /\ Aside(w) /\ login' = login /\ mixed' = mixed
        /\ req[w].kind = "toggle" /\ req[w].pc = "staff"
        /\ req'[w].kind = "toggle" /\ req'[w].pc = "login" /\ req'[w].s = s /\ req'[w].to = to
        /\ staff'[s] = [staff[s] EXCEPT !.active = to]
        /\ \A t \in Staff \ {s} : staff'[t] = staff[t]
        /\ Switched(s, to)
    BY <1>1, ToggleStaffDoes
  <2> PICK p \in StaffRow : p = staff[s]
    BY StaffIs
  <2>2. /\ staff'[s].mobile = p.mobile /\ staff'[s].branch = p.branch /\ staff'[s].active = to
        /\ staff'[s].deleted = p.deleted /\ staff'[s].byBranch = p.byBranch /\ staff'[s] \in StaffRow
    BY <2>1 DEF StaffRow
  <2>3. \A t \in Staff : staff[t] # NoRow => staff'[t] # NoRow
    BY <2>1, <2>2, RowsAreRows
  <2>4. \A t \in Staff \ {s} : RowStays(t)
    BY <2>1, <2>3, SwitchedTypes DEF RowStays
  <2>5. OffRight(s) => OffRight(s)'
    BY <2>1, <2>2, <2>3, SwitchedRight
  <2>6. Busy(s, w)
    BY <2>1 DEF Busy, Touches, OnStaff
  <2>7. ASSUME RowInv(s)
        PROVE  Half(s, req[w])'
    <3>1. Agree(login[s], p)
      BY <2>1, <2>6, <2>7, HalfIs DEF RowInv, Halves, Half
    <3> PICK q : q = req'[w]
      OBVIOUS
    <3>2. Half(s, q)'
      BY <2>1, <2>2, <3>1, HalfIs DEF Half, Agree, Agreed
    <3> QED
      BY <3>2
  <2>8. /\ OtherWorkers(w) /\ UNCHANGED branch /\ req[w].kind \in OnStaff
        /\ Continues(req[w], req'[w]) /\ req'[w] # Free /\ req'[w].kind # "edit"
    BY <2>1 DEF Aside, Continues, OnStaff, OnBranch, Free
  <2>9. staff'[s].branch = staff[s].branch /\ \A t \in Staff \ {s} : staff'[t] = staff[t]
    BY <2>1, <2>2
  <2>10. mixed \subseteq mixed' /\ OfficeTypeInv'
    BY <2>1
  <2> QED
    BY <2>4, <2>5, <2>7, <2>8, <2>9, <2>10, OwnRows DEF RowInv
<1>2. CASE ToggleLogin(w)
  <2> PICK s \in Staff, to \in BOOLEAN : s = req[w].s /\ to = req[w].to /\ Exists(s)
    BY <1>2, ToggleLoginDoes, AskIs DEF Toggles
  <2>1. /\ OfficeTypeInv' /\ Aside(w) /\ staff' = staff /\ mixed' = mixed /\ UNCHANGED switches
        /\ req[w].kind = "toggle" /\ req[w].pc = "login" /\ req'[w] = Free
        /\ login'[s] = [login[s] EXCEPT !.active = to]
        /\ \A t \in Staff \ {s} : login'[t] = login[t]
    BY <1>2, ToggleLoginDoes
  <2> PICK l \in LoginRow : l = login[s]
    BY StaffIs
  <2>2. login'[s].mobile = l.mobile /\ login'[s].branch = l.branch /\ login'[s].active = to
    BY <2>1 DEF LoginRow
  <2>3. \A t \in Staff \ {s} : RowStays(t)
    BY <2>1 DEF RowStays, switches
  <2>4. OffRight(s) => OffRight(s)'
    BY <2>1 DEF OffRight, switches
  <2>5. RowInv(s) => Agree(login[s], staff[s])'
    <3>1. Busy(s, w)
      BY <2>1 DEF Busy, Touches, OnStaff
    <3>2. RowInv(s) => Agreed(l.mobile, l.branch, to, staff[s])
      BY <2>1, <3>1 DEF RowInv, Halves, Half
    <3> QED
      BY <2>1, <2>2, <3>2 DEF Agree, Agreed
  <2> QED
    BY <2>1, <2>3, <2>4, <2>5, OwnRows DEF Aside, Continues, OnStaff, Free, RowInv
<1> QED
  BY <1>1, <1>2

LEMMA ReleaseRows ==
  ASSUME OfficeTypeInv, RowsInv, NEW w \in Workers, ReleaseStaff(w) \/ ReleaseLogin(w)
  PROVE  RowsInv'
<1>1. CASE ReleaseStaff(w)
  <2> PICK s \in Staff : s = req[w].s /\ Exists(s)
    BY <1>1, ReleaseStaffDoes
  <2>1. /\ OfficeTypeInv' /\ Aside(w) /\ login' = login /\ mixed' = mixed
        /\ req[w].kind = "destroy" /\ req[w].pc = "staff"
        /\ req'[w].kind = "destroy" /\ req'[w].pc = "login" /\ req'[w].s = s
        /\ \A t \in Staff \ {s} : staff'[t] = staff[t]
        /\ Switched(s, FALSE)
    BY <1>1, ReleaseStaffDoes
  <2>2. staff'[s] = ReleasedStaff(s)
    BY <1>1, ReleaseStaffDoes
  <2>3. /\ staff'[s].mobile = Tomb(s) /\ staff'[s].branch = staff[s].branch
        /\ staff'[s].active = FALSE /\ staff'[s].deleted = TRUE
        /\ staff'[s].byBranch = staff[s].byBranch /\ staff'[s] \in StaffRow
    BY <2>2, ReleasedIs, ZenonT(40)
  <2>4. \A t \in Staff : staff[t] # NoRow => staff'[t] # NoRow
    BY <2>1, <2>3, RowsAreRows
  <2>5. \A t \in Staff \ {s} : RowStays(t)
    BY <2>1, <2>4, SwitchedTypes DEF RowStays
  <2>6. OffRight(s) => OffRight(s)'
    BY <2>1, <2>3, <2>4, SwitchedRight
  <2>7. Busy(s, w)
    BY <2>1 DEF Busy, Touches, OnStaff
  <2>8. ASSUME RowInv(s)
        PROVE  Half(s, req[w])'
    <3>1. Agree(login[s], staff[s])
      BY <2>1, <2>7, <2>8, HalfIs DEF RowInv, Halves, Half
    <3>2. login'[s].branch = staff'[s].branch
      BY <2>1, <2>3, <3>1 DEF Agree, Agreed
    <3> PICK q : q = req'[w]
      OBVIOUS
    <3>3. Half(s, q)'
      BY <2>1, <2>3, <3>2, HalfIs DEF Half, Agree, Agreed
    <3> QED
      BY <3>3
  <2>9. /\ OtherWorkers(w) /\ UNCHANGED branch /\ req[w].kind \in OnStaff
        /\ Continues(req[w], req'[w]) /\ req'[w] # Free /\ req'[w].kind # "edit"
    BY <2>1 DEF Aside, Continues, OnStaff, OnBranch, Free
  <2>10. mixed \subseteq mixed' /\ OfficeTypeInv' /\ \A t \in Staff \ {s} : staff'[t] = staff[t]
    BY <2>1
  <2> QED
    BY <2>3, <2>5, <2>6, <2>8, <2>9, <2>10, OwnRows DEF RowInv
<1>2. CASE ReleaseLogin(w)
  <2> PICK s \in Staff : s = req[w].s /\ Exists(s)
    BY <1>2, ReleaseLoginDoes
  <2>1. /\ OfficeTypeInv' /\ Aside(w) /\ staff' = staff /\ mixed' = mixed /\ UNCHANGED switches
        /\ req[w].kind = "destroy" /\ req[w].pc = "login" /\ req'[w] = Free
        /\ \A t \in Staff \ {s} : login'[t] = login[t]
    BY <1>2, ReleaseLoginDoes
  <2>2. login'[s] = ReleasedLogin(s)
    BY <1>2, ReleaseLoginDoes
  <2>3. login'[s].mobile = Tomb(s) /\ login'[s].branch = login[s].branch /\ login'[s].active = FALSE
    BY <2>2, ReleasedIs, ZenonT(40)
  <2>4. \A t \in Staff \ {s} : RowStays(t)
    BY <2>1 DEF RowStays, switches
  <2>5. OffRight(s) => OffRight(s)'
    BY <2>1 DEF OffRight, switches
  <2>6. RowInv(s) => Agree(login[s], staff[s])'
    <3>1. Busy(s, w)
      BY <2>1 DEF Busy, Touches, OnStaff
    <3>2. RowInv(s) => Agreed(Tomb(s), login[s].branch, FALSE, staff[s])
      BY <2>1, <3>1 DEF RowInv, Halves, Half
    <3> QED
      BY <2>1, <2>3, <3>2 DEF Agree, Agreed
  <2> QED
    BY <2>1, <2>4, <2>5, <2>6, OwnRows DEF Aside, Continues, OnStaff, Free, RowInv
<1> QED
  BY <1>1, <1>2

LEMMA PhoneRows ==
  ASSUME OfficeTypeInv, RowsInv, NEW w \in Workers, PhoneLogin(w) \/ PhoneStaff(w) \/ DropOffer(w)
  PROVE  RowsInv'
<1> PICK s \in Staff : s = req[w].s /\ Exists(s) /\ req[w].kind = "phone"
  <2>1. req[w].kind = "phone" /\ req[w].kind \in OnStaff
    BY DEF PhoneLogin, PhoneStaff, DropOffer, Doing, OnStaff
  <2> QED
    BY <2>1, AskedIs
<1>1. Busy(s, w) /\ req[w].kind \in OnStaff
  BY DEF Busy, Touches, OnStaff
<1>2. CASE PhoneLogin(w)
  <2> PICK m \in Mobiles : m = req[w].mobile
    BY <1>2, PhoneLoginDoes
  <2>1. /\ OfficeTypeInv' /\ Aside(w) /\ staff' = staff /\ mixed' = mixed /\ UNCHANGED switches
        /\ req[w].pc = "login"
        /\ \/ req'[w] = Free /\ login' = login
           \/ /\ login'[s] = [login[s] EXCEPT !.mobile = m]
              /\ \A t \in Staff \ {s} : login'[t] = login[t]
              /\ req'[w].kind = "phone" /\ req'[w].pc = "staff" /\ req'[w].s = s
              /\ req'[w].mobile = m
    BY <1>2, PhoneLoginDoes
  <2>2. /\ OtherWorkers(w) /\ UNCHANGED branch /\ Continues(req[w], req'[w])
        /\ req'[w].kind # "edit" /\ mixed \subseteq mixed'
    BY <2>1 DEF Aside, Continues, OnStaff, OnBranch, Free
  <2>3. \A t \in Staff \ {s} : staff'[t] = staff[t] /\ RowStays(t)
    BY <2>1 DEF RowStays, switches
  <2>4. staff'[s].branch = staff[s].branch /\ (OffRight(s) => OffRight(s)')
    BY <2>1 DEF OffRight, switches
  <2>5. ASSUME RowInv(s)
        PROVE  IF req'[w] = Free THEN Agree(login[s], staff[s])' ELSE Half(s, req[w])'
    <3>1. Agree(login[s], staff[s])
      BY <1>1, <2>1, <2>5, HalfIs DEF RowInv, Halves, Half
    <3>2. CASE req'[w] = Free /\ login' = login
      BY <2>1, <3>1, <3>2 DEF Agree, Agreed
    <3>3. CASE /\ login'[s] = [login[s] EXCEPT !.mobile = m]
               /\ req'[w].kind = "phone" /\ req'[w].pc = "staff" /\ req'[w].mobile = m
      <4> PICK l \in LoginRow : l = login[s]
        BY StaffIs
      <4>1. login'[s].mobile = m /\ login'[s].branch = l.branch /\ login'[s].active = l.active
        BY <3>3 DEF LoginRow
      <4> PICK q : q = req'[w]
        OBVIOUS
      <4>2. Half(s, q)'
        BY <2>1, <3>1, <3>3, <4>1, HalfIs DEF Half, Agree, Agreed
      <4>3. req'[w] # Free
        BY <3>3 DEF Free
      <4> QED
        BY <4>2, <4>3
    <3> QED
      BY <2>1, <3>2, <3>3
  <2> QED
    BY <1>1, <2>1, <2>2, <2>3, <2>4, <2>5, OwnRows DEF RowInv
<1>3. CASE PhoneStaff(w)
  <2> PICK m \in Mobiles : m = req[w].mobile
    BY <1>3, PhoneStaffDoes
  <2>1. /\ OfficeTypeInv' /\ Aside(w) /\ login' = login /\ UNCHANGED switches
        /\ req[w].pc = "staff"
        /\ \/ req'[w] = Free /\ staff' = staff /\ mixed' = mixed \cup {s}
           \/ /\ mixed' = mixed
              /\ staff'[s] = [staff[s] EXCEPT !.mobile = m]
              /\ \A t \in Staff \ {s} : staff'[t] = staff[t]
              /\ req'[w].kind = "phone" /\ req'[w].pc = "drop" /\ req'[w].s = s
    BY <1>3, PhoneStaffDoes
  <2>2. /\ OtherWorkers(w) /\ UNCHANGED branch /\ Continues(req[w], req'[w])
        /\ req'[w].kind # "edit" /\ mixed \subseteq mixed'
    BY <2>1 DEF Aside, Continues, OnStaff, OnBranch, Free
  <2>3. \A t \in Staff \ {s} : staff'[t] = staff[t] /\ RowStays(t)
    BY <2>1 DEF RowStays, switches
  <2>4. ASSUME s \notin mixed', RowInv(s)
        PROVE  /\ staff'[s].branch = staff[s].branch /\ OffRight(s)'
               /\ req'[w] # Free /\ Half(s, req[w])'
    <3>1. /\ staff'[s] = [staff[s] EXCEPT !.mobile = m]
          /\ req'[w].kind = "phone" /\ req'[w].pc = "drop"
      BY <2>1, <2>4
    <3> PICK p \in StaffRow : p = staff[s]
      BY StaffIs
    <3>2. /\ staff'[s].mobile = m /\ staff'[s].branch = p.branch /\ staff'[s].active = p.active
          /\ staff'[s].deleted = p.deleted /\ staff'[s].byBranch = p.byBranch
      BY <3>1 DEF StaffRow
    <3>3. login[s].mobile = m /\ Agreed(p.mobile, login[s].branch, login[s].active, p)
      BY <1>1, <2>1, <2>4 DEF RowInv, Halves, Half
    <3> PICK q : q = req'[w]
      OBVIOUS
    <3>4. Half(s, q)'
      BY <2>1, <3>1, <3>2, <3>3 DEF Half, Agree, Agreed
    <3>5. req'[w] # Free
      BY <3>1 DEF Free
    <3>6. OffRight(s)'
      BY <2>1, <2>4, <3>2 DEF RowInv, OffRight, switches
    <3> QED
      BY <3>2, <3>4, <3>5, <3>6
  <2> QED
    BY <1>1, <2>1, <2>2, <2>3, <2>4, OwnRows
<1>4. CASE DropOffer(w)
  <2>1. /\ OfficeTypeInv' /\ OtherWorkers(w) /\ UNCHANGED <<staff, login, branch>>
        /\ UNCHANGED switches /\ mixed' = mixed /\ req[w].pc = "drop" /\ req'[w] = Free
    BY <1>4, DropOfferDoes DEF tables
  <2>2. Continues(req[w], req'[w]) /\ req'[w].kind # "edit"
    BY <2>1 DEF Continues, Free
  <2>3. \A t \in Staff \ {s} : staff'[t] = staff[t] /\ RowStays(t)
    BY <2>1 DEF RowStays, switches
  <2>4. ASSUME RowInv(s)
        PROVE  OffRight(s)' /\ Agree(login[s], staff[s])'
    <3>1. Agree(login[s], staff[s])
      BY <1>1, <2>1, <2>4, HalfIs DEF RowInv, Halves, Half
    <3> QED
      BY <2>1, <2>4, <3>1 DEF RowInv, OffRight, Agree, Agreed, switches
  <2> QED
    BY <1>1, <2>1, <2>2, <2>3, <2>4, OwnRows
<1> QED
  BY <1>2, <1>3, <1>4

LEMMA ApplyBranch ==
  ASSUME NEW change \in Changes, NEW p \in StaffRow
  PROVE  \/ Apply(change, p).branch = p.branch
         \/ "branch" \in DOMAIN change /\ Apply(change, p).branch = change.branch
<1>1. "branch" \in DOMAIN p
  BY DEF StaffRow
<1> QED
  BY <1>1 DEF Apply

LEMMA EditRows ==
  ASSUME OfficeTypeInv, RowsInv, NEW w \in Workers, EditLogin(w) \/ EditStaff(w)
  PROVE  RowsInv'
<1> PICK s \in Staff : s = req[w].s /\ Exists(s) /\ req[w].kind = "edit"
  <2>1. req[w].kind = "edit" /\ req[w].kind \in OnStaff
    BY DEF EditLogin, EditStaff, Doing, OnStaff
  <2> QED
    BY <2>1, AskedIs
<1> PICK change \in Changes : change = req[w].change
  BY AskIs DEF Edits
<1> PICK p \in StaffRow, l \in LoginRow : p = staff[s] /\ l = login[s]
  BY StaffIs
<1>1. Busy(s, w) /\ req[w].kind \in OnStaff
  BY DEF Busy, Touches, OnStaff
<1>2. CASE EditLogin(w)
  <2> PICK old \in LoginRow : old = req[w].ofLogin
    BY AskIs DEF Edits
  <2> PICK row \in LoginRow : row = Apply(change, old)
    BY ApplyIs
  <2>1. /\ OfficeTypeInv' /\ Aside(w) /\ staff' = staff /\ mixed' = mixed /\ UNCHANGED switches
        /\ req[w].pc = "login"
        /\ \/ req'[w] = Free /\ login' = login
           \/ /\ login'[s] = row /\ \A t \in Staff \ {s} : login'[t] = login[t]
              /\ req'[w].kind = "edit" /\ req'[w].pc = "staff" /\ req'[w].s = s
              /\ req'[w].change = change /\ req'[w].ofStaff = req[w].ofStaff
    BY <1>2, EditLoginDoes
  <2>2. /\ OtherWorkers(w) /\ UNCHANGED branch /\ Continues(req[w], req'[w])
        /\ (req'[w].kind = "edit" => req'[w].change = req[w].change) /\ mixed \subseteq mixed'
    BY <2>1 DEF Aside, Continues, OnStaff, OnBranch, Free
  <2>3. \A t \in Staff \ {s} : staff'[t] = staff[t] /\ RowStays(t)
    BY <2>1 DEF RowStays, switches
  <2>4. staff'[s].branch = staff[s].branch /\ (OffRight(s) => OffRight(s)')
    BY <2>1 DEF OffRight, switches
  <2>5. ASSUME RowInv(s)
        PROVE  IF req'[w] = Free THEN Agree(login[s], staff[s])' ELSE Half(s, req[w])'
    <3>1. /\ Agree(l, p) /\ req[w].ofStaff = p
          /\ old.mobile = l.mobile /\ old.branch = l.branch /\ old.active = l.active
      BY <1>1, <2>1, <2>5, HalfIs DEF RowInv, Halves, Half
    <3>2. CASE req'[w] = Free /\ login' = login
      BY <2>1, <3>1, <3>2 DEF Agree, Agreed
    <3>3. CASE /\ login'[s] = row /\ req'[w].kind = "edit" /\ req'[w].pc = "staff"
               /\ req'[w].change = change /\ req'[w].ofStaff = req[w].ofStaff
      <4>1. Agree(old, p)
        BY <3>1 DEF Agree
      <4> PICK new \in StaffRow : new = Apply(change, p)
        BY ApplyIs
      <4>2. Agree(row, new)
        BY <4>1, ApplyAgree
      <4>3. staff'[s] = p /\ Apply(change, staff'[s]) = new
        BY <2>1
      <4>4. Agree(login'[s], Apply(req'[w].change, staff'[s]))
        BY <3>3, <4>2, <4>3
      <4>5. HalfSaved(req[w])'
        BY <3>3, SMTT(30) DEF HalfSaved
      <4>6. Half(s, req[w])'
        BY <3>1, <3>3, <4>3, <4>4, <4>5, Zenon DEF Half, Agree, Apply
      <4>7. req'[w] # Free
        BY <3>3 DEF Free
      <4> QED
        BY <4>6, <4>7
    <3> QED
      BY <2>1, <3>2, <3>3
  <2> QED
    BY <1>1, <2>1, <2>2, <2>3, <2>4, <2>5, OwnRows DEF RowInv
<1>3. CASE EditStaff(w)
  <2> PICK old \in StaffRow : old = req[w].ofStaff
    BY AskIs DEF Edits
  <2> PICK row \in StaffRow : row = Apply(change, old)
    BY ApplyIs
  <2>1. /\ OfficeTypeInv' /\ Aside(w) /\ login' = login
        /\ req[w].pc = "staff" /\ req'[w] = Free
        /\ \/ staff' = staff /\ mixed' = mixed \cup {s} /\ UNCHANGED switches
           \/ /\ staff'[s] = row /\ \A t \in Staff \ {s} : staff'[t] = staff[t]
              /\ Switched(s, row.active) /\ mixed' = mixed
    BY <1>3, EditStaffDoes
  <2>2. /\ OtherWorkers(w) /\ UNCHANGED branch /\ Continues(req[w], req'[w])
        /\ req'[w].kind # "edit" /\ mixed \subseteq mixed'
    BY <2>1 DEF Aside, Continues, Free
  <2>3. \A t \in Staff : staff[t] # NoRow => staff'[t] # NoRow
    BY <2>1, RowsAreRows
  <2>4. row.active \in BOOLEAN
    BY DEF StaffRow
  <2>5. \A t \in Staff \ {s} : staff'[t] = staff[t] /\ RowStays(t)
    <3>1. CASE staff' = staff /\ UNCHANGED switches
      BY <2>1, <3>1 DEF RowStays, switches
    <3>2. CASE Switched(s, row.active) /\ \A t \in Staff \ {s} : staff'[t] = staff[t]
      BY <2>1, <2>3, <2>4, <3>2, SwitchedTypes DEF RowStays
    <3> QED
      BY <2>1, <3>1, <3>2
  <2>6. ASSUME s \notin mixed', RowInv(s)
        PROVE  /\ staff'[s].branch = staff[s].branch \/ Into(req[w], s, staff'[s].branch)
               /\ OffRight(s)' /\ Agree(login[s], staff[s])'
    <3>1. staff'[s] = row /\ Switched(s, row.active)
      BY <2>1, <2>6
    <3>2. old = p /\ Agree(l, row)
      BY <1>1, <2>1, <2>6 DEF RowInv, Halves, Half
    <3>3. row.byBranch = p.byBranch /\ (row.branch = p.branch \/ Into(req[w], s, row.branch))
      BY <3>2, ApplyIs, ApplyBranch DEF Into
    <3>4. OffRight(s)'
      BY <2>3, <2>4, <2>6, <3>1, <3>3, SwitchedRight DEF RowInv
    <3>5. Agree(login[s], staff[s])'
      BY <2>1, <3>1, <3>2 DEF Agree, Agreed
    <3> QED
      BY <3>1, <3>3, <3>4, <3>5
  <2> QED
    BY <1>1, <2>1, <2>2, <2>5, <2>6, OwnRows
<1> QED
  BY <1>2, <1>3

LEMMA InsertRows ==
  ASSUME OfficeTypeInv, RowsInv, NEW w \in Workers, InsertStaff(w)
  PROVE  RowsInv'
<1>1. /\ OfficeTypeInv' /\ Aside(w) /\ UNCHANGED switches /\ req[w].kind = "create" /\ req'[w] = Free
  BY InsertStaffDoes
<1>2. /\ OtherWorkers(w) /\ UNCHANGED branch /\ Continues(req[w], req'[w]) /\ req'[w].pc # "commit"
      /\ \A t \in Staff : ~Busy(t, w)
  BY <1>1 DEF Aside, Continues, Free, Busy, Touches, OnStaff, OnBranch
<1>3. ASSUME NEW t \in Staff, RowInv(t), staff'[t] = staff[t], login'[t] = login[t]
      PROVE  RowInv(t)'
  <2>1. RowStays(t)
    BY <1>1, <1>3 DEF RowStays, switches
  <2> QED
    BY <1>1, <1>2, <1>3, <2>1, AwayStep
<1>4. CASE staff' = staff /\ login' = login /\ mixed' = mixed
  <2>1. RowsKept
    BY <1>3, <1>4 DEF RowsKept, RowsInv
  <2> QED
    BY <1>4, <2>1, KeptRows DEF Exists
<1>5. CASE \E s \in Staff :
             /\ ~Exists(s)
             /\ staff'[s] = NewStaff(req[w].mobile, req[w].branch)
             /\ login'[s] = NewLogin(req[w].mobile, req[w].branch)
             /\ \A t \in Staff \ {s} : staff'[t] = staff[t] /\ login'[t] = login[t]
             /\ mixed' = IF \E v \in Workers : req[v].kind \in OnBranch /\ req[v].b = req[w].branch
                         THEN mixed \cup {s} ELSE mixed
  <2> PICK s \in Staff :
             /\ ~Exists(s)
             /\ staff'[s] = NewStaff(req[w].mobile, req[w].branch)
             /\ login'[s] = NewLogin(req[w].mobile, req[w].branch)
             /\ \A t \in Staff \ {s} : staff'[t] = staff[t] /\ login'[t] = login[t]
             /\ mixed' = IF \E v \in Workers : req[v].kind \in OnBranch /\ req[v].b = req[w].branch
                         THEN mixed \cup {s} ELSE mixed
    BY <1>5
  <2>1. /\ staff'[s].branch = req[w].branch /\ staff'[s].byBranch = FALSE
        /\ Agree(login[s], staff[s])'
    BY DEF NewStaff, NewLogin, Agree, Agreed
  <2>2. \A v \in Workers : req[v].kind \in OnStaff => req[v].s # s
    BY AskedIs
  <2>3. \A v \in Workers : req'[v] = req[v] \/ req'[v] = Free
    BY <1>1, <1>2 DEF OtherWorkers
  <2>4. \A v \in Workers : req'[v].kind \in OnStaff => req'[v].s # s
    BY <2>2, <2>3 DEF Free, OnStaff
  <2>5. ASSUME s \notin mixed', NEW v \in Workers, req'[v].kind \in OnBranch
        PROVE  staff'[s].branch # req'[v].b
    BY <2>1, <2>3, <2>5 DEF Free, OnBranch
  <2>6. ASSUME s \notin mixed'
        PROVE  RowInv(s)'
    <3>1. \A v \in Workers : ~Busy(s, v)'
      BY <2>4, <2>5, <2>6 DEF Busy, Touches, Into, OnStaff
    <3>2. OnlyOne(s)' /\ Halves(s)' /\ Left(s)'
      BY <2>1, <3>1 DEF OnlyOne, Halves, Left
    <3>3. ListedRight(s)'
      <4> SUFFICES ASSUME NEW v \in Workers, req'[v].pc = "commit"
                   PROVE  s \notin req'[v].listed /\ ~Finds(s, req[v])'
        BY DEF ListedRight
      <4>1. req'[v] = req[v] /\ req[v].pc = "commit"
        BY <2>3 DEF Free
      <4>2. s \notin req[v].listed /\ req[v].kind \in OnBranch
        BY <4>1, CommitIs, AskIs DEF Sound
      <4> QED
        BY <2>5, <2>6, <4>1, <4>2 DEF Finds
    <3>4. SwitchRight(s)'
      BY <2>5, <2>6 DEF SwitchRight, OnBranch
    <3>5. OffRight(s)'
      BY <1>1, <2>1, OfficeAssumption DEF OffRight, OfficeTypeInv, switches
    <3> QED
      BY <3>2, <3>3, <3>4, <3>5 DEF RowInv
  <2>7. \A t \in Staff \ {s} : t \notin mixed' /\ Exists(t) => RowInv(t)'
    BY <1>3 DEF RowsInv
  <2> QED
    BY <2>6, <2>7 DEF RowsInv, Exists
<1> QED
  BY <1>4, <1>5, InsertStaffDoes

\* A request about no one of the staff, or of them all.
LEMMA StillRows ==
  ASSUME OfficeTypeInv, OfficeTypeInv', RowsInv, NEW w \in Workers, OtherWorkers(w),
         UNCHANGED branch, staff' = staff, mixed \subseteq mixed', req[w].kind \notin OnStaff \cup OnBranch,
         Continues(req[w], req'[w]), req'[w].pc # "commit", \A s \in Staff : Exists(s) => RowStays(s)
  PROVE  RowsInv'
<1>1. \A s \in Staff : ~Busy(s, w)
  BY DEF Busy, Touches
<1>2. ASSUME NEW s \in Staff, Exists(s), RowInv(s)
      PROVE  RowInv(s)'
  BY <1>1, <1>2, AwayStep
<1>3. RowsKept
  BY <1>2 DEF RowsKept, RowsInv
<1> QED
  BY <1>3, KeptRows DEF Exists

LEMMA LoginRows ==
  ASSUME OfficeTypeInv, RowsInv, NEW w \in Workers, LoginStep(w)
  PROVE  RowsInv'
<1>1. /\ OfficeTypeInv' /\ OtherWorkers(w) /\ req[w].kind \in OnLogin
      /\ \/ req'[w] = Free
         \/ req'[w].kind = req[w].kind /\ req'[w].pc \in {"forget", "put", "reset"}
      /\ \/ UNCHANGED <<tables, switches, mixed>>
         \/ \E s \in Staff, c \in Codes \cup {NoCode} : Coded(s, c)
  BY SaveCodeDoes, ForgetTriesDoes, ClearCodeDoes, CountTryDoes, PutTryDoes, AcceptCodeDoes,
     ResetTriesDoes DEF LoginStep, OnLogin
<1>2. /\ req[w].kind \notin OnStaff \cup OnBranch /\ Continues(req[w], req'[w])
      /\ req'[w].pc # "commit"
  BY <1>1 DEF OnStaff, OnBranch, OnLogin, Continues, Free
<1>3. /\ UNCHANGED branch /\ staff' = staff /\ mixed' = mixed /\ \A s \in Staff : RowStays(s)
  <2>1. CASE UNCHANGED <<tables, switches, mixed>>
    BY <2>1 DEF RowStays, tables, switches
  <2>2. CASE \E s \in Staff, c \in Codes \cup {NoCode} : Coded(s, c)
    BY <2>2 DEF RowStays, Coded, switches
  <2> QED
    BY <1>1, <2>1, <2>2
<1> QED
  BY <1>1, <1>2, <1>3, StillRows

\* Whom a request about a branch concerns, and whom it does not.
LEMMA BranchOwn ==
  ASSUME OfficeTypeInv, NEW s \in Staff, Exists(s), RowInv(s), NEW w \in Workers,
         req[w].kind \in OnBranch
  PROVE  /\ Busy(s, w) => staff[s].branch = req[w].b /\ Agree(login[s], staff[s])
         /\ ~Busy(s, w) => /\ staff[s].branch # req[w].b /\ login[s].branch # req[w].b
                           /\ ~Finds(s, req[w])
                           /\ req[w].pc = "commit" => s \notin req[w].listed
<1>0. OnStaff \cap OnBranch = {}
  BY DEF OnStaff, OnBranch
<1>1. \A v \in Workers : \A b : Into(req[v], s, b) => Busy(s, v) /\ req[v].kind \in OnStaff
  BY DEF Into, Busy, Touches, OnStaff
<1>2. ASSUME Busy(s, w)
      PROVE  staff[s].branch = req[w].b /\ Agree(login[s], staff[s])
  <2>1. \A v \in Workers : ~Into(req[v], s, req[w].b)
    BY <1>0, <1>1, <1>2 DEF RowInv, OnlyOne
  <2>2. staff[s].branch = req[w].b
    BY <1>0, <1>2, <2>1 DEF Busy, Touches
  <2>3. ~HalfSaved(req[w])
    BY HalfIs DEF OnBranch
  <2> QED
    BY <1>2, <2>2, <2>3 DEF RowInv, Halves, Half
<1>3. ASSUME ~Busy(s, w)
      PROVE  /\ staff[s].branch # req[w].b /\ login[s].branch # req[w].b /\ ~Finds(s, req[w])
             /\ req[w].pc = "commit" => s \notin req[w].listed
  <2>1. /\ staff[s].branch # req[w].b
        /\ \A v \in Workers : ~Into(req[v], s, req[w].b)
    BY <1>3 DEF Busy, Touches
  <2>2. ~Finds(s, req[w])
    BY <2>1 DEF Finds
  <2>3. login[s].branch # req[w].b
    <3>1. CASE \A v \in Workers : ~Busy(s, v)
      BY <2>1, <3>1 DEF RowInv, Left, Agree, Agreed
    <3>2. CASE \E v \in Workers : Busy(s, v)
      <4> PICK v \in Workers : Busy(s, v)
        BY <3>2
      <4>1. Half(s, req[v])
        BY DEF RowInv, Halves
      <4>2. CASE Agree(login[s], staff[s])
        BY <2>1, <4>2 DEF Agree, Agreed
      <4>3. CASE req[v].kind = "edit" /\ req[v].pc = "staff"
        <5>1. req[v].s = s
          BY <4>3 DEF Busy, Touches, OnBranch
        <5> PICK change \in Changes : change = req[v].change
          BY <4>3, AskIs DEF Edits
        <5> PICK p \in StaffRow : p = staff[s]
          BY StaffIs
        <5>2. login[s].branch = Apply(change, p).branch
          BY <4>1, <4>3 DEF Half, Agree, Agreed
        <5>3. \/ Apply(change, p).branch = p.branch
              \/ "branch" \in DOMAIN change /\ Apply(change, p).branch = change.branch
          BY ApplyBranch
        <5> QED
          BY <2>1, <4>3, <5>1, <5>2, <5>3 DEF Into
      <4>4. CASE HalfSaved(req[v]) /\ ~(req[v].kind = "edit" /\ req[v].pc = "staff")
        BY <2>1, <4>1, <4>4, HalfIs DEF Half, Agreed
      <4> QED
        BY <4>1, <4>2, <4>3, <4>4 DEF Half
    <3> QED
      BY <3>1, <3>2
  <2> QED
    BY <2>1, <2>2, <2>3 DEF RowInv, ListedRight
<1> QED
  BY <1>2, <1>3

\* A request about a branch is done.
LEMMA BranchRows ==
  ASSUME OfficeTypeInv, OfficeTypeInv', RowsInv, NEW w \in Workers, OtherWorkers(w),
         req[w].kind \in OnBranch, req'[w] = Free, mixed \subseteq mixed',
         \A c \in Branches \ {req[w].b} : branch'[c] = branch[c],
         \A s \in Staff : Exists(s)' => Exists(s),
         \A s \in Staff : Exists(s) /\ s \notin mixed' /\ RowInv(s) =>
           IF Busy(s, w)
           THEN staff'[s].branch = staff[s].branch /\ Agree(login[s], staff[s])' /\ OffRight(s)'
           ELSE RowStays(s)
  PROVE  RowsInv'
<1>1. Continues(req[w], req'[w]) /\ req'[w].pc # "commit" /\ req'[w].kind # "switch"
      /\ \A s \in Staff : \A b : ~Into(req'[w], s, b)
  BY DEF Continues, Free, Into
<1>2. ASSUME NEW s \in Staff, Exists(s), s \notin mixed', RowInv(s)
      PROVE  RowInv(s)'
  <2>1. CASE Busy(s, w)
    <3>1. ~Busy(s, w)'
      BY DEF Busy, Touches, Free, OnStaff, OnBranch
    <3> QED
      BY <1>1, <1>2, <2>1, <3>1, BusyStep
  <2>2. CASE ~Busy(s, w)
    BY <1>1, <1>2, <2>2, AwayStep
  <2> QED
    BY <2>1, <2>2
<1>3. RowsKept
  BY <1>2 DEF RowsKept, RowsInv
<1> QED
  BY <1>3, KeptRows

LEMMA ListRows ==
  ASSUME OfficeTypeInv, RowsInv, NEW w \in Workers, ListStaff(w)
  PROVE  RowsInv'
<1>1. /\ OfficeTypeInv' /\ OtherWorkers(w) /\ UNCHANGED <<tables, switches, mixed>>
      /\ req[w] \in Switches /\ req[w].pc = "list"
      /\ req'[w] \in Switches /\ req'[w].kind = req[w].kind /\ req'[w].pc = "commit"
      /\ req'[w].b = req[w].b /\ req'[w].to = req[w].to /\ req'[w].listed = Whom(req[w])
  BY ListStaffDoes
<1>2. req[w].kind \in OnBranch /\ req[w].kind \notin OnStaff /\ req[w].kind # "edit"
  BY <1>1 DEF Switches, OnBranch, OnStaff
<1>3. Continues(req[w], req'[w]) /\ UNCHANGED branch /\ staff' = staff /\ login' = login
  BY <1>1, <1>2 DEF Continues, tables
<1>4. ASSUME NEW s \in Staff, Exists(s), RowInv(s)
      PROVE  RowInv(s)'
  <2>1. RowStays(s)
    BY <1>1, <1>3 DEF RowStays, switches
  <2>2. s \in req'[w].listed <=> Finds(s, req[w])'
    <3>1. s \in req'[w].listed <=> Finds(s, req[w])
      BY <1>1, WhomIs
    <3> QED
      BY <1>1, <1>3, <3>1 DEF Finds, Exists
  <2>3. CASE ~Busy(s, w)
    BY <1>1, <1>3, <1>4, <2>1, <2>2, <2>3, AwayStep
  <2>4. CASE Busy(s, w)
    <3>1. staff[s].branch = req[w].b /\ Agree(login[s], staff[s])
      BY <1>2, <1>4, <2>4, BranchOwn
    <3> PICK q : q = req'[w]
      OBVIOUS
    <3>2. Half(s, q)
      BY <1>1, <1>2, <3>1, HalfIs DEF Half, OnStaff
    <3>3. Half(s, req[w])' /\ Agree(login[s], staff[s])' /\ OffRight(s)'
      BY <1>4, <2>1, <3>1, <3>2, RowStaysMeans DEF RowInv
    <3>4. req[w].kind = "switch" => req[w].to = ~branch[req[w].b].active
      BY <1>4, <3>1 DEF RowInv, SwitchRight
    <3>5. \A b : ~Into(req'[w], s, b)
      BY <1>1, <1>2 DEF Into
    <3>6. req'[w].kind = "switch" => req'[w].to = ~branch'[req'[w].b].active
      BY <1>1, <1>3, <3>4
    <3> QED
      BY <1>1, <1>3, <1>4, <2>2, <2>4, <3>3, <3>5, <3>6, BusyStep
  <2> QED
    BY <2>3, <2>4
<1>5. mixed' = mixed
  BY <1>1
<1>6. RowsKept
  BY <1>4, <1>5 DEF RowsKept, RowsInv
<1> QED
  BY <1>3, <1>5, <1>6, KeptRows DEF Exists

LEMMA SaveBranchRows ==
  ASSUME OfficeTypeInv, RowsInv, NEW w \in Workers, SaveBranch(w)
  PROVE  RowsInv'
<1>1. /\ OfficeTypeInv' /\ OtherWorkers(w) /\ UNCHANGED <<staff, login, switches, mixed>>
      /\ req[w].kind = "amend" /\ req'[w] = Free
      /\ \A c \in Branches \ {req[w].b} : branch'[c] = branch[c]
  BY SaveBranchDoes
<1>2. req[w].kind \in OnBranch
  BY <1>1 DEF OnBranch
<1>3. ASSUME NEW s \in Staff, Exists(s), RowInv(s)
      PROVE  /\ RowStays(s)
             /\ Busy(s, w) => staff'[s].branch = staff[s].branch /\ Agree(login[s], staff[s])' /\ OffRight(s)'
  <2>1. RowStays(s)
    BY <1>1 DEF RowStays, switches
  <2>2. Busy(s, w) => Agree(login[s], staff[s])
    BY <1>2, <1>3, BranchOwn
  <2> QED
    BY <1>1, <1>3, <2>1, <2>2, RowStaysMeans DEF RowInv
<1> QED
  BY <1>1, <1>2, <1>3, BranchRows DEF Exists

LEMMA CommitSwitchRows ==
  ASSUME OfficeTypeInv, RowsInv, NEW w \in Workers, CommitSwitch(w)
  PROVE  RowsInv'
<1> PICK b \in Branches, to \in BOOLEAN : b = req[w].b /\ to = req[w].to
  BY CommitSwitchDoes DEF Switches
<1>1. /\ OfficeTypeInv' /\ OtherWorkers(w) /\ mixed' = mixed
      /\ req[w].kind = "switch" /\ req[w].pc = "commit" /\ req'[w] = Free
      /\ \A c \in Branches \ {b} : branch'[c] = branch[c]
  BY CommitSwitchDoes
<1>2. /\ \A s \in Found(b, to) :
           /\ staff'[s] = [staff[s] EXCEPT !.active = to, !.byBranch = ~to]
           /\ offBy'[s] = (IF to THEN "nobody" ELSE b) /\ s \notin relit'
      /\ \A s \in Staff \ Found(b, to) :
           staff'[s] = staff[s] /\ offBy'[s] = offBy[s] /\ (s \in relit' <=> s \in relit)
      /\ \A s \in req[w].listed : login'[s] = [login[s] EXCEPT !.active = to]
      /\ \A s \in Staff \ req[w].listed : login'[s] = login[s]
  <2>1. /\ \A s \in Found(req[w].b, req[w].to) :
             /\ staff'[s] = [staff[s] EXCEPT !.active = req[w].to, !.byBranch = ~req[w].to]
             /\ offBy'[s] = (IF req[w].to THEN "nobody" ELSE req[w].b) /\ s \notin relit'
        /\ \A s \in Staff \ Found(req[w].b, req[w].to) :
             staff'[s] = staff[s] /\ offBy'[s] = offBy[s] /\ (s \in relit' <=> s \in relit)
    BY CommitSwitchDoes
  <2>2. /\ \A s \in req[w].listed : login'[s] = [login[s] EXCEPT !.active = req[w].to]
        /\ \A s \in Staff \ req[w].listed : login'[s] = login[s]
    BY CommitSwitchDoes
  <2> QED
    BY <2>1, <2>2
<1>3. req[w].kind \in OnBranch
  BY <1>1 DEF OnBranch
<1>4. ASSUME NEW s \in Staff, Exists(s), RowInv(s)
      PROVE  IF Busy(s, w)
             THEN staff'[s].branch = staff[s].branch /\ Agree(login[s], staff[s])' /\ OffRight(s)'
             ELSE RowStays(s)
  <2> PICK p \in StaffRow, l \in LoginRow : p = staff[s] /\ l = login[s]
    BY <1>4, StaffIs
  <2>1. s \in Found(b, to) <=> Finds(s, req[w])
    BY <1>1, WhomIs DEF Whom
  <2>2. s \in req[w].listed <=> Finds(s, req[w])
    BY <1>1, <1>4 DEF RowInv, ListedRight
  <2>3. CASE ~Finds(s, req[w])
    <3>1. RowStays(s)
      BY <1>2, <2>1, <2>2, <2>3 DEF RowStays
    <3>2. Busy(s, w) => Agree(login[s], staff[s])
      BY <1>3, <1>4, BranchOwn
    <3>3. Busy(s, w) => Agree(login[s], staff[s])' /\ OffRight(s)' /\ staff'[s].branch = staff[s].branch
      BY <1>4, <3>1, <3>2, RowStaysMeans DEF RowInv, RowStays
    <3> QED
      BY <3>1, <3>3
  <2>4. CASE Finds(s, req[w])
    <3>1. Busy(s, w) /\ Agree(login[s], staff[s])
      BY <1>3, <1>4, <2>4, BranchOwn
    <3>2. /\ staff'[s] = [p EXCEPT !.active = to, !.byBranch = ~to]
          /\ login'[s] = [l EXCEPT !.active = to]
          /\ offBy'[s] = (IF to THEN "nobody" ELSE b) /\ s \notin relit'
      BY <1>2, <2>1, <2>2, <2>4
    <3>3. /\ staff'[s].mobile = p.mobile /\ staff'[s].branch = p.branch
          /\ staff'[s].deleted = p.deleted /\ staff'[s].active = to /\ staff'[s].byBranch = ~to
          /\ login'[s].mobile = l.mobile /\ login'[s].branch = l.branch /\ login'[s].active = to
      BY <3>2 DEF StaffRow, LoginRow
    <3>4. Agree(login[s], staff[s])'
      BY <3>1, <3>3 DEF Agree, Agreed
    <3>5. OffRight(s)'
      BY <3>2, <3>3, OfficeAssumption DEF OffRight
    <3> QED
      BY <3>1, <3>3, <3>4, <3>5
  <2> QED
    BY <2>3, <2>4
<1>5. ASSUME NEW s \in Staff, Exists(s)'
      PROVE  Exists(s)
  <2>1. CASE s \in Found(b, to)
    BY <2>1, BranchStaff
  <2>2. CASE s \notin Found(b, to)
    <3>1. staff'[s] = staff[s]
      BY <1>2, <2>2
    <3> QED
      BY <1>5, <3>1 DEF Exists
  <2> QED
    BY <2>1, <2>2
<1> QED
  BY <1>1, <1>3, <1>4, <1>5, BranchRows

LEMMA CommitCloseRows ==
  ASSUME OfficeTypeInv, RowsInv, NEW w \in Workers, CommitClose(w)
  PROVE  RowsInv'
<1> PICK b \in Branches, L \in SUBSET Staff : b = req[w].b /\ L = req[w].listed
  BY CommitCloseDoes DEF Switches
<1>1. /\ OfficeTypeInv' /\ OtherWorkers(w) /\ mixed' = mixed /\ relit' = relit
      /\ req[w].kind = "close" /\ req[w].pc = "commit" /\ req'[w] = Free
      /\ \A c \in Branches \ {b} : branch'[c] = branch[c]
  BY CommitCloseDoes
<1>2. /\ \A s \in L : staff'[s] = ReleasedStaff(s) /\ login'[s] = ReleasedLogin(s)
      /\ \A s \in Staff \ L : staff'[s] = staff[s]
      /\ \A s \in Staff \ L :
           IF Exists(s) /\ login[s].branch = b
           THEN login'[s] = [login[s] EXCEPT !.active = FALSE]
           ELSE login'[s] = login[s]
      /\ \A s \in Staff : offBy'[s] = IF s \in L /\ staff[s].active THEN "office" ELSE offBy[s]
  BY CommitCloseDoes
<1>3. req[w].kind \in OnBranch
  BY <1>1 DEF OnBranch
<1>4. ASSUME NEW s \in Staff, Exists(s), RowInv(s)
      PROVE  IF Busy(s, w)
             THEN staff'[s].branch = staff[s].branch /\ Agree(login[s], staff[s])' /\ OffRight(s)'
             ELSE RowStays(s)
  <2> PICK p \in StaffRow, l \in LoginRow : p = staff[s] /\ l = login[s]
    BY <1>4, StaffIs
  <2>1. s \in L <=> Finds(s, req[w])
    BY <1>1, <1>4 DEF RowInv, ListedRight
  <2>2. CASE ~Busy(s, w)
    <3>1. s \notin L /\ login[s].branch # b
      BY <1>1, <1>3, <1>4, <2>2, BranchOwn
    <3> QED
      BY <1>1, <1>2, <2>2, <3>1 DEF RowStays
  <2>3. CASE Busy(s, w)
    <3>1. p.branch = b /\ Agree(l, p)
      BY <1>3, <1>4, <2>3, BranchOwn
    <3>2. OffRight(s)
      BY <1>4 DEF RowInv
    <3>3. CASE s \in L
      <4>1. /\ staff'[s] = [p EXCEPT !.mobile = Tomb(s), !.active = FALSE, !.deleted = TRUE]
            /\ login'[s] = [l EXCEPT !.mobile = Tomb(s), !.active = FALSE]
        BY <1>2, <3>3 DEF ReleasedStaff, ReleasedLogin
      <4>2. /\ staff'[s].mobile = Tomb(s) /\ staff'[s].branch = p.branch
            /\ staff'[s].active = FALSE /\ staff'[s].byBranch = p.byBranch
            /\ login'[s].mobile = Tomb(s) /\ login'[s].branch = l.branch
            /\ login'[s].active = FALSE
        BY <4>1 DEF StaffRow, LoginRow
      <4>3. Agree(login[s], staff[s])'
        BY <3>1, <4>2 DEF Agree, Agreed
      <4>4. offBy'[s] = (IF p.active THEN "office" ELSE offBy[s]) /\ p.active \in BOOLEAN
        BY <1>2, <3>3 DEF StaffRow
      <4>5. OffRight(s)'
        BY <1>1, <3>2, <4>2, <4>4, OfficeAssumption DEF OffRight
      <4> QED
        BY <2>3, <4>2, <4>3, <4>5, SMTT(30)
    <3>4. CASE s \notin L
      <4>1. p.deleted
        BY <1>1, <1>4, <2>1, <3>1, <3>4 DEF Finds, StaffRow
      <4>2. staff'[s] = p /\ offBy'[s] = offBy[s] /\ login'[s] = [l EXCEPT !.active = FALSE]
        BY <1>2, <1>4, <3>1, <3>4 DEF Agree, Agreed
      <4>3. login'[s].mobile = l.mobile /\ login'[s].branch = l.branch /\ login'[s].active = FALSE
        BY <4>2 DEF LoginRow
      <4>4. Agree(login[s], staff[s])'
        BY <3>1, <4>1, <4>2, <4>3 DEF Agree, Agreed
      <4>5. OffRight(s)'
        BY <1>1, <3>2, <4>2 DEF OffRight
      <4> QED
        BY <2>3, <4>2, <4>4, <4>5
    <3> QED
      BY <3>3, <3>4
  <2> QED
    BY <2>2, <2>3
<1>5. \A s \in Staff : Exists(s)' => Exists(s)
  <2>1. \A s \in L : Exists(s)
    BY AskIs, CommitCloseDoes DEF Sound, Switches
  <2> QED
    BY <1>2, <2>1 DEF Exists
<1> QED
  BY <1>1, <1>3, <1>4, <1>5, BranchRows

LEMMA BreakOffRows ==
  ASSUME OfficeTypeInv, RowsInv, NEW w \in Workers, BreakOff(w)
  PROVE  RowsInv'
<1>1. /\ OfficeTypeInv' /\ OtherWorkers(w) /\ UNCHANGED <<tables, switches>> /\ req'[w] = Free
      /\ mixed' = IF HalfSaved(req[w]) THEN mixed \cup {req[w].s} ELSE mixed
  BY BreakOffDoes
<1>2. /\ UNCHANGED branch /\ staff' = staff /\ login' = login /\ mixed \subseteq mixed'
      /\ \A s \in Staff : RowStays(s)
  BY <1>1 DEF tables, switches, RowStays
<1>3. Continues(req[w], req'[w]) /\ req'[w].pc # "commit" /\ req'[w].kind # "edit"
  BY <1>1 DEF Continues, Free
<1>4. CASE req[w].kind \in OnStaff
  <2> PICK s \in Staff : s = req[w].s /\ Exists(s)
    BY <1>4, AskedIs
  <2>1. ASSUME s \notin mixed', RowInv(s)
        PROVE  staff'[s].branch = staff[s].branch /\ OffRight(s)' /\ Agree(login[s], staff[s])'
    <3>1. Half(s, req[w])
      BY <1>4, <2>1 DEF RowInv, Halves, Busy, Touches
    <3>2. ~HalfSaved(req[w])
      BY <1>1, <2>1
    <3>3. Agree(login[s], staff[s])
      BY <3>1, <3>2 DEF Half
    <3> QED
      BY <1>2, <2>1, <3>3, RowStaysMeans DEF RowInv
  <2> QED
    BY <1>1, <1>2, <1>3, <1>4, <2>1, OwnRows
<1>5. CASE req[w].kind \in OnBranch
  <2>1. ASSUME NEW s \in Staff, Exists(s), RowInv(s)
        PROVE  Busy(s, w) =>
                 staff'[s].branch = staff[s].branch /\ Agree(login[s], staff[s])' /\ OffRight(s)'
    <3>1. Busy(s, w) => Agree(login[s], staff[s])
      BY <1>5, <2>1, BranchOwn
    <3> QED
      BY <1>2, <2>1, <3>1, RowStaysMeans DEF RowInv
  <2> QED
    BY <1>1, <1>2, <1>5, <2>1, BranchRows DEF Exists
<1>6. CASE req[w].kind \notin OnStaff \cup OnBranch
  BY <1>1, <1>2, <1>3, <1>6, StillRows
<1> QED
  BY <1>4, <1>5, <1>6

\* What leaves rows, branches and requests alone.
LEMMA QuietRows ==
  ASSUME RowsInv, UNCHANGED <<staff, login, branch, switches, mixed, req>>
  PROVE  RowsInv'
<1>1. staff' = staff /\ login' = login /\ branch' = branch /\ mixed' = mixed /\ req' = req
      /\ offBy' = offBy /\ relit' = relit
  BY DEF switches
<1>2. ASSUME NEW s \in Staff \ mixed, Exists(s)
      PROVE  RowInv(s)'
  <2>1. RowInv(s)
    BY <1>2 DEF RowsInv
  <2>2. OnlyOne(s)' /\ Left(s)' /\ SwitchRight(s)'
    BY <1>1, <2>1 DEF RowInv, OnlyOne, Left, SwitchRight, Busy, Touches, Agree, Agreed
  <2>3. \A w \in Workers : Busy(s, w)' <=> Busy(s, w)
    BY <1>1 DEF Busy, Touches
  <2>4. RowStays(s)
    BY <1>1 DEF RowStays
  <2>5. ListedRight(s)'
    BY <1>1, <2>1 DEF RowInv, ListedRight, Finds, Exists
  <2>6. Halves(s)'
    BY <1>1, <2>1, <2>3 DEF RowInv, Halves, Half, Agree, Agreed, Apply
  <2>7. OffRight(s)'
    BY <1>1, <2>1 DEF RowInv, OffRight
  <2> QED
    BY <2>2, <2>5, <2>6, <2>7 DEF RowInv
<1> QED
  BY <1>1, <1>2 DEF RowsInv, Exists

LEMMA RowsInit ==
  ASSUME OfficeInit
  PROVE  RowsInv
<1> SUFFICES ASSUME NEW s \in Staff, Exists(s)
             PROVE  RowInv(s)
  BY DEF RowsInv
<1>1. \A w \in Workers : req[w] = Free
  BY DEF OfficeInit
<1>2. \A w \in Workers : ~Busy(s, w)
  BY <1>1 DEF Busy, Touches, Free, OnStaff, OnBranch
<1>3. /\ staff[s] = NewStaff(FirstMobile[s], FirstBranch)
      /\ login[s] = NewLogin(FirstMobile[s], FirstBranch)
  BY FirstRows
<1>4. Agree(login[s], staff[s])
  BY <1>3 DEF Agree, Agreed, NewStaff, NewLogin
<1>5. OffRight(s)
  BY <1>3, OfficeAssumption DEF OfficeInit, OffRight, NewStaff
<1>6. ListedRight(s) /\ SwitchRight(s)
  BY <1>1 DEF ListedRight, SwitchRight, Free
<1> QED
  BY <1>2, <1>4, <1>5, <1>6 DEF RowInv, OnlyOne, Halves, Left

LEMMA RowsNext ==
  ASSUME OfficeTypeInv, RowsInv, [OfficeNext]_officeVars
  PROVE  RowsInv'
<1>1. ASSUME NEW w \in Workers, Take(w)
      PROVE  RowsInv'
  BY <1>1, TakeRows
<1>2. ASSUME NEW w \in Workers, StaffStep(w)
      PROVE  RowsInv'
  BY <1>2, InsertRows, EditRows, ToggleRows, ReleaseRows, PhoneRows DEF StaffStep
<1>3. ASSUME NEW w \in Workers, BranchStep(w)
      PROVE  RowsInv'
  BY <1>3, ListRows, CommitSwitchRows, CommitCloseRows, SaveBranchRows DEF BranchStep
<1>4. ASSUME NEW w \in Workers, LoginStep(w)
      PROVE  RowsInv'
  BY <1>4, LoginRows
<1>5. ASSUME NEW w \in Workers, BreakOff(w)
      PROVE  RowsInv'
  BY <1>5, BreakOffRows
<1>6. ASSUME Beside
      PROVE  RowsInv'
  BY <1>6, BesideTypes, QuietRows DEF tables
<1>7. ASSUME UNCHANGED officeVars
      PROVE  RowsInv'
  BY <1>7, QuietRows DEF officeVars, tables
<1> QED
  BY <1>1, <1>2, <1>3, <1>4, <1>5, <1>6, <1>7 DEF OfficeNext, Beside

LEMMA RowsFollow ==
  ASSUME OfficeTypeInv, RowsInv
  PROVE  LoginFollowsStaff
<1> SUFFICES ASSUME NEW s \in Staff \ mixed, Exists(s), \A w \in Workers : s \notin Concerned(req, w)
             PROVE  /\ login[s].mobile = staff[s].mobile
                    /\ login[s].branch = staff[s].branch
                    /\ login[s].active => staff[s].active
                    /\ staff[s].active => login[s].active \/ staff[s].deleted
  BY DEF LoginFollowsStaff
<1>1. \A w \in Workers : ~Busy(s, w)
  BY TouchesIs DEF Busy
<1> QED
  BY <1>1 DEF RowsInv, RowInv, Left, Agree, Agreed

\* Login and row of the staff agree as soon as nobody works on them, however the saves of
\* edits, toggles, deletions, new numbers, switched and closed branches interleave and
\* break off, exempt those two requests met on or one left half saved (StaffSerializer,
\* StaffViewSet, BranchViewSet, AdminChangePhoneVerifyOTPView).
THEOREM LoginsFollow == OfficeSpec => []LoginFollowsStaff
  BY RowsFollow, OfficeTypeInit, OfficeTypeNext, RowsInit, RowsNext, PTL DEF OfficeSpec

\* A request that is done is so by a step of its own.
LEMMA StepsOwn ==
  ASSUME OfficeTypeInv, NEW v \in Workers,
         Take(v) \/ StaffStep(v) \/ BranchStep(v) \/ LoginStep(v) \/ BreakOff(v)
  PROVE  OtherWorkers(v)
<1>1. CASE Take(v)
  BY <1>1, TakeDoes, OpenTypes
<1>2. CASE StaffStep(v)
  BY <1>2, InsertStaffDoes, EditLoginDoes, EditStaffDoes, ToggleStaffDoes, ToggleLoginDoes,
     ReleaseStaffDoes, ReleaseLoginDoes, PhoneLoginDoes, PhoneStaffDoes, DropOfferDoes, ZenonT(40)
     DEF StaffStep, Aside
<1>3. CASE BranchStep(v)
  BY <1>3, ListStaffDoes, CommitSwitchDoes, CommitCloseDoes, SaveBranchDoes DEF BranchStep
<1>4. CASE LoginStep(v)
  BY <1>4, SaveCodeDoes, ForgetTriesDoes, ClearCodeDoes, CountTryDoes, PutTryDoes, AcceptCodeDoes,
     ResetTriesDoes DEF LoginStep
<1>5. CASE BreakOff(v)
  BY <1>5, BreakOffDoes
<1> QED
  BY <1>1, <1>2, <1>3, <1>4, <1>5

LEMMA SwitchEnds ==
  ASSUME OfficeTypeInv, OfficeNext, NEW w \in Workers, Doing(w, "switch", "commit"), req'[w] = Free
  PROVE  CommitSwitch(w) \/ BreakOff(w)
<1>1. req[w].kind = "switch" /\ req[w].pc = "commit" /\ req'[w] # req[w]
  BY DEF Doing, Free
<1>2. ASSUME NEW v \in Workers, Take(v) \/ StaffStep(v) \/ BranchStep(v) \/ LoginStep(v) \/ BreakOff(v)
      PROVE  v = w
  BY <1>1, <1>2, StepsOwn DEF OtherWorkers
<1>3. ~Beside
  BY <1>1, BesideTypes
<1>4. ~Take(w)
  BY <1>1, TakeOpens DEF Open, Free
<1>5. ~StaffStep(w)
  BY <1>1 DEF StaffStep, InsertStaff, EditLogin, EditStaff, ToggleStaff, ToggleLogin, ReleaseStaff,
     ReleaseLogin, PhoneLogin, PhoneStaff, DropOffer, Doing
<1>6. ~LoginStep(w)
  BY <1>1 DEF LoginStep, SaveCode, ForgetTries, ClearCode, CountTry, PutTry, AcceptCode, ResetTries, Doing
<1>7. BranchStep(w) => CommitSwitch(w)
  BY <1>1 DEF BranchStep, ListStaff, CommitClose, SaveBranch, Doing
<1> QED
  BY <1>2, <1>3, <1>4, <1>5, <1>6, <1>7 DEF OfficeNext, Beside

Restored(s, b) ==
  /\ offBy[s] = b => staff'[s].active /\ login'[s].active
  /\ offBy[s] = "office" /\ s \notin relit => ~staff'[s].active

LEMMA SwitchRestores ==
  ASSUME OfficeTypeInv, RowsInv, OfficeNext, NEW w \in Workers, Doing(w, "switch", "commit"),
         req[w].to, req'[w] = Free, branch'[req[w].b].active,
         NEW s \in InBranch(req[w].b) \ mixed
  PROVE  Restored(s, req[w].b)
<1>b. req[w].b \in Branches /\ "office" \notin Branches
  <2>1. req[w] \in Request \cup {Free} /\ req[w].kind = "switch"
    BY DEF OfficeTypeInv, OfficeTypeOK, Doing
  <2>2. req[w] \in Switches
    BY <2>1, KindIs
  <2>3. req[w].b \in Branches
    BY <2>2 DEF Switches
  <2> QED
    BY <2>3, OfficeAssumption
<1>1. s \in Staff /\ Exists(s) /\ staff[s].branch = req[w].b /\ ~staff[s].deleted
  BY DEF InBranch
<1>2. RowInv(s)
  BY <1>1 DEF RowsInv
<1>3. req[w].kind = "switch" /\ req[w].pc = "commit"
  BY DEF Doing
<1>4. CASE BreakOff(w)
  <2>1. branch' = branch
    BY <1>4, BreakOffDoes DEF tables
  <2>2. req[w].to = ~branch[req[w].b].active
    BY <1>1, <1>2, <1>3 DEF RowInv, SwitchRight
  <2> QED
    BY <2>1, <2>2
<1>5. CASE CommitSwitch(w)
  <2> PICK p \in StaffRow, l \in LoginRow : p = staff[s] /\ l = login[s]
    BY <1>1, StaffIs
  <2>1. /\ s \in Found(req[w].b, req[w].to) <=> Finds(s, req[w])
        /\ s \in req[w].listed <=> Finds(s, req[w])
        /\ Finds(s, req[w]) <=> p.byBranch
    <3>1. s \in Found(req[w].b, req[w].to) <=> Finds(s, req[w])
      BY <1>1, <1>3, WhomIs DEF Whom
    <3>2. s \in req[w].listed <=> Finds(s, req[w])
      BY <1>2, <1>3 DEF RowInv, ListedRight
    <3> QED
      BY <1>1, <1>3, <3>1, <3>2 DEF Finds
  <2>2. CASE p.byBranch
    <3>1. staff'[s] = [staff[s] EXCEPT !.active = req[w].to, !.byBranch = ~req[w].to]
      BY <1>5, <2>1, <2>2, CommitSwitchDoes
    <3>2. login'[s] = [login[s] EXCEPT !.active = req[w].to]
      <4>1. \A t \in req[w].listed : login'[t] = [login[t] EXCEPT !.active = req[w].to]
        BY <1>5, CommitSwitchDoes
      <4> QED
        BY <2>1, <2>2, <4>1
    <3>3. staff'[s].active = req[w].to /\ login'[s].active = req[w].to
      BY <3>1, <3>2 DEF StaffRow, LoginRow
    <3> QED
      BY <1>b, <1>2, <2>2, <3>3 DEF RowInv, OffRight, Restored
  <2>3. CASE ~p.byBranch
    <3>1. staff'[s] = staff[s]
      BY <1>1, <1>5, <2>1, <2>3, CommitSwitchDoes
    <3> QED
      BY <1>b, <1>2, <2>3, <3>1 DEF RowInv, OffRight, Restored
  <2> QED
    BY <2>2, <2>3
<1> QED
  BY <1>4, <1>5, SwitchEnds

\* A branch that is switched on gets back those it took out with it, their logins too, and
\* nobody the office had switched off, whatever toggles, edits and deletions of its staff
\* came between listing and switching them (BranchViewSet.toggle_status).
THEOREM BranchesRestore == OfficeSpec => BranchRestores
<1>1. OfficeTypeInv /\ RowsInv /\ [OfficeNext]_officeVars =>
        [\A w \in Workers :
           Doing(w, "switch", "commit") /\ req[w].to /\ req'[w] = Free /\ branch'[req[w].b].active =>
             \A s \in InBranch(req[w].b) \ mixed :
               /\ offBy[s] = req[w].b => staff'[s].active /\ login'[s].active
               /\ offBy[s] = "office" /\ s \notin relit => ~staff'[s].active]_officeVars
  BY SwitchRestores DEF Restored
<1> QED
  BY <1>1, OfficeTypeInit, OfficeTypeNext, RowsInit, RowsNext, PTL DEF OfficeSpec, BranchRestores

===========================================================================
