\* Two uploads, imported in requests and by a Celery worker, with one failure.
SPECIFICATION LiveSpec
CONSTANTS
  n1 = n1
  t1 = t1
  t2 = t2
  r1 = r1
  Phones = {n1}
  Batches <- SomeBatches
  MaxJobs = 2
  MaxRequests = 2
  MaxFaults = 1
  Threads = {t1, t2}
  Runners = {r1}
INVARIANTS RowImportedOnce ReportAddsUp
PROPERTIES CompletedStays JobsEnd
\* MaxJobs ends the behaviours.
CHECK_DEADLOCK FALSE
