--------------------------- MODULE ReportJobsProofs ---------------------------
(***************************************************************************)
(* Proofs about ReportJobs, for every number of jobs, workers, recovery    *)
(* passes, attempts, messages and faults.                                  *)
(***************************************************************************)
EXTENDS ReportJobs, FiniteSetTheorems, TLAPS

-----------------------------------------------------------------------------
(* The state between steps                                                  *)

\* A worker that has taken a message knows the job the message named.
WorkerNamesItsJob ==
    \A w \in Workers : worker[w].phase \in {"claimed", "working", "ended"} => worker[w].job \in Jobs

\* Variables hold values of their domains and busy workers a job.
TypeInv == TypeOK /\ WorkerNamesItsJob

LEMMA PublishedType ==
    ASSUME msgs \in [Jobs -> 0 .. MaxMessages], NEW S
    PROVE  Published(S) \in [Jobs -> 0 .. MaxMessages]
BY BoundsAssumption DEF Published

\* A process that has read nothing yet is well typed.
LEMMA HoldingType ==
    ASSUME NEW phase \in {"idle", "claimed", "working", "ended", "dead"},
           NEW j \in Jobs \cup {NoJob}, NEW n \in Nat
    PROVE  Holding(phase, j, n) \in WorkerState
BY DEF Holding, WorkerState, Status

LEMMA InitTypeInv == Init => TypeInv
BY BoundsAssumption, NoJobAssumption
   DEF Init, TypeInv, TypeOK, WorkerNamesItsJob, JobRow, Status, Terminal, WorkerState, SweepState,
       AbsentRow, IdleWorker, Holding, IdleSweep

\* Each action keeps every variable in its domain.
LEMMA NextTypeInv == TypeInv /\ [Next]_vars => TypeInv'
<1> SUFFICES ASSUME TypeInv, [Next]_vars PROVE TypeInv'
  OBVIOUS
<1> USE BoundsAssumption, NoJobAssumption DEF TypeInv, TypeOK, WorkerNamesItsJob
<1>1. ASSUME NEW j \in Jobs, Create(j) PROVE TypeInv'
  BY <1>1, PublishedType DEF Create, JobRow, Status
<1>2. ASSUME NEW j \in Jobs, Republish(j) PROVE TypeInv'
  BY <1>2, PublishedType DEF Republish
<1>3. ASSUME NEW j \in Jobs, Age(j) PROVE TypeInv'
  BY <1>3 DEF Age, JobRow
<1>4. ASSUME NEW j \in Jobs, LoseMessage(j) PROVE TypeInv'
  BY <1>4 DEF LoseMessage
<1>5. ASSUME NEW w \in Workers, NEW j \in Jobs, Claim(w, j) PROVE TypeInv'
  <2>1. job' \in [Jobs -> JobRow]
    BY <1>5 DEF Claim, JobRow, Status
  <2>2. worker' \in [Workers -> WorkerState] /\ WorkerNamesItsJob'
    BY <1>5, HoldingType DEF Claim, JobRow, Holding
  <2> QED
    BY <1>5, <2>1, <2>2 DEF Claim
<1>6. ASSUME NEW w \in Workers, NEW j \in Jobs, Duplicate(w, j) PROVE TypeInv'
  <2>1. worker' \in [Workers -> WorkerState] /\ WorkerNamesItsJob'
    BY <1>6, HoldingType DEF Duplicate, Holding
  <2> QED
    BY <1>6, <2>1 DEF Duplicate
<1>7. ASSUME NEW w \in Workers, Load(w) PROVE TypeInv'
  <2>1. worker[w].job \in Jobs
    BY <1>7 DEF Load
  <2>2. job[worker[w].job].status \in Status /\ job[worker[w].job].attempts \in Nat
    BY <2>1 DEF JobRow
  <2> DEFINE loaded == [worker[w] EXCEPT !.phase = "working",
                                         !.seenStatus = job[worker[w].job].status,
                                         !.seenAttempts = job[worker[w].job].attempts]
  <2>3. loaded \in WorkerState /\ loaded.job = worker[w].job
    BY <2>2 DEF WorkerState
  <2>4. worker' = [worker EXCEPT ![w] = loaded]
    BY <1>7 DEF Load
  <2>5. worker' \in [Workers -> WorkerState] /\ WorkerNamesItsJob'
    BY <2>1, <2>3, <2>4
  <2> QED
    BY <1>7, <2>5 DEF Load
<1>8. ASSUME NEW w \in Workers, Succeed(w) PROVE TypeInv'
  <2>1. worker[w].job \in Jobs /\ worker[w].attempt \in Nat
    BY <1>8 DEF Succeed, WorkerState
  <2>2. job' \in [Jobs -> JobRow]
    BY <1>8, <2>1 DEF Succeed, JobRow, OrmWrite, Status, Terminal
  <2>3. worker' \in [Workers -> WorkerState] /\ WorkerNamesItsJob'
    BY <1>8 DEF Succeed, WorkerState
  <2> QED
    BY <1>8, <2>1, <2>2, <2>3 DEF Succeed
<1>9. ASSUME NEW w \in Workers, Fail(w) PROVE TypeInv'
  <2>1. worker[w].job \in Jobs
    BY <1>9 DEF Fail
  <2>2. job' \in [Jobs -> JobRow]
    <3>1. AfterFailure(worker[w].seenAttempts) \in Status
      BY DEF AfterFailure, Status, Terminal
    <3>2. job[worker[w].job] \in JobRow
      BY <2>1
    <3> QED
      BY <1>9, <2>1, <3>1, <3>2 DEF Fail, JobRow, OrmWrite
  <2>3. worker' \in [Workers -> WorkerState] /\ WorkerNamesItsJob'
    BY <1>9 DEF Fail, WorkerState
  <2> QED
    BY <1>9, <2>2, <2>3 DEF Fail
<1>10. ASSUME NEW w \in Workers, Abort(w) PROVE TypeInv'
  BY <1>10, HoldingType DEF Abort, IdleWorker, Holding
<1>11. ASSUME NEW w \in Workers, Return(w) PROVE TypeInv'
  BY <1>11, PublishedType, HoldingType DEF Return, IdleWorker, Holding
<1>12. ASSUME NEW w \in Workers, CrashWorker(w) PROVE TypeInv'
  BY <1>12, HoldingType DEF CrashWorker, IdleWorker, Holding
<1>13. ASSUME NEW w \in Workers, RestartWorker(w) PROVE TypeInv'
  BY <1>13, HoldingType DEF RestartWorker, IdleWorker, Holding
<1>14. ASSUME NEW s \in Sweepers, Scan(s) PROVE TypeInv'
  BY <1>14 DEF Scan, SweepState, JobRow
<1>15. ASSUME NEW s \in Sweepers, Recover(s) PROVE TypeInv'
  <2>1. \A n : AfterFailure(n) \in Status
    BY DEF AfterFailure, Status, Terminal
  <2>2. job' \in [Jobs -> JobRow]
    <3>1. \A j \in Jobs, n \in Nat : [job[j] EXCEPT !.status = AfterFailure(n)] \in JobRow
      BY <2>1 DEF JobRow
    <3>2. \A j \in Jobs : sweep[s].stuck[j] \in Nat
      BY DEF SweepState
    <3> QED
      BY <1>15, <3>1, <3>2 DEF Recover
  <2> QED
    BY <1>15, <2>2 DEF Recover, SweepState
<1>16. ASSUME NEW s \in Sweepers, PublishRecovered(s) PROVE TypeInv'
  BY <1>16, PublishedType DEF PublishRecovered, SweepState, IdleSweep
<1>17. ASSUME NEW s \in Sweepers, CrashSweeper(s) PROVE TypeInv'
  BY <1>17 DEF CrashSweeper, SweepState, IdleSweep
<1>18. ASSUME NEW gone \in SUBSET reports, DeleteReports(gone) PROVE TypeInv'
  <2>1. job' \in [Jobs -> JobRow]
    <3>1. \A j \in Jobs : [job[j] EXCEPT !.report = 0] \in JobRow
      BY DEF JobRow
    <3> QED
      BY <1>18, <3>1 DEF DeleteReports, Unlinked
  <2>2. reports' \in SUBSET (Jobs \X Nat) /\ deleted' \in SUBSET (Jobs \X Nat)
    BY <1>18 DEF DeleteReports
  <2> QED
    BY <1>18, <2>1, <2>2 DEF DeleteReports
<1>19. CASE UNCHANGED vars
  BY <1>19 DEF vars
<1> QED
  BY <1>1, <1>2, <1>3, <1>4, <1>5, <1>6, <1>7, <1>8, <1>9, <1>10, <1>11, <1>12, <1>13, <1>14,
     <1>15, <1>16, <1>17, <1>18, <1>19 DEF Next, Attempt, Pass

\* Type correctness: the rows, the messages and what every process has read stay
\* in their domains.
THEOREM TypeCorrect == Spec => []TypeOK
<1>1. Spec => []TypeInv
  BY InitTypeInv, NextTypeInv, PTL DEF Spec
<1>2. TypeInv => TypeOK
  BY DEF TypeInv
<1> QED
  BY <1>1, <1>2, PTL

-----------------------------------------------------------------------------
(* Attempts, however late their workers finish                              *)

\* A report, deleted since or not, was committed by an attempt the row has counted.
ReportsAreCounted == \A r \in reports \cup deleted : r[2] <= job[r[1]].attempts

\* What a worker or a pass has read of a row's attempts is at most what the row
\* counts now: the number only grows.
ReadsArePast ==
    /\ \A w \in Workers : worker[w].phase = "working"
                            => worker[w].seenAttempts <= job[worker[w].job].attempts
    /\ \A s \in Sweepers, j \in Jobs : sweep[s].stuck[j] <= job[j].attempts

\* Inductive: the first two conjuncts make a new claim's number fresh, the third
\* makes a decision taken on a stale number safe.
AttemptInv ==
    /\ AttemptRunsOnce
    /\ ReportsAreCounted
    /\ ReadsArePast
    /\ NoEarlyFailure
    /\ SucceededHasReport

LEMMA InitAttemptInv == Init => AttemptInv
BY DEF Init, AttemptInv, AttemptRunsOnce, Attempting, ReportsAreCounted, ReadsArePast,
       NoEarlyFailure, SucceededHasReport, AbsentRow, IdleWorker, Holding, IdleSweep

\* The ranges the arithmetic of the steps needs.
LEMMA Ranges ==
    ASSUME TypeInv
    PROVE  /\ \A j \in Jobs : /\ job[j].status \in Status
                              /\ job[j].attempts \in Nat
                              /\ job[j].report \in Nat
           /\ \A w \in Workers : worker[w].attempt \in Nat /\ worker[w].seenAttempts \in Nat
           /\ \A s \in Sweepers, j \in Jobs : sweep[s].stuck[j] \in Nat
           /\ \A r \in reports \cup deleted : r[1] \in Jobs /\ r[2] \in Nat
BY DEF TypeInv, TypeOK, JobRow, WorkerState, SweepState

\* A step that writes no row and no report, starts no attempt and reads only
\* what the rows hold now keeps the invariant.
LEMMA ReadOnlyStep ==
    ASSUME TypeInv, AttemptInv, UNCHANGED <<job, reports, deleted>>,
           \A w \in Workers : \/ worker'[w] = worker[w]
                              \/ worker'[w].phase \notin {"claimed", "working"},
           \A s \in Sweepers, j \in Jobs : \/ sweep'[s].stuck[j] = sweep[s].stuck[j]
                                           \/ sweep'[s].stuck[j] <= job[j].attempts
    PROVE  AttemptInv'
<1> USE DEF AttemptInv
<1>1. AttemptRunsOnce'
  BY DEF AttemptRunsOnce, Attempting
<1>2. ReportsAreCounted' /\ NoEarlyFailure' /\ SucceededHasReport'
  BY DEF ReportsAreCounted, NoEarlyFailure, SucceededHasReport
<1>3. ReadsArePast'
  BY DEF ReadsArePast
<1> QED
  BY <1>1, <1>2, <1>3

LEMMA NextAttemptInv == TypeInv /\ TypeInv' /\ AttemptInv /\ [Next]_vars => AttemptInv'
<1> SUFFICES ASSUME TypeInv, TypeInv', AttemptInv, [Next]_vars PROVE AttemptInv'
  OBVIOUS
<1> USE DEF AttemptInv
<1>t. /\ job \in [Jobs -> JobRow]
      /\ worker \in [Workers -> WorkerState]
      /\ sweep \in [Sweepers -> SweepState]
  BY DEF TypeInv, TypeOK
<1>n. \A w \in Workers : worker[w].phase \in {"claimed", "working", "ended"} => worker[w].job \in Jobs
  BY DEF TypeInv, WorkerNamesItsJob
<1>1. ASSUME NEW j \in Jobs, Create(j) PROVE AttemptInv'
  <2>1. /\ job' = [job EXCEPT ![j].status = "queued"]
        /\ UNCHANGED <<worker, sweep, reports, deleted>>
    BY <1>1 DEF Create
  <2>2. \A k \in Jobs : job'[k].attempts = job[k].attempts /\ job'[k].report = job[k].report
    BY <1>t, <2>1 DEF JobRow
  <2>3. \A k \in Jobs : job'[k].status \in Terminal => job'[k].status = job[k].status
    BY <1>t, <2>1 DEF JobRow, Terminal
  <2> QED
    BY <1>n, <2>1, <2>2, <2>3, Ranges
       DEF AttemptRunsOnce, Attempting, ReportsAreCounted, ReadsArePast, NoEarlyFailure,
           SucceededHasReport, Terminal
<1>2. ASSUME NEW j \in Jobs, Age(j) PROVE AttemptInv'
  <2>1. /\ job' = [job EXCEPT ![j].stale = TRUE]
        /\ UNCHANGED <<worker, sweep, reports, deleted>>
    BY <1>2 DEF Age
  <2>2. \A k \in Jobs : /\ job'[k].attempts = job[k].attempts
                        /\ job'[k].report = job[k].report
                        /\ job'[k].status = job[k].status
    BY <1>t, <2>1 DEF JobRow
  <2> QED
    BY <1>n, <2>1, <2>2, Ranges
       DEF AttemptRunsOnce, Attempting, ReportsAreCounted, ReadsArePast, NoEarlyFailure,
           SucceededHasReport
<1>3. ASSUME NEW w \in Workers, NEW j \in Jobs, Claim(w, j) PROVE AttemptInv'
  <2>1. /\ job[j].status = "queued"
        /\ worker' = [worker EXCEPT ![w] = Holding("claimed", j, job[j].attempts + 1)]
        /\ UNCHANGED <<sweep, reports, deleted>>
    BY <1>3 DEF Claim
  <2>2. /\ job'[j].status = "running" /\ job'[j].attempts = job[j].attempts + 1
        /\ job'[j].report = job[j].report
        /\ \A k \in Jobs \ {j} : job'[k] = job[k]
    BY <1>3, <1>t DEF Claim, JobRow
  <2>3. /\ worker'[w].phase = "claimed" /\ worker'[w].job = j
        /\ worker'[w].attempt = job[j].attempts + 1
        /\ \A v \in Workers \ {w} : worker'[v] = worker[v]
    BY <2>1, <1>t DEF Holding
  <2>4. AttemptRunsOnce'
    <3> SUFFICES ASSUME NEW v \in Workers, worker'[v].phase \in {"claimed", "working"}
                 PROVE  /\ worker'[v].attempt \in 1 .. job'[worker'[v].job].attempts
                        /\ <<worker'[v].job, worker'[v].attempt>> \notin reports \cup deleted
                        /\ \A u \in Workers \ {v} :
                             /\ worker'[u].phase \in {"claimed", "working"}
                             /\ worker'[u].job = worker'[v].job
                             => worker'[u].attempt # worker'[v].attempt
      BY <2>1 DEF AttemptRunsOnce, Attempting
    <3>1. \A u \in Workers \ {w} :
             worker[u].phase \in {"claimed", "working"} /\ worker[u].job = j
               => worker[u].attempt <= job[j].attempts
      <4> SUFFICES ASSUME NEW u \in Workers, worker[u].phase \in {"claimed", "working"},
                          worker[u].job = j
                   PROVE  worker[u].attempt <= job[j].attempts
        OBVIOUS
      <4>1. worker[u].attempt \in 1 .. job[j].attempts
        BY DEF AttemptRunsOnce
      <4>2. job[j].attempts \in Nat
        BY Ranges
      <4> QED
        BY <4>1, <4>2
    <3>2. CASE v = w
      BY <2>2, <2>3, <3>1, <3>2, Ranges DEF ReportsAreCounted
    <3>3. CASE v # w
      BY <1>n, <2>2, <2>3, <3>1, <3>3, Ranges DEF AttemptRunsOnce, Attempting
    <3> QED
      BY <3>2, <3>3
  <2>5. \A k \in Jobs : job[k].attempts <= job'[k].attempts /\ job'[k].attempts \in Nat
    BY <2>2, Ranges
  <2>6. ReportsAreCounted'
    <3> SUFFICES ASSUME NEW r \in reports \cup deleted PROVE r[2] <= job'[r[1]].attempts
      BY <2>1 DEF ReportsAreCounted
    <3>1. r[1] \in Jobs /\ r[2] \in Nat /\ r[2] <= job[r[1]].attempts
      BY Ranges DEF ReportsAreCounted
    <3>2. job[r[1]].attempts \in Nat
      BY <3>1, Ranges
    <3> QED
      BY <2>5, <3>1, <3>2
  <2>7. ReadsArePast'
    BY <1>n, <2>1, <2>3, <2>5, Ranges DEF ReadsArePast
  <2>8. NoEarlyFailure' /\ SucceededHasReport'
    BY <2>1, <2>2 DEF NoEarlyFailure, SucceededHasReport
  <2> QED
    BY <2>4, <2>6, <2>7, <2>8
<1>4. ASSUME NEW w \in Workers, Load(w) PROVE AttemptInv'
  <2>1. /\ worker[w].phase = "claimed" /\ worker[w].job \in Jobs
        /\ UNCHANGED <<job, sweep, reports, deleted>>
    BY <1>4, <1>n DEF Load
  <2>2. /\ worker'[w].phase = "working"
        /\ worker'[w].job = worker[w].job /\ worker'[w].attempt = worker[w].attempt
        /\ worker'[w].seenAttempts = job[worker[w].job].attempts
        /\ \A v \in Workers \ {w} : worker'[v] = worker[v]
    BY <1>4, <1>t DEF Load, WorkerState
  <2>3. AttemptRunsOnce'
    BY <2>1, <2>2 DEF AttemptRunsOnce, Attempting
  <2>4. ReadsArePast'
    BY <2>1, <2>2, Ranges DEF ReadsArePast
  <2>5. ReportsAreCounted' /\ NoEarlyFailure' /\ SucceededHasReport'
    BY <2>1 DEF ReportsAreCounted, NoEarlyFailure, SucceededHasReport
  <2> QED
    BY <2>3, <2>4, <2>5
<1>5. ASSUME NEW w \in Workers, Succeed(w) PROVE AttemptInv'
  <2> DEFINE j == worker[w].job
             n == worker[w].attempt
  <2>1. /\ worker[w].phase = "working" /\ j \in Jobs /\ n \in Nat
        /\ reports' = reports \cup {<<j, n>>}
        /\ UNCHANGED <<sweep, deleted>>
    BY <1>5, <1>n, Ranges DEF Succeed
  <2>2. /\ job'[j].attempts = job[j].attempts /\ job'[j].report = n
        /\ job'[j].status \in {job[j].status, "succeeded"}
        /\ \A k \in Jobs \ {j} : job'[k] = job[k]
    BY <1>5, <2>1, <1>t DEF Succeed, JobRow, OrmWrite
  <2>3. worker'[w].phase = "ended" /\ \A v \in Workers \ {w} : worker'[v] = worker[v]
    BY <1>5, <1>t DEF Succeed, WorkerState
  <2>4. AttemptRunsOnce'
    BY <1>n, <2>1, <2>2, <2>3 DEF AttemptRunsOnce, Attempting
  <2>5. ReportsAreCounted'
    <3> SUFFICES ASSUME NEW r \in reports' \cup deleted' PROVE r[2] <= job'[r[1]].attempts
      BY DEF ReportsAreCounted
    <3>1. \A k \in Jobs : job'[k].attempts = job[k].attempts
      BY <2>2
    <3>2. CASE r \in reports \cup deleted
      BY <3>1, <3>2, Ranges DEF ReportsAreCounted
    <3>3. CASE r = <<j, n>>
      <4>1. n \in 1 .. job[j].attempts /\ job[j].attempts \in Nat
        BY <2>1, Ranges DEF AttemptRunsOnce
      <4> QED
        BY <2>1, <3>1, <3>3, <4>1
    <3> QED
      BY <2>1, <3>2, <3>3
  <2>6. ReadsArePast'
    BY <1>n, <2>1, <2>2, <2>3 DEF ReadsArePast
  <2>7. NoEarlyFailure'
    BY <2>2 DEF NoEarlyFailure
  <2>8. SucceededHasReport'
    <3>1. n # 0
      <4>1. n \in 1 .. job[j].attempts /\ job[j].attempts \in Nat
        BY <2>1, Ranges DEF AttemptRunsOnce
      <4> HIDE DEF n, j
      <4> QED
        BY <4>1
    <3> QED
      BY <2>1, <2>2, <3>1 DEF SucceededHasReport
  <2> QED
    BY <2>4, <2>5, <2>6, <2>7, <2>8
<1>6. ASSUME NEW w \in Workers, Fail(w) PROVE AttemptInv'
  <2> DEFINE j == worker[w].job
  <2>1. /\ worker[w].phase = "working" /\ j \in Jobs
        /\ UNCHANGED <<sweep, reports, deleted>>
    BY <1>6, <1>n DEF Fail
  <2>2. /\ job'[j].attempts = job[j].attempts /\ job'[j].report = job[j].report
        /\ job'[j].status = OrmWrite(job[j].status, worker[w].seenStatus,
                                     AfterFailure(worker[w].seenAttempts))
        /\ \A k \in Jobs \ {j} : job'[k] = job[k]
    BY <1>6, <2>1, <1>t DEF Fail, JobRow
  <2>3. worker'[w].phase = "ended" /\ \A v \in Workers \ {w} : worker'[v] = worker[v]
    BY <1>6, <1>t DEF Fail, WorkerState
  <2>4. AttemptRunsOnce' /\ ReportsAreCounted' /\ ReadsArePast'
    <3>1. \A k \in Jobs : job'[k].attempts = job[k].attempts
      BY <2>2
    <3> QED
      BY <1>n, <2>1, <2>3, <3>1, Ranges
         DEF AttemptRunsOnce, Attempting, ReportsAreCounted, ReadsArePast
  <2>5. job'[j].status = "failed" => job[j].status = "failed" \/ job[j].attempts >= MaxJobAttempts
    BY <2>1, <2>2, Ranges, BoundsAssumption DEF OrmWrite, AfterFailure, ReadsArePast
  <2>6. job'[j].status = "succeeded" => job[j].status = "succeeded"
    BY <2>2 DEF OrmWrite, AfterFailure
  <2>7. NoEarlyFailure' /\ SucceededHasReport'
    BY <2>1, <2>2, <2>5, <2>6 DEF NoEarlyFailure, SucceededHasReport
  <2> QED
    BY <2>4, <2>7
<1>7. ASSUME NEW s \in Sweepers, Recover(s) PROVE AttemptInv'
  <2>1. /\ UNCHANGED <<worker, reports, deleted>>
        /\ \A k \in Jobs : /\ job'[k].attempts = job[k].attempts
                           /\ job'[k].report = job[k].report
                           /\ job'[k].status = IF sweep[s].stuck[k] > 0
                                               THEN AfterFailure(sweep[s].stuck[k])
                                               ELSE job[k].status
    BY <1>7, <1>t DEF Recover, JobRow
  <2>2. \A z \in Sweepers : sweep'[z].stuck = sweep[z].stuck
    BY <1>7, <1>t DEF Recover, SweepState
  <2>3. AttemptRunsOnce' /\ ReportsAreCounted' /\ ReadsArePast'
    BY <1>n, <2>1, <2>2, Ranges DEF AttemptRunsOnce, Attempting, ReportsAreCounted, ReadsArePast
  <2>4. NoEarlyFailure'
    BY <2>1, Ranges, BoundsAssumption DEF NoEarlyFailure, AfterFailure, ReadsArePast
  <2>5. SucceededHasReport'
    BY <2>1 DEF SucceededHasReport, AfterFailure
  <2> QED
    BY <2>3, <2>4, <2>5
<1>8. ASSUME NEW w \in Workers, NEW j \in Jobs, Duplicate(w, j) PROVE AttemptInv'
  BY <1>8, <1>t, ReadOnlyStep DEF Duplicate, Holding
<1>9. ASSUME NEW w \in Workers, Abort(w) \/ Return(w) \/ CrashWorker(w) \/ RestartWorker(w)
      PROVE AttemptInv'
  BY <1>9, <1>t, ReadOnlyStep DEF Abort, Return, CrashWorker, RestartWorker, IdleWorker, Holding
<1>10. ASSUME NEW j \in Jobs, Republish(j) \/ LoseMessage(j) PROVE AttemptInv'
  BY <1>10, ReadOnlyStep DEF Republish, LoseMessage
<1>11. ASSUME NEW s \in Sweepers, Scan(s) \/ PublishRecovered(s) \/ CrashSweeper(s)
       PROVE AttemptInv'
  <2>1. UNCHANGED <<job, reports, deleted, worker>>
    BY <1>11 DEF Scan, PublishRecovered, CrashSweeper
  <2>2. \A z \in Sweepers \ {s} : sweep'[z] = sweep[z]
    BY <1>11, <1>t DEF Scan, PublishRecovered, CrashSweeper
  <2>3. \A j \in Jobs : sweep'[s].stuck[j] \in {0, job[j].attempts}
    BY <1>11, <1>t DEF Scan, PublishRecovered, CrashSweeper, IdleSweep
  <2> QED
    BY <2>1, <2>2, <2>3, Ranges, ReadOnlyStep
<1>12. ASSUME NEW gone \in SUBSET reports, DeleteReports(gone) PROVE AttemptInv'
  <2>1. /\ reports' = reports \ gone /\ deleted' = deleted \cup gone
        /\ UNCHANGED <<worker, sweep>>
    BY <1>12 DEF DeleteReports
  <2>2. \A k \in Jobs :
           /\ job'[k].attempts = job[k].attempts
           /\ job'[k].status = job[k].status
           /\ job'[k].report = IF <<k, job[k].report>> \in gone THEN 0 ELSE job[k].report
    BY <1>12, <1>t DEF DeleteReports, Unlinked, JobRow
  <2>3. reports' \cup deleted' = reports \cup deleted
    BY <2>1
  <2>4. AttemptRunsOnce' /\ ReportsAreCounted'
    BY <1>n, <2>1, <2>2, <2>3, Ranges DEF AttemptRunsOnce, Attempting, ReportsAreCounted
  <2>5. ReadsArePast' /\ NoEarlyFailure'
    BY <1>n, <2>1, <2>2 DEF ReadsArePast, NoEarlyFailure
  <2>6. SucceededHasReport'
    <3> SUFFICES ASSUME NEW k \in Jobs
                 PROVE  /\ job'[k].report # 0 => <<k, job'[k].report>> \in reports'
                        /\ job'[k].status = "succeeded" /\ job'[k].report = 0
                             => \E r \in deleted' : r[1] = k
      BY DEF SucceededHasReport
    <3>1. CASE <<k, job[k].report>> \in gone
      BY <2>1, <2>2, <3>1
    <3>2. CASE <<k, job[k].report>> \notin gone
      BY <2>1, <2>2, <3>2 DEF SucceededHasReport
    <3> QED
      BY <3>1, <3>2
  <2> QED
    BY <2>4, <2>5, <2>6
<1>13. CASE UNCHANGED vars
  BY <1>13, Ranges, ReadOnlyStep DEF vars
<1> QED
  BY <1>1, <1>2, <1>3, <1>4, <1>5, <1>6, <1>7, <1>8, <1>9, <1>10, <1>11, <1>12, <1>13
     DEF Next, Attempt, Pass

\* Whatever the number of duplicates, late attempts, overlapping passes and deletions
\* of reports: no attempt runs twice, no job fails early, a job points to stored
\* reports only, and success has its report until that is deleted.
THEOREM AttemptsAreSafe == Spec => [](AttemptRunsOnce /\ NoEarlyFailure /\ SucceededHasReport)
<1>1. Spec => [](TypeInv /\ AttemptInv)
  BY InitTypeInv, NextTypeInv, InitAttemptInv, NextAttemptInv, PTL DEF Spec
<1>2. AttemptInv => AttemptRunsOnce /\ NoEarlyFailure /\ SucceededHasReport
  BY DEF AttemptInv
<1> QED
  BY <1>1, <1>2, PTL

-----------------------------------------------------------------------------
(* How often a job may be run                                               *)

\* The attempts that are not the last a job may have.
Below == 1 .. MaxJobAttempts - 1

\* The first run, and one more for every chance to put the job back in the queue.
MostAttempts == 1 + (MaxJobAttempts - 1) * (1 + Cardinality(Sweepers))

\* A job that waits to be claimed, or to be accepted, has one more run coming.
Turns(j) == job[j].attempts + IF job[j].status \in {"absent", "queued"} THEN 1 ELSE 0

\* The attempts below the maximum whose own worker may still put the job back in
\* the queue: those to come, and those that a live worker is at.
OwnChances(j) ==
    {n \in Below : \/ n > job[j].attempts
                   \/ \E w \in Attempting(j) : worker[w].attempt = n}

\* The attempts below the maximum after which a pass may still do so: those to
\* come, the one running, and the one the pass has read.
PassChances(j) ==
    {c \in Sweepers \X Below :
       \/ c[2] > job[j].attempts
       \/ c[2] = job[j].attempts /\ job[j].status = "running"
       \/ sweep[c[1]].phase = "scanned" /\ c[2] = sweep[c[1]].stuck[j]}

\* A worker decides with a number at least as high as its own attempt's.
OwnIsCounted ==
    \A w \in Workers : worker[w].phase = "working" => worker[w].attempt <= worker[w].seenAttempts

\* Inductive: what has been run, what is about to be, and what may still be made
\* to run stay together within the bound.
ChancesInv ==
    /\ OwnIsCounted
    /\ \A j \in Jobs :
         Turns(j) + Cardinality(OwnChances(j)) + Cardinality(PassChances(j)) <= MostAttempts

LEMMA ChancesAreFinite ==
    ASSUME NEW j \in Jobs
    PROVE  /\ IsFiniteSet(OwnChances(j)) /\ Cardinality(OwnChances(j)) \in Nat
           /\ IsFiniteSet(PassChances(j)) /\ Cardinality(PassChances(j)) \in Nat
<1>1. IsFiniteSet(Below)
  BY BoundsAssumption, FS_Interval DEF Below
<1>2. IsFiniteSet(Sweepers \X Below)
  BY <1>1, SweepersAssumption, FS_Product
<1>3. OwnChances(j) \subseteq Below /\ PassChances(j) \subseteq Sweepers \X Below
  BY DEF OwnChances, PassChances
<1> QED
  BY <1>1, <1>2, <1>3, FS_Subset, FS_CardinalityType

LEMMA InitChancesInv == Init => ChancesInv
<1> SUFFICES ASSUME Init PROVE ChancesInv
  OBVIOUS
<1> DEFINE last == MaxJobAttempts - 1
           passes == Cardinality(Sweepers)
<1>1. last \in Nat /\ passes \in Nat
  BY BoundsAssumption, SweepersAssumption, FS_CardinalityType
<1>2. IsFiniteSet(Below) /\ Cardinality(Below) = last
  <2> HIDE DEF last
  <2>1. last \in Int /\ 1 \in Int
    BY <1>1
  <2>2. IsFiniteSet(1 .. last) /\ Cardinality(1 .. last) = IF 1 > last THEN 0 ELSE last - 1 + 1
    BY <2>1, FS_Interval
  <2>3. Below = 1 .. last
    BY DEF Below, last
  <2> QED
    BY <1>1, <2>2, <2>3
<1>3. IsFiniteSet(Sweepers \X Below) /\ Cardinality(Sweepers \X Below) = passes * last
  BY <1>2, SweepersAssumption, FS_Product
<1>4. OwnIsCounted
  BY DEF Init, OwnIsCounted, IdleWorker, Holding
<1>5. ASSUME NEW j \in Jobs
      PROVE  Turns(j) + Cardinality(OwnChances(j)) + Cardinality(PassChances(j)) <= MostAttempts
  <2>1. Turns(j) = 1
    BY DEF Init, Turns, AbsentRow
  <2>2. Cardinality(OwnChances(j)) \in Nat /\ Cardinality(OwnChances(j)) <= last
    BY <1>2, ChancesAreFinite, FS_Subset DEF OwnChances
  <2>3. Cardinality(PassChances(j)) \in Nat /\ Cardinality(PassChances(j)) <= passes * last
    <3>1. /\ Cardinality(PassChances(j)) \in Nat
          /\ Cardinality(PassChances(j)) <= Cardinality(Sweepers \X Below)
      BY <1>3, ChancesAreFinite, FS_Subset DEF PassChances
    <3> HIDE DEF last, passes
    <3> QED
      BY <1>3, <3>1
  <2>4. MostAttempts = 1 + last * (1 + passes)
    BY DEF MostAttempts
  <2>5. passes * last \in Nat /\ last * (1 + passes) = last + passes * last
    BY <1>1
  <2> HIDE DEF last, passes
  <2> QED
    BY <1>1, <2>1, <2>2, <2>3, <2>4, <2>5
<1> QED
  BY <1>4, <1>5 DEF ChancesInv

\* Chances do not come back: attempts are numbered upwards, a job runs again only
\* as a new attempt, and a pass reads what is running.
LEMMA ChancesShrink ==
    ASSUME TypeInv, TypeInv', NEW j \in Jobs,
           job[j].attempts <= job'[j].attempts,
           job'[j].status = "running" => \/ job[j].status = "running"
                                         \/ job'[j].attempts > job[j].attempts,
           \A w \in Workers : w \in Attempting(j)' => \/ /\ w \in Attempting(j)
                                                         /\ worker'[w].attempt = worker[w].attempt
                                                      \/ worker'[w].attempt > job[j].attempts,
           \A s \in Sweepers : sweep'[s].phase = "scanned" =>
               \/ sweep[s].phase = "scanned" /\ sweep'[s].stuck[j] = sweep[s].stuck[j]
               \/ job[j].status = "running" /\ sweep'[s].stuck[j] = job[j].attempts
               \/ sweep'[s].stuck[j] = 0
    PROVE  OwnChances(j)' \subseteq OwnChances(j) /\ PassChances(j)' \subseteq PassChances(j)
<1>1. job[j].attempts \in Nat /\ job'[j].attempts \in Nat
  BY DEF TypeInv, TypeOK, JobRow
<1>2. Below \subseteq Nat \ {0}
  BY BoundsAssumption DEF Below
<1>3. OwnChances(j)' \subseteq OwnChances(j)
  <2> SUFFICES ASSUME NEW n \in OwnChances(j)' PROVE n \in OwnChances(j)
    OBVIOUS
  <2>1. /\ n \in Below /\ n \in Nat
        /\ \/ n > job'[j].attempts
           \/ \E w \in Attempting(j)' : worker'[w].attempt = n
    BY <1>2 DEF OwnChances
  <2>2. CASE n > job'[j].attempts
    BY <1>1, <2>1, <2>2 DEF OwnChances
  <2>3. CASE \E w \in Attempting(j)' : worker'[w].attempt = n
    <3>1. PICK w \in Attempting(j)' : worker'[w].attempt = n
      BY <2>3
    <3>2. w \in Workers
      BY <3>1 DEF Attempting
    <3> QED
      BY <2>1, <3>1, <3>2 DEF OwnChances
  <2> QED
    BY <2>1, <2>2, <2>3
<1>4. PassChances(j)' \subseteq PassChances(j)
  <2> SUFFICES ASSUME NEW c \in PassChances(j)' PROVE c \in PassChances(j)
    OBVIOUS
  <2>1. /\ c \in Sweepers \X Below /\ c[1] \in Sweepers /\ c[2] \in Below
        /\ c[2] \in Nat /\ c[2] # 0
        /\ \/ c[2] > job'[j].attempts
           \/ c[2] = job'[j].attempts /\ job'[j].status = "running"
           \/ sweep'[c[1]].phase = "scanned" /\ c[2] = sweep'[c[1]].stuck[j]
    BY <1>2 DEF PassChances
  <2>2. \/ c[2] > job[j].attempts
        \/ c[2] = job[j].attempts /\ job[j].status = "running"
        \/ sweep[c[1]].phase = "scanned" /\ c[2] = sweep[c[1]].stuck[j]
    BY <1>1, <2>1
  <2> QED
    BY <2>1, <2>2 DEF PassChances
<1> QED
  BY <1>3, <1>4

\* A step that gives a job one more turn takes a chance for it.
LEMMA ChancesPay ==
    ASSUME TypeInv, TypeInv', NEW j \in Jobs,
           OwnChances(j)' \subseteq OwnChances(j), PassChances(j)' \subseteq PassChances(j),
           \/ Turns(j)' <= Turns(j)
           \/ /\ Turns(j)' <= Turns(j) + 1
              /\ OwnChances(j)' # OwnChances(j) \/ PassChances(j)' # PassChances(j),
           Turns(j) + Cardinality(OwnChances(j)) + Cardinality(PassChances(j)) <= MostAttempts
    PROVE  (Turns(j) + Cardinality(OwnChances(j)) + Cardinality(PassChances(j)) <= MostAttempts)'
<1>1. PICK turns, own, pass, turnsNext, ownNext, passNext :
         /\ turns = Turns(j) /\ own = OwnChances(j) /\ pass = PassChances(j)
         /\ turnsNext = Turns(j)' /\ ownNext = OwnChances(j)' /\ passNext = PassChances(j)'
  OBVIOUS
<1>2. turns \in Nat /\ turnsNext \in Nat
  BY <1>1 DEF Turns, TypeInv, TypeOK, JobRow
<1>3. IsFiniteSet(own) /\ IsFiniteSet(pass) /\ ownNext \subseteq own /\ passNext \subseteq pass
  BY <1>1, ChancesAreFinite
<1>4. /\ Cardinality(own) \in Nat /\ Cardinality(pass) \in Nat
      /\ Cardinality(ownNext) \in Nat /\ Cardinality(passNext) \in Nat
  BY <1>3, FS_Subset, FS_CardinalityType
<1>5. /\ Cardinality(ownNext) <= Cardinality(own)
      /\ Cardinality(own) = Cardinality(ownNext) => own = ownNext
  BY <1>3, FS_Subset
<1>6. /\ Cardinality(passNext) <= Cardinality(pass)
      /\ Cardinality(pass) = Cardinality(passNext) => pass = passNext
  BY <1>3, FS_Subset
<1>7. MostAttempts \in Nat
  BY BoundsAssumption, SweepersAssumption, FS_CardinalityType DEF MostAttempts
<1>8. turns + Cardinality(own) + Cardinality(pass) <= MostAttempts
  BY <1>1
<1>9. turnsNext <= turns \/ (turnsNext <= turns + 1 /\ (ownNext # own \/ passNext # pass))
  BY <1>1
<1>10. turnsNext + Cardinality(ownNext) + Cardinality(passNext) <= MostAttempts
  BY <1>2, <1>4, <1>5, <1>6, <1>7, <1>8, <1>9
<1>11. MostAttempts' = MostAttempts
  BY DEF MostAttempts
<1> QED
  BY <1>1, <1>10, <1>11

\* A step that writes no row, starts no attempt and lets a pass read only what is
\* running takes or leaves chances, and gives no turn.
LEMMA ReadOnlyChances ==
    ASSUME TypeInv, TypeInv', ChancesInv, UNCHANGED job, OwnIsCounted',
           \A w \in Workers : worker'[w].phase \in {"claimed", "working"} =>
               /\ worker[w].phase \in {"claimed", "working"}
               /\ worker'[w].job = worker[w].job /\ worker'[w].attempt = worker[w].attempt,
           \A s \in Sweepers, j \in Jobs : sweep'[s].phase = "scanned" =>
               \/ sweep[s].phase = "scanned" /\ sweep'[s].stuck[j] = sweep[s].stuck[j]
               \/ job[j].status = "running" /\ sweep'[s].stuck[j] = job[j].attempts
               \/ sweep'[s].stuck[j] = 0
    PROVE  ChancesInv'
<1>1. ASSUME NEW j \in Jobs
      PROVE  (Turns(j) + Cardinality(OwnChances(j)) + Cardinality(PassChances(j)) <= MostAttempts)'
  <2>1. \A w \in Workers : w \in Attempting(j)' => /\ w \in Attempting(j)
                                                   /\ worker'[w].attempt = worker[w].attempt
    BY DEF Attempting
  <2>2. Turns(j)' = Turns(j) /\ Turns(j) \in Nat
    BY DEF Turns, TypeInv, TypeOK, JobRow
  <2>3. OwnChances(j)' \subseteq OwnChances(j) /\ PassChances(j)' \subseteq PassChances(j)
    BY <2>1, Ranges, ChancesShrink
  <2> QED
    BY <2>2, <2>3, ChancesPay DEF ChancesInv
<1> QED
  BY <1>1 DEF ChancesInv

LEMMA NextChancesInv ==
    TypeInv /\ TypeInv' /\ AttemptInv /\ AttemptInv' /\ ChancesInv /\ [Next]_vars => ChancesInv'
<1> SUFFICES ASSUME TypeInv, TypeInv', AttemptInv, AttemptInv', ChancesInv, [Next]_vars
             PROVE  ChancesInv'
  OBVIOUS
<1>t. /\ job \in [Jobs -> JobRow]
      /\ worker \in [Workers -> WorkerState]
      /\ sweep \in [Sweepers -> SweepState]
  BY DEF TypeInv, TypeOK
<1>n. \A w \in Workers : worker[w].phase \in {"claimed", "working", "ended"} => worker[w].job \in Jobs
  BY DEF TypeInv, WorkerNamesItsJob
<1>o. OwnIsCounted /\ \A j \in Jobs : Turns(j) \in Nat
  BY DEF ChancesInv, Turns, TypeInv, TypeOK, JobRow
<1>1. ASSUME NEW j \in Jobs, Create(j) PROVE ChancesInv'
  <2>1. /\ job[j].status = "absent" /\ job'[j].status = "queued"
        /\ job'[j].attempts = job[j].attempts
        /\ \A k \in Jobs \ {j} : job'[k] = job[k]
        /\ UNCHANGED <<worker, sweep>>
    BY <1>1, <1>t DEF Create, JobRow
  <2>2. ASSUME NEW k \in Jobs
        PROVE  (Turns(k) + Cardinality(OwnChances(k)) + Cardinality(PassChances(k)) <= MostAttempts)'
    <3>1. /\ job'[k].attempts = job[k].attempts
          /\ job'[k].status = "running" => job[k].status = "running"
      BY <2>1
    <3>2. \A w \in Workers : w \in Attempting(k)' => w \in Attempting(k)
      BY <2>1 DEF Attempting
    <3>3. OwnChances(k)' \subseteq OwnChances(k) /\ PassChances(k)' \subseteq PassChances(k)
      BY <2>1, <3>1, <3>2, Ranges, ChancesShrink
    <3>4. Turns(k)' = Turns(k)
      BY <2>1 DEF Turns
    <3> QED
      BY <1>o, <3>3, <3>4, ChancesPay DEF ChancesInv
  <2> QED
    BY <1>o, <2>1, <2>2 DEF ChancesInv, OwnIsCounted
<1>r. ASSUME \A k \in Jobs : job'[k].status = job[k].status /\ job'[k].attempts = job[k].attempts,
              UNCHANGED <<worker, sweep>>
       PROVE  ChancesInv'
  <2>1. ASSUME NEW k \in Jobs
        PROVE  (Turns(k) + Cardinality(OwnChances(k)) + Cardinality(PassChances(k)) <= MostAttempts)'
    <3>1. \A w \in Workers : w \in Attempting(k)' => w \in Attempting(k)
      BY <1>r DEF Attempting
    <3>2. OwnChances(k)' \subseteq OwnChances(k) /\ PassChances(k)' \subseteq PassChances(k)
      BY <1>r, <3>1, Ranges, ChancesShrink
    <3>3. Turns(k)' = Turns(k)
      BY <1>r DEF Turns
    <3> QED
      BY <1>o, <3>2, <3>3, ChancesPay DEF ChancesInv
  <2> QED
    BY <1>o, <1>r, <2>1 DEF ChancesInv, OwnIsCounted
<1>2. ASSUME NEW j \in Jobs, Age(j) PROVE ChancesInv'
  <2>1. /\ \A k \in Jobs : job'[k].status = job[k].status /\ job'[k].attempts = job[k].attempts
        /\ UNCHANGED <<worker, sweep>>
    BY <1>2, <1>t DEF Age, JobRow
  <2> QED
    BY <1>r, <2>1
<1>3. ASSUME NEW w \in Workers, NEW j \in Jobs, Claim(w, j) PROVE ChancesInv'
  <2>1. /\ job[j].status = "queued" /\ job'[j].status = "running"
        /\ job'[j].attempts = job[j].attempts + 1
        /\ \A k \in Jobs \ {j} : job'[k] = job[k]
        /\ UNCHANGED sweep
    BY <1>3, <1>t DEF Claim, JobRow
  <2>2. /\ worker'[w].phase = "claimed" /\ worker'[w].job = j
        /\ worker'[w].attempt = job[j].attempts + 1
        /\ \A v \in Workers \ {w} : worker'[v] = worker[v]
    BY <1>3, <1>t DEF Claim, Holding
  <2>3. ASSUME NEW k \in Jobs
        PROVE  (Turns(k) + Cardinality(OwnChances(k)) + Cardinality(PassChances(k)) <= MostAttempts)'
    <3>1. /\ job[k].attempts <= job'[k].attempts
          /\ \/ job'[k].status = "running" => job[k].status = "running"
             \/ job'[k].attempts > job[k].attempts
      BY <2>1, Ranges
    <3>2. \A v \in Workers : v \in Attempting(k)' =>
             \/ v \in Attempting(k) /\ worker'[v].attempt = worker[v].attempt
             \/ worker'[v].attempt > job[k].attempts
      <4> SUFFICES ASSUME NEW v \in Workers, v \in Attempting(k)'
                   PROVE  \/ v \in Attempting(k) /\ worker'[v].attempt = worker[v].attempt
                          \/ worker'[v].attempt > job[k].attempts
        OBVIOUS
      <4>1. CASE v = w
        BY <2>2, <4>1, Ranges DEF Attempting
      <4>2. CASE v # w
        BY <2>2, <4>2 DEF Attempting
      <4> QED
        BY <4>1, <4>2
    <3>3. OwnChances(k)' \subseteq OwnChances(k) /\ PassChances(k)' \subseteq PassChances(k)
      BY <2>1, <3>1, <3>2, ChancesShrink
    <3>4. Turns(k)' <= Turns(k)
      BY <2>1, Ranges DEF Turns
    <3> QED
      BY <3>3, <3>4, ChancesPay DEF ChancesInv
  <2> QED
    BY <1>o, <2>2, <2>3 DEF ChancesInv, OwnIsCounted
<1>4. ASSUME NEW w \in Workers, Load(w) PROVE ChancesInv'
  <2>1. /\ worker[w].phase = "claimed" /\ worker[w].job \in Jobs /\ UNCHANGED <<job, sweep>>
    BY <1>4, <1>n DEF Load
  <2>2. /\ worker'[w].job = worker[w].job /\ worker'[w].attempt = worker[w].attempt
        /\ worker'[w].seenAttempts = job[worker[w].job].attempts
        /\ \A v \in Workers \ {w} : worker'[v] = worker[v]
    BY <1>4, <1>t DEF Load, WorkerState
  <2>3. worker[w].attempt <= job[worker[w].job].attempts
    <3>1. worker[w].attempt \in 1 .. job[worker[w].job].attempts
      BY <2>1 DEF AttemptInv, AttemptRunsOnce
    <3>2. job[worker[w].job].attempts \in Nat
      BY <2>1, Ranges
    <3> QED
      BY <3>1, <3>2
  <2>4. OwnIsCounted'
    BY <1>o, <2>2, <2>3 DEF OwnIsCounted
  <2> QED
    BY <2>1, <2>2, <2>4, ReadOnlyChances
<1>5. ASSUME NEW w \in Workers, NEW j \in Jobs, j = worker[w].job, Succeed(w) PROVE ChancesInv'
  <2>1. /\ job'[j].attempts = job[j].attempts
        /\ job'[j].status \in {job[j].status, "succeeded"}
        /\ \A k \in Jobs \ {j} : job'[k] = job[k]
        /\ UNCHANGED sweep
    BY <1>5, <1>t DEF Succeed, JobRow, OrmWrite
  <2>2. worker'[w].phase = "ended" /\ \A v \in Workers \ {w} : worker'[v] = worker[v]
    BY <1>5, <1>t DEF Succeed, WorkerState
  <2>3. ASSUME NEW k \in Jobs
        PROVE  (Turns(k) + Cardinality(OwnChances(k)) + Cardinality(PassChances(k)) <= MostAttempts)'
    <3>1. /\ job'[k].attempts = job[k].attempts
          /\ job'[k].status = "running" => job[k].status = "running"
      BY <2>1
    <3>2. \A v \in Workers : v \in Attempting(k)' => /\ v \in Attempting(k)
                                                     /\ worker'[v].attempt = worker[v].attempt
      BY <2>2 DEF Attempting
    <3>3. OwnChances(k)' \subseteq OwnChances(k) /\ PassChances(k)' \subseteq PassChances(k)
      BY <2>1, <3>1, <3>2, Ranges, ChancesShrink
    <3>4. Turns(k)' <= Turns(k)
      BY <2>1, Ranges DEF Turns
    <3> QED
      BY <3>3, <3>4, ChancesPay DEF ChancesInv
  <2> QED
    BY <1>o, <2>2, <2>3 DEF ChancesInv, OwnIsCounted
<1>6. ASSUME NEW w \in Workers, NEW j \in Jobs, j = worker[w].job, Fail(w) PROVE ChancesInv'
  <2> DEFINE n == worker[w].attempt
  <2>1. /\ job'[j].attempts = job[j].attempts
        /\ job'[j].status \in {job[j].status, AfterFailure(worker[w].seenAttempts)}
        /\ \A k \in Jobs \ {j} : job'[k] = job[k]
        /\ worker[w].phase = "working"
        /\ UNCHANGED sweep
    BY <1>6, <1>t DEF Fail, JobRow, OrmWrite
  <2>2. worker'[w].phase = "ended" /\ \A v \in Workers \ {w} : worker'[v] = worker[v]
    BY <1>6, <1>t DEF Fail, WorkerState
  <2>3. /\ n \in 1 .. job[j].attempts /\ n <= worker[w].seenAttempts
        /\ \A v \in Workers \ {w} : v \in Attempting(j) => worker[v].attempt # n
    BY <1>6, <1>o, <2>1 DEF AttemptInv, AttemptRunsOnce, OwnIsCounted
  <2>4. ASSUME NEW k \in Jobs
        PROVE  (Turns(k) + Cardinality(OwnChances(k)) + Cardinality(PassChances(k)) <= MostAttempts)'
    <3>1. /\ job'[k].attempts = job[k].attempts
          /\ job'[k].status = "running" => job[k].status = "running"
      BY <2>1 DEF AfterFailure
    <3>2. \A v \in Workers : v \in Attempting(k)' => /\ v # w /\ v \in Attempting(k)
                                                     /\ worker'[v].attempt = worker[v].attempt
      BY <2>2 DEF Attempting
    <3>3. OwnChances(k)' \subseteq OwnChances(k) /\ PassChances(k)' \subseteq PassChances(k)
      BY <2>1, <3>1, <3>2, Ranges, ChancesShrink
    <3>4. CASE Turns(k)' <= Turns(k)
      BY <3>3, <3>4, ChancesPay DEF ChancesInv
    <3>5. CASE ~ (Turns(k)' <= Turns(k))
      <4>1. /\ k = j /\ AfterFailure(worker[w].seenAttempts) = "queued"
            /\ Turns(k)' <= Turns(k) + 1
        <5>1. job[k].attempts \in Nat
          BY Ranges
        <5>2. Turns(k)' = job[k].attempts + IF job'[k].status \in {"absent", "queued"} THEN 1 ELSE 0
          BY <3>1 DEF Turns
        <5>3. /\ job'[k].status \in {"absent", "queued"} /\ job[k].status \notin {"absent", "queued"}
              /\ Turns(k)' <= Turns(k) + 1
          BY <3>5, <5>1, <5>2 DEF Turns
        <5> QED
          BY <2>1, <5>3 DEF AfterFailure
      <4>2. worker[w].seenAttempts < MaxJobAttempts
        BY <4>1 DEF AfterFailure
      <4>3. n \in Below
        BY <2>3, <4>2, BoundsAssumption, Ranges DEF Below
      <4>4. n \in OwnChances(k)
        BY <1>6, <2>1, <4>1, <4>3 DEF OwnChances, Attempting
      <4>5. n \notin OwnChances(k)'
        <5>1. ~ (n > job'[k].attempts)
          BY <2>3, <3>1, <4>1, Ranges
        <5>2. \A v \in Attempting(k)' : worker'[v].attempt # n
          BY <2>3, <3>2, <4>1 DEF Attempting
        <5> QED
          BY <5>1, <5>2 DEF OwnChances
      <4> QED
        BY <3>3, <4>1, <4>4, <4>5, ChancesPay DEF ChancesInv
    <3> QED
      BY <3>4, <3>5
  <2> QED
    BY <1>o, <2>2, <2>4 DEF ChancesInv, OwnIsCounted
<1>7. ASSUME NEW s \in Sweepers, Recover(s) PROVE ChancesInv'
  <2> DEFINE stuck == sweep[s].stuck
  <2>1. /\ sweep[s].phase = "scanned" /\ sweep'[s].phase = "committed"
        /\ \A z \in Sweepers \ {s} : sweep'[z] = sweep[z]
        /\ UNCHANGED worker
    BY <1>7, <1>t DEF Recover, SweepState
  <2>2. \A k \in Jobs : /\ job'[k].attempts = job[k].attempts
                        /\ job'[k].status = IF stuck[k] > 0 THEN AfterFailure(stuck[k])
                                            ELSE job[k].status
    BY <1>7, <1>t DEF Recover, JobRow
  <2>3. ASSUME NEW k \in Jobs
        PROVE  (Turns(k) + Cardinality(OwnChances(k)) + Cardinality(PassChances(k)) <= MostAttempts)'
    <3>1. /\ job'[k].attempts = job[k].attempts
          /\ job'[k].status = "running" => job[k].status = "running"
      BY <2>2 DEF AfterFailure
    <3>2. \A v \in Workers : v \in Attempting(k)' => v \in Attempting(k)
      BY <2>1 DEF Attempting
    <3>3. OwnChances(k)' \subseteq OwnChances(k) /\ PassChances(k)' \subseteq PassChances(k)
      BY <2>1, <3>1, <3>2, Ranges, ChancesShrink
    <3>4. CASE Turns(k)' <= Turns(k)
      BY <3>3, <3>4, ChancesPay DEF ChancesInv
    <3>5. CASE ~ (Turns(k)' <= Turns(k))
      <4> DEFINE c == <<s, stuck[k]>>
      <4>1. /\ stuck[k] > 0 /\ AfterFailure(stuck[k]) = "queued" /\ job'[k].status = "queued"
            /\ Turns(k)' <= Turns(k) + 1
        <5>1. job[k].attempts \in Nat
          BY Ranges
        <5>2. Turns(k)' = job[k].attempts + IF job'[k].status \in {"absent", "queued"} THEN 1 ELSE 0
          BY <3>1 DEF Turns
        <5>3. /\ job'[k].status \in {"absent", "queued"} /\ job[k].status \notin {"absent", "queued"}
              /\ Turns(k)' <= Turns(k) + 1
          BY <3>5, <5>1, <5>2 DEF Turns
        <5> QED
          BY <2>2, <5>3, Ranges DEF AfterFailure
      <4>2. stuck[k] < MaxJobAttempts
        BY <4>1 DEF AfterFailure
      <4>3. stuck[k] \in Below /\ stuck[k] <= job[k].attempts
        BY <4>1, <4>2, BoundsAssumption, Ranges DEF Below, AttemptInv, ReadsArePast
      <4>4. c \in PassChances(k)
        BY <2>1, <4>3 DEF PassChances
      <4>5. c \notin PassChances(k)'
        <5>1. ~ (stuck[k] > job'[k].attempts)
          BY <3>1, <4>3, Ranges
        <5> QED
          BY <2>1, <4>1, <5>1 DEF PassChances
      <4> QED
        BY <3>3, <4>1, <4>4, <4>5, ChancesPay DEF ChancesInv
    <3> QED
      BY <3>4, <3>5
  <2> QED
    BY <1>o, <2>1, <2>3 DEF ChancesInv, OwnIsCounted
<1>8. ASSUME NEW s \in Sweepers, Scan(s) \/ PublishRecovered(s) \/ CrashSweeper(s)
      PROVE  ChancesInv'
  <2>1. UNCHANGED <<job, worker>> /\ \A z \in Sweepers \ {s} : sweep'[z] = sweep[z]
    BY <1>8, <1>t DEF Scan, PublishRecovered, CrashSweeper
  <2>2. \A k \in Jobs : sweep'[s].phase = "scanned" =>
           \/ job[k].status = "running" /\ sweep'[s].stuck[k] = job[k].attempts
           \/ sweep'[s].stuck[k] = 0
    BY <1>8, <1>t DEF Scan, Stuck, PublishRecovered, CrashSweeper, IdleSweep
  <2>3. OwnIsCounted'
    BY <1>o, <2>1 DEF OwnIsCounted
  <2> QED
    BY <2>1, <2>2, <2>3, ReadOnlyChances
<1>9. ASSUME NEW w \in Workers,
             \/ Abort(w) \/ Return(w) \/ CrashWorker(w) \/ RestartWorker(w)
             \/ \E j \in Jobs : Duplicate(w, j)
      PROVE  ChancesInv'
  <2>1. /\ UNCHANGED <<job, sweep>>
        /\ worker'[w].phase \notin {"claimed", "working"}
        /\ \A v \in Workers \ {w} : worker'[v] = worker[v]
    BY <1>9, <1>t DEF Abort, Return, CrashWorker, RestartWorker, Duplicate, IdleWorker, Holding
  <2>2. OwnIsCounted'
    BY <1>o, <2>1 DEF OwnIsCounted
  <2> QED
    BY <2>1, <2>2, ReadOnlyChances
<1>10. ASSUME UNCHANGED <<job, worker, sweep>> PROVE ChancesInv'
  BY <1>o, <1>10, ReadOnlyChances DEF OwnIsCounted
<1>11. ASSUME NEW j \in Jobs, Republish(j) \/ LoseMessage(j) PROVE ChancesInv'
  BY <1>10, <1>11 DEF Republish, LoseMessage
<1>12. ASSUME NEW w \in Workers, Succeed(w) \/ Fail(w) PROVE ChancesInv'
  <2>1. PICK j \in Jobs : j = worker[w].job
    BY <1>12, <1>n DEF Succeed, Fail
  <2> QED
    BY <1>5, <1>6, <1>12, <2>1
<1>13. CASE UNCHANGED vars
  BY <1>10, <1>13 DEF vars
<1>14. ASSUME NEW gone \in SUBSET reports, DeleteReports(gone) PROVE ChancesInv'
  <2>1. /\ \A k \in Jobs : job'[k].status = job[k].status /\ job'[k].attempts = job[k].attempts
        /\ UNCHANGED <<worker, sweep>>
    BY <1>14, <1>t DEF DeleteReports, Unlinked, JobRow
  <2> QED
    BY <1>r, <2>1
<1> QED
  BY <1>1, <1>2, <1>3, <1>4, <1>7, <1>8, <1>9, <1>11, <1>12, <1>13, <1>14
     DEF Next, Attempt, Pass

\* A job whose attempts outlast the cutoff is run a bounded number of times, whatever
\* the number of workers, passes that overlap, duplicates and crashes: a chance to put
\* it back in the queue is used at most once.
THEOREM RunsAreBounded == Spec => []AttemptsBounded
<1>1. TypeInv /\ TypeInv' /\ AttemptInv /\ AttemptInv' /\ ChancesInv /\ [Next]_vars => ChancesInv'
  BY NextChancesInv
<1>2. Spec => [](TypeInv /\ AttemptInv)
  BY InitTypeInv, NextTypeInv, InitAttemptInv, NextAttemptInv, PTL DEF Spec
<1>3. Spec => [](TypeInv /\ ChancesInv)
  BY <1>1, <1>2, InitChancesInv, PTL DEF Spec
<1>4. TypeInv /\ ChancesInv => AttemptsBounded
  <2> SUFFICES ASSUME TypeInv, ChancesInv, NEW j \in Jobs PROVE job[j].attempts <= MostAttempts
    BY DEF AttemptsBounded, MostAttempts
  <2>1. Turns(j) \in Nat /\ job[j].attempts <= Turns(j)
    BY Ranges DEF Turns
  <2>2. Cardinality(OwnChances(j)) \in Nat /\ Cardinality(PassChances(j)) \in Nat
    BY ChancesAreFinite
  <2>3. MostAttempts \in Nat
    BY BoundsAssumption, SweepersAssumption, FS_CardinalityType DEF MostAttempts
  <2>4. Turns(j) + Cardinality(OwnChances(j)) + Cardinality(PassChances(j)) <= MostAttempts
    BY DEF ChancesInv
  <2> QED
    BY <2>1, <2>2, <2>3, <2>4, Ranges
<1> QED
  BY <1>3, <1>4, PTL

-----------------------------------------------------------------------------
(* When every attempt ends before the cutoff and recovery passes do not      *)
(* overlap, ReportJobs implements JobLifecycle: for every number of jobs,    *)
(* workers, attempts, messages, deletions and faults.                                   *)

\* A worker between its claim and its outcome is the one the running row stands
\* for, and what it has read is what the row holds.
OwnersAreCurrent ==
    \A w \in Workers : worker[w].phase \in {"claimed", "working"} =>
        /\ job[worker[w].job].status = "running"
        /\ ~job[worker[w].job].stale
        /\ worker[w].attempt = job[worker[w].job].attempts
        /\ worker[w].phase = "working" => /\ worker[w].seenStatus = "running"
                                          /\ worker[w].seenAttempts = worker[w].attempt

\* A pass about to write its rows finds them as it read them.
ScansAreCurrent ==
    \A s \in Sweepers, j \in Jobs : sweep[s].phase = "scanned" /\ sweep[s].stuck[j] > 0 =>
        /\ job[j].status = "running"
        /\ job[j].stale
        /\ sweep[s].stuck[j] = job[j].attempts

\* A waiting job has an attempt left and a running one has begun at least one.
AttemptsLeft ==
    \A j \in Jobs :
        /\ job[j].attempts <= MaxJobAttempts
        /\ job[j].status = "absent" => job[j].attempts = 0
        /\ job[j].status = "queued" => job[j].attempts < MaxJobAttempts
        /\ job[j].status = "running" => job[j].attempts > 0

PromptInv ==
    /\ OwnersAreCurrent
    /\ ScansAreCurrent
    /\ AttemptsLeft
    /\ ReportIsTheJobs

\* What the deployment has to provide for the lifecycle to hold.
Prompt == ~SlowAttempts /\ \A s, t \in Sweepers : s = t

LEMMA InitPromptInv == Init => PromptInv
BY BoundsAssumption
   DEF Init, PromptInv, OwnersAreCurrent, ScansAreCurrent, AttemptsLeft, ReportIsTheJobs, AbsentRow,
       IdleWorker, Holding, IdleSweep

\* Two workers cannot attempt the same job: both attempts would be the row's.
LEMMA OneOwner ==
    ASSUME TypeInv, AttemptInv, PromptInv,
           NEW v \in Workers, NEW w \in Workers, worker[v].job = worker[w].job,
           worker[v].phase \in {"claimed", "working"}, worker[w].phase \in {"claimed", "working"}
    PROVE  v = w
<1>1. worker[v].attempt = worker[w].attempt
  BY DEF PromptInv, OwnersAreCurrent
<1>2. v \in Attempting(worker[w].job)
  BY DEF Attempting
<1> QED
  BY <1>1, <1>2 DEF AttemptInv, AttemptRunsOnce

\* A step that writes no row and no report, starts no attempt and reads only
\* what the rows hold now.
LEMMA ReadOnlyPromptStep ==
    ASSUME TypeInv, PromptInv, UNCHANGED <<job, reports, deleted>>,
           \A w \in Workers : \/ worker'[w] = worker[w]
                              \/ worker'[w].phase \notin {"claimed", "working"},
           \A s \in Sweepers : \/ sweep'[s] = sweep[s]
                               \/ sweep'[s].phase # "scanned"
    PROVE  PromptInv'
<1> USE DEF PromptInv
<1>1. OwnersAreCurrent'
  BY DEF OwnersAreCurrent
<1>2. ScansAreCurrent'
  BY DEF ScansAreCurrent
<1>3. AttemptsLeft' /\ ReportIsTheJobs'
  BY DEF AttemptsLeft, ReportIsTheJobs
<1> QED
  BY <1>1, <1>2, <1>3

LEMMA NextPromptInv ==
    Prompt /\ TypeInv /\ AttemptInv /\ PromptInv /\ [Next]_vars => PromptInv'
<1> SUFFICES ASSUME Prompt, TypeInv, AttemptInv, PromptInv, [Next]_vars PROVE PromptInv'
  OBVIOUS
<1> USE DEF PromptInv
<1>t. /\ job \in [Jobs -> JobRow]
      /\ worker \in [Workers -> WorkerState]
      /\ sweep \in [Sweepers -> SweepState]
  BY DEF TypeInv, TypeOK
<1>n. \A w \in Workers : worker[w].phase \in {"claimed", "working", "ended"} => worker[w].job \in Jobs
  BY DEF TypeInv, WorkerNamesItsJob
<1>m. MaxJobAttempts \in Nat \ {0}
  BY BoundsAssumption
<1>1. ASSUME NEW j \in Jobs, Create(j) PROVE PromptInv'
  <2>1. /\ job[j].status = "absent"
        /\ UNCHANGED <<worker, sweep, reports, deleted>>
    BY <1>1 DEF Create
  <2>2. /\ job'[j].status = "queued" /\ job'[j].attempts = job[j].attempts
        /\ \A k \in Jobs \ {j} : job'[k] = job[k]
    BY <1>1, <1>t DEF Create, JobRow
  <2>3. OwnersAreCurrent' /\ ScansAreCurrent'
    BY <1>n, <2>1, <2>2 DEF OwnersAreCurrent, ScansAreCurrent
  <2>4. AttemptsLeft'
    BY <1>m, <2>1, <2>2, Ranges DEF AttemptsLeft
  <2>5. ReportIsTheJobs'
    BY <2>1, <2>2, Ranges DEF ReportIsTheJobs
  <2> QED
    BY <2>3, <2>4, <2>5
<1>2. ASSUME NEW j \in Jobs, Age(j) PROVE PromptInv'
  <2>1. /\ Attempting(j) = {}
        /\ UNCHANGED <<worker, sweep, reports, deleted>>
    BY <1>2 DEF Age, Prompt
  <2>2. /\ \A k \in Jobs : /\ job'[k].status = job[k].status
                           /\ job'[k].attempts = job[k].attempts
                           /\ job'[k].report = job[k].report
        /\ job'[j].stale
        /\ \A k \in Jobs \ {j} : job'[k] = job[k]
    BY <1>2, <1>t DEF Age, JobRow
  <2>3. \A w \in Workers : worker[w].phase \in {"claimed", "working"} => worker[w].job # j
    BY <2>1 DEF Attempting
  <2>4. OwnersAreCurrent' /\ ScansAreCurrent'
    BY <1>n, <2>1, <2>2, <2>3 DEF OwnersAreCurrent, ScansAreCurrent
  <2>5. AttemptsLeft' /\ ReportIsTheJobs'
    BY <2>1, <2>2, Ranges DEF AttemptsLeft, ReportIsTheJobs
  <2> QED
    BY <2>4, <2>5
<1>3. ASSUME NEW w \in Workers, NEW j \in Jobs, Claim(w, j) PROVE PromptInv'
  <2>1. job[j].status = "queued" /\ UNCHANGED <<sweep, reports, deleted>>
    BY <1>3 DEF Claim
  <2>2. /\ job'[j].status = "running" /\ ~job'[j].stale
        /\ job'[j].attempts = job[j].attempts + 1
        /\ \A k \in Jobs \ {j} : job'[k] = job[k]
    BY <1>3, <1>t DEF Claim, JobRow
  <2>3. /\ worker'[w].phase = "claimed" /\ worker'[w].job = j
        /\ worker'[w].attempt = job[j].attempts + 1
        /\ \A v \in Workers \ {w} : worker'[v] = worker[v]
    BY <1>3, <1>t DEF Claim, Holding
  <2>4. OwnersAreCurrent'
    BY <1>n, <2>1, <2>2, <2>3 DEF OwnersAreCurrent
  <2>5. ScansAreCurrent'
    BY <2>1, <2>2 DEF ScansAreCurrent
  <2>6. AttemptsLeft'
    BY <1>m, <2>1, <2>2, Ranges DEF AttemptsLeft
  <2>7. ReportIsTheJobs'
    BY <2>1, <2>2, Ranges DEF ReportIsTheJobs
  <2> QED
    BY <2>4, <2>5, <2>6, <2>7
<1>4. ASSUME NEW w \in Workers, Load(w) PROVE PromptInv'
  <2>1. /\ worker[w].phase = "claimed" /\ worker[w].job \in Jobs
        /\ UNCHANGED <<job, sweep, reports, deleted>>
    BY <1>4, <1>n DEF Load
  <2>2. /\ worker'[w].phase = "working"
        /\ worker'[w].job = worker[w].job /\ worker'[w].attempt = worker[w].attempt
        /\ worker'[w].seenAttempts = job[worker[w].job].attempts
        /\ worker'[w].seenStatus = job[worker[w].job].status
        /\ \A v \in Workers \ {w} : worker'[v] = worker[v]
    BY <1>4, <1>t DEF Load, WorkerState
  <2>3. OwnersAreCurrent'
    BY <2>1, <2>2 DEF OwnersAreCurrent
  <2>4. ScansAreCurrent' /\ AttemptsLeft' /\ ReportIsTheJobs'
    BY <2>1 DEF ScansAreCurrent, AttemptsLeft, ReportIsTheJobs
  <2> QED
    BY <2>3, <2>4
<1>5. ASSUME NEW w \in Workers, Succeed(w) PROVE PromptInv'
  <2> DEFINE j == worker[w].job
  <2>1. /\ worker[w].phase = "working" /\ j \in Jobs
        /\ reports' = reports \cup {<<j, worker[w].attempt>>}
        /\ UNCHANGED <<sweep, deleted>>
    BY <1>5, <1>n DEF Succeed
  <2>2. /\ job[j].status = "running" /\ ~job[j].stale /\ worker[w].seenStatus = "running"
        /\ worker[w].attempt = job[j].attempts
    BY <2>1 DEF OwnersAreCurrent
  <2>3. /\ job'[j].status = "succeeded" /\ job'[j].report = worker[w].attempt
        /\ job'[j].attempts = job[j].attempts
        /\ \A k \in Jobs \ {j} : job'[k] = job[k]
    BY <1>5, <2>1, <2>2, <1>t DEF Succeed, JobRow, OrmWrite
  <2>4. worker'[w].phase = "ended" /\ \A v \in Workers \ {w} : worker'[v] = worker[v]
    BY <1>5, <1>t DEF Succeed, WorkerState
  <2>5. \A v \in Workers \ {w} : worker[v].phase \in {"claimed", "working"} => worker[v].job # j
    BY <2>1, OneOwner
  <2>6. OwnersAreCurrent'
    BY <1>n, <2>3, <2>4, <2>5 DEF OwnersAreCurrent
  <2>7. ScansAreCurrent'
    BY <2>1, <2>2, <2>3 DEF ScansAreCurrent
  <2>8. AttemptsLeft'
    BY <2>3 DEF AttemptsLeft
  <2>9. ReportIsTheJobs'
    BY <2>1, <2>2, <2>3, Ranges DEF ReportIsTheJobs
  <2> QED
    BY <2>6, <2>7, <2>8, <2>9
<1>6. ASSUME NEW w \in Workers, Fail(w) PROVE PromptInv'
  <2> DEFINE j == worker[w].job
  <2>1. worker[w].phase = "working" /\ j \in Jobs /\ UNCHANGED <<sweep, reports, deleted>>
    BY <1>6, <1>n DEF Fail
  <2>2. /\ job[j].status = "running" /\ ~job[j].stale /\ worker[w].seenStatus = "running"
        /\ worker[w].seenAttempts = job[j].attempts
    BY <2>1 DEF OwnersAreCurrent
  <2>3. /\ job'[j].status = AfterFailure(job[j].attempts)
        /\ job'[j].attempts = job[j].attempts
        /\ \A k \in Jobs \ {j} : job'[k] = job[k]
    BY <1>6, <2>1, <2>2, <1>t DEF Fail, JobRow, OrmWrite, AfterFailure
  <2>4. worker'[w].phase = "ended" /\ \A v \in Workers \ {w} : worker'[v] = worker[v]
    BY <1>6, <1>t DEF Fail, WorkerState
  <2>5. \A v \in Workers \ {w} : worker[v].phase \in {"claimed", "working"} => worker[v].job # j
    BY <2>1, OneOwner
  <2>6. OwnersAreCurrent'
    BY <1>n, <2>3, <2>4, <2>5 DEF OwnersAreCurrent
  <2>7. ScansAreCurrent'
    BY <2>1, <2>2, <2>3 DEF ScansAreCurrent
  <2>8. AttemptsLeft'
    BY <1>m, <2>1, <2>3, Ranges DEF AttemptsLeft, AfterFailure
  <2>9. ReportIsTheJobs'
    BY <2>1, <2>2, <2>3, Ranges DEF ReportIsTheJobs
  <2> QED
    BY <2>6, <2>7, <2>8, <2>9
<1>7. ASSUME NEW s \in Sweepers, Recover(s) PROVE PromptInv'
  <2> DEFINE stuck == sweep[s].stuck
  <2>1. /\ sweep[s].phase = "scanned" /\ sweep'[s].phase = "committed"
        /\ UNCHANGED <<worker, reports, deleted>>
    BY <1>7, <1>t DEF Recover, SweepState
  <2>2. \A k \in Jobs : IF stuck[k] > 0
                        THEN /\ job'[k].status = AfterFailure(job[k].attempts)
                             /\ job'[k].attempts = job[k].attempts
                             /\ job[k].status = "running" /\ job[k].stale
                        ELSE job'[k] = job[k]
    BY <1>7, <2>1, <1>t DEF Recover, JobRow, ScansAreCurrent
  <2>3. OwnersAreCurrent'
    BY <1>n, <2>1, <2>2 DEF OwnersAreCurrent
  <2>4. ScansAreCurrent'
    BY <2>1 DEF ScansAreCurrent, Prompt
  <2>5. AttemptsLeft'
    BY <1>m, <2>2, Ranges DEF AttemptsLeft, AfterFailure
  <2>6. ReportIsTheJobs'
    BY <2>1, <2>2, Ranges DEF ReportIsTheJobs
  <2> QED
    BY <2>3, <2>4, <2>5, <2>6
<1>8. ASSUME NEW s \in Sweepers, Scan(s) PROVE PromptInv'
  <2>1. UNCHANGED <<job, worker, reports, deleted>>
    BY <1>8 DEF Scan
  <2>2. \A k \in Jobs : sweep'[s].stuck[k] > 0 =>
           /\ job[k].status = "running" /\ job[k].stale
           /\ sweep'[s].stuck[k] = job[k].attempts
    BY <1>8, <1>t DEF Scan, Stuck
  <2>3. \A z \in Sweepers \ {s} : sweep'[z] = sweep[z]
    BY <1>8, <1>t DEF Scan
  <2>4. ScansAreCurrent'
    BY <2>1, <2>2, <2>3 DEF ScansAreCurrent
  <2>5. OwnersAreCurrent' /\ AttemptsLeft' /\ ReportIsTheJobs'
    BY <2>1 DEF OwnersAreCurrent, AttemptsLeft, ReportIsTheJobs
  <2> QED
    BY <2>4, <2>5
<1>9. ASSUME NEW w \in Workers, NEW j \in Jobs, Duplicate(w, j) PROVE PromptInv'
  BY <1>9, <1>t, ReadOnlyPromptStep DEF Duplicate, Holding
<1>10. ASSUME NEW w \in Workers, Abort(w) \/ Return(w) \/ CrashWorker(w) \/ RestartWorker(w)
       PROVE PromptInv'
  BY <1>10, <1>t, ReadOnlyPromptStep
     DEF Abort, Return, CrashWorker, RestartWorker, IdleWorker, Holding
<1>11. ASSUME NEW j \in Jobs, Republish(j) \/ LoseMessage(j) PROVE PromptInv'
  BY <1>11, ReadOnlyPromptStep DEF Republish, LoseMessage
<1>12. ASSUME NEW s \in Sweepers, PublishRecovered(s) \/ CrashSweeper(s) PROVE PromptInv'
  <2>1. UNCHANGED <<job, reports, deleted, worker>>
    BY <1>12 DEF PublishRecovered, CrashSweeper
  <2>2. /\ sweep'[s].phase = "idle"
        /\ \A z \in Sweepers \ {s} : sweep'[z] = sweep[z]
    BY <1>12, <1>t DEF PublishRecovered, CrashSweeper, IdleSweep
  <2> QED
    BY <2>1, <2>2, ReadOnlyPromptStep
<1>13. ASSUME NEW gone \in SUBSET reports, DeleteReports(gone) PROVE PromptInv'
  <2>1. /\ reports' = reports \ gone /\ deleted' = deleted \cup gone
        /\ UNCHANGED <<worker, sweep>>
    BY <1>13 DEF DeleteReports
  <2>2. \A k \in Jobs :
           /\ job'[k].status = job[k].status
           /\ job'[k].attempts = job[k].attempts
           /\ job'[k].stale = job[k].stale
           /\ job'[k].report = IF <<k, job[k].report>> \in gone THEN 0 ELSE job[k].report
    <3> SUFFICES ASSUME NEW k \in Jobs
                 PROVE  /\ job'[k].status = job[k].status
                        /\ job'[k].attempts = job[k].attempts
                        /\ job'[k].stale = job[k].stale
                        /\ job'[k].report = IF <<k, job[k].report>> \in gone THEN 0
                                            ELSE job[k].report
      OBVIOUS
    <3>1. job'[k] = IF <<k, job[k].report>> \in gone THEN [job[k] EXCEPT !.report = 0] ELSE job[k]
      BY <1>13 DEF DeleteReports, Unlinked
    <3>2. job[k] \in JobRow
      BY <1>t
    <3> QED
      BY <3>1, <3>2 DEF JobRow
  <2>3. OwnersAreCurrent'
    BY <1>n, <2>1, <2>2, Zenon DEF OwnersAreCurrent
  <2>4. ScansAreCurrent'
    BY <2>1, <2>2, Zenon DEF ScansAreCurrent
  <2>5. AttemptsLeft'
    BY <2>2 DEF AttemptsLeft
  <2>6. ReportIsTheJobs'
    <3> SUFFICES ASSUME NEW r \in reports' \cup deleted'
                 PROVE  /\ job'[r[1]].status = "succeeded"
                        /\ r[2] = job'[r[1]].attempts
                        /\ r \in reports' => job'[r[1]].report = r[2]
      BY DEF ReportIsTheJobs
    <3>1. r \in reports \cup deleted /\ r[1] \in Jobs
      BY <2>1, Ranges
    <3>2. r \in reports' => r = <<r[1], job[r[1]].report>> /\ r \notin gone
      BY <2>1, <3>1 DEF ReportIsTheJobs, TypeInv, TypeOK
    <3> QED
      BY <2>1, <2>2, <3>1, <3>2 DEF ReportIsTheJobs
  <2> QED
    BY <2>3, <2>4, <2>5, <2>6
<1>14. CASE UNCHANGED vars
  BY <1>14, ReadOnlyPromptStep DEF vars
<1> QED
  BY <1>1, <1>2, <1>3, <1>4, <1>5, <1>6, <1>7, <1>8, <1>9, <1>10, <1>11, <1>12, <1>13, <1>14
     DEF Next, Attempt, Pass

\* While attempts end before the cutoff and passes do not overlap, a job is never
\* attempted more often than the maximum and gets at most one report, its own, even
\* when that report is deleted.
THEOREM PromptJobsAreSafe == Prompt => (Spec => [](AttemptsWithinMax /\ ReportIsTheJobs))
<1> SUFFICES ASSUME Prompt PROVE Spec => [](AttemptsWithinMax /\ ReportIsTheJobs)
  OBVIOUS
<1>1. TypeInv /\ AttemptInv /\ PromptInv /\ [Next]_vars => PromptInv'
  BY NextPromptInv
<1>2. Spec => [](TypeInv /\ AttemptInv /\ PromptInv)
  BY <1>1, InitTypeInv, NextTypeInv, InitAttemptInv, NextAttemptInv, InitPromptInv, PTL DEF Spec
<1>3. PromptInv => AttemptsWithinMax /\ ReportIsTheJobs
  BY DEF PromptInv, AttemptsLeft, AttemptsWithinMax
<1> QED
  BY <1>2, <1>3, PTL

\* A recovery pass takes no row away from a worker that is still working on it,
\* although it decided to when it scanned the table.
THEOREM RecoveryIsSafe == Prompt => (Spec => RecoversOnlyAbandoned)
<1> DEFINE Abandoned ==
             \A s \in Sweepers, j \in Jobs :
               sweep[s].phase = "scanned" /\ sweep[s].stuck[j] > 0 => Attempting(j) = {}
<1> SUFFICES ASSUME Prompt PROVE Spec => RecoversOnlyAbandoned
  OBVIOUS
<1>1. PromptInv => Abandoned
  BY DEF PromptInv, ScansAreCurrent, OwnersAreCurrent, Attempting
<1>2. TypeInv /\ AttemptInv /\ PromptInv /\ [Next]_vars => PromptInv'
  BY NextPromptInv
<1>3. Spec => [](TypeInv /\ AttemptInv /\ PromptInv)
  BY <1>2, InitTypeInv, NextTypeInv, InitAttemptInv, NextAttemptInv, InitPromptInv, PTL DEF Spec
<1>4. Abandoned =>
        [\A s \in Sweepers, j \in Jobs :
           /\ sweep[s].phase = "scanned"
           /\ sweep'[s].phase = "committed"
           /\ sweep[s].stuck[j] > 0
           => Attempting(j) = {}]_vars
  OBVIOUS
<1> QED
  BY <1>1, <1>3, <1>4, PTL DEF RecoversOnlyAbandoned

-----------------------------------------------------------------------------
(* The lifecycle                                                            *)

\* A step changes what the table shows only by a step of the lifecycle.
LEMMA LifecycleStep ==
    ASSUME TypeInv, AttemptInv, PromptInv, [Next]_vars
    PROVE  [Lifecycle!Next]_Lifecycle!vars
<1> DEFINE shown == [j \in Jobs |-> job[j].status]
           counted == [j \in Jobs |-> job[j].attempts]
           reported == [j \in Jobs |-> job[j].report]
<1>t. /\ job \in [Jobs -> JobRow]
      /\ worker \in [Workers -> WorkerState]
  BY DEF TypeInv, TypeOK
<1>n. \A w \in Workers : worker[w].phase \in {"claimed", "working", "ended"} => worker[w].job \in Jobs
  BY DEF TypeInv, WorkerNamesItsJob
<1>1. ASSUME NEW j \in Jobs, Create(j) PROVE Lifecycle!Accept(j)
  <2>1. shown' = [shown EXCEPT ![j] = "queued"] /\ UNCHANGED <<counted, reported>>
    BY <1>1, <1>t DEF Create, JobRow
  <2> QED
    BY <1>1, <2>1 DEF Create, Lifecycle!Accept
<1>2. ASSUME NEW w \in Workers, NEW j \in Jobs, Claim(w, j) PROVE Lifecycle!Begin(j)
  <2>1. /\ shown' = [shown EXCEPT ![j] = "running"]
        /\ counted' = [counted EXCEPT ![j] = @ + 1]
        /\ UNCHANGED reported
    BY <1>2, <1>t DEF Claim, JobRow
  <2> QED
    BY <1>2, <2>1 DEF Claim, Lifecycle!Begin
<1>3. ASSUME NEW w \in Workers, NEW j \in Jobs, j = worker[w].job, Succeed(w)
      PROVE  Lifecycle!Complete(j)
  <2>1. worker[w].phase = "working"
    BY <1>3 DEF Succeed
  <2>2. /\ job[j].status = "running" /\ worker[w].attempt = job[j].attempts
        /\ worker[w].seenStatus = "running"
    BY <1>3, <2>1 DEF PromptInv, OwnersAreCurrent
  <2>3. /\ shown' = [shown EXCEPT ![j] = "succeeded"]
        /\ reported' = [reported EXCEPT ![j] = counted[j]]
        /\ UNCHANGED counted
    BY <1>3, <2>2, <1>t DEF Succeed, JobRow, OrmWrite
  <2> QED
    BY <2>2, <2>3 DEF Lifecycle!Complete
<1>4. ASSUME NEW w \in Workers, NEW j \in Jobs, j = worker[w].job, Fail(w)
      PROVE  Lifecycle!GiveUp({j})
  <2>1. worker[w].phase = "working"
    BY <1>4 DEF Fail
  <2>2. /\ job[j].status = "running" /\ worker[w].seenAttempts = job[j].attempts
        /\ worker[w].seenStatus = "running"
    BY <1>4, <2>1 DEF PromptInv, OwnersAreCurrent
  <2>3. /\ shown' = [k \in Jobs |-> IF k \notin {j} THEN shown[k]
                                    ELSE IF counted[k] < MaxJobAttempts THEN "queued" ELSE "failed"]
        /\ UNCHANGED <<counted, reported>>
    BY <1>4, <2>2, <1>t DEF Fail, JobRow, OrmWrite, AfterFailure
  <2> QED
    BY <2>2, <2>3 DEF Lifecycle!GiveUp
<1>5. ASSUME NEW s \in Sweepers, NEW jobs \in SUBSET Jobs,
             jobs = {j \in Jobs : sweep[s].stuck[j] > 0}, Recover(s)
      PROVE  Lifecycle!GiveUp(jobs)
  <2>1. \A j \in jobs : job[j].status = "running" /\ sweep[s].stuck[j] = job[j].attempts
    BY <1>5 DEF Recover, PromptInv, ScansAreCurrent
  <2>2. /\ shown' = [k \in Jobs |-> IF k \notin jobs THEN shown[k]
                                    ELSE IF counted[k] < MaxJobAttempts THEN "queued" ELSE "failed"]
        /\ UNCHANGED <<counted, reported>>
    BY <1>5, <2>1, <1>t DEF Recover, JobRow, AfterFailure
  <2> QED
    BY <2>1, <2>2 DEF Lifecycle!GiveUp
<1>6. ASSUME NEW j \in Jobs, Age(j) PROVE UNCHANGED Lifecycle!vars
  <2>1. UNCHANGED <<shown, counted, reported>>
    BY <1>6, <1>t DEF Age, JobRow
  <2> QED
    BY <2>1 DEF Lifecycle!vars
<1>7. ASSUME UNCHANGED job PROVE UNCHANGED Lifecycle!vars
  BY <1>7 DEF Lifecycle!vars
<1>8. ASSUME NEW w \in Workers, \/ Load(w) \/ Abort(w) \/ Return(w) \/ CrashWorker(w)
                                \/ RestartWorker(w) \/ \E j \in Jobs : Duplicate(w, j)
      PROVE  UNCHANGED job
  BY <1>8 DEF Load, Abort, Return, CrashWorker, RestartWorker, Duplicate
<1>9. ASSUME NEW s \in Sweepers, Scan(s) \/ PublishRecovered(s) \/ CrashSweeper(s)
      PROVE  UNCHANGED job
  BY <1>9 DEF Scan, PublishRecovered, CrashSweeper
<1>10. ASSUME NEW j \in Jobs, Republish(j) \/ LoseMessage(j) PROVE UNCHANGED job
  BY <1>10 DEF Republish, LoseMessage
<1>11. CASE UNCHANGED vars
  BY <1>11, <1>7 DEF vars
<1>12. ASSUME NEW w \in Workers, Succeed(w) \/ Fail(w) PROVE Lifecycle!Next
  <2>1. PICK j \in Jobs : j = worker[w].job
    BY <1>12, <1>n DEF Succeed, Fail
  <2>2. CASE Succeed(w)
    BY <1>3, <2>1, <2>2 DEF Lifecycle!Next
  <2>3. CASE Fail(w)
    BY <1>4, <2>1, <2>3 DEF Lifecycle!Next
  <2> QED
    BY <1>12, <2>2, <2>3
<1>13. ASSUME NEW s \in Sweepers, Recover(s) PROVE Lifecycle!Next
  <2>1. PICK jobs \in SUBSET Jobs : jobs = {j \in Jobs : sweep[s].stuck[j] > 0}
    OBVIOUS
  <2> QED
    BY <1>5, <1>13, <2>1 DEF Lifecycle!Next
<1>14. ASSUME NEW j \in Jobs, Create(j) \/ \E w \in Workers : Claim(w, j) PROVE Lifecycle!Next
  BY <1>1, <1>2, <1>14 DEF Lifecycle!Next
<1>15. ASSUME NEW gone \in SUBSET reports, NEW jobs \in SUBSET Jobs,
              jobs = {j \in Jobs : <<j, job[j].report>> \in gone}, DeleteReports(gone)
       PROVE  Lifecycle!Forget(jobs)
  <2>1. \A j \in jobs : job[j].status = "succeeded"
    BY <1>15 DEF PromptInv, ReportIsTheJobs
  <2>2. /\ reported' = [j \in Jobs |-> IF j \in jobs THEN 0 ELSE reported[j]]
        /\ UNCHANGED <<shown, counted>>
    BY <1>15, <1>t DEF DeleteReports, Unlinked, JobRow
  <2> QED
    BY <2>1, <2>2 DEF Lifecycle!Forget
<1>16. ASSUME NEW gone \in SUBSET reports, DeleteReports(gone) PROVE Lifecycle!Next
  <2>1. PICK jobs \in SUBSET Jobs : jobs = {j \in Jobs : <<j, job[j].report>> \in gone}
    OBVIOUS
  <2> QED
    BY <1>15, <1>16, <2>1 DEF Lifecycle!Next
<1> QED
  BY <1>6, <1>7, <1>8, <1>9, <1>10, <1>11, <1>12, <1>13, <1>14, <1>16 DEF Next, Attempt, Pass

\* The table of prompt attempts and single passes implements the lifecycle.
THEOREM ImplementsLifecycle == Prompt => (Spec => RefinesLifecycle)
<1> SUFFICES ASSUME Prompt PROVE Spec => RefinesLifecycle
  OBVIOUS
<1>1. Init => Lifecycle!Init
  BY DEF Init, Lifecycle!Init, AbsentRow
<1>2. TypeInv /\ AttemptInv /\ PromptInv /\ [Next]_vars => [Lifecycle!Next]_Lifecycle!vars
  BY LifecycleStep
<1>3. TypeInv /\ AttemptInv /\ PromptInv /\ [Next]_vars => PromptInv'
  BY NextPromptInv
<1>4. Spec => [](TypeInv /\ AttemptInv /\ PromptInv)
  BY <1>3, InitTypeInv, NextTypeInv, InitAttemptInv, NextAttemptInv, InitPromptInv, PTL DEF Spec
<1> QED
  BY <1>1, <1>2, <1>4, PTL DEF Spec, RefinesLifecycle, Lifecycle!Spec
=============================================================================
