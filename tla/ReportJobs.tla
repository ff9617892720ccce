------------------------------ MODULE ReportJobs ------------------------------
(***************************************************************************)
(* Durable report jobs: the report_jobs table, the broker's messages, the  *)
(* workers that execute a job (run_job), the recovery pass                 *)
(* (recover_stuck_jobs), the sweep that republishes queued rows and the    *)
(* deletion of reports, which clears report_id.                            *)
(*                                                                         *)
(* Every action is one database transaction or one step between two of     *)
(* them: what a session read in an earlier transaction stays in the        *)
(* worker's or the pass's record and is used, possibly stale, later.       *)
(***************************************************************************)
EXTENDS Naturals, FiniteSets

CONSTANTS
    Jobs,            \* ids of the report_jobs rows
    Workers,         \* processes executing execute_report_job
    Sweepers,        \* recovery passes that may be in flight together
    NoJob,           \* the job of a process that has none
    MaxJobAttempts,  \* MAX_JOB_ATTEMPTS
    MaxMessages,     \* bound: copies of one job's message kept in the broker
    MaxDeletions,    \* bound: reports deleted
    MaxFaults,       \* bound: crashes, lost messages and aborted attempts
    SlowAttempts     \* may a live attempt outlast STALE_RUNNING_AFTER?

ASSUME BoundsAssumption ==
    /\ MaxJobAttempts \in Nat \ {0}
    /\ MaxMessages \in Nat \ {0}
    /\ MaxDeletions \in Nat
    /\ MaxFaults \in Nat

ASSUME NoJobAssumption == NoJob \notin Jobs

ASSUME SweepersAssumption == IsFiniteSet(Sweepers)

ASSUME SlowAssumption == SlowAttempts \in BOOLEAN

VARIABLES
    job,      \* the report_jobs table
    msgs,     \* execute_report_job messages waiting in the broker
    worker,   \* what each worker process is doing and what it has read
    sweep,    \* what each recovery pass is doing and what it has read
    reports,  \* the reports table: each report named by the attempt that wrote it
    deleted,  \* history: reports that were committed and deleted since
    faults    \* failures injected so far

vars == <<job, msgs, worker, sweep, reports, deleted, faults>>

-----------------------------------------------------------------------------

Terminal == {"succeeded", "failed"}

\* "absent" stands for a row that is not inserted yet.
Status == {"absent", "queued", "running"} \cup Terminal

\* stale: started_at is older than the cutoff.  report: 0 is NULL, otherwise
\* the attempt that wrote the report that report_id points to.
JobRow == [status : Status, attempts : Nat, stale : BOOLEAN, report : Nat]

\* phase: "claimed" between the commit of the claim and the refresh, "working"
\* inside generate_report, "ended" once run_job has returned to the task.
WorkerState ==
    [phase : {"idle", "claimed", "working", "ended", "dead"},
     job : Jobs \cup {NoJob},
     attempt : Nat,              \* the number its own claim gave the attempt
     seenStatus : Status,        \* status as its session loaded it
     seenAttempts : Nat]         \* attempts as its session loaded it

\* stuck[j]: the attempts read with a stuck row, 0 for a row not in the batch.
SweepState == [phase : {"idle", "scanned", "committed"}, stuck : [Jobs -> Nat]]

AbsentRow == [status |-> "absent", attempts |-> 0, stale |-> FALSE, report |-> 0]

\* A process that has read nothing of its job's row yet.
Holding(phase, j, attempt) ==
    [phase |-> phase, job |-> j, attempt |-> attempt,
     seenStatus |-> "absent", seenAttempts |-> 0]

IdleWorker == Holding("idle", NoJob, 0)

IdleSweep == [phase |-> "idle", stuck |-> [j \in Jobs |-> 0]]

Init ==
    /\ job = [j \in Jobs |-> AbsentRow]
    /\ msgs = [j \in Jobs |-> 0]
    /\ worker = [w \in Workers |-> IdleWorker]
    /\ sweep = [s \in Sweepers |-> IdleSweep]
    /\ reports = {}
    /\ deleted = {}
    /\ faults = 0

-----------------------------------------------------------------------------

\* A session's UPDATE carries only the columns whose value differs from the one
\* it loaded; a column left out keeps whatever the row holds by then.
OrmWrite(current, loaded, new) == IF new = loaded THEN current ELSE new

\* execute_report_job.delay for every job of a set; copies over the bound are lost.
Published(jobs) ==
    [j \in Jobs |-> IF j \in jobs /\ msgs[j] < MaxMessages THEN msgs[j] + 1 ELSE msgs[j]]

\* Faulty variants of AfterFailure: a status the model does not know, a retry
\* without bound, and the bound off by one.
AfterFailureUnknown(attempts) == IF attempts < MaxJobAttempts THEN "retrying" ELSE "failed"
AfterFailureForever(attempts) == "queued"
AfterFailureEarly(attempts) == IF attempts + 1 < MaxJobAttempts THEN "queued" ELSE "failed"

\* The status of a job whose attempt did not produce a report.
AfterFailure(attempts) == IF attempts < MaxJobAttempts THEN "queued" ELSE "failed"

\* Live workers that own an attempt at j and have not committed its outcome.
Attempting(j) == {w \in Workers : worker[w].phase \in {"claimed", "working"} /\ worker[w].job = j}

-----------------------------------------------------------------------------
(* Accepting work and keeping it published                                 *)

\* create_job: the queued row is committed, then its message is published.
Create(j) ==
    /\ job[j].status = "absent"
    /\ job' = [job EXCEPT ![j].status = "queued"]
    /\ msgs' = Published({j})
    /\ UNCHANGED <<worker, sweep, reports, deleted, faults>>

\* Faulty variant: the sweep only looks for jobs that never ran.
RepublishNew(j) ==
    /\ job[j].status = "queued" /\ job[j].attempts = 0
    /\ msgs[j] < MaxMessages
    /\ msgs' = Published({j})
    /\ UNCHANGED <<job, worker, sweep, reports, deleted, faults>>

\* dispatch_queued_report_jobs.  Its read and its publications are one step: a
\* message published late is a message the broker delivers late.
Republish(j) ==
    /\ job[j].status = "queued"
    /\ msgs[j] < MaxMessages
    /\ msgs' = Published({j})
    /\ UNCHANGED <<job, worker, sweep, reports, deleted, faults>>

-----------------------------------------------------------------------------
(* One execution of execute_report_job                                     *)

\* Faulty variant: the UPDATE matches a row in any status.
ClaimUnchecked(w, j) ==
    /\ worker[w].phase = "idle"
    /\ msgs[j] > 0
    /\ msgs' = [msgs EXCEPT ![j] = @ - 1]
    /\ job' = [job EXCEPT ![j].status = "running", ![j].attempts = @ + 1, ![j].stale = FALSE]
    /\ worker' = [worker EXCEPT ![w] = Holding("claimed", j, job[j].attempts + 1)]
    /\ UNCHANGED <<sweep, reports, deleted, faults>>

\* The conditional UPDATE finds the row queued: this worker owns the attempt.
Claim(w, j) ==
    /\ worker[w].phase = "idle"
    /\ msgs[j] > 0
    /\ job[j].status = "queued"
    /\ msgs' = [msgs EXCEPT ![j] = @ - 1]
    /\ job' = [job EXCEPT ![j].status = "running",
                          ![j].attempts = @ + 1,
                          ![j].stale = FALSE]
    /\ worker' = [worker EXCEPT ![w] = Holding("claimed", j, job[j].attempts + 1)]
    /\ UNCHANGED <<sweep, reports, deleted, faults>>

\* The UPDATE finds no queued row: a duplicate message, ignored.
Duplicate(w, j) ==
    /\ worker[w].phase = "idle"
    /\ msgs[j] > 0
    /\ job[j].status # "queued"
    /\ msgs' = [msgs EXCEPT ![j] = @ - 1]
    /\ worker' = [worker EXCEPT ![w] = Holding("ended", j, 0)]
    /\ UNCHANGED <<job, sweep, reports, deleted, faults>>

\* db.refresh(job) in a transaction after the claim's commit.
Load(w) ==
    /\ worker[w].phase = "claimed"
    /\ worker' = [worker EXCEPT ![w].phase = "working",
                                ![w].seenStatus = job[worker[w].job].status,
                                ![w].seenAttempts = job[worker[w].job].attempts]
    /\ UNCHANGED <<job, msgs, sweep, reports, deleted, faults>>

\* Faulty variants: the report is left to a later transaction, or report_id is.
SucceedBeforeReport(w) ==
    LET j == worker[w].job IN
    /\ worker[w].phase = "working"
    /\ job' = [job EXCEPT ![j].status = OrmWrite(@, worker[w].seenStatus, "succeeded"),
                          ![j].report = worker[w].attempt]
    /\ worker' = [worker EXCEPT ![w].phase = "ended"]
    /\ UNCHANGED <<msgs, sweep, reports, deleted, faults>>

SucceedUnlinked(w) ==
    LET j == worker[w].job IN
    /\ worker[w].phase = "working"
    /\ reports' = reports \cup {<<j, worker[w].attempt>>}
    /\ job' = [job EXCEPT ![j].status = OrmWrite(@, worker[w].seenStatus, "succeeded")]
    /\ worker' = [worker EXCEPT ![w].phase = "ended"]
    /\ UNCHANGED <<msgs, sweep, deleted, faults>>

\* The report and the job's success are one commit; nothing in the UPDATE checks
\* that the row is still running this attempt.
Succeed(w) ==
    LET j == worker[w].job IN
    /\ worker[w].phase = "working"
    /\ reports' = reports \cup {<<j, worker[w].attempt>>}
    /\ job' = [job EXCEPT ![j].status = OrmWrite(@, worker[w].seenStatus, "succeeded"),
                          ![j].report = worker[w].attempt]
    /\ worker' = [worker EXCEPT ![w].phase = "ended"]
    /\ UNCHANGED <<msgs, sweep, deleted, faults>>

\* generate_report raised ReportGenerationError before its session was rolled back.
Fail(w) ==
    LET j == worker[w].job IN
    /\ worker[w].phase = "working"
    /\ job' = [job EXCEPT ![j].status =
                  OrmWrite(@, worker[w].seenStatus, AfterFailure(worker[w].seenAttempts))]
    /\ worker' = [worker EXCEPT ![w].phase = "ended"]
    /\ UNCHANGED <<msgs, sweep, reports, deleted, faults>>

\* Any other exception leaves run_job without writing the row: a rollback in
\* generate_report expires job, so reading job.attempts raises; a commit that
\* fails raises too.  The task ends without publishing anything.
Abort(w) ==
    /\ worker[w].phase = "working"
    /\ faults < MaxFaults
    /\ faults' = faults + 1
    /\ worker' = [worker EXCEPT ![w] = IdleWorker]
    /\ UNCHANGED <<job, msgs, sweep, reports, deleted>>

\* run_job refreshes the row last, and the task publishes again if it is queued.
Return(w) ==
    LET j == worker[w].job IN
    /\ worker[w].phase = "ended"
    /\ msgs' = Published(IF job[j].status = "queued" THEN {j} ELSE {})
    /\ worker' = [worker EXCEPT ![w] = IdleWorker]
    /\ UNCHANGED <<job, sweep, reports, deleted, faults>>

-----------------------------------------------------------------------------
(* recover_stuck_report_jobs                                               *)

\* Faulty variants: the cutoff is not checked, or exhausted rows are not looked for.
StuckNow == {j \in Jobs : job[j].status = "running"}
StuckWithAttemptsLeft ==
    {j \in Jobs : job[j].status = "running" /\ job[j].stale /\ job[j].attempts < MaxJobAttempts}

\* The rows running since before the cutoff, read with their attempts.
Stuck == {j \in Jobs : job[j].status = "running" /\ job[j].stale}

Scan(s) ==
    /\ sweep[s].phase = "idle"
    /\ Stuck # {}
    /\ sweep' = [sweep EXCEPT ![s] =
                   [phase |-> "scanned",
                    stuck |-> [j \in Jobs |-> IF j \in Stuck THEN job[j].attempts ELSE 0]]]
    /\ UNCHANGED <<job, msgs, worker, reports, deleted, faults>>

\* Faulty variant: the attempt of a worker given up for dead is not counted.
RecoverUncounted(s) ==
    LET stuck == sweep[s].stuck IN
    /\ sweep[s].phase = "scanned"
    /\ job' = [j \in Jobs |-> IF stuck[j] > 0
                              THEN [job[j] EXCEPT !.status = AfterFailure(stuck[j]),
                                                  !.attempts = stuck[j] - 1]
                              ELSE job[j]]
    /\ sweep' = [sweep EXCEPT ![s].phase = "committed"]
    /\ UNCHANGED <<msgs, worker, reports, deleted, faults>>

\* Loaded as running, each row changes status, so the column is always written.
Recover(s) ==
    LET stuck == sweep[s].stuck IN
    /\ sweep[s].phase = "scanned"
    /\ job' = [j \in Jobs |-> IF stuck[j] > 0
                              THEN [job[j] EXCEPT !.status = AfterFailure(stuck[j])]
                              ELSE job[j]]
    /\ sweep' = [sweep EXCEPT ![s].phase = "committed"]
    /\ UNCHANGED <<msgs, worker, reports, deleted, faults>>

\* The rows are refreshed and those queued are published.
PublishRecovered(s) ==
    /\ sweep[s].phase = "committed"
    /\ msgs' = Published({j \in Jobs : sweep[s].stuck[j] > 0 /\ job[j].status = "queued"})
    /\ sweep' = [sweep EXCEPT ![s] = IdleSweep]
    /\ UNCHANGED <<job, worker, reports, deleted, faults>>

-----------------------------------------------------------------------------
(* Deleting reports                                                        *)

\* The table when report_id's foreign key, ON DELETE SET NULL, has followed a
\* deletion; the status of a row stays.
Unlinked(gone) ==
    [j \in Jobs |-> IF <<j, job[j].report>> \in gone THEN [job[j] EXCEPT !.report = 0] ELSE job[j]]

\* delete_report takes one report, enforce_report_retention a set of old ones, each
\* in one commit; neither asks what became of the job.
DeleteReports(gone) ==
    /\ gone # {}
    /\ Cardinality(deleted \cup gone) <= MaxDeletions
    /\ reports' = reports \ gone
    /\ deleted' = deleted \cup gone
    /\ job' = Unlinked(gone)
    /\ UNCHANGED <<msgs, worker, sweep, faults>>

-----------------------------------------------------------------------------
(* Time and failures                                                       *)

\* started_at falls behind the cutoff.
Age(j) ==
    /\ job[j].status = "running"
    /\ ~job[j].stale
    /\ SlowAttempts \/ Attempting(j) = {}
    /\ job' = [job EXCEPT ![j].stale = TRUE]
    /\ UNCHANGED <<msgs, worker, sweep, reports, deleted, faults>>

\* The worker process dies; its open transaction dies with it.
CrashWorker(w) ==
    /\ worker[w].phase \in {"claimed", "working", "ended"}
    /\ faults < MaxFaults
    /\ faults' = faults + 1
    /\ worker' = [worker EXCEPT ![w] = Holding("dead", NoJob, 0)]
    /\ UNCHANGED <<job, msgs, sweep, reports, deleted>>

RestartWorker(w) ==
    /\ worker[w].phase = "dead"
    /\ worker' = [worker EXCEPT ![w] = IdleWorker]
    /\ UNCHANGED <<job, msgs, sweep, reports, deleted, faults>>

CrashSweeper(s) ==
    /\ sweep[s].phase # "idle"
    /\ faults < MaxFaults
    /\ faults' = faults + 1
    /\ sweep' = [sweep EXCEPT ![s] = IdleSweep]
    /\ UNCHANGED <<job, msgs, worker, reports, deleted>>

\* A publication that failed, a broker that restarted, a worker that died
\* between taking the message and claiming the row.
LoseMessage(j) ==
    /\ msgs[j] > 0
    /\ faults < MaxFaults
    /\ faults' = faults + 1
    /\ msgs' = [msgs EXCEPT ![j] = @ - 1]
    /\ UNCHANGED <<job, worker, sweep, reports, deleted>>

-----------------------------------------------------------------------------

Attempt(w) ==
    \/ Load(w)
    \/ Succeed(w)
    \/ Fail(w)
    \/ Abort(w)
    \/ Return(w)

Pass(s) ==
    \/ Scan(s)
    \/ Recover(s)
    \/ PublishRecovered(s)

Next ==
    \/ \E j \in Jobs : Create(j) \/ Republish(j) \/ Age(j) \/ LoseMessage(j)
    \/ \E w \in Workers, j \in Jobs : Claim(w, j) \/ Duplicate(w, j)
    \/ \E w \in Workers : Attempt(w) \/ CrashWorker(w) \/ RestartWorker(w)
    \/ \E s \in Sweepers : Pass(s) \/ CrashSweeper(s)
    \/ \E gone \in SUBSET reports : DeleteReports(gone)

Spec == Init /\ [][Next]_vars

\* Workers and passes keep running, a dead worker is restarted, time passes and
\* beat keeps sweeping.  The broker is a first-in first-out queue: a message that
\* keeps coming back is delivered even when workers are busy in between.
Fairness ==
    /\ \A w \in Workers : WF_vars(Attempt(w)) /\ WF_vars(RestartWorker(w))
    /\ \A s \in Sweepers : WF_vars(Pass(s))
    /\ \A j \in Jobs :
         /\ WF_vars(Republish(j))
         /\ WF_vars(Age(j))
         /\ SF_vars(\E w \in Workers : Claim(w, j) \/ Duplicate(w, j))

FairSpec == Spec /\ Fairness

-----------------------------------------------------------------------------
(* Properties                                                              *)

\* Every variable holds values of its domain.
TypeOK ==
    /\ job \in [Jobs -> JobRow]
    /\ msgs \in [Jobs -> 0 .. MaxMessages]
    /\ worker \in [Workers -> WorkerState]
    /\ sweep \in [Sweepers -> SweepState]
    /\ reports \in SUBSET (Jobs \X Nat)
    /\ deleted \in SUBSET (Jobs \X Nat)
    /\ faults \in 0 .. MaxFaults

\* Duplicate messages never run one attempt twice: of the workers between their
\* claim and their outcome no two hold the same attempt of a job, none holds an
\* attempt the row has not counted, and none an attempt whose report was committed
\* before, deleted since or not (the conditional UPDATE of run_job).
AttemptRunsOnce ==
    \A w \in Workers : worker[w].phase \in {"claimed", "working"} =>
        /\ worker[w].attempt \in 1 .. job[worker[w].job].attempts
        /\ <<worker[w].job, worker[w].attempt>> \notin reports \cup deleted
        /\ \A v \in Workers \ {w} :
             v \in Attempting(worker[w].job) => worker[v].attempt # worker[w].attempt

\* No job is given up early, whatever stale number the decision was taken with:
\* a failed job has used all its attempts (run_job and recover_stuck_jobs).
NoEarlyFailure ==
    \A j \in Jobs : job[j].status = "failed" => job[j].attempts >= MaxJobAttempts

\* A job that points to a report points to one that is stored, and a job shown as
\* succeeded has one until it is deleted, even when the row was requeued, failed or
\* run again meanwhile: NULL in a succeeded row always means that a committed report
\* of this job was deleted (the single commit of run_job; ON DELETE SET NULL).
SucceededHasReport ==
    \A j \in Jobs :
        /\ job[j].report # 0 => <<j, job[j].report>> \in reports
        /\ job[j].status = "succeeded" /\ job[j].report = 0 => \E r \in deleted : r[1] = j

\* A job whose attempts may outlive the cutoff is still run a bounded number of
\* times: besides the first claim, each attempt below the maximum puts the row
\* back in the queue at most once by its worker and once by each recovery pass.
AttemptsBounded ==
    \A j \in Jobs :
        job[j].attempts <= 1 + (MaxJobAttempts - 1) * (1 + Cardinality(Sweepers))

\* An accepted job reaches an outcome and keeps it, in spite of lost messages,
\* crashes and aborted attempts (the durability promise of the module docstring).
JobsSettle == \A j \in Jobs : job[j].status # "absent" ~> [](job[j].status \in Terminal)

-----------------------------------------------------------------------------
(* Properties that need attempts to end before the cutoff and recovery       *)
(* passes not to overlap                                                     *)

\* The lifecycle is forward-moving: no step changes a terminal status.
TerminalIsFinal ==
    [][\A j \in Jobs : job[j].status \in Terminal => job'[j].status = job[j].status]_vars

\* The table shows its readers the lifecycle of JobLifecycle and nothing else.
Lifecycle == INSTANCE JobLifecycle WITH
    status <- [j \in Jobs |-> job[j].status],
    attempts <- [j \in Jobs |-> job[j].attempts],
    report <- [j \in Jobs |-> job[j].report]

\* Every step of the workers, the broker and the sweeps is a step of the
\* lifecycle or invisible to it.
RefinesLifecycle == Lifecycle!Spec

\* And the sweeps, the broker and the workers together give it its fairness.
LifecycleProgress == Lifecycle!Fairness

\* A job gets at most MAX_JOB_ATTEMPTS attempts.
AttemptsWithinMax == \A j \in Jobs : job[j].attempts <= MaxJobAttempts

\* A job never gets a second report, not even after its first was deleted: whatever
\* was committed is the report of the job's last attempt, the job stays succeeded, and
\* while the report is stored the job points to it.
ReportIsTheJobs ==
    \A r \in reports \cup deleted :
        /\ job[r[1]].status = "succeeded"
        /\ r[2] = job[r[1]].attempts
        /\ r \in reports => job[r[1]].report = r[2]

\* A recovery pass takes no row away from a worker that is still working on it.
RecoversOnlyAbandoned ==
    [][\A s \in Sweepers, j \in Jobs :
         /\ sweep[s].phase = "scanned"
         /\ sweep'[s].phase = "committed"
         /\ sweep[s].stuck[j] > 0
         => Attempting(j) = {}]_vars
=============================================================================
