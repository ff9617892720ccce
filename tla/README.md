# Verification of reportapi-selfhosted

TLA+ models of the service under `src/`, their model-checking instances, and
machine-checked proofs about them. `PROJECT.json` maps every definition to the
lines it models, lists the runs, the mutants that show what each property
catches, the theorems and the hazards. This file explains how they fit.

## 1. The system

A FastAPI process (`src/app/api`) accepts requests and writes PostgreSQL rows; a
Celery worker (`src/app/worker`) executes report jobs, sends webhooks and runs the
periodic tasks that beat publishes; a Redis broker carries messages. All three may
crash at any moment, messages may be lost or repeated, and the only thing the parts
share is the database. PostgreSQL runs in read-committed mode: a statement sees
what is committed when it starts, an UPDATE waits for the row and re-evaluates its
condition, and rows a session has read earlier may have changed since.

| Component | State it keeps | Operations | Interacts with | What makes it hard | What makes it correct |
|---|---|---|---|---|---|
| Report jobs (`core/job_service.py`, `worker/tasks.py`) | `report_jobs`: status, attempts, started_at, report_id | accept, claim, run, succeed, fail, recover, republish | broker, pipeline, outbox, schedules | repeated messages, crashes between commits, attempts that outlast the recovery cutoff, stale reads | one attempt at a time, forward-moving status, bounded attempts, every accepted job ends |
| Job intake (`api/routes/job.py`, `create_report_job`) | the same table, idempotency keys | look up, insert, look up again | templates (foreign key) | requests racing with one key | one job for each key, no loser is refused |
| Schedule dispatch (`_dispatch_due_schedules`, `claim_schedule_occurrences`, `core/schedule_time.py`) | `schedules`: cron, active, `last_attempted_at` | pass over due schedules, claim occurrences, advance the cursor, CRUD | job table by occurrence key; `run_job` writes the cursor back | overlapping passes, a crash between claim and cursor, bounded catch-up | no occurrence lost, none dispatched twice, skipped ones stay skipped |
| Webhook outbox (`core/webhook_service.py`, `worker/tasks.py`, `api/routes/webhook.py`) | `webhook_destinations`, `webhook_deliveries`: status, attempts, next_attempt_at | enqueue with the report, dispatch, claim with a lease, send, settle, manual retry | broker, destinations' servers | lease against late answers, crashes mid-send, edits and deletions under a send | an attempt is sent by one worker, every delivery settles, delivered means received |
| Report retention (`core/retention_service.py`) | `reports` | select expired, delete | outbox (cascade) | select and delete are two statements | no notification is thrown away untried |
| Templates (`api/routes/template.py`) | `report_templates`: version, content, archived | upload, edit, archive, delete, render | jobs and reports (foreign keys, snapshot) | validation in a thread between load and write; count before delete | a version names one content; a report uses the template it was asked for |
| Report pipeline (`core/report_service.py`, `pii.py`, `prompt_builder.py`) | none | fetch, deduplicate, filter, redact, rank, fit the budget, call the model, persist | connectors, LLM, templates | boundaries of period and budget | what is reported is counted and disclosed |
| Connectors (`connectors/*.py`) | none | page through a source with limits | remote APIs | repeated cursors, failing later pages, limits, a source that changes between pages | a fetch that left records out says so |
| Runtime configuration (`core/env_writer.py`, `api/routes/config.py`) | the `.env` file and its lock file | copy, set, rename, sync under the lock; read as a whole | every process reads the file | several writing processes, a death or a loss of power between any two steps | an acknowledged save is not undone, and takes no other key with it |
| Render sandbox (`core/render_process.py`) | two slots | render in a subprocess with a deadline | templates, report rendering | time-outs and failures must free the slot, and the child must not outlive it | never more children than slots, never busy for ever |
| Report profiles (`api/routes/report_profile.py`) | `report_profiles` | create, partial update, delete, generate | templates (foreign key), jobs | partial updates are validated against a row that others change | a stored profile is complete; an update leaves the rest alone |
| Configuration UI (`src/config-ui`) | what a page shows | poll a job, load a history | API | late answers, deadlines | a page shows what it asked for last |
| Backup and restore (`src/scripts`) | two archives | dump, restore | database, configuration volume | no common instant, stop half way | a restore is complete or visible as not |
| Outbound target checks, LLM providers, health and ops, access, licence, logging, migrations, charts | none or deployment state | stateless | | | |

The last three rows are not modelled. The code of the last is a request filter, a
wrapper of one library call, a read-only query or deployment data, and a model would
restate it; a page of the UI keeps nothing but what it shows; backup and restore are
shell scripts run by hand with the services stopped.

## 2. Modules

| Module | What it is |
|---|---|
| `ReportJobs` | the durable job queue: rows, messages, workers, recovery, sweep |
| `JobLifecycle` | what the job table promises to its readers; `ReportJobs` implements it |
| `ReportJobsProofs` | proofs: types, attempts and their number; the prompt case and the refinement |
| `WebhookOutbox` | deliveries, destinations, workers, manual retry, retention |
| `DeliveryPromise` | what the outbox promises about a notice: tried one request at a time, then final; `WebhookOutbox` implements it |
| `WebhookOutboxProofs` | proofs: types, and what holds of sends whatever their timing; what leases add when sends are prompt, and the refinement |
| `ScheduleDispatch` | dispatch passes, occurrence claims, the cursor and its write-back |
| `OccurrenceFates` | what dispatching promises about an occurrence, without cursors; `ScheduleDispatch` implements it |
| `ScheduleDispatchProofs` | proofs: types, that no occurrence is lost, that what is skipped stays so, and the refinement |
| `TemplateIds` | how intake, templates and profiles, which extend it, name a template |
| `JobIntake` | `create_report_job` under concurrent requests |
| `JobIntakeProofs` | proofs: types, and that a key has one job |
| `Templates` | versions, references, and the copies reports keep |
| `ReportProfiles` | profiles, and partial updates in their two halves |
| `TemplatesProofs` | proofs about both: types, defaults and versions, complete profiles and what an update leaves alone; the types of `MCRequests` |
| `ConfigStore` | saves of settings: lock, copy, rename, sync, with deaths and losses of power |
| `ConfigMap` | what the store promises: a map updated at once; `ConfigStore` implements it |
| `ConfigStoreProofs` | proofs: types, acknowledged saves, the refinement |
| `RenderSlots` | render calls, their slots and their children |
| `RenderSlotsProofs` | proofs: types, and the bound on children |
| `ReportPipeline` | the connectors' page loops and the way from tickets to a report's status |
| `PromptFacts` | what the prompt states of its tickets: loads, blocked ones, ranked risks, groups |
| `ReportPipelineProofs` | proofs about both: types, also side by side, what a complete report covers and lists, the load note and the risks |
| `MCRequests` | instance of intake, templates, profiles, configuration and rendering |
| `MC*` | the other instances for TLC: symmetry sets, cron expressions, ranks, costs, backlogs |

Conventions. One action is one transaction, one statement up to its commit, or one
exchange with the outside; between two actions of a process anything else may
happen. What a session has read stays in the record of its process, because
`db/session.py` sets `expire_on_commit=False` and an ORM UPDATE carries only the
columns whose value differs from what was loaded: that is the operator `OrmWrite`,
and several of the properties below turn on it. A row that is not inserted yet has
status `"absent"`. `faults`, `edits` and `retries` only bound what the environment
does; message copies over `MaxMessages` are dropped, which is a state the lost
messages reach anyway. Operators introduced as "faulty variant" are not part of the
models: each is a plausible bug, used to show that a property notices it.

### ReportJobs

`job[j]` is the row of `report_jobs`; `stale` stands for `started_at` older than
`STALE_RUNNING_AFTER`. `msgs[j]` counts `execute_report_job` messages. `worker[w]`
is a Celery process inside `run_job`: `"claimed"` between the commit of the
conditional UPDATE (`Claim`, or `Duplicate` when it matches nothing) and
`db.refresh` (`Load`), `"working"` inside `generate_report`, `"ended"` until the
task has republished the job if it is queued (`Return`). `Succeed` is the one
commit of report and outcome, `Fail` the handler of `ReportGenerationError`,
`Abort` every other way out: a persist that fails rolls the session back and
expires the row that the handler is about to read, and a failing outbox insert
takes the whole success with it; nothing is written in either case. `sweep[s]` is a
pass of `recover_stuck_jobs`, which reads (`Scan`), writes without a condition
(`Recover`) and publishes. `Republish` is `dispatch_queued_report_jobs`. `reports` is
the reports table, each report named by the attempt that wrote it. `DeleteReports` is
a deletion, of one report by its route or of a set by retention: `report_id` is a
foreign key with ON DELETE SET NULL, so the commit clears it in the rows that point
there (`Unlinked`) and leaves their status. The history variable `deleted` keeps the
names. So NULL in a succeeded row means that its report was deleted, and that is what
`SucceededHasReport` says; `ReportIsTheJobs` says that a deletion makes no room for a
second report, and `JobLifecycle` has the step `Forget`.

`SlowAttempts` separates two deployments. When it is FALSE a row only grows stale
once no live worker attempts it. When it is TRUE an attempt may outlast the cutoff,
and its late outcome meets whatever recovery made of the row.

### WebhookOutbox

`delivery[<<x, r>>]` is the row for destination `x` and report `r`; `next` abstracts
`next_attempt_at` to NULL, passed (`"due"`) or ahead (`"later"`), which is both the
backoff of a pending row and the lease of a sending one. `Enqueue` is the commit
that makes a report visible with its pending rows. `Dispatch` publishes a due row,
`Claim`/`Ignore` are the conditional UPDATE of `send_delivery`, `Load` reads the row
and its destination, `Post` is the HTTP exchange, whose request the destination may
have handled although the answer is an error or lost, `Settle` writes the outcome by
primary key. `LoadForRetry` and `Retry` are the two halves of the manual retry
route. `SelectExpired` and `DeleteExpired` are the two statements of retention, and
every deletion cascades. `received` is the history of requests that arrived.
`SlowSends` is to the lease what `SlowAttempts` is to the cutoff.

`Promise` maps this to `DeliveryPromise`. A notice is `"owed"` while its row is pending or
being sent, and void when its row is gone or its destination was off when the report
appeared (`Shown`); a try is open while a worker is between its claim and the end of
its exchange, refused once it has found the destination off (`InPhase`). So claims are
`Try`, exchanges `Arrive`, `Refuse` or `Drop`, outcomes `Deliver` and `Fail`; messages,
leases and what a session has read are gone. A crash of a worker is a `Drop`, and a
request that arrives after its row was deleted still arrives. The promise keeps the
order that matters: no try while one is open, no failure before the tries are used up
unless the destination was off, no delivery without receipt, and nothing after either.

### ScheduleDispatch

Instants are numbers and a cron expression is the set of instants it names, so daylight
saving time is outside the model. `cursor` is `last_attempted_at`, or the creation
instant while it is NULL. The empty set is an expression that croniter takes for valid
although it names no instant, such as `0 0 31 2 *`: `get_prev` finds nothing to look
back to and raises, which ends the pass at that schedule (`Raise`). A pass keeps the
rows and the `now` it read at its `Begin`; `Claim` commits the inserts of the newest
`MaxBackfillOccurrences` due occurrences, ignoring those that violate a constraint, and
`Advance` moves the cursor in a commit of its own (and raises when the schedule is gone,
which ends the pass). `Finish` is the end of a job as far as the schedule sees it: the
cursor is set to that job's occurrence, back or forth. `skipped` is history.

`Fates` maps this to `OccurrenceFates`: an occurrence is open, queued, finished, skipped or
void (`Fate`), and the one thing a pass does there is `Serve`, which settles everything
open up to the pass's `now`. There is no cursor: where it stands, and that a pass
read it earlier, makes no difference, which is what the refinement shows.

### JobIntake

The three statements of `create_report_job`: `Arrive` or `Replay` (the key is
looked for), `Insert` or `LoseRace` (the insert and its constraints), `Fetch` (the
second look after a rollback). Every integrity error takes the same path. Without a
key the second look compares the column with NULL. Templates vanish at any time.

### Templates

`LoadForEdit` and `WriteEdit` are the halves of an edit, with the validation thread
between them; `LoadForDelete`, `CountReports`, `CountJobs` and `DeleteUnused` those
of a deletion. A generation loads its template (`Start`), works, and stores id, version
and a copy of the content (`Persist`). `Start` reads the job's template id and the
template in one step.

### ReportProfiles

`Load` and `Write` are the halves of an update: the route validates the fields it was
given together with the row it loaded, and its UPDATE carries only the columns that
differ from that row. `MeetsConstraints` are the unique name and the foreign key of
the template, `DropTemplate` is the deletion of a template, which counts jobs and
reports but not profiles and so turns a profile to the default template. An identifier
is its shape (a Jira key, a GitHub repository, up to ten digits, up to nineteen), and
each connector takes some shapes for its board and some for its sprint. `mixed` is history: the
profiles that an update wrote although they had changed since it loaded them.
`DeleteProfile` removes a profile whatever update has loaded it.

### ConfigStore

`file` is what the name of the `.env` file denotes and `remains` what it may denote
after a loss of power: an `os.replace` is atomic for readers at once, and lasts once
the directory is synced. A save is `AskToSave` (the checks before the lock), `Lock`,
`Fill` (copy and set), `SyncTemporary`, `Replace`, `SyncDirectory`; any of them may fail
(`FailSave`), its process may die (`Die`, which frees the lock), and `LosePower` ends
everything. The value of a setting is the save that wrote it, `rank` the order of
the replacements. `ConfigMap` has one step for a whole save, `Make`, and one for its
answer.

### RenderSlots

`free` is the semaphore of `run_render`, `call[c]` a thread of the API, `child[c]` its
subprocess. `Release` is the `finally` that every way out of the `try` takes:
`Collect`, `SpawnFails`, and `TimeOut`, in which `subprocess.run` kills the child and
waits for it before it raises. `RestartApi` ends the container with its children.

### ReportPipeline

The inside of one attempt, which the other modules take for a success or a failure.
Records are numbered by age and a source lists the newest first. A cursor
(`nextPageToken`, `offset`) stands for the records from one on, so it survives
additions; GitHub's page numbers count from the top of the list as it is when the page
is asked for (`NumberedPage`). `JiraPage`, `AsanaPage`, `GithubPage` are one request
with its answer; a source may answer a short page, omit Jira's `isLast` or its token, or
give a token again. It does not skip records, and unless `EmptyPages` is TRUE Jira
answers no empty page before its last: the run has it FALSE, because the code ends at
such a page as if it were the last and `CompleteCoversSource` does not hold. `Whole` and
`Cut` say when a page ends the loop and whether the fetch is then truncated. `PageFails`
is a failing request, `RecordUnreadable` a ticket that cannot be built, which is raised
outside the loop's `try`. Between two pages `AddRecord`, `UpdateRecord` and
`RemoveRecord` change the source. `Prepare` is the code between the fetch and the
listing (duplicates, period), `ListTicket` one turn of the listing's loop: the best
ticket that is left (`IsNext`) is listed if it `Fits` the budget, and ends the list if
not; `Narrate` is what follows. A record's tier and the cost of its line are constants.

### PromptFacts

One step, `BuildPrompt`, from the tickets of a report to the facts the prompt states of
them; a ticket is the record of what they depend on. `RiskTier` is the chain of tests
that gives a ticket its tier, `RiskList` the stable sort by tier, given by the `Place`
of each risk (one more than the risks that go before it), `LoadNote` the sentence about
who owns most. The properties say the same without the code's order of tests and without
its maxima.

### MCRequests and MCReportPipeline

`MCRequests` extends five components that share no state to make one instance: `component`
says which of them a behaviour is of, and only that one moves. Since no action of one
reads or writes a variable of another, every behaviour of each component is a
behaviour of the instance and their states add up instead of multiplying.
`MCReportPipeline` does the same for the pipeline and `PromptFacts`.

## 3. Runs

TLC explores every behaviour of the instance. All passing runs check deadlock off:
each system may come to rest once bounded work is done.

| Run | Instance | What it shows |
|---|---|---|
| `jobs_slow` | 1 job, 2 workers, 1 recovery pass, 2 attempts, 2 faults, 2 deleted reports, slow attempts, fair | whatever outlasts the cutoff: an attempt runs once, no job fails with attempts left, success has its report until that is deleted, attempts stay within 1 + (Max - 1)(1 + passes), and every job settles |
| `jobs_prompt` | 2 jobs, 2 workers, 1 pass, 3 attempts, 2 faults, 2 deleted reports, prompt attempts, fair | the forward lifecycle: one report for a job for good, recovery takes nothing from a live worker; `ReportJobs` implements `JobLifecycle` with its fairness, and so makes at most Max attempts (`AttemptsWithinMax`) |
| `jobs_lifecycle` | 1 job, 2 workers, slow attempts | violated: terminal is final |
| `outbox_prompt` | 1 report, 1 destination, 2 workers, 3 attempts, 2 faults, 2 edits, fair | what is being sent can be recovered, attempts beyond the maximum cost a crash each, the outbox keeps `DeliveryPromise`, nothing is sent after a success, retention takes no untried notification, and all settle |
| `outbox_slow` | 1 report, 1 destination, 2 workers, 1 operator, 1 retry, 1 fault, slow sends | an attempt is sent by one worker, and delivered means received |
| `outbox_stranded` | as above with prompt sends | violated: what is being sent can be recovered |
| `schedule_overlap` | 1 schedule with a dense or sparse cron, or one that names no instant, 2 passes, 4 instants, backfill 2, 1 crash, 1 edit | no occurrence is lost |
| `schedule_served` | 2 schedules, each with a dense cron or one that names no instant, 1 pass, 3 instants, backfill 1, 1 crash or edit, fair | every due occurrence is served, unless a schedule that names no instant stays active; `ScheduleDispatch` implements `OccurrenceFates`, so what was skipped stays skipped |
| `api_requests` | 3 job requests, 2 keys, 1 template; 1 template with 2 contents, 3 versions, 1 editor, 1 deleter, 2 generations; 2 profiles and 2 updates out of 10; 3 saves of 3 settings in 2 groups, 2 deaths or losses of power; 4 render calls for 2 slots; fair | requests with a key share its job and losers are answered; a version names one content, and there is no silent default; a profile is complete unless updates were mixed, and an update leaves the rest alone; acknowledged saves last, and `ConfigStore` implements `ConfigMap`; no more children than slots, and a busy renderer becomes free |
| `templates_lost` | the templates with 2 editors | violated: a version names one content |
| `profiles_mixed` | the profiles as above | violated: a stored profile is complete |
| `pipeline_disclosed` | 3 records and 1 more, pages of 2, at most 3 pages and 3 tickets, 2 edits, 3 budgets, every period; for the prompt 3 tickets that differ in status, priority, security and age, 6 that differ in owner, 2 that differ in references | a report stored as complete covers its period; the newest copies are listed; the best tickets survive the budget; the load note is true; the risks are complete and ranked |

Why the bounds are enough. Two workers are the least that can hold two attempts of one
row; two jobs the least that make a pass treat rows of different kinds together, while
deliveries share nothing but their destination. Attempts are bounded at 3: a first, a
last, and one between; at 2 in `jobs_slow`, where late attempts already run more often
than that, and the proofs have any number. Two reports can be deleted because a late
attempt may have written the second. Two copies of a message in the broker are a
duplicate, and one of them may be taken while the other waits. One or two faults allow a
crash during the recovery of an earlier one. Four instants with a backfill of two leave
occurrences out on both sides of a window. Four records make two full pages, or more
than the three pages allowed when some are short, and pass the limit of three tickets in
the middle of a page; only GitHub's page limit is out of their reach, because its pages
are short at the end alone; two edits are an addition and an update between two pages.
Six tickets and three owners are the least with three different loads, two loads tied at
the top, and two tied below it. Three saves of overlapping and disjoint keys are one
that is acknowledged, one that dies and one that follows; two faults are a death and a
loss of power after it. Four calls for two slots leave two to be turned away or to wait
their turn. Two updates are the least that mix. What the proofs cover (section 6) holds
without any of these bounds.

Conditions that a property needs are part of its comment. `RefinesFates`,
`SkippedForGood` and `VersionNamesContent` need passes, respectively edits, that do not
overlap; `CompleteCoversSource` is stated for GitHub listings that no issue leaves
during the fetch, and for Jira without empty pages before the last; `DueIsServed`
supposes that after some time no active schedule has an expression that names no instant
(`Readable`); in `schedule_served` such a schedule can be there from the start, and an
edit may turn it off or delete it. That run has one crash or one edit in each behaviour
(`OneDisturbance`) and no edit of an expression (`EditCrons`), else its liveness graph
grows too large; `RefinesPromise`, `NoSendAfterDelivery` and `DeliveriesSettle` are
stated without manual retries, which may be repeated for ever; the second group of
properties of `ReportJobs` and `WebhookOutbox` needs attempts that end before the cutoff
or the lease. Edits of a cron expression are left out of `NoOccurrenceLost`: an
occurrence that the new expression names before the cursor was never due.

## 4. Fairness

* A worker that is executing goes on, and one that died is restarted (the containers
  restart): weak fairness of `Attempt`, `RestartWorker`. The pipeline's calls and
  the webhook's POST have time-outs, so an attempt ends.
* Beat publishes the sweeps, the recovery, the dispatchers every minute: weak
  fairness of `Republish`, `Pass`, `Dispatch`, `Begin`.
* Time passes: weak fairness of `Age`, `Expire`, `Tick`.
* A message that is published again and again is taken by some worker: strong
  fairness, because workers may be busy in between. Redis lists are first-in
  first-out, so a message is not overtaken for ever.
* A process that saves settings goes on, and is given the lock when nobody holds it: weak
  fairness of `Proceed`, one save at a time (`StoreFairness`). The saves are
  finitely many, so that no stronger promise of `flock` is needed.
* A call that holds a slot goes on, and its wait ends at the deadline given to
  `subprocess.run`: weak fairness of `Serve` (`SlotsFairness`). A child may hang.
* No fairness for crashes, lost messages, edits, or for how an attempt ends.

`JobLifecycle` asks for weak fairness of `Begin` and of the end of an attempt;
`LifecycleProgress` shows that the fairness above provides it. `ConfigMap` asks for
weak fairness of what a save does until it is answered, as part of `MapSpec`.

## 5. Where code and text disagree

Four runs exhibit a behaviour that contradicts what the repository says
(`PROJECT.json`, "findings"):

* `jobs_lifecycle`: a late attempt writes by primary key, so a job that succeeded
  can be queued again, though its lifecycle is called strictly forward-moving.
* `outbox_stranded`: a manual retry of a row it loaded as pending, claimed by a
  worker in between, clears only the lease; if the worker dies the row stays
  `sending` without lease, and neither dispatcher nor claim ever matches it.
* `templates_lost`: two overlapping edits write the same version number with
  different contents.
* `profiles_mixed`: two overlapping updates of a Jira profile, one that takes its board
  away and one its sprint, are each valid with the row they loaded, and leave a
  profile without scope, which cannot be generated from.

Met while modelling, and left for later runs: a schedule whose expression names no
instant (`0 0 31 2 *`, which `croniter.is_valid` accepts) makes `get_prev` raise in
every dispatch pass that reaches it (`schedule_time.py:63`, not caught in
`tasks.py:71`), so that the schedules behind it are never served and no heartbeat is
written while it is active (`DueIsServed` without its premise `Readable` is violated); a
request without idempotency key whose template is missing looks for a job whose key is
NULL, and when there is exactly one it is answered with somebody else's job (`Fetch` of
`JobIntake`); with an empty page before the last (`EmptyPages` TRUE) a Jira fetch ends
without being marked truncated, although `FetchResult` says it is "whenever the
connector stopped before exhausting the source"; an issue leaving a GitHub listing hides
another one; a manual retry resends what was delivered; retention, between its select
and its delete, can take a delivery that has turned pending again, and never looks at
one that is being sent; a job accepted between the reference counts and the deletion of
its template is rendered with the default, which `NoSilentDefault` permits once the
template is gone; an attempt number above the maximum after a late failure or after a
worker died in its last attempt; two overlapping recovery passes of which the later one
takes the row from a live worker; a finishing job that moves the cursor back, so that
the next pass considers old occurrences again (harmless, as `NoOccurrenceLost` and the
occurrence key show); a busy renderer, which makes the edit routes refuse a valid
template with the status of an invalid one; the line of a blocked ticket in the risk
section, which says that no priority is set also when it is low.

## 6. Proofs

Checked by TLAPS for every value of the constants, from the named assumptions of
each module only (bounds are natural numbers, placeholder values are outside their
sets, the id sets of the outbox and of the schedules are not empty, expressions name
instants or none, the recovery passes that are in flight and the calls of the renderer are
finitely many, a patch gives columns values of theirs, a backlog is a sequence of
tickets). What a theorem needs of the deployment is a hypothesis in its statement:
`Prompt`, `Steady`, `OnePass`, `EditsDoNotOverlap`, `~EmptyPages`. The runs named for
each property show instances in which the hypothesis holds and the property's cases
occur.

* `TypeCorrect` (`ReportJobsProofs`). `TypeInv` adds to `TypeOK` that a busy worker
  holds a job.
* `AttemptsAreSafe`: `AttemptRunsOnce`, `NoEarlyFailure`, `SucceededHasReport`, with any
  number of workers, duplicates, late attempts and overlapping passes. `AttemptInv`
  strengthens them with two facts about the past: a report's attempt, whether it is
  still stored or not, is one the row has counted, and what a worker or a pass has read
  of `attempts` is at most what the row counts now. The first makes a new claim's number
  fresh; the second makes a decision taken on a stale number safe. The part of
  `SucceededHasReport` about rows that are not succeeded is needed too: a row keeps the
  link to its report when recovery queues it again, and a deletion must find it there.
* `RunsAreBounded`: `AttemptsBounded`. A job is put back in the queue by the worker of an
  attempt or by a pass that has read it, and each can do so once for an attempt below
  the maximum. `ChancesInv` counts what is left of these chances (`OwnChances`,
  `PassChances`): runs begun, the run a waiting job has coming, and chances left stay
  together within the bound. Chances do not come back (`ChancesShrink`), because a
  job only runs again as a new attempt and a pass only reads what runs; and a step that
  queues a job takes one (`ChancesPay`): the worker's, because no other worker holds its
  attempt, or the pass's, because the row it has read is no longer running.
* `PromptJobsAreSafe`, `ImplementsLifecycle`, when attempts
  end before the cutoff and passes do not overlap (`Prompt`): at most Max attempts,
  one report, and every step is a `JobLifecycle` step or invisible to it.
  `PromptInv` says that a live attempt is the one its running row stands for and
  that a pass finds its rows as it read them; hence two workers cannot own one job,
  and the unconditional writes are the conditional ones. `RecoveryIsSafe` draws from
  it that a recovery pass takes no row from a live worker.
* `OutboxTypeCorrect`, `SendsAreSafe` (`WebhookOutboxProofs`): `AttemptSentOnce`,
  `DeliveredWasReceived`, `PurgeOnlyAttempted`, also with slow sends, manual retries
  and deletions. `SendInv` adds that a row implies its report and that reports do not
  come back (so that a row deleted under a worker is not made again), that a claim's
  number is positive and one the row has counted, that a row which was claimed has
  counted it, and that a worker about to write `delivered` has been received.
* `SendingRecovers`, `AttemptsAreBounded`, `DeliveryIsFinal`, when
  sends end before their lease and nobody retries by hand (`Prompt`): a row being sent
  has a lease that will expire, attempts beyond the maximum are paid for by crashes,
  and a delivered row stays so and is not sent again. `LeaseInv` says that a row has one
  holder, that it is as its holder read it and its lease has not expired, and that a
  row which can be claimed again has an attempt left or a crash that pays for one.
* `KeepsPromise`, under the same assumption: every step is a `DeliveryPromise` step or
  invisible to it (`RefinesPromise`). What is under way for a notice is decided by the
  one worker that holds its row (`HolderDecides`), `LeaseInv` makes that worker's write by
  primary key a write to the row it read, and `SendInv` says that a request whose answer
  was good has arrived.
* `DispatchTypeCorrect`, `NothingIsLost` (`ScheduleDispatchProofs`): `NoOccurrenceLost`
  for any number of overlapping passes, crashes and finishing jobs, if edits change no
  expression (`Steady`). `DispatchInv` names every instant that the cursor may be
  set to next: the cursor now, what any pass has read, the end of any claimed window,
  the occurrence of any job. Each is passed: everything up to it is covered by a job
  or by enough newer ones. A claim of the newest occurrences of a window extends this
  from the cursor that was read to every occurrence of the window; that a set of
  instants has a last one rests on the well-foundedness of the numbers.
* `SkippedStaySkipped`: `SkippedForGood`, with one pass at a time and steady expressions.
  `SkipInv` says why the cursor may go back without harm: between a skipped occurrence
  and now there are as many newer ones as a pass may claim, and so there are up to the
  instant at which a running pass began, for every schedule it has yet to handle. A
  window that would reach back to the occurrence is cut before it.
* `CursorsAreInvisible`, under the same assumptions: every step is an `OccurrenceFates`
  step or invisible to it (`RefinesFates`), crashes included. `SettleInv` says that
  whatever a cursor, a row read earlier or a job's occurrence has passed has a job or was
  skipped, so that looking from the cursor on and looking at everything find the same
  open occurrences; `ClaimFates` then compares a claim, occurrence by occurrence, with a
  `Serve` as of the pass's `now`, and `SkipInv` covers the open ones that are cut off.
* `StoreTypeCorrect`, `StoreIsSafe`, `ImplementsConfigMap` (`ConfigStoreProofs`):
  `AcknowledgedSavesLast` with any number of saves, deaths and losses of power, and
  every step is a `ConfigMap` step or invisible to it (`Map!MapSafety`, the
  specification without its fairness). `StoreInv` says that who is between lock and
  answer holds the lock, that a copy made under it is still the file with that save's
  settings, and that ranks count the replacements; so an unsynced replacement is the
  last one, and what it covers is later than all that was acknowledged.
* `SlotsTypeCorrect`, `RendersAreBounded` (`RenderSlotsProofs`): `SlotsInv` says that free
  slots and holders add up to all slots, and that a live child has a waiting call.
* `IntakeTypeCorrect`, `KeysAreSafe` (`JobIntakeProofs`): `SameKeySameJob` and
  `LosersAreAnswered`. `KeyInv` says that keys are unique among jobs, that a job's
  request is over, and that every request's state has its reason.
* `TemplatesTypeCorrect`, `DefaultsAreNotSilent`, `VersionsNameContents`
  (`TemplatesProofs`): `NoSilentDefault` for any number of edits, deletions and
  generations, because whatever did without the template it was asked for did so after
  that template was gone (`DefaultsAreExplained`); `VersionNamesContent` when edits do not
  overlap (`EditsDoNotOverlap`). `VersionsInv` collects every copy of a content that a
  row, a report or a generation at work holds: none is newer than the row, two of one
  version agree, and what the one edit has loaded is the row; so the number an edit
  writes is new.
* `ProfilesTypeCorrect`, `UnmixedProfilesAreComplete`, `UpdatesKeepTheRest`:
  `CompleteUnlessMixed` and `UpdateLeavesTheRest` for any profiles, drafts and patches.
  `ProfilesInv` adds that what an update has loaded is a row; when the row is still the
  one it loaded, the columns that the UPDATE carries make it the row that was validated.
* `PipelineTypeCorrect`, `CompleteReportsCover`, `ListedCopiesAreNewest`, `ListingIsBest`
  (`ReportPipelineProofs`): `CompleteCoversSource` when Jira answers no empty page before
  its last (`~EmptyPages`), `NewestCopyIsListed` and `BestTicketsAreListed`, for any
  number of records, edits, pages, limits, tiers, costs and budgets. `FetchInv` relates
  the copies to the source while both move: `ServedAreCopied` says that every record
  above the token, or with as many newer ones as numbered pages were asked for, has been
  copied, so that a short page leaves none behind (`ShortPageIsLast`). `ReportInv` says
  that the tickets are those selected from the copies, that a report is complete only of
  a whole fetch with all tickets listed, and that the list is a prefix of the ranking
  whose cost is what the loop has counted (`CostOfOneMore`).
* `LoadNotesAreTrue`, `RisksRankByTier`: `LoadNoteIsTrue` and `RisksAreRanked` for backlogs
  of any length. The note's maxima and minima exist because a backlog is finite
  (`Extremes`); that the places of the risks are a permutation of `1 .. n`
  (`RiskListPlaces`) follows from `RisksBefore` being a strict total order.
* `RequestsTypeCorrect` (`TemplatesProofs`) and `PipelineAndPromptTypeCorrect`: `TypesOK` of
  `MCRequests` and of `MCReportPipeline`, by combining the invariants of the components;
  that the prompt counts no more unassigned tickets than there are rests on the
  cardinalities of subsets of a finite backlog.

Only model-checked: all liveness (out of the prover's reach, as is ENABLED), hence the
fairness of the lifecycle and of `ConfigMap`. `FoldSet` and sums over sets are
recursive, so the sizes that theorems depend on are given as cardinalities
(`ListedCost`, `Assigned`). Every invariant, every action property and every refinement
(without its fairness) of the passing runs is stated by a theorem. Two
definitions are proved and in no run, since a refinement that is checked implies them:
`AttemptsWithinMax` (`RefinesLifecycle`) and `SkippedForGood` (`RefinesFates`).

## 7. Not modelled

What an attempt computes is its success or failure, except in `ReportPipeline`, where it
is which tickets the report lists. Payloads, signatures, texts, redaction, formatting
and logging are left out, and reads that change nothing (lists, health), and the flag of
archived templates, which only a list reads. `PromptFacts` has the facts of the prompt
and not their wording, and the sizes of its sections are not modelled. The escaping of
settings is left out, and so is the copy each process keeps of the file, which it reads
again before it generates a report or answers for the settings. The synchronous
generation route stores a report without a job: `Ask` in `Templates`. Queue priorities
and worker prefetch are subsumed by arbitrary delivery order. PostgreSQL itself is
assumed: atomic commits, constraints, read committed.

## 8. Plan

Done: `ReportJobs` with its lifecycle, `WebhookOutbox` with its promise, `ScheduleDispatch`
with the fates of its occurrences, `JobIntake`, `Templates`, `ReportProfiles`,
`ConfigStore` with its map, `RenderSlots`, `ReportPipeline`, `PromptFacts`; proofs of types
and safety for all of them, and of the four refinements.

Next, in order of importance:

1. `ReportPipeline` with empty pages and with issues leaving a listing, as runs of
   their own; the lifecycle of a report's status to its webhook.
2. A composition of intake, jobs and outbox through the report's commit, and with it
   what a client that holds a job's id may rely on (`JobLifecycle`, `DeliveryPromise` and
   `OccurrenceFates` are the interfaces it would compose).
3. The polling of the UI.
4. Proofs: what holds of `ReportPipeline` with empty pages, and of the outbox when
   manual retries may race with sends (a promise weaker than `DeliveryPromise`).
