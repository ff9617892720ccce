--------------------------- MODULE ScheduleDispatch ---------------------------
(***************************************************************************)
(* Schedules and the dispatch passes that turn their due cron occurrences  *)
(* into jobs (dispatch_due_schedules, claim_schedule_occurrences), with    *)
(* what the execution of those jobs writes back to the schedule (run_job)  *)
(* and the operators' edits of schedules.                                  *)
(*                                                                         *)
(* Instants are numbers; a schedule's cron expression and zone are the set *)
(* of instants they name.  A pass keeps the rows it read at its start: the *)
(* session neither expires nor rereads them.                               *)
(***************************************************************************)
EXTENDS Naturals, FiniteSets

CONSTANTS
    Schedules,               \* ids of the schedules rows
    Passes,                  \* dispatch passes that may be in flight together
    Crons,                   \* the cron expressions, as sets of instants
    MaxBackfillOccurrences,  \* MAX_BACKFILL_OCCURRENCES
    MaxTime,                 \* bound: the last instant
    MaxFaults,               \* bound: passes that crash
    MaxEdits,                \* bound: edits of schedules
    EditCrons                \* may an edit change an expression?

ASSUME BoundsAssumption ==
    /\ Schedules # {}
    /\ MaxBackfillOccurrences \in Nat \ {0}
    /\ MaxTime \in Nat /\ MaxFaults \in Nat /\ MaxEdits \in Nat

\* No schedule has an occurrence at its creation, instant 0.  The empty set stands for
\* an expression that is valid and names no instant at all, as '0 0 31 2 *'.
ASSUME CronsAssumption == Crons # {} /\ \A c \in Crons : c \subseteq 1 .. MaxTime

ASSUME EditsAssumption == EditCrons \in BOOLEAN

Instants == 0 .. MaxTime
Occurrences == Schedules \X (1 .. MaxTime)

VARIABLES
    now,       \* the clock
    schedule,  \* the schedules table
    job,       \* the report_jobs rows of schedules, by occurrence key
    pass,      \* what each dispatch pass is doing and what it has read
    skipped,   \* history: occurrences a pass left out because newer ones filled its bound
    faults,    \* crashes so far
    edits      \* edits so far

vars == <<now, schedule, job, pass, skipped, faults, edits>>
counters == <<faults, edits>>

-----------------------------------------------------------------------------

\* cursor: last_attempted_at, or created_at (0) while that is NULL.
ScheduleRow ==
    [state : {"active", "inactive", "deleted"}, cursor : Instants, cron : SUBSET (1 .. MaxTime)]

JobStatus == {"absent", "queued", "finished"}

\* rows: the schedules as loaded; at: the schedule whose claims are committed and
\* whose cursor is not; window: the occurrences considered for it.
PassState ==
    [phase : {"idle", "running", "claimed"},
     now : Instants,
     todo : SUBSET Schedules,
     rows : [Schedules -> ScheduleRow],
     at : Schedules,
     window : SUBSET (1 .. MaxTime)]

SomeSchedule == CHOOSE s \in Schedules : TRUE

IdlePass ==
    [phase |-> "idle", now |-> 0, todo |-> {},
     rows |-> [s \in Schedules |-> [state |-> "inactive", cursor |-> 0, cron |-> {}]],
     at |-> SomeSchedule, window |-> {}]

Init ==
    /\ now = 0
    /\ schedule \in [Schedules -> [state : {"active"}, cursor : {0}, cron : Crons]]
    /\ job = [o \in Occurrences |-> "absent"]
    /\ pass = [p \in Passes |-> IdlePass]
    /\ skipped = {}
    /\ faults = 0 /\ edits = 0

-----------------------------------------------------------------------------

\* Faulty variant of Newest: catching up from the oldest.
Oldest(n, S) == {t \in S : Cardinality({u \in S : u < t}) < n}

\* The newest n elements of a set of instants.
Newest(n, S) == {t \in S : Cardinality({u \in S : u > t}) < n}

\* Faulty variant of Due: the instant right after the cursor is left out.
DueLate(row, at) == {t \in row.cron : row.cursor + 1 < t /\ t <= at}

\* due_occurrences_utc looks back from the pass's now to just after the cursor.
Due(row, at) == {t \in row.cron : row.cursor < t /\ t <= at}

DueOccurrences(row, at) == Newest(MaxBackfillOccurrences, Due(row, at))

\* Faulty variant of Latest: one instant too far.
PastLatest(S) == 1 + CHOOSE t \in S : \A u \in S : u <= t

Latest(S) == CHOOSE t \in S : \A u \in S : u <= t

\* The occurrences of s that have a job.
Claimed(s) == {t \in 1 .. MaxTime : job[<<s, t>>] # "absent"}

-----------------------------------------------------------------------------
(* _dispatch_due_schedules                                                 *)

\* now is taken and the active schedules are loaded.
Begin(p) ==
    /\ pass[p].phase = "idle"
    /\ pass' = [pass EXCEPT ![p] =
                  [phase |-> "running", now |-> now, rows |-> schedule,
                   todo |-> {s \in Schedules : schedule[s].state = "active"},
                   at |-> SomeSchedule, window |-> {}]]
    /\ UNCHANGED <<now, schedule, job, skipped, counters>>

\* Nothing is due for this schedule as the pass read it.
Skip(p, s) ==
    /\ pass[p].phase = "running"
    /\ s \in pass[p].todo
    /\ pass[p].rows[s].cron # {}
    /\ DueOccurrences(pass[p].rows[s], pass[p].now) = {}
    /\ pass' = [pass EXCEPT ![p].todo = @ \ {s}]
    /\ UNCHANGED <<now, schedule, job, skipped, counters>>

\* get_prev finds no instant to look back to and raises; nothing catches it before the
\* task, so that the pass ends there, whatever else it still had to serve.
Raise(p, s) ==
    /\ pass[p].phase = "running"
    /\ s \in pass[p].todo
    /\ pass[p].rows[s].cron = {}
    /\ pass' = [pass EXCEPT ![p] = IdlePass]
    /\ UNCHANGED <<now, schedule, job, skipped, counters>>

\* claim_schedule_occurrences: each occurrence that has no job gets a queued one,
\* in one commit.  An insert that violates a constraint is skipped: the unique key
\* when another pass was first, the foreign key when the schedule is deleted.
Claim(p, s) ==
    LET row    == pass[p].rows[s]
        window == DueOccurrences(row, pass[p].now)
    IN
    /\ pass[p].phase = "running"
    /\ s \in pass[p].todo
    /\ window # {}
    /\ job' = IF schedule[s].state = "deleted" THEN job
              ELSE [o \in Occurrences |->
                      IF o[1] = s /\ o[2] \in window /\ job[o] = "absent" THEN "queued" ELSE job[o]]
    /\ pass' = [pass EXCEPT ![p].phase = "claimed", ![p].todo = @ \ {s},
                            ![p].at = s, ![p].window = window]
    /\ skipped' = skipped \cup ({s} \X ((Due(row, pass[p].now) \ window) \ Claimed(s)))
    /\ UNCHANGED <<now, schedule, counters>>

\* The cursor moves to the last occurrence considered, in a commit of its own.
\* Updating a schedule that was deleted raises, and the pass ends there.
Advance(p) ==
    LET s == pass[p].at
        t == Latest(pass[p].window)
    IN
    /\ pass[p].phase = "claimed"
    /\ IF schedule[s].state = "deleted"
       THEN /\ pass' = [pass EXCEPT ![p] = IdlePass]
            /\ UNCHANGED schedule
       ELSE /\ schedule' = [schedule EXCEPT ![s].cursor = t]
            /\ pass' = [pass EXCEPT ![p].phase = "running", ![p].window = {}]
    /\ UNCHANGED <<now, job, skipped, counters>>

\* Every schedule loaded has been served.
End(p) ==
    /\ pass[p].phase = "running"
    /\ pass[p].todo = {}
    /\ pass' = [pass EXCEPT ![p] = IdlePass]
    /\ UNCHANGED <<now, schedule, job, skipped, counters>>

-----------------------------------------------------------------------------
(* run_job, as far as the schedule sees it                                 *)

\* Faulty variant of Finish: the cursor is set to the time the job ended.
FinishNow(s, t) ==
    /\ job[<<s, t>>] = "queued"
    /\ job' = [job EXCEPT ![<<s, t>>] = "finished"]
    /\ schedule' = IF schedule[s].state = "deleted" THEN schedule
                   ELSE [schedule EXCEPT ![s].cursor = now]
    /\ UNCHANGED <<now, pass, skipped, counters>>

\* A job ends for good and, if its schedule still exists, the schedule's cursor is
\* set to the job's own occurrence.
Finish(s, t) ==
    /\ job[<<s, t>>] = "queued"
    /\ job' = [job EXCEPT ![<<s, t>>] = "finished"]
    /\ schedule' = IF schedule[s].state = "deleted" THEN schedule
                   ELSE [schedule EXCEPT ![s].cursor = t]
    /\ UNCHANGED <<now, pass, skipped, counters>>

\* The worker dies between the commit of the failure and that of the cursor.
FinishUnrecorded(s, t) ==
    /\ job[<<s, t>>] = "queued"
    /\ faults < MaxFaults
    /\ faults' = faults + 1
    /\ job' = [job EXCEPT ![<<s, t>>] = "finished"]
    /\ UNCHANGED <<now, schedule, pass, skipped, edits>>

-----------------------------------------------------------------------------
(* The schedule routes                                                     *)

\* PUT replaces the cron expression and the active flag and leaves the cursor.
UpdateSchedule(s, cron, state) ==
    /\ schedule[s].state # "deleted"
    /\ EditCrons \/ cron = schedule[s].cron
    /\ edits < MaxEdits
    /\ edits' = edits + 1
    /\ schedule' = [schedule EXCEPT ![s] =
                      [state |-> state, cursor |-> schedule[s].cursor, cron |-> cron]]
    /\ UNCHANGED <<now, job, pass, skipped, faults>>

\* The rows of its jobs stay, without their schedule_id.
DeleteSchedule(s) ==
    /\ schedule[s].state # "deleted"
    /\ edits < MaxEdits
    /\ edits' = edits + 1
    /\ schedule' = [schedule EXCEPT ![s].state = "deleted"]
    /\ UNCHANGED <<now, job, pass, skipped, faults>>

-----------------------------------------------------------------------------
(* Time and failures                                                       *)

Tick ==
    /\ now < MaxTime
    /\ now' = now + 1
    /\ UNCHANGED <<schedule, job, pass, skipped, counters>>

CrashPass(p) ==
    /\ pass[p].phase # "idle"
    /\ faults < MaxFaults
    /\ faults' = faults + 1
    /\ pass' = [pass EXCEPT ![p] = IdlePass]
    /\ UNCHANGED <<now, schedule, job, skipped, edits>>

-----------------------------------------------------------------------------

Serve(p) ==
    \/ \E s \in Schedules : Skip(p, s) \/ Raise(p, s) \/ Claim(p, s)
    \/ Advance(p)
    \/ End(p)

Next ==
    \/ \E p \in Passes : Begin(p) \/ Serve(p) \/ CrashPass(p)
    \/ \E s \in Schedules, t \in 1 .. MaxTime : Finish(s, t) \/ FinishUnrecorded(s, t)
    \/ \E s \in Schedules, cron \in Crons, state \in {"active", "inactive"} :
         UpdateSchedule(s, cron, state)
    \/ \E s \in Schedules : DeleteSchedule(s)
    \/ Tick

Spec == Init /\ [][Next]_vars

\* Beat starts a pass every minute and a pass that runs goes on; time passes.
Fairness ==
    /\ \A p \in Passes : WF_vars(Begin(p)) /\ WF_vars(Serve(p))
    /\ WF_vars(Tick)

FairSpec == Spec /\ Fairness

-----------------------------------------------------------------------------
(* Properties                                                              *)

\* Every variable holds values of its domain.
TypeOK ==
    /\ now \in Instants
    /\ schedule \in [Schedules -> ScheduleRow]
    /\ job \in [Occurrences -> JobStatus]
    /\ pass \in [Passes -> PassState]
    /\ skipped \subseteq Occurrences
    /\ faults \in 0 .. MaxFaults /\ edits \in 0 .. MaxEdits

\* No occurrence is lost: one that the cursor has passed and that has no job was
\* given up for as many newer ones as a pass may claim, whatever passes overlap,
\* crash between claim and cursor, or see the cursor moved by finishing jobs.
NoOccurrenceLost ==
    \A s \in Schedules : schedule[s].state # "deleted" =>
        \A t \in schedule[s].cron :
            t <= schedule[s].cursor /\ t \notin Claimed(s)
              => Cardinality({u \in Claimed(s) : u > t}) >= MaxBackfillOccurrences

\* An occurrence skipped for newer ones never runs later, although finishing jobs
\* move the cursor back before it ("older occurrences are skipped permanently" in
\* _due_occurrences): what keeps it out is that a pass looks back from its own now.
\* It takes passes that do not overlap.
SkippedForGood == \A o \in skipped : job[o] = "absent"

\* Every active schedule has an expression that names an instant.
Readable == \A s \in Schedules : schedule[s].state = "active" => schedule[s].cron # {}

\* What is due is claimed or given up for newer occurrences, as long as the schedule
\* stays active and its expression is not changed: a crash or a neighbour deleted under
\* a pass only delays it.  This holds only if no active schedule goes on naming no
\* instant: such a one ends every pass that reaches it, and those behind it starve.
DueIsServed ==
    <>[]Readable =>
      \A s \in Schedules, t \in 1 .. MaxTime :
        t \in schedule[s].cron /\ t <= now /\ schedule[s].state = "active"
          ~> t \in Claimed(s) \/ <<s, t>> \in skipped \/ schedule[s].state # "active"

-----------------------------------------------------------------------------
(* What dispatching promises                                                 *)

\* Of an occurrence the tables show this much.
Fate(o) ==
    CASE job[o] # "absent" -> job[o]
      [] job[o] = "absent" /\ schedule[o[1]].state = "deleted" -> "void"
      [] job[o] = "absent" /\ schedule[o[1]].state # "deleted" ->
           IF o \in skipped THEN "skipped" ELSE "open"

Fates == INSTANCE OccurrenceFates WITH
    cron <- [s \in Schedules |-> schedule[s].cron],
    fate <- [o \in Occurrences |-> Fate(o)]

\* Every step of passes, jobs and operators is a step of OccurrenceFates or invisible
\* to it: a pass serves a schedule as if it looked at every occurrence up to its own
\* now, wherever crashes left the cursor, finishing jobs moved it back, and the pass
\* read it earlier.  It takes passes that do not overlap.
RefinesFates == Fates!Spec
=============================================================================
