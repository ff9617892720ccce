----------------------------- MODULE JobLifecycle -----------------------------
(***************************************************************************)
(* What the report_jobs table promises to its readers, without workers,    *)
(* messages or sweeps: an accepted job is attempted a bounded number of    *)
(* times, one attempt at a time, until one attempt's report is its report  *)
(* or none is left; that report stays the job's until it is deleted.       *)
(***************************************************************************)
EXTENDS Naturals

CONSTANTS Jobs, MaxJobAttempts

VARIABLES
    status,    \* of each job, as its readers see it
    attempts,  \* attempts begun
    report     \* the attempt whose stored report is the job's, 0 when there is none

vars == <<status, attempts, report>>

Init ==
    /\ status = [j \in Jobs |-> "absent"]
    /\ attempts = [j \in Jobs |-> 0]
    /\ report = [j \in Jobs |-> 0]

Accept(j) ==
    /\ status[j] = "absent"
    /\ status' = [status EXCEPT ![j] = "queued"]
    /\ UNCHANGED <<attempts, report>>

Begin(j) ==
    /\ status[j] = "queued"
    /\ status' = [status EXCEPT ![j] = "running"]
    /\ attempts' = [attempts EXCEPT ![j] = @ + 1]
    /\ UNCHANGED report

Complete(j) ==
    /\ status[j] = "running"
    /\ status' = [status EXCEPT ![j] = "succeeded"]
    /\ report' = [report EXCEPT ![j] = attempts[j]]
    /\ UNCHANGED attempts

\* Attempts that failed, or that were given up for dead, together.
GiveUp(jobs) ==
    /\ \A j \in jobs : status[j] = "running"
    /\ status' = [j \in Jobs |-> IF j \notin jobs THEN status[j]
                                 ELSE IF attempts[j] < MaxJobAttempts THEN "queued"
                                 ELSE "failed"]
    /\ UNCHANGED <<attempts, report>>

\* The reports of succeeded jobs are deleted; the jobs stay succeeded.
Forget(jobs) ==
    /\ \A j \in jobs : status[j] = "succeeded"
    /\ report' = [j \in Jobs |-> IF j \in jobs THEN 0 ELSE report[j]]
    /\ UNCHANGED <<status, attempts>>

Next ==
    \/ \E j \in Jobs : Accept(j) \/ Begin(j) \/ Complete(j)
    \/ \E jobs \in SUBSET Jobs : GiveUp(jobs) \/ Forget(jobs)

Spec == Init /\ [][Next]_vars

\* An accepted job does not wait for ever, and an attempt does not run for ever.
Fairness ==
    \A j \in Jobs :
        /\ WF_vars(Begin(j))
        /\ WF_vars(Complete(j) \/ \E jobs \in SUBSET Jobs : j \in jobs /\ GiveUp(jobs))

FairSpec == Spec /\ Fairness

=============================================================================
