---------------------------- MODULE OccurrenceFates ----------------------------
(***************************************************************************)
(* What dispatching promises about the occurrences of a schedule, without  *)
(* cursors, passes or rows read earlier: serving a schedule settles every  *)
(* occurrence up to some instant that has passed.  The newest of them get  *)
(* a job each, the others are skipped, and none of that is ever undone.    *)
(***************************************************************************)
EXTENDS Naturals, FiniteSets

CONSTANTS Schedules, Crons, MaxBackfillOccurrences, MaxTime

Occurrences == Schedules \X (1 .. MaxTime)

VARIABLES
    now,   \* the clock
    cron,  \* of each schedule, the instants its expression names
    fate   \* of each occurrence: "open", "queued", "finished", "skipped", or "void"
           \* when its schedule was deleted before it got a job

vars == <<now, cron, fate>>

Init ==
    /\ now = 0
    /\ cron \in [Schedules -> Crons]
    /\ fate = [o \in Occurrences |-> "open"]

\* As many later occurrences, up to an instant, as one pass may claim.
Overtaken(s, t, at) ==
    Cardinality({u \in cron[s] : t < u /\ u <= at}) >= MaxBackfillOccurrences

Serve(s, at) ==
    /\ at <= now
    /\ fate' = [o \in Occurrences |->
                  IF o[1] = s /\ o[2] \in cron[s] /\ o[2] <= at /\ fate[o] = "open"
                  THEN IF Overtaken(s, o[2], at) THEN "skipped" ELSE "queued"
                  ELSE fate[o]]
    /\ UNCHANGED <<now, cron>>

Finish(o) ==
    /\ fate[o] = "queued"
    /\ fate' = [fate EXCEPT ![o] = "finished"]
    /\ UNCHANGED <<now, cron>>

Delete(s) ==
    /\ fate' = [o \in Occurrences |->
                  IF o[1] = s /\ fate[o] \notin {"queued", "finished"} THEN "void" ELSE fate[o]]
    /\ UNCHANGED <<now, cron>>

Tick ==
    /\ now < MaxTime
    /\ now' = now + 1
    /\ UNCHANGED <<cron, fate>>

Next ==
    \/ \E s \in Schedules : Delete(s) \/ \E at \in 0 .. MaxTime : Serve(s, at)
    \/ \E o \in Occurrences : Finish(o)
    \/ Tick

Spec == Init /\ [][Next]_vars
=============================================================================
