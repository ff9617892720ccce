---------------------------- MODULE WebhookOutbox ----------------------------
(***************************************************************************)
(* Webhook delivery through the transactional outbox: the rows of          *)
(* webhook_deliveries, the broker's messages, the workers that send one    *)
(* delivery (send_delivery), the operators' manual retry, the report       *)
(* retention pass, and the operations on destinations and reports that     *)
(* take rows away.                                                         *)
(*                                                                         *)
(* A step is one database statement group up to its commit, or one HTTP    *)
(* exchange; what a session has read stays in its process's record.        *)
(***************************************************************************)
EXTENDS Naturals, FiniteSets

CONSTANTS
    Reports,              \* ids of the reports rows
    Destinations,         \* ids of the webhook_destinations rows
    Workers,              \* processes executing deliver_webhook
    Operators,            \* requests to the retry route
    MaxDeliveryAttempts,  \* MAX_DELIVERY_ATTEMPTS
    MaxMessages,          \* bound: copies of one delivery's message
    MaxFaults,            \* bound: crashes and lost messages
    MaxRetries,           \* bound: manual retries
    MaxEdits,             \* bound: edits of destinations
    SlowSends             \* may a live attempt outlast DELIVERY_LEASE?

ASSUME BoundsAssumption ==
    /\ MaxDeliveryAttempts \in Nat \ {0}
    /\ MaxMessages \in Nat \ {0}
    /\ MaxFaults \in Nat /\ MaxRetries \in Nat /\ MaxEdits \in Nat

ASSUME SlowAssumption == SlowSends \in BOOLEAN

ASSUME IdsAssumption == Reports # {} /\ Destinations # {}

\* uq_webhook_deliveries_destination_report: one row for each pair.
Deliveries == Destinations \X Reports

VARIABLES
    report,       \* the reports table
    dest,         \* the webhook_destinations table
    delivery,     \* the webhook_deliveries table
    msgs,         \* deliver_webhook messages waiting in the broker
    worker,       \* what each worker is doing and what it has read
    operator,     \* what each retry request has read
    purge,        \* reports the retention pass has selected and not yet deleted
    received,     \* requests that have reached the destination
    faults,       \* failures injected so far
    retries,      \* manual retries so far
    edits         \* destination edits so far

vars == <<report, dest, delivery, msgs, worker, operator, purge, received, faults, retries, edits>>
tables == <<report, dest, delivery>>
counters == <<faults, retries, edits>>

-----------------------------------------------------------------------------

\* "old": created before the retention cutoff.
ReportState == {"absent", "new", "old", "deleted"}

DestState == {"active", "inactive", "deleted"}

DeliveryStatus == {"absent", "pending", "sending", "delivered", "failed"}

\* next_attempt_at: NULL, passed, or still ahead.
NextAttempt == {"null", "due", "later"}

DeliveryRow == [status : DeliveryStatus, attempts : Nat, next : NextAttempt]

\* phase: "claimed" between the claim's commit and the reads that follow it,
\* "refused" and "posting" after them, "ok" and "error" once the exchange is over.
WorkerState ==
    [phase : {"idle", "claimed", "refused", "posting", "ok", "error"},
     delivery : Deliveries,
     attempt : Nat,      \* the number its own claim gave the attempt
     seen : DeliveryRow] \* the row as its session loaded it

OperatorState == [phase : {"idle", "loaded"}, delivery : Deliveries, seen : DeliveryRow]

AbsentRow == [status |-> "absent", attempts |-> 0, next |-> "null"]

\* Rows and requests at rest name a delivery too; it means nothing there.
SomeDelivery == CHOOSE d \in Deliveries : TRUE

IdleWorker ==
    [phase |-> "idle", delivery |-> SomeDelivery, attempt |-> 0, seen |-> AbsentRow]

IdleOperator == [phase |-> "idle", delivery |-> SomeDelivery, seen |-> AbsentRow]

Init ==
    /\ report = [r \in Reports |-> "absent"]
    /\ dest \in [Destinations -> {"active", "inactive"}]
    /\ delivery = [d \in Deliveries |-> AbsentRow]
    /\ msgs = [d \in Deliveries |-> 0]
    /\ worker = [w \in Workers |-> IdleWorker]
    /\ operator = [o \in Operators |-> IdleOperator]
    /\ purge = {}
    /\ received = [d \in Deliveries |-> 0]
    /\ faults = 0 /\ retries = 0 /\ edits = 0

-----------------------------------------------------------------------------

Exists(d) == delivery[d].status # "absent"

\* Faulty variants of Due: leases are never looked at, or the status is not.
DueIfPending(row) == row.status = "pending" /\ row.next \in {"null", "due"}
DueUnlessFailed(row) == row.status \notin {"absent", "failed"} /\ row.next \in {"null", "due"}

\* pending and not backing off, or sending with an expired lease.
Due(row) ==
    \/ row.status = "pending" /\ row.next \in {"null", "due"}
    \/ row.status = "sending" /\ row.next = "due"

\* Faulty variants of Leased: no lease, and a resend that is not counted.
LeasedForever(row) == [status |-> "sending", attempts |-> row.attempts + 1, next |-> "null"]
LeasedUncounted(row) ==
    [status |-> "sending", next |-> "later",
     attempts |-> IF row.status = "pending" THEN row.attempts + 1 ELSE row.attempts]

\* The row once a worker has claimed it.
Leased(row) == [status |-> "sending", attempts |-> row.attempts + 1, next |-> "later"]

\* A session's UPDATE carries only the columns that differ from what it loaded.
\* A new timestamp always differs; NULL over a loaded NULL is left out.
OrmWrite(current, loaded, status, next) ==
    [current EXCEPT !.status = IF status = loaded.status THEN @ ELSE status,
                    !.next = IF next = "null" /\ loaded.next = "null" THEN @ ELSE next]

\* Faulty variants of AfterError: an unknown status, one attempt too many, one too few.
AfterErrorUnknown(loaded) == [status |-> "retrying", next |-> "later"]
AfterErrorLate(loaded) ==
    IF loaded.attempts <= MaxDeliveryAttempts
    THEN [status |-> "pending", next |-> "later"]
    ELSE [status |-> "failed", next |-> "null"]
AfterErrorEarly(loaded) ==
    IF loaded.attempts + 1 < MaxDeliveryAttempts
    THEN [status |-> "pending", next |-> "later"]
    ELSE [status |-> "failed", next |-> "null"]

\* The row after a failed attempt, as decided from the loaded attempts.
AfterError(loaded) ==
    IF loaded.attempts < MaxDeliveryAttempts
    THEN [status |-> "pending", next |-> "later"]
    ELSE [status |-> "failed", next |-> "null"]

\* Faulty variant of Outcome: any end of the exchange is a delivery.
OutcomeUnchecked(phase, loaded) ==
    [status |-> IF phase = "refused" THEN "failed" ELSE "delivered", next |-> "null"]

\* What an attempt that ended in this phase makes of its row.
Outcome(phase, loaded) ==
    CASE phase = "ok" -> [status |-> "delivered", next |-> "null"]
      [] phase = "refused" -> [status |-> "failed", next |-> "null"]
      [] phase = "error" -> AfterError(loaded)

\* Live workers that own an attempt at d and have not committed its outcome.
Attempting(d) == {w \in Workers : worker[w].phase # "idle" /\ worker[w].delivery = d}

\* ON DELETE CASCADE.
Cascaded(gone) == [d \in Deliveries |-> IF d \in gone THEN AbsentRow ELSE delivery[d]]

-----------------------------------------------------------------------------
(* Enqueueing and dispatching                                              *)

\* run_job's success: the report and one pending row for each destination active
\* at that moment become visible in one commit.
Enqueue(r) ==
    /\ report[r] = "absent"
    /\ report' = [report EXCEPT ![r] = "new"]
    /\ delivery' = [d \in Deliveries |->
                      IF d[2] = r /\ dest[d[1]] = "active"
                      THEN [AbsentRow EXCEPT !.status = "pending"]
                      ELSE delivery[d]]
    /\ UNCHANGED <<dest, msgs, worker, operator, purge, received, counters>>

\* dispatch_pending_webhook_deliveries, the only publisher.
Dispatch(d) ==
    /\ Due(delivery[d])
    /\ msgs[d] < MaxMessages
    /\ msgs' = [msgs EXCEPT ![d] = @ + 1]
    /\ UNCHANGED <<tables, worker, operator, purge, received, counters>>

-----------------------------------------------------------------------------
(* send_delivery                                                           *)

\* The conditional UPDATE finds the row due: this worker owns the attempt.
Claim(w, d) ==
    /\ worker[w].phase = "idle"
    /\ msgs[d] > 0
    /\ Due(delivery[d])
    /\ msgs' = [msgs EXCEPT ![d] = @ - 1]
    /\ delivery' = [delivery EXCEPT ![d] = Leased(@)]
    /\ worker' = [worker EXCEPT ![w] = [phase |-> "claimed", delivery |-> d,
                                        attempt |-> delivery[d].attempts + 1,
                                        seen |-> AbsentRow]]
    /\ UNCHANGED <<report, dest, operator, purge, received, counters>>

\* The row is gone, or the UPDATE does not match it: the message is ignored.
Ignore(w, d) ==
    /\ worker[w].phase = "idle"
    /\ msgs[d] > 0
    /\ ~Due(delivery[d])
    /\ msgs' = [msgs EXCEPT ![d] = @ - 1]
    /\ UNCHANGED <<tables, worker, operator, purge, received, counters>>

\* The row and its destination are read back.  Refreshing a deleted row raises.
Load(w) ==
    LET d == worker[w].delivery IN
    /\ worker[w].phase = "claimed"
    /\ worker' = [worker EXCEPT ![w] =
                    IF ~Exists(d) THEN IdleWorker
                    ELSE [@ EXCEPT !.phase = IF dest[d[1]] = "active" THEN "posting" ELSE "refused",
                                   !.seen = delivery[d]]]
    /\ UNCHANGED <<tables, msgs, operator, purge, received, counters>>

\* The HTTP exchange.  The destination may have handled a request whose answer is
\* an error or never arrives.
Post(w) ==
    LET d == worker[w].delivery IN
    /\ worker[w].phase = "posting"
    /\ \/ /\ worker' = [worker EXCEPT ![w].phase = "ok"]
          /\ received' = [received EXCEPT ![d] = @ + 1]
       \/ /\ worker' = [worker EXCEPT ![w].phase = "error"]
          /\ \/ received' = [received EXCEPT ![d] = @ + 1]
             \/ UNCHANGED received
    /\ UNCHANGED <<tables, msgs, operator, purge, counters>>

\* The outcome is written by primary key; an UPDATE of a deleted row raises.
Settle(w) ==
    LET d    == worker[w].delivery
        seen == worker[w].seen
        new  == Outcome(worker[w].phase, seen)
    IN
    /\ worker[w].phase \in {"ok", "refused", "error"}
    /\ delivery' = IF Exists(d)
                   THEN [delivery EXCEPT ![d] = OrmWrite(@, seen, new.status, new.next)]
                   ELSE delivery
    /\ worker' = [worker EXCEPT ![w] = IdleWorker]
    /\ UNCHANGED <<report, dest, msgs, operator, purge, received, counters>>

-----------------------------------------------------------------------------
(* POST /deliveries/{id}/retry                                             *)

LoadForRetry(o, d) ==
    /\ operator[o].phase = "idle"
    /\ Exists(d)
    /\ retries < MaxRetries
    /\ retries' = retries + 1
    /\ operator' = [operator EXCEPT ![o] = [phase |-> "loaded", delivery |-> d,
                                            seen |-> delivery[d]]]
    /\ UNCHANGED <<tables, msgs, worker, purge, received, faults, edits>>

Retry(o) ==
    LET d == operator[o].delivery IN
    /\ operator[o].phase = "loaded"
    /\ delivery' = IF Exists(d)
                   THEN [delivery EXCEPT ![d] = OrmWrite(@, operator[o].seen, "pending", "null")]
                   ELSE delivery
    /\ operator' = [operator EXCEPT ![o] = IdleOperator]
    /\ UNCHANGED <<report, dest, msgs, worker, purge, received, counters>>

-----------------------------------------------------------------------------
(* Rows that go away                                                       *)

\* Faulty variant of Eligible: deliveries are not looked at.
EligibleBlindly == {r \in Reports : report[r] = "old"}

\* The reports past the cutoff that have no pending delivery.
Eligible ==
    {r \in Reports : /\ report[r] = "old"
                     /\ \A x \in Destinations : delivery[<<x, r>>].status # "pending"}

\* enforce_report_retention selects first ...
SelectExpired ==
    /\ purge = {}
    /\ Eligible # {}
    /\ purge' = Eligible
    /\ UNCHANGED <<tables, msgs, worker, operator, received, counters>>

\* ... and deletes what it selected in a later statement.
DeleteExpired ==
    /\ purge # {}
    /\ report' = [r \in Reports |-> IF r \in purge THEN "deleted" ELSE report[r]]
    /\ delivery' = Cascaded({d \in Deliveries : d[2] \in purge})
    /\ purge' = {}
    /\ UNCHANGED <<dest, msgs, worker, operator, received, counters>>

\* DELETE /report/{id}: an operator's decision, whatever is still to be sent.
DeleteReport(r) ==
    /\ report[r] \in {"new", "old"}
    /\ report' = [report EXCEPT ![r] = "deleted"]
    /\ delivery' = Cascaded({d \in Deliveries : d[2] = r})
    /\ edits < MaxEdits
    /\ edits' = edits + 1
    /\ UNCHANGED <<dest, msgs, worker, operator, purge, received, faults, retries>>

\* PUT /destinations/{id} with another value of active.
UpdateDestination(x) ==
    /\ dest[x] # "deleted"
    /\ edits < MaxEdits
    /\ edits' = edits + 1
    /\ dest' = [dest EXCEPT ![x] = IF @ = "active" THEN "inactive" ELSE "active"]
    /\ UNCHANGED <<report, delivery, msgs, worker, operator, purge, received, faults, retries>>

DeleteDestination(x) ==
    /\ dest[x] # "deleted"
    /\ edits < MaxEdits
    /\ edits' = edits + 1
    /\ dest' = [dest EXCEPT ![x] = "deleted"]
    /\ delivery' = Cascaded({d \in Deliveries : d[1] = x})
    /\ UNCHANGED <<report, msgs, worker, operator, purge, received, faults, retries>>

-----------------------------------------------------------------------------
(* Time and failures                                                       *)

\* next_attempt_at passes: the end of a backoff, or of a lease.
Expire(d) ==
    /\ delivery[d].next = "later"
    /\ delivery[d].status = "sending" => SlowSends \/ Attempting(d) = {}
    /\ delivery' = [delivery EXCEPT ![d].next = "due"]
    /\ UNCHANGED <<report, dest, msgs, worker, operator, purge, received, counters>>

\* created_at falls behind the retention cutoff.
AgeReport(r) ==
    /\ report[r] = "new"
    /\ report' = [report EXCEPT ![r] = "old"]
    /\ UNCHANGED <<dest, delivery, msgs, worker, operator, purge, received, counters>>

CrashWorker(w) ==
    /\ worker[w].phase # "idle"
    /\ faults < MaxFaults
    /\ faults' = faults + 1
    /\ worker' = [worker EXCEPT ![w] = IdleWorker]
    /\ UNCHANGED <<tables, msgs, operator, purge, received, retries, edits>>

LoseMessage(d) ==
    /\ msgs[d] > 0
    /\ faults < MaxFaults
    /\ faults' = faults + 1
    /\ msgs' = [msgs EXCEPT ![d] = @ - 1]
    /\ UNCHANGED <<tables, worker, operator, purge, received, retries, edits>>

-----------------------------------------------------------------------------

Attempt(w) == Load(w) \/ Post(w) \/ Settle(w)

Next ==
    \/ \E r \in Reports : Enqueue(r) \/ DeleteReport(r) \/ AgeReport(r)
    \/ \E x \in Destinations : UpdateDestination(x) \/ DeleteDestination(x)
    \/ \E d \in Deliveries : Dispatch(d) \/ Expire(d) \/ LoseMessage(d)
    \/ \E w \in Workers, d \in Deliveries : Claim(w, d) \/ Ignore(w, d)
    \/ \E w \in Workers : Attempt(w) \/ CrashWorker(w)
    \/ \E o \in Operators : Retry(o) \/ \E d \in Deliveries : LoadForRetry(o, d)
    \/ SelectExpired
    \/ DeleteExpired

Spec == Init /\ [][Next]_vars

\* Beat keeps dispatching, time passes, a worker's HTTP call has a timeout, and
\* the first-in first-out broker delivers what keeps being published.
Fairness ==
    /\ \A w \in Workers : WF_vars(Attempt(w))
    /\ \A o \in Operators : WF_vars(Retry(o))
    /\ \A d \in Deliveries :
         /\ WF_vars(Dispatch(d))
         /\ WF_vars(Expire(d))
         /\ SF_vars(\E w \in Workers : Claim(w, d) \/ Ignore(w, d))

FairSpec == Spec /\ Fairness

-----------------------------------------------------------------------------
(* Properties                                                              *)

\* Every variable holds values of its domain.
TypeOK ==
    /\ report \in [Reports -> ReportState]
    /\ dest \in [Destinations -> DestState]
    /\ delivery \in [Deliveries -> DeliveryRow]
    /\ msgs \in [Deliveries -> 0 .. MaxMessages]
    /\ worker \in [Workers -> WorkerState]
    /\ operator \in [Operators -> OperatorState]
    /\ purge \subseteq Reports
    /\ received \in [Deliveries -> Nat]
    /\ faults \in 0 .. MaxFaults /\ retries \in 0 .. MaxRetries /\ edits \in 0 .. MaxEdits

\* Whatever messages are duplicated and leases expire, two workers never send
\* under the same attempt of a row (the conditional UPDATE of send_delivery).
AttemptSentOnce ==
    \A v, w \in Workers :
        /\ v # w
        /\ worker[v].phase # "idle" /\ worker[w].phase # "idle"
        /\ worker[v].delivery = worker[w].delivery
        => worker[v].attempt # worker[w].attempt

\* A delivery shown as delivered has reached its destination, even when late
\* attempts and manual retries overwrite each other.
DeliveredWasReceived ==
    \A d \in Deliveries : delivery[d].status = "delivered" => received[d] > 0

\* Retention never takes a notification that was not tried once, in spite of the
\* time between its select and its delete (enforce_report_retention).
PurgeOnlyAttempted ==
    \A d \in Deliveries : d[2] \in purge /\ Exists(d) => delivery[d].attempts > 0

\* An enqueued delivery ends delivered, failed or deleted and stays so, in spite
\* of lost messages and crashes, while nobody retries it by hand.
DeliveriesSettle ==
    \A d \in Deliveries : Exists(d) ~> [](delivery[d].status \in {"absent", "delivered", "failed"})

-----------------------------------------------------------------------------
(* Properties that need attempts to end before their lease does              *)

\* Attempts beyond the maximum are paid for, each by a crash or a manual retry.
AttemptsBounded ==
    \A d \in Deliveries : delivery[d].attempts <= MaxDeliveryAttempts + faults + retries

\* A row being sent is in a worker's hands or carries a lease that will expire:
\* an expired sending lease is recoverable by the dispatcher after a crash.
SendingIsRecoverable ==
    \A d \in Deliveries :
        delivery[d].status = "sending" => delivery[d].next # "null" \/ Attempting(d) # {}

\* Once delivered a row stays so and nothing is sent for it again, duplicates and
\* leases notwithstanding, as long as nobody retries it by hand.
NoSendAfterDelivery ==
    [][\A d \in Deliveries : delivery[d].status = "delivered" =>
         /\ delivery'[d].status \in {"delivered", "absent"}
         /\ received'[d] = received[d]]_vars

-----------------------------------------------------------------------------
(* What the outbox promises                                                  *)

\* The table and the requests under way show their readers this much.
Shown(d) ==
    IF Exists(d)
    THEN IF delivery[d].status \in {"delivered", "failed"} THEN delivery[d].status ELSE "owed"
    ELSE IF report[d[2]] = "absent" THEN "none" ELSE "void"

Tried(d) == IF Exists(d) THEN delivery[d].attempts ELSE 0

InPhase(phases) == {d \in Deliveries : \E w \in Attempting(d) : worker[w].phase \in phases}

Promise == INSTANCE DeliveryPromise WITH
    notice <- [d \in Deliveries |-> Shown(d)],
    tries <- [d \in Deliveries |-> Tried(d)],
    open <- InPhase({"claimed", "posting"}),
    refused <- InPhase({"refused"})

\* Every step of the broker, the workers, the operators and retention is a step of
\* the promise or invisible to it: an owed notice is tried one request at a time,
\* ends delivered only if received, failed only when its tries are used up or its
\* destination was found off, and nothing is sent for it afterwards, in spite of
\* duplicates, leases and crashes, as long as nobody retries it by hand.
RefinesPromise == Promise!Spec
=============================================================================
