-------------------------- MODULE WebhookOutboxProofs --------------------------
(***************************************************************************)
(* Proofs about WebhookOutbox, for every number of reports, destinations,  *)
(* workers, retry requests, attempts, messages and faults: first whether   *)
(* or not attempts outlast their lease, then when they do not.             *)
(***************************************************************************)
EXTENDS WebhookOutbox, TLAPS

-----------------------------------------------------------------------------
(* Type correctness                                                         *)

LEMMA SomeDeliveryType == SomeDelivery \in Deliveries
<1>1. PICK x \in Destinations, r \in Reports : TRUE
  BY IdsAssumption
<1>2. <<x, r>> \in Deliveries
  BY DEF Deliveries
<1> QED
  BY <1>2, Zenon DEF SomeDelivery

LEMMA IdleTypes == IdleWorker \in WorkerState /\ IdleOperator \in OperatorState
BY SomeDeliveryType
   DEF IdleWorker, IdleOperator, WorkerState, OperatorState, AbsentRow, DeliveryRow,
       DeliveryStatus, NextAttempt

LEMMA AbsentRowType == AbsentRow \in DeliveryRow
BY DEF AbsentRow, DeliveryRow, DeliveryStatus, NextAttempt

\* A partial UPDATE of a row leaves a row with the same count of attempts.
LEMMA OrmWriteType ==
    ASSUME NEW current \in DeliveryRow, NEW loaded,
           NEW status \in DeliveryStatus, NEW next \in NextAttempt
    PROVE  /\ OrmWrite(current, loaded, status, next) \in DeliveryRow
           /\ OrmWrite(current, loaded, status, next).attempts = current.attempts
           /\ OrmWrite(current, loaded, status, next).status \in {current.status, status}
BY DEF OrmWrite, DeliveryRow

\* An attempt that has ended gives its row a status other than absent or sending.
LEMMA OutcomeType ==
    ASSUME NEW phase \in {"ok", "refused", "error"}, NEW loaded
    PROVE  /\ Outcome(phase, loaded).status \in {"pending", "delivered", "failed"}
           /\ Outcome(phase, loaded).next \in NextAttempt
           /\ Outcome(phase, loaded).status = "delivered" => phase = "ok"
BY DEF Outcome, AfterError, NextAttempt

LEMMA CascadedType ==
    ASSUME TypeOK, NEW gone
    PROVE  Cascaded(gone) \in [Deliveries -> DeliveryRow]
BY AbsentRowType DEF Cascaded, TypeOK

LEMMA DeliveryParts == \A d \in Deliveries : d[1] \in Destinations /\ d[2] \in Reports
BY DEF Deliveries

LEMMA InitTypeOK == Init => TypeOK
BY BoundsAssumption, IdleTypes, AbsentRowType DEF Init, TypeOK, ReportState, DestState

\* Each action keeps every variable in its domain.
LEMMA NextTypeOK == TypeOK /\ [Next]_vars => TypeOK'
<1> SUFFICES ASSUME TypeOK, [Next]_vars PROVE TypeOK'
  OBVIOUS
<1> USE BoundsAssumption DEF TypeOK, tables, counters
<1>1. ASSUME NEW r \in Reports, Enqueue(r) PROVE TypeOK'
  <2>1. [AbsentRow EXCEPT !.status = "pending"] \in DeliveryRow
    BY DEF AbsentRow, DeliveryRow, DeliveryStatus, NextAttempt
  <2>2. delivery' \in [Deliveries -> DeliveryRow]
    BY <1>1, <2>1 DEF Enqueue
  <2> QED
    BY <1>1, <2>2 DEF Enqueue, ReportState
<1>2. ASSUME NEW r \in Reports, DeleteReport(r) PROVE TypeOK'
  BY <1>2, CascadedType DEF DeleteReport, ReportState
<1>3. ASSUME NEW r \in Reports, AgeReport(r) PROVE TypeOK'
  BY <1>3 DEF AgeReport, ReportState
<1>4. ASSUME NEW x \in Destinations, UpdateDestination(x) PROVE TypeOK'
  BY <1>4 DEF UpdateDestination, DestState
<1>5. ASSUME NEW x \in Destinations, DeleteDestination(x) PROVE TypeOK'
  BY <1>5, CascadedType DEF DeleteDestination, DestState
<1>6. ASSUME NEW d \in Deliveries, Dispatch(d) PROVE TypeOK'
  BY <1>6 DEF Dispatch
<1>7. ASSUME NEW d \in Deliveries, Expire(d) PROVE TypeOK'
  <2>1. [delivery[d] EXCEPT !.next = "due"] \in DeliveryRow
    BY DEF DeliveryRow, NextAttempt
  <2> QED
    BY <1>7, <2>1 DEF Expire
<1>8. ASSUME NEW d \in Deliveries, LoseMessage(d) PROVE TypeOK'
  BY <1>8 DEF LoseMessage
<1>9. ASSUME NEW w \in Workers, NEW d \in Deliveries, Claim(w, d) PROVE TypeOK'
  <2> DEFINE taken == [phase |-> "claimed", delivery |-> d,
                       attempt |-> delivery[d].attempts + 1, seen |-> AbsentRow]
  <2>1. Leased(delivery[d]) \in DeliveryRow
    BY DEF Leased, DeliveryRow, DeliveryStatus, NextAttempt
  <2>2. taken \in WorkerState
    <3>1. delivery[d].attempts \in Nat
      BY DEF DeliveryRow
    <3> QED
      BY <3>1, AbsentRowType DEF WorkerState
  <2>3. delivery' = [delivery EXCEPT ![d] = Leased(delivery[d])]
        /\ worker' = [worker EXCEPT ![w] = taken]
    BY <1>9 DEF Claim
  <2>4. delivery' \in [Deliveries -> DeliveryRow] /\ worker' \in [Workers -> WorkerState]
    BY <2>1, <2>2, <2>3
  <2> QED
    BY <1>9, <2>4 DEF Claim
<1>10. ASSUME NEW w \in Workers, NEW d \in Deliveries, Ignore(w, d) PROVE TypeOK'
  BY <1>10 DEF Ignore
<1>11. ASSUME NEW w \in Workers, Load(w) PROVE TypeOK'
  <2> DEFINE d == worker[w].delivery
             loaded == [worker[w] EXCEPT !.phase = IF dest[d[1]] = "active" THEN "posting"
                                                                            ELSE "refused",
                                         !.seen = delivery[d]]
  <2>1. worker[w] \in WorkerState /\ delivery[d] \in DeliveryRow
    BY DEF WorkerState
  <2>2. loaded \in WorkerState
    BY <2>1 DEF WorkerState
  <2>3. worker' = [worker EXCEPT ![w] = IF ~Exists(d) THEN IdleWorker ELSE loaded]
    BY <1>11 DEF Load
  <2>4. worker' \in [Workers -> WorkerState]
    BY <2>2, <2>3, IdleTypes
  <2> QED
    BY <1>11, <2>4 DEF Load
<1>12. ASSUME NEW w \in Workers, Post(w) PROVE TypeOK'
  <2>1. worker[w].delivery \in Deliveries
    BY DEF WorkerState
  <2>2. worker' \in [Workers -> WorkerState]
    BY <1>12 DEF Post, WorkerState
  <2>3. received' \in [Deliveries -> Nat]
    BY <1>12, <2>1 DEF Post
  <2> QED
    BY <1>12, <2>2, <2>3 DEF Post
<1>13. ASSUME NEW w \in Workers, Settle(w) PROVE TypeOK'
  <2> DEFINE d == worker[w].delivery
             new == Outcome(worker[w].phase, worker[w].seen)
             row == OrmWrite(delivery[d], worker[w].seen, new.status, new.next)
  <2>1. d \in Deliveries /\ delivery[d] \in DeliveryRow
    BY DEF WorkerState
  <2>2. new.status \in DeliveryStatus /\ new.next \in NextAttempt
    BY <1>13, OutcomeType DEF Settle, DeliveryStatus
  <2>3. row \in DeliveryRow
    BY <2>1, <2>2, OrmWriteType
  <2>4. delivery' \in {delivery, [delivery EXCEPT ![d] = row]}
    BY <1>13 DEF Settle
  <2>5. delivery' \in [Deliveries -> DeliveryRow]
    BY <2>1, <2>3, <2>4
  <2> QED
    BY <1>13, <2>5, IdleTypes DEF Settle
<1>14. ASSUME NEW w \in Workers, CrashWorker(w) PROVE TypeOK'
  BY <1>14, IdleTypes DEF CrashWorker
<1>15. ASSUME NEW o \in Operators, NEW d \in Deliveries, LoadForRetry(o, d) PROVE TypeOK'
  <2>1. [phase |-> "loaded", delivery |-> d, seen |-> delivery[d]] \in OperatorState
    BY DEF OperatorState
  <2> QED
    BY <1>15, <2>1 DEF LoadForRetry
<1>16. ASSUME NEW o \in Operators, Retry(o) PROVE TypeOK'
  <2> DEFINE d == operator[o].delivery
             row == OrmWrite(delivery[d], operator[o].seen, "pending", "null")
  <2>1. d \in Deliveries /\ delivery[d] \in DeliveryRow
    BY DEF OperatorState
  <2>2. row \in DeliveryRow
    BY <2>1, OrmWriteType DEF DeliveryStatus, NextAttempt
  <2>3. delivery' \in {delivery, [delivery EXCEPT ![d] = row]}
    BY <1>16 DEF Retry
  <2>4. delivery' \in [Deliveries -> DeliveryRow]
    BY <2>1, <2>2, <2>3
  <2> QED
    BY <1>16, <2>4, IdleTypes DEF Retry
<1>17. CASE SelectExpired
  BY <1>17 DEF SelectExpired, Eligible
<1>18. CASE DeleteExpired
  BY <1>18, CascadedType DEF DeleteExpired, ReportState
<1>19. CASE UNCHANGED vars
  BY <1>19 DEF vars
<1> QED
  BY <1>1, <1>2, <1>3, <1>4, <1>5, <1>6, <1>7, <1>8, <1>9, <1>10, <1>11, <1>12, <1>13, <1>14,
     <1>15, <1>16, <1>17, <1>18, <1>19 DEF Next, Attempt

\* Type correctness: the tables, the messages and what every process has read
\* stay in their domains.
THEOREM OutboxTypeCorrect == Spec => []TypeOK
BY InitTypeOK, NextTypeOK, PTL DEF Spec

-----------------------------------------------------------------------------
(* Attempts, and what they leave in the rows                                *)

\* Rows come with their report, and a report that went away never comes back.
RowsHaveReports == \A d \in Deliveries : Exists(d) => report[d[2]] # "absent"

\* A claim's number is one the row has counted: the number only grows, unless the
\* row goes away for good.
ClaimsArePast ==
    \A w \in Workers :
        worker[w].phase # "idle"
          => LET d == worker[w].delivery IN
             /\ worker[w].attempt > 0
             /\ report[d[2]] # "absent"
             /\ Exists(d) => worker[w].attempt <= delivery[d].attempts

\* A row that was ever claimed has counted its claims.
ClaimsAreCounted ==
    \A d \in Deliveries : delivery[d].status \in {"sending", "delivered", "failed"}
                            => delivery[d].attempts > 0

\* Retention selects rows of the reports table.
PurgeHasReports == \A r \in purge : report[r] # "absent"

\* A worker about to write "delivered" has had its request received.
OkWasReceived ==
    \A w \in Workers : worker[w].phase = "ok" => received[worker[w].delivery] > 0

\* Inductive: the first two conjuncts make a new claim's number fresh, and keep a
\* late outcome from making a row that nobody has tried.
SendInv ==
    /\ RowsHaveReports
    /\ ClaimsArePast
    /\ AttemptSentOnce
    /\ ClaimsAreCounted
    /\ PurgeHasReports
    /\ PurgeOnlyAttempted
    /\ OkWasReceived
    /\ DeliveredWasReceived

\* The ranges the arithmetic of the steps needs.
LEMMA OutboxRanges ==
    ASSUME TypeOK
    PROVE  /\ \A d \in Deliveries : /\ delivery[d] \in DeliveryRow
                                    /\ delivery[d].attempts \in Nat
                                    /\ received[d] \in Nat
                                    /\ d[2] \in Reports
           /\ \A w \in Workers : worker[w].attempt \in Nat /\ worker[w].delivery \in Deliveries
           /\ \A o \in Operators : operator[o].delivery \in Deliveries
           /\ purge \subseteq Reports
BY DeliveryParts DEF TypeOK, DeliveryRow, WorkerState, OperatorState

LEMMA InitSendInv == Init => SendInv
BY DEF Init, SendInv, RowsHaveReports, ClaimsArePast, AttemptSentOnce, ClaimsAreCounted,
       PurgeHasReports, PurgeOnlyAttempted, OkWasReceived, DeliveredWasReceived, Exists,
       AbsentRow, IdleWorker

\* Reports that exist go on being accounted for.
ReportsStay == \A r \in Reports : report[r] # "absent" => report'[r] # "absent"

\* A row goes away, or keeps its count of attempts.
RowsKeepAttempts ==
    \A d \in Deliveries : \/ delivery'[d].status = "absent"
                          \/ Exists(d) /\ delivery'[d].attempts = delivery[d].attempts

\* A worker lets go of its delivery or goes on with the attempt it claimed.
WorkersKeepAttempts ==
    \A w \in Workers : \/ worker'[w].phase = "idle"
                       \/ /\ worker[w].phase # "idle"
                          /\ worker'[w].delivery = worker[w].delivery
                          /\ worker'[w].attempt = worker[w].attempt

\* A step that starts no attempt and makes no row keeps the numbers in order.
LEMMA NoNewAttempt ==
    ASSUME TypeOK, SendInv, ReportsStay, RowsKeepAttempts, WorkersKeepAttempts
    PROVE  RowsHaveReports' /\ ClaimsArePast' /\ AttemptSentOnce'
<1> USE DEF SendInv
<1>1. RowsHaveReports'
  BY OutboxRanges DEF RowsHaveReports, ReportsStay, RowsKeepAttempts, Exists
<1>2. ClaimsArePast'
  BY OutboxRanges
     DEF ClaimsArePast, ReportsStay, RowsKeepAttempts, WorkersKeepAttempts, Exists
<1>3. AttemptSentOnce'
  BY DEF AttemptSentOnce, WorkersKeepAttempts
<1> QED
  BY <1>1, <1>2, <1>3

\* A step that also selects nothing for deletion and gives rows no status other
\* than pending keeps everything about the rows.
LEMMA QuietStep ==
    ASSUME TypeOK, SendInv, ReportsStay, RowsKeepAttempts, WorkersKeepAttempts,
           purge' \subseteq purge, UNCHANGED received,
           \A d \in Deliveries : delivery'[d].status \in {delivery[d].status, "absent", "pending"},
           \A w \in Workers : worker'[w].phase = "ok" => worker[w].phase = "ok"
    PROVE  SendInv'
<1> USE DEF SendInv
<1>1. RowsHaveReports' /\ ClaimsArePast' /\ AttemptSentOnce'
  BY NoNewAttempt
<1>2. ClaimsAreCounted' /\ DeliveredWasReceived'
  BY DEF ClaimsAreCounted, DeliveredWasReceived, RowsKeepAttempts
<1>3. PurgeHasReports' /\ PurgeOnlyAttempted'
  BY OutboxRanges
     DEF PurgeHasReports, PurgeOnlyAttempted, ReportsStay, RowsKeepAttempts, Exists
<1>4. OkWasReceived'
  BY DEF OkWasReceived, WorkersKeepAttempts
<1> QED
  BY <1>1, <1>2, <1>3, <1>4

LEMMA NextSendInv == TypeOK /\ SendInv /\ [Next]_vars => SendInv'
<1> SUFFICES ASSUME TypeOK, SendInv, [Next]_vars PROVE SendInv'
  OBVIOUS
<1> USE DEF SendInv, tables, counters
<1>t. /\ delivery \in [Deliveries -> DeliveryRow]
      /\ worker \in [Workers -> WorkerState]
      /\ report \in [Reports -> ReportState]
      /\ received \in [Deliveries -> Nat]
  BY DEF TypeOK
<1>1. ASSUME NEW r \in Reports, Enqueue(r) PROVE SendInv'
  <2>1. /\ report[r] = "absent" /\ report'[r] = "new"
        /\ \A q \in Reports \ {r} : report'[q] = report[q]
        /\ UNCHANGED <<worker, purge, received>>
    BY <1>1, <1>t DEF Enqueue
  <2>2. \A d \in Deliveries : \/ delivery'[d] = delivery[d]
                              \/ /\ d[2] = r
                                 /\ delivery'[d].status = "pending"
    BY <1>1 DEF Enqueue, AbsentRow
  <2>3. \A d \in Deliveries : d[2] = r => ~Exists(d)
    BY <2>1 DEF RowsHaveReports
  <2>4. \A w \in Workers : worker[w].phase # "idle" => worker[w].delivery[2] # r
    BY <2>1 DEF ClaimsArePast
  <2>5. RowsHaveReports' /\ AttemptSentOnce'
    BY <2>1, <2>2, OutboxRanges DEF RowsHaveReports, AttemptSentOnce, Exists
  <2>6. ClaimsArePast'
    BY <2>1, <2>2, <2>4, OutboxRanges DEF ClaimsArePast, Exists
  <2>7. ClaimsAreCounted' /\ DeliveredWasReceived' /\ OkWasReceived'
    BY <2>1, <2>2 DEF ClaimsAreCounted, DeliveredWasReceived, OkWasReceived
  <2>8. PurgeHasReports' /\ PurgeOnlyAttempted'
    BY <2>1, <2>2, OutboxRanges DEF PurgeHasReports, PurgeOnlyAttempted, Exists
  <2> QED
    BY <2>5, <2>6, <2>7, <2>8
<1>2. ASSUME NEW w \in Workers, NEW d \in Deliveries, Claim(w, d) PROVE SendInv'
  <2>1. /\ UNCHANGED <<report, purge, received>>
        /\ delivery[d].status \in {"pending", "sending"}
    BY <1>2 DEF Claim, Due
  <2>2. /\ delivery'[d].status = "sending"
        /\ delivery'[d].attempts = delivery[d].attempts + 1
        /\ \A e \in Deliveries \ {d} : delivery'[e] = delivery[e]
    BY <1>2, <1>t DEF Claim, Leased
  <2>3. /\ worker'[w].phase = "claimed" /\ worker'[w].delivery = d
        /\ worker'[w].attempt = delivery[d].attempts + 1
        /\ \A v \in Workers \ {w} : worker'[v] = worker[v]
    BY <1>2, <1>t DEF Claim
  <2>4. Exists(d) /\ report[d[2]] # "absent"
    BY <2>1 DEF Exists, RowsHaveReports
  <2>5. \A v \in Workers : worker[v].phase # "idle" /\ worker[v].delivery = d
                             => worker[v].attempt <= delivery[d].attempts
    BY <2>4 DEF ClaimsArePast
  <2>6. RowsHaveReports' /\ ClaimsAreCounted' /\ PurgeHasReports' /\ PurgeOnlyAttempted'
    BY <2>1, <2>2, <2>4, OutboxRanges
       DEF RowsHaveReports, ClaimsAreCounted, PurgeHasReports, PurgeOnlyAttempted, Exists
  <2>7. ClaimsArePast'
    BY <2>1, <2>2, <2>3, <2>4, <2>5, OutboxRanges DEF ClaimsArePast, Exists
  <2>8. AttemptSentOnce'
    BY <2>3, <2>5, OutboxRanges DEF AttemptSentOnce
  <2>9. OkWasReceived' /\ DeliveredWasReceived'
    BY <2>1, <2>2, <2>3 DEF OkWasReceived, DeliveredWasReceived
  <2> QED
    BY <2>6, <2>7, <2>8, <2>9
<1>3. ASSUME NEW w \in Workers, Post(w) PROVE SendInv'
  <2> DEFINE d == worker[w].delivery
  <2>1. /\ UNCHANGED <<report, delivery, purge>>
        /\ worker[w].phase = "posting" /\ d \in Deliveries
    BY <1>3, OutboxRanges DEF Post
  <2>2. /\ worker'[w].phase \in {"ok", "error"}
        /\ worker'[w].delivery = d /\ worker'[w].attempt = worker[w].attempt
        /\ \A v \in Workers \ {w} : worker'[v] = worker[v]
    BY <1>3, <1>t DEF Post, WorkerState
  <2>3. /\ \A e \in Deliveries : received'[e] >= received[e]
        /\ worker'[w].phase = "ok" => received'[d] > 0
    BY <1>3, <1>t, <2>1, OutboxRanges DEF Post, WorkerState
  <2>4. ReportsStay /\ WorkersKeepAttempts
    BY <2>1, <2>2 DEF ReportsStay, WorkersKeepAttempts
  <2>5. RowsHaveReports' /\ ClaimsArePast'
    BY <2>1, <2>4 DEF RowsHaveReports, ClaimsArePast, WorkersKeepAttempts, Exists
  <2>6. AttemptSentOnce'
    BY <2>4 DEF AttemptSentOnce, WorkersKeepAttempts
  <2>7. ClaimsAreCounted' /\ PurgeHasReports' /\ PurgeOnlyAttempted'
    BY <2>1 DEF ClaimsAreCounted, PurgeHasReports, PurgeOnlyAttempted, Exists
  <2>8. \A e \in Deliveries : received[e] > 0 => received'[e] > 0
    <3>1. \A e \in Deliveries : received[e] \in Nat /\ received'[e] \in Nat
      BY <1>3, <1>t, <2>1 DEF Post
    <3> QED
      BY <2>3, <3>1
  <2>9. OkWasReceived' /\ DeliveredWasReceived'
    BY <2>1, <2>2, <2>3, <2>8, OutboxRanges DEF OkWasReceived, DeliveredWasReceived
  <2> QED
    BY <2>5, <2>6, <2>7, <2>9
<1>4. ASSUME NEW w \in Workers, Settle(w) PROVE SendInv'
  <2> DEFINE d == worker[w].delivery
             new == Outcome(worker[w].phase, worker[w].seen)
             row == OrmWrite(delivery[d], worker[w].seen, new.status, new.next)
  <2>1. /\ UNCHANGED <<report, purge, received>>
        /\ worker[w].phase \in {"ok", "refused", "error"}
        /\ d \in Deliveries /\ delivery[d] \in DeliveryRow
        /\ delivery' = IF Exists(d) THEN [delivery EXCEPT ![d] = row] ELSE delivery
    BY <1>4, OutboxRanges DEF Settle
  <2>2. /\ new.status \in {"pending", "delivered", "failed"}
        /\ new.status = "delivered" => worker[w].phase = "ok"
        /\ new.next \in NextAttempt
    BY <2>1, OutcomeType
  <2>3. row.attempts = delivery[d].attempts /\ row.status \in {delivery[d].status, new.status}
    <3>1. new.status \in DeliveryStatus
      BY <2>2 DEF DeliveryStatus
    <3> QED
      BY <2>1, <2>2, <3>1, OrmWriteType
  <2>4. /\ \A e \in Deliveries : delivery'[e].attempts = delivery[e].attempts
        /\ \A e \in Deliveries : delivery'[e].status = "absent" \/ Exists(e)
        /\ \A e \in Deliveries \ {d} : delivery'[e] = delivery[e]
        /\ delivery'[d].status \in {delivery[d].status, new.status}
    BY <1>t, <2>1, <2>3 DEF Exists
  <2>5. worker'[w].phase = "idle" /\ \A v \in Workers \ {w} : worker'[v] = worker[v]
    BY <1>4, <1>t DEF Settle, IdleWorker
  <2>6. RowsHaveReports' /\ ClaimsArePast' /\ AttemptSentOnce'
    <3>1. ReportsStay /\ RowsKeepAttempts /\ WorkersKeepAttempts
      BY <2>1, <2>4, <2>5 DEF ReportsStay, RowsKeepAttempts, WorkersKeepAttempts
    <3> QED
      BY <3>1, NoNewAttempt
  <2>7. ClaimsAreCounted'
    <3>1. Exists(d) => delivery[d].attempts > 0
      BY <2>1, OutboxRanges DEF ClaimsArePast
    <3>2. ~Exists(d) => delivery' = delivery
      BY <2>1
    <3> QED
      BY <2>4, <3>1, <3>2 DEF ClaimsAreCounted
  <2>8. DeliveredWasReceived' /\ OkWasReceived'
    BY <2>1, <2>2, <2>4, <2>5 DEF DeliveredWasReceived, OkWasReceived
  <2>9. PurgeHasReports' /\ PurgeOnlyAttempted'
    BY <2>1, <2>4 DEF PurgeHasReports, PurgeOnlyAttempted, Exists
  <2> QED
    BY <2>6, <2>7, <2>8, <2>9
<1>5. CASE SelectExpired
  <2>1. UNCHANGED <<report, delivery, worker, received>> /\ purge' = Eligible
    BY <1>5 DEF SelectExpired
  <2>2. PurgeHasReports'
    BY <2>1 DEF PurgeHasReports, Eligible
  <2>3. PurgeOnlyAttempted'
    <3> SUFFICES ASSUME NEW d \in Deliveries, d[2] \in Eligible, Exists(d)
                 PROVE  delivery[d].attempts > 0
      BY <2>1 DEF PurgeOnlyAttempted, Exists
    <3>1. d[1] \in Destinations /\ d = <<d[1], d[2]>>
      BY DEF Deliveries
    <3>2. delivery[d].status # "pending"
      BY <3>1 DEF Eligible
    <3>3. delivery[d].status \in DeliveryStatus \ {"absent", "pending"}
      BY <1>t, <3>2 DEF DeliveryRow, Exists
    <3> QED
      BY <3>3 DEF ClaimsAreCounted, DeliveryStatus
  <2>4. RowsHaveReports' /\ ClaimsArePast' /\ AttemptSentOnce' /\ ClaimsAreCounted'
    BY <2>1 DEF RowsHaveReports, ClaimsArePast, AttemptSentOnce, ClaimsAreCounted, Exists
  <2>5. OkWasReceived' /\ DeliveredWasReceived'
    BY <2>1 DEF OkWasReceived, DeliveredWasReceived
  <2> QED
    BY <2>2, <2>3, <2>4, <2>5
<1>6. ASSUME NEW o \in Operators, Retry(o) PROVE SendInv'
  <2> DEFINE d == operator[o].delivery
             row == OrmWrite(delivery[d], operator[o].seen, "pending", "null")
  <2>1. /\ UNCHANGED <<report, worker, purge, received>>
        /\ d \in Deliveries /\ delivery[d] \in DeliveryRow
        /\ delivery' = IF Exists(d) THEN [delivery EXCEPT ![d] = row] ELSE delivery
    BY <1>6, OutboxRanges DEF Retry
  <2>2. row.attempts = delivery[d].attempts /\ row.status \in {delivery[d].status, "pending"}
    BY <2>1, OrmWriteType DEF DeliveryStatus, NextAttempt
  <2>3. ReportsStay /\ RowsKeepAttempts /\ WorkersKeepAttempts
    BY <1>t, <2>1, <2>2 DEF ReportsStay, RowsKeepAttempts, WorkersKeepAttempts, Exists
  <2>4. \A e \in Deliveries : delivery'[e].status \in {delivery[e].status, "absent", "pending"}
    BY <1>t, <2>1, <2>2
  <2> QED
    BY <2>1, <2>3, <2>4, QuietStep
<1>7. ASSUME NEW d \in Deliveries, Expire(d) PROVE SendInv'
  <2>1. UNCHANGED <<report, worker, purge, received>>
    BY <1>7 DEF Expire
  <2>2. \A e \in Deliveries : /\ delivery'[e].status = delivery[e].status
                              /\ delivery'[e].attempts = delivery[e].attempts
    BY <1>7, <1>t DEF Expire, DeliveryRow
  <2>3. ReportsStay /\ RowsKeepAttempts /\ WorkersKeepAttempts
    BY <2>1, <2>2 DEF ReportsStay, RowsKeepAttempts, WorkersKeepAttempts, Exists
  <2> QED
    BY <2>1, <2>2, <2>3, QuietStep
<1>8. ASSUME NEW w \in Workers, Load(w) \/ CrashWorker(w) PROVE SendInv'
  <2>1. UNCHANGED <<report, delivery, purge, received>>
    BY <1>8 DEF Load, CrashWorker
  <2>2. worker[w].phase # "idle" /\ \A v \in Workers \ {w} : worker'[v] = worker[v]
    BY <1>8, <1>t DEF Load, CrashWorker
  <2>3. \/ worker'[w].phase = "idle"
        \/ /\ worker'[w].delivery = worker[w].delivery
           /\ worker'[w].attempt = worker[w].attempt
           /\ worker'[w].phase \in {"posting", "refused"}
    <3>1. CASE CrashWorker(w)
      BY <3>1, <1>t DEF CrashWorker, IdleWorker
    <3>2. CASE Load(w)
      <4>1. worker[w] \in WorkerState
        BY <1>t
      <4> QED
        BY <3>2, <1>t, <4>1 DEF Load, IdleWorker, WorkerState
    <3> QED
      BY <1>8, <3>1, <3>2
  <2>4. ReportsStay /\ RowsKeepAttempts /\ WorkersKeepAttempts
    BY <2>1, <2>2, <2>3 DEF ReportsStay, RowsKeepAttempts, WorkersKeepAttempts, Exists
  <2> QED
    BY <2>1, <2>2, <2>3, <2>4, QuietStep
<1>9. ASSUME UNCHANGED <<worker, received>>, purge' \subseteq purge, ReportsStay,
             NEW gone, delivery' \in {delivery, Cascaded(gone)}
      PROVE  SendInv'
  <2>1. \A d \in Deliveries : delivery'[d] = delivery[d] \/ delivery'[d] = AbsentRow
    BY <1>9 DEF Cascaded
  <2>2. RowsKeepAttempts /\ WorkersKeepAttempts
    BY <1>9, <2>1 DEF RowsKeepAttempts, WorkersKeepAttempts, Exists, AbsentRow
  <2> QED
    BY <1>9, <2>1, <2>2, QuietStep DEF AbsentRow
<1>10. ASSUME NEW r \in Reports, DeleteReport(r) PROVE SendInv'
  BY <1>9, <1>10, <1>t DEF DeleteReport, ReportsStay
<1>11. ASSUME NEW x \in Destinations, DeleteDestination(x) PROVE SendInv'
  BY <1>9, <1>11 DEF DeleteDestination, ReportsStay
<1>12. CASE DeleteExpired
  BY <1>9, <1>12, <1>t DEF DeleteExpired, ReportsStay
<1>13. ASSUME NEW r \in Reports, AgeReport(r) PROVE SendInv'
  BY <1>9, <1>13, <1>t DEF AgeReport, ReportsStay
<1>14. ASSUME NEW x \in Destinations, UpdateDestination(x) PROVE SendInv'
  BY <1>9, <1>14 DEF UpdateDestination, ReportsStay
<1>15. ASSUME NEW d \in Deliveries, Dispatch(d) \/ LoseMessage(d) PROVE SendInv'
  BY <1>9, <1>15 DEF Dispatch, LoseMessage, ReportsStay
<1>16. ASSUME NEW w \in Workers, NEW d \in Deliveries, Ignore(w, d) PROVE SendInv'
  BY <1>9, <1>16 DEF Ignore, ReportsStay
<1>17. ASSUME NEW o \in Operators, NEW d \in Deliveries, LoadForRetry(o, d) PROVE SendInv'
  BY <1>9, <1>17 DEF LoadForRetry, ReportsStay
<1>18. CASE UNCHANGED vars
  BY <1>9, <1>18 DEF vars, ReportsStay
<1> QED
  BY <1>1, <1>2, <1>3, <1>4, <1>5, <1>6, <1>7, <1>8, <1>10, <1>11, <1>12, <1>13, <1>14,
     <1>15, <1>16, <1>17, <1>18 DEF Next, Attempt

\* Whatever is duplicated, lost, late or retried by hand: no attempt is sent by two
\* workers, no row shows a delivery that did not happen, and retention never takes
\* a notification nobody tried to send.
THEOREM SendsAreSafe == Spec => [](AttemptSentOnce /\ DeliveredWasReceived /\ PurgeOnlyAttempted)
<1>1. Spec => [](TypeOK /\ SendInv)
  BY InitTypeOK, NextTypeOK, InitSendInv, NextSendInv, PTL DEF Spec
<1>2. SendInv => AttemptSentOnce /\ DeliveredWasReceived /\ PurgeOnlyAttempted
  BY DEF SendInv
<1> QED
  BY <1>1, <1>2, PTL

-----------------------------------------------------------------------------
(* While attempts end before their lease does and nobody retries a delivery  *)
(* by hand, the lease makes the worker that claimed a row its only writer.   *)

\* What DELIVERY_LEASE is chosen for, and no request to the retry route.
Prompt == ~SlowSends /\ Operators = {}

\* A row belongs to one worker at a time.
OneHolder ==
    \A v, w \in Workers :
        /\ worker[v].phase # "idle" /\ worker[w].phase # "idle"
        /\ worker[v].delivery = worker[w].delivery
        => v = w

\* The row of a worker is as the worker left it, and what it has read is not stale.
HoldersAreCurrent ==
    \A w \in Workers :
        LET row == delivery[worker[w].delivery] IN
        worker[w].phase # "idle" /\ row.status # "absent" =>
            /\ row.status = "sending" /\ row.next = "later"
            /\ worker[w].phase # "claimed" => worker[w].seen = row

SendingIsLeased == \A d \in Deliveries : delivery[d].status = "sending" => delivery[d].next # "null"

Free(d) == \A w \in Workers : worker[w].phase # "idle" => worker[w].delivery # d

\* A row that can be claimed again has an attempt left, or a crash has paid for it.
AttemptsArePaid ==
    \A d \in Deliveries :
        /\ delivery[d].attempts <= MaxDeliveryAttempts + faults
        /\ delivery[d].status = "pending" \/ (delivery[d].status = "sending" /\ Free(d))
             => delivery[d].attempts < MaxDeliveryAttempts + faults

\* Inductive: with one holder, a lease that a holder's row keeps, and rows that come
\* back only through the holder or its crash.
LeaseInv == OneHolder /\ HoldersAreCurrent /\ SendingIsLeased /\ AttemptsArePaid

LEMMA InitLeaseInv == Init => LeaseInv
BY BoundsAssumption
   DEF Init, LeaseInv, OneHolder, HoldersAreCurrent, SendingIsLeased, AttemptsArePaid, AbsentRow,
       IdleWorker

LEMMA LeaseRanges ==
    ASSUME TypeOK
    PROVE  MaxDeliveryAttempts \in Nat \ {0} /\ faults \in Nat
BY BoundsAssumption DEF TypeOK

\* A step in which no worker starts or ends an attempt and rows only go away.
LEMMA IdleStep ==
    ASSUME TypeOK, LeaseInv, UNCHANGED worker, faults' \in Nat, faults' >= faults,
           \A d \in Deliveries : delivery'[d] = delivery[d] \/ delivery'[d] = AbsentRow
    PROVE  LeaseInv'
<1>1. OneHolder' /\ HoldersAreCurrent' /\ SendingIsLeased'
  BY OutboxRanges DEF LeaseInv, OneHolder, HoldersAreCurrent, SendingIsLeased, AbsentRow
<1>2. AttemptsArePaid'
  BY OutboxRanges, LeaseRanges DEF LeaseInv, AttemptsArePaid, AbsentRow, Free
<1> QED
  BY <1>1, <1>2 DEF LeaseInv

LEMMA NextLeaseInv == Prompt /\ TypeOK /\ SendInv /\ LeaseInv /\ [Next]_vars => LeaseInv'
<1> SUFFICES ASSUME Prompt, TypeOK, SendInv, LeaseInv, [Next]_vars PROVE LeaseInv'
  OBVIOUS
<1> USE DEF LeaseInv, tables, counters
<1>t. /\ delivery \in [Deliveries -> DeliveryRow]
      /\ worker \in [Workers -> WorkerState]
  BY DEF TypeOK
<1>m. MaxDeliveryAttempts \in Nat \ {0} /\ faults \in Nat
  BY LeaseRanges
<1>1. ASSUME NEW r \in Reports, Enqueue(r) PROVE LeaseInv'
  <2>1. report[r] = "absent" /\ UNCHANGED <<worker, faults>>
    BY <1>1 DEF Enqueue
  <2>2. \A d \in Deliveries : \/ delivery'[d] = delivery[d]
                              \/ d[2] = r /\ delivery'[d] = [AbsentRow EXCEPT !.status = "pending"]
    BY <1>1 DEF Enqueue
  <2>3. \A w \in Workers : worker[w].phase # "idle" => worker[w].delivery[2] # r
    BY <2>1 DEF SendInv, ClaimsArePast
  <2>4. OneHolder' /\ HoldersAreCurrent' /\ SendingIsLeased'
    BY <2>1, <2>2, <2>3, OutboxRanges DEF OneHolder, HoldersAreCurrent, SendingIsLeased, AbsentRow
  <2>5. AttemptsArePaid'
    BY <1>m, <2>1, <2>2, OutboxRanges DEF AttemptsArePaid, AbsentRow, Free
  <2> QED
    BY <2>4, <2>5
<1>2. ASSUME NEW w \in Workers, NEW d \in Deliveries, Claim(w, d) PROVE LeaseInv'
  <2>1. /\ worker[w].phase = "idle" /\ UNCHANGED faults
        /\ \/ delivery[d].status = "pending"
           \/ delivery[d].status = "sending" /\ delivery[d].next = "due"
    BY <1>2 DEF Claim, Due
  <2>2. Free(d)
    BY <2>1 DEF HoldersAreCurrent, Free
  <2>3. /\ delivery'[d] = [status |-> "sending", attempts |-> delivery[d].attempts + 1, next |-> "later"]
        /\ \A e \in Deliveries \ {d} : delivery'[e] = delivery[e]
    BY <1>2, <1>t DEF Claim, Leased
  <2>4. /\ worker'[w].phase = "claimed" /\ worker'[w].delivery = d
        /\ \A v \in Workers \ {w} : worker'[v] = worker[v]
    BY <1>2, <1>t DEF Claim
  <2>5. OneHolder'
    BY <2>2, <2>4 DEF OneHolder, Free
  <2>6. HoldersAreCurrent' /\ SendingIsLeased'
    BY <2>2, <2>3, <2>4, OutboxRanges DEF HoldersAreCurrent, SendingIsLeased, Free
  <2>7. AttemptsArePaid'
    BY <1>m, <2>1, <2>2, <2>3, <2>4, OutboxRanges DEF AttemptsArePaid, Free
  <2> QED
    BY <2>5, <2>6, <2>7
<1>3. ASSUME NEW w \in Workers, Load(w) \/ Post(w) PROVE LeaseInv'
  <2> DEFINE d == worker[w].delivery
  <2>1. /\ worker[w].phase # "idle" /\ UNCHANGED <<delivery, faults>> /\ d \in Deliveries
        /\ \A v \in Workers \ {w} : worker'[v] = worker[v]
    BY <1>3, <1>t, OutboxRanges DEF Load, Post
  <2>2. \/ worker'[w].phase = "idle" /\ delivery[d].status = "absent"
        \/ /\ worker'[w].phase \notin {"idle", "claimed"} /\ worker'[w].delivery = d
           /\ \/ worker'[w].seen = delivery[d]
              \/ worker[w].phase # "claimed" /\ worker'[w].seen = worker[w].seen
    <3>1. worker[w] \in WorkerState
      BY <1>t
    <3>2. CASE Load(w) /\ ~Exists(d)
      BY <1>t, <3>2 DEF Load, IdleWorker, Exists
    <3>3. CASE Load(w) /\ Exists(d)
      BY <1>t, <3>1, <3>3 DEF Load, WorkerState
    <3>4. CASE Post(w)
      BY <1>t, <3>1, <3>4 DEF Post, WorkerState
    <3> QED
      BY <1>3, <3>2, <3>3, <3>4
  <2>3. OneHolder'
    BY <2>1, <2>2 DEF OneHolder
  <2>4. HoldersAreCurrent' /\ SendingIsLeased'
    BY <2>1, <2>2, OutboxRanges DEF HoldersAreCurrent, SendingIsLeased
  <2>5. \A e \in Deliveries : delivery[e].status # "absent" /\ Free(e)' => Free(e)
    BY <2>1, <2>2 DEF Free
  <2>6. AttemptsArePaid'
    BY <2>1, <2>5 DEF AttemptsArePaid
  <2> QED
    BY <2>3, <2>4, <2>6
<1>4. ASSUME NEW w \in Workers, Settle(w) PROVE LeaseInv'
  <2> DEFINE d == worker[w].delivery
             new == Outcome(worker[w].phase, worker[w].seen)
  <2>1. /\ worker[w].phase \in {"ok", "refused", "error"} /\ UNCHANGED faults /\ d \in Deliveries
        /\ worker'[w].phase = "idle"
        /\ \A v \in Workers \ {w} : worker'[v] = worker[v]
    BY <1>4, <1>t, OutboxRanges DEF Settle, IdleWorker
  <2>2. \A v \in Workers \ {w} : worker[v].phase # "idle" => worker[v].delivery # d
    BY <2>1 DEF OneHolder
  <2>3. CASE ~Exists(d)
    <3>1. UNCHANGED delivery
      BY <1>4, <2>3 DEF Settle
    <3>2. OneHolder' /\ HoldersAreCurrent' /\ SendingIsLeased'
      BY <2>1, <3>1, OutboxRanges DEF OneHolder, HoldersAreCurrent, SendingIsLeased
    <3>3. \A e \in Deliveries : delivery[e].status # "absent" /\ Free(e)' => Free(e)
      BY <2>1, <2>3 DEF Free, Exists
    <3>4. AttemptsArePaid'
      BY <2>1, <3>1, <3>3 DEF AttemptsArePaid
    <3> QED
      BY <3>2, <3>4
  <2>4. CASE Exists(d)
    <3>1. /\ delivery[d].status = "sending" /\ delivery[d].next = "later"
          /\ worker[w].seen = delivery[d]
      BY <2>1, <2>4 DEF HoldersAreCurrent, Exists
    <3>2. /\ new.status \in {"delivered", "failed", "pending"}
          /\ new.status = "pending" => delivery[d].attempts < MaxDeliveryAttempts
      BY <2>1, <3>1 DEF Outcome, AfterError
    <3>3. /\ delivery'[d].status = new.status /\ delivery'[d].attempts = delivery[d].attempts
          /\ \A e \in Deliveries \ {d} : delivery'[e] = delivery[e]
      <4>1. delivery[d] \in DeliveryRow
        BY <1>t, <2>1
      <4>2. delivery' = [delivery EXCEPT ![d] = OrmWrite(@, worker[w].seen, new.status, new.next)]
        BY <1>4, <2>4 DEF Settle
      <4> HIDE DEF new
      <4> QED
        BY <1>t, <2>1, <3>1, <3>2, <4>1, <4>2 DEF OrmWrite, DeliveryRow
    <3>4. OneHolder' /\ HoldersAreCurrent' /\ SendingIsLeased'
      <4> HIDE DEF new
      <4> QED
        BY <2>1, <2>2, <3>2, <3>3, OutboxRanges DEF OneHolder, HoldersAreCurrent, SendingIsLeased
    <3>5. AttemptsArePaid'
      <4> HIDE DEF new
      <4> QED
        BY <1>m, <2>1, <2>2, <3>2, <3>3, OutboxRanges DEF AttemptsArePaid, Free
    <3> QED
      BY <3>4, <3>5
  <2> QED
    BY <2>3, <2>4
<1>5. ASSUME NEW d \in Deliveries, Expire(d) PROVE LeaseInv'
  <2>1. /\ UNCHANGED <<worker, faults>> /\ delivery[d].next = "later"
        /\ delivery[d].status = "sending" => Free(d)
    BY <1>5 DEF Expire, Prompt, Attempting, Free
  <2>2. /\ \A e \in Deliveries \ {d} : delivery'[e] = delivery[e]
        /\ delivery'[d].status = delivery[d].status
        /\ delivery'[d].attempts = delivery[d].attempts /\ delivery'[d].next = "due"
    BY <1>5, <1>t DEF Expire, DeliveryRow
  <2>3. OneHolder' /\ SendingIsLeased'
    BY <2>1, <2>2 DEF OneHolder, SendingIsLeased
  <2>4. HoldersAreCurrent'
    BY <2>1, <2>2, OutboxRanges DEF HoldersAreCurrent, Free
  <2>5. AttemptsArePaid'
    BY <2>1, <2>2 DEF AttemptsArePaid, Free
  <2> QED
    BY <2>3, <2>4, <2>5
<1>6. ASSUME NEW w \in Workers, CrashWorker(w) PROVE LeaseInv'
  <2>1. /\ faults' = faults + 1 /\ UNCHANGED delivery /\ worker'[w].phase = "idle"
        /\ \A v \in Workers \ {w} : worker'[v] = worker[v]
    BY <1>6, <1>t DEF CrashWorker, IdleWorker
  <2>2. OneHolder' /\ HoldersAreCurrent' /\ SendingIsLeased'
    BY <2>1 DEF OneHolder, HoldersAreCurrent, SendingIsLeased
  <2>3. AttemptsArePaid'
    BY <1>m, <2>1, OutboxRanges DEF AttemptsArePaid
  <2> QED
    BY <2>2, <2>3
<1>7. ASSUME NEW o \in Operators PROVE FALSE
  BY <1>7 DEF Prompt
<1>8. ASSUME UNCHANGED worker, faults' \in {faults, faults + 1},
             NEW gone, delivery' \in {delivery, Cascaded(gone)}
      PROVE  LeaseInv'
  BY <1>8, <1>m, IdleStep DEF Cascaded
<1>9. ASSUME NEW r \in Reports, DeleteReport(r) \/ AgeReport(r) PROVE LeaseInv'
  BY <1>8, <1>9 DEF DeleteReport, AgeReport
<1>10. ASSUME NEW x \in Destinations, UpdateDestination(x) \/ DeleteDestination(x) PROVE LeaseInv'
  BY <1>8, <1>10 DEF UpdateDestination, DeleteDestination
<1>11. CASE SelectExpired \/ DeleteExpired
  BY <1>8, <1>11 DEF SelectExpired, DeleteExpired
<1>12. ASSUME NEW d \in Deliveries, Dispatch(d) \/ LoseMessage(d) PROVE LeaseInv'
  BY <1>8, <1>12 DEF Dispatch, LoseMessage
<1>13. ASSUME NEW w \in Workers, NEW d \in Deliveries, Ignore(w, d) PROVE LeaseInv'
  BY <1>8, <1>13 DEF Ignore
<1>14. CASE UNCHANGED vars
  BY <1>8, <1>14 DEF vars
<1> QED
  BY <1>1, <1>2, <1>3, <1>4, <1>5, <1>6, <1>7, <1>9, <1>10, <1>11, <1>12, <1>13, <1>14
     DEF Next, Attempt

LEMMA LeasesHold == Prompt => (Spec => [](TypeOK /\ SendInv /\ LeaseInv))
<1> SUFFICES ASSUME Prompt PROVE Spec => [](TypeOK /\ SendInv /\ LeaseInv)
  OBVIOUS
<1>1. LeaseInv /\ TypeOK /\ SendInv /\ [Next]_vars => LeaseInv'
  BY NextLeaseInv
<1> QED
  BY <1>1, InitTypeOK, NextTypeOK, InitSendInv, NextSendInv, InitLeaseInv, PTL DEF Spec

\* A row that is being sent is never stuck: it has a lease that will expire.
THEOREM SendingRecovers == Prompt => (Spec => []SendingIsRecoverable)
<1>1. LeaseInv => SendingIsRecoverable
  BY DEF LeaseInv, SendingIsLeased, SendingIsRecoverable
<1> QED
  BY <1>1, LeasesHold, PTL

\* Every attempt beyond the maximum is paid for by a crash.
THEOREM AttemptsAreBounded == Prompt => (Spec => []AttemptsBounded)
<1>1. TypeOK /\ LeaseInv => AttemptsBounded
  <2> SUFFICES ASSUME TypeOK, LeaseInv, NEW d \in Deliveries
               PROVE  delivery[d].attempts <= MaxDeliveryAttempts + faults + retries
    BY DEF AttemptsBounded
  <2>1. MaxDeliveryAttempts \in Nat /\ faults \in Nat /\ retries \in Nat
    BY BoundsAssumption DEF TypeOK
  <2> QED
    BY <2>1, OutboxRanges DEF LeaseInv, AttemptsArePaid
<1> QED
  BY <1>1, LeasesHold, PTL

\* Once delivered a row stays delivered and nothing is sent for it again.
THEOREM DeliveryIsFinal == Prompt => (Spec => NoSendAfterDelivery)
<1> DEFINE Quiet(d) == delivery[d].status = "delivered" =>
                         /\ delivery'[d].status \in {"delivered", "absent"}
                         /\ received'[d] = received[d]
<1>1. ASSUME TypeOK, SendInv, LeaseInv, Prompt, [Next]_vars, NEW d \in Deliveries,
             delivery[d].status = "delivered"
      PROVE  delivery'[d].status \in {"delivered", "absent"} /\ received'[d] = received[d]
  <2> USE <1>1 DEF tables, counters
  <2>t. /\ delivery \in [Deliveries -> DeliveryRow] /\ received \in [Deliveries -> Nat]
        /\ \A w \in Workers : worker[w].delivery \in Deliveries
    BY OutboxRanges DEF TypeOK
  <2>1. \A w \in Workers : worker[w].phase # "idle" => worker[w].delivery # d
    BY DEF LeaseInv, HoldersAreCurrent
  <2>2. ASSUME NEW r \in Reports, Enqueue(r) PROVE Quiet(d)
    BY <2>2 DEF Enqueue, SendInv, RowsHaveReports, Exists
  <2>3. ASSUME NEW w \in Workers, NEW e \in Deliveries, Claim(w, e) PROVE Quiet(d)
    BY <2>3, <2>t DEF Claim, Due
  <2>4. ASSUME NEW w \in Workers, Post(w) PROVE Quiet(d)
    BY <2>4, <2>1, <2>t DEF Post
  <2>5. ASSUME NEW w \in Workers, Settle(w) PROVE Quiet(d)
    BY <2>5, <2>1, <2>t DEF Settle
  <2>6. ASSUME NEW e \in Deliveries, Expire(e) PROVE Quiet(d)
    BY <2>6, <2>t DEF Expire, DeliveryRow
  <2>7. ASSUME NEW o \in Operators PROVE FALSE
    BY <2>7 DEF Prompt
  <2>8. ASSUME UNCHANGED received, NEW gone, delivery' \in {delivery, Cascaded(gone)} PROVE Quiet(d)
    BY <2>8 DEF Cascaded, AbsentRow
  <2>9. ASSUME NEW r \in Reports, DeleteReport(r) \/ AgeReport(r) PROVE Quiet(d)
    BY <2>8, <2>9 DEF DeleteReport, AgeReport
  <2>10. ASSUME NEW x \in Destinations, UpdateDestination(x) \/ DeleteDestination(x) PROVE Quiet(d)
    BY <2>8, <2>10 DEF UpdateDestination, DeleteDestination
  <2>11. CASE SelectExpired \/ DeleteExpired
    BY <2>8, <2>11 DEF SelectExpired, DeleteExpired
  <2>12. ASSUME NEW e \in Deliveries, Dispatch(e) \/ LoseMessage(e) PROVE Quiet(d)
    BY <2>8, <2>12 DEF Dispatch, LoseMessage
  <2>13. ASSUME NEW w \in Workers,
                Load(w) \/ CrashWorker(w) \/ \E e \in Deliveries : Ignore(w, e)
         PROVE  Quiet(d)
    BY <2>8, <2>13 DEF Load, CrashWorker, Ignore
  <2>14. CASE UNCHANGED vars
    BY <2>8, <2>14 DEF vars
  <2> QED
    BY <2>2, <2>3, <2>4, <2>5, <2>6, <2>7, <2>9, <2>10, <2>11, <2>12, <2>13, <2>14
       DEF Next, Attempt
<1> SUFFICES ASSUME Prompt PROVE Spec => NoSendAfterDelivery
  OBVIOUS
<1>2. TypeOK /\ SendInv /\ LeaseInv /\ [Next]_vars
        => [\A d \in Deliveries : Quiet(d)]_vars
  BY <1>1
<1>3. Spec => [](TypeOK /\ SendInv /\ LeaseInv)
  BY LeasesHold
<1> QED
  BY <1>2, <1>3, PTL DEF Spec, NoSendAfterDelivery

-----------------------------------------------------------------------------
(* Under the same assumption the outbox implements DeliveryPromise          *)

LEMMA NoticesAreDeliveries == Promise!Notices = Deliveries
BY DEF Promise!Notices, Deliveries

\* A notice is none until its report appears.
LEMMA ShownNone ==
    ASSUME TypeOK, SendInv, NEW d \in Deliveries
    PROVE  /\ Shown(d) = "none" <=> report[d[2]] = "absent"
           /\ delivery[d].status \in {"pending", "sending"} <=> Shown(d) = "owed"
<1>1. delivery[d].status \in DeliveryStatus
  BY OutboxRanges DEF DeliveryRow
<1>2. report[d[2]] = "absent" => ~Exists(d)
  BY DEF SendInv, RowsHaveReports
<1> QED
  BY <1>1, <1>2 DEF Shown, Exists, DeliveryStatus

\* What readers see depends on the row's status and count, and on there being a report.
LEMMA ShownSame ==
    ASSUME NEW d, delivery'[d].status = delivery[d].status,
           delivery'[d].attempts = delivery[d].attempts,
           report'[d[2]] = "absent" <=> report[d[2]] = "absent"
    PROVE  Shown(d)' = Shown(d) /\ Tried(d)' = Tried(d)
BY DEF Shown, Tried, Exists

LEMMA InPhaseSame ==
    ASSUME UNCHANGED worker, NEW phases
    PROVE  InPhase(phases)' = InPhase(phases)
BY DEF InPhase, Attempting

\* A worker that alone holds a row decides alone what is under way for it.
LEMMA HolderDecides ==
    ASSUME NEW w \in Workers, NEW d \in Deliveries,
           NEW phases, "idle" \notin phases,
           \A v \in Workers \ {w} :
               worker'[v] = worker[v] /\ (worker[v].phase # "idle" => worker[v].delivery # d),
           worker[w].phase = "idle" \/ worker[w].delivery = d,
           worker'[w].phase = "idle" \/ worker'[w].delivery = d
    PROVE  /\ d \in InPhase(phases) <=> worker[w].phase \in phases
           /\ InPhase(phases)' = IF worker'[w].phase \in phases THEN InPhase(phases) \cup {d}
                                                               ELSE InPhase(phases) \ {d}
<1>1. d \in InPhase(phases) <=> worker[w].phase \in phases
  BY DEF InPhase, Attempting
<1>2. \A e : e \in InPhase(phases)' <=>
           IF e = d THEN worker'[w].phase \in phases ELSE e \in InPhase(phases)
  BY DEF InPhase, Attempting
<1> QED
  BY <1>1, <1>2

\* Each step of the outbox is a step of the promise or leaves it as it is.
LEMMA PromiseStep ==
    ASSUME Prompt, TypeOK, SendInv, LeaseInv, [Next]_vars
    PROVE  [Promise!Next]_Promise!vars
<1> DEFINE notice == [d \in Deliveries |-> Shown(d)]
           tries == [d \in Deliveries |-> Tried(d)]
           open == InPhase({"claimed", "posting"})
           refused == InPhase({"refused"})
           Quiet == UNCHANGED <<dest, notice, tries, open, refused, received>>
           Step == Promise!Next \/ Quiet
<1> USE DEF tables, counters
<1>t. /\ delivery \in [Deliveries -> DeliveryRow]
      /\ worker \in [Workers -> WorkerState]
      /\ report \in [Reports -> ReportState]
      /\ received \in [Deliveries -> Nat]
      /\ dest \in [Destinations -> DestState]
  BY DEF TypeOK
<1>n. Promise!Notices = Deliveries
  BY NoticesAreDeliveries
<1>q. ASSUME UNCHANGED <<dest, worker, received>>,
             \A d \in Deliveries : /\ delivery'[d].status = delivery[d].status
                                   /\ delivery'[d].attempts = delivery[d].attempts
                                   /\ report'[d[2]] = "absent" <=> report[d[2]] = "absent"
      PROVE  Step
  <2>1. \A d \in Deliveries : Shown(d)' = Shown(d) /\ Tried(d)' = Tried(d)
    BY <1>q, ShownSame
  <2>2. notice' = notice /\ tries' = tries
    BY <2>1
  <2>3. open' = open /\ refused' = refused
    BY <1>q, InPhaseSame
  <2> QED
    BY <1>q, <2>2, <2>3
<1>1. ASSUME NEW r \in Reports, Enqueue(r) PROVE Step
  <2>1. /\ report[r] = "absent" /\ report'[r] = "new"
        /\ \A q \in Reports \ {r} : report'[q] = report[q]
        /\ UNCHANGED <<dest, worker, received>>
    BY <1>1, <1>t DEF Enqueue
  <2>2. \A d \in Deliveries : d[2] = r => Shown(d) = "none" /\ delivery[d].status = "absent"
    BY <2>1, ShownNone DEF SendInv, RowsHaveReports, Exists
  <2>3. \A d \in Deliveries :
          delivery'[d] = IF d[2] = r /\ dest[d[1]] = "active"
                         THEN [AbsentRow EXCEPT !.status = "pending"] ELSE delivery[d]
    BY <1>1 DEF Enqueue
  <2>4. \A d \in Deliveries :
          /\ Shown(d)' = IF d[2] # r THEN Shown(d)
                         ELSE IF dest[d[1]] = "active" THEN "owed" ELSE "void"
          /\ Tried(d)' = Tried(d)
    BY <2>1, <2>2, <2>3, DeliveryParts DEF Shown, Tried, Exists, AbsentRow
  <2>5. \A x \in Destinations : notice[<<x, r>>] = "none"
    BY <2>2 DEF Deliveries
  <2>6. /\ notice' = [d \in Deliveries |->
                       IF d[2] # r THEN notice[d]
                       ELSE IF dest[d[1]] = "active" THEN "owed" ELSE "void"]
        /\ tries' = tries
    BY <2>4
  <2>7. open' = open /\ refused' = refused
    BY <2>1, InPhaseSame
  <2>8. Promise!Announce(r)
    BY <1>n, <2>1, <2>5, <2>6, <2>7 DEF Promise!Announce
  <2> QED
    BY <2>8 DEF Promise!Next
<1>2. ASSUME NEW w \in Workers, NEW d \in Deliveries, Claim(w, d) PROVE Step
  <2>1. /\ worker[w].phase = "idle" /\ UNCHANGED <<report, dest, received>>
        /\ \/ delivery[d].status = "pending"
           \/ delivery[d].status = "sending" /\ delivery[d].next = "due"
    BY <1>2 DEF Claim, Due
  <2>2. \A v \in Workers : worker[v].phase # "idle" => worker[v].delivery # d
    BY <2>1 DEF LeaseInv, HoldersAreCurrent
  <2>3. /\ delivery'[d].status = "sending" /\ delivery'[d].attempts = delivery[d].attempts + 1
        /\ \A e \in Deliveries \ {d} : delivery'[e] = delivery[e]
    BY <1>2, <1>t DEF Claim, Leased
  <2>4. /\ worker'[w].phase = "claimed" /\ worker'[w].delivery = d
        /\ \A v \in Workers \ {w} : worker'[v] = worker[v]
    BY <1>2, <1>t DEF Claim
  <2>5. /\ d \notin open /\ d \notin refused
        /\ open' = open \cup {d} /\ refused' = refused \ {d}
    BY <2>1, <2>2, <2>4, HolderDecides
  <2>6. /\ \A e \in Deliveries : Shown(e)' = Shown(e)
        /\ Tried(d)' = Tried(d) + 1
        /\ \A e \in Deliveries \ {d} : Tried(e)' = Tried(e)
    BY <2>1, <2>3 DEF Shown, Tried, Exists
  <2>7. notice' = notice /\ tries' = [tries EXCEPT ![d] = @ + 1]
    BY <2>6
  <2>8. notice[d] = "owed"
    BY <2>1, ShownNone
  <2>9. Promise!Try(d)
    BY <2>1, <2>5, <2>7, <2>8 DEF Promise!Try
  <2> QED
    BY <1>n, <2>9 DEF Promise!Next
<1>w. ASSUME NEW w \in Workers, worker[w].phase # "idle"
      PROVE  /\ worker[w].delivery \in Deliveries
             /\ \A v \in Workers \ {w} :
                   worker[v].phase # "idle" => worker[v].delivery # worker[w].delivery
  BY <1>w, OutboxRanges DEF LeaseInv, OneHolder
\* A worker that goes on, or lets go, without writing its row.
<1>h. ASSUME NEW w \in Workers, worker[w].phase # "idle",
             UNCHANGED <<report, dest, delivery, received>>,
             \A v \in Workers \ {w} : worker'[v] = worker[v],
             worker'[w].phase = "idle" \/ worker'[w].delivery = worker[w].delivery,
             worker'[w].phase \notin {"claimed", "refused"},
             worker'[w].phase = "posting" => worker[w].phase \in {"claimed", "posting"}
      PROVE  Step
  <2> DEFINE d == worker[w].delivery
  <2>1. /\ d \in open <=> worker[w].phase \in {"claimed", "posting"}
        /\ d \in refused <=> worker[w].phase = "refused"
        /\ open' = IF worker'[w].phase = "posting" THEN open \cup {d} ELSE open \ {d}
        /\ refused' = refused \ {d}
    <3>1. d \in Deliveries
          /\ \A v \in Workers \ {w} : worker[v].phase # "idle" => worker[v].delivery # d
      BY <1>h, <1>w
    <3>2. \A phases : "idle" \notin phases =>
            /\ d \in InPhase(phases) <=> worker[w].phase \in phases
            /\ InPhase(phases)' = IF worker'[w].phase \in phases THEN InPhase(phases) \cup {d}
                                                                ELSE InPhase(phases) \ {d}
      BY <1>h, <3>1, HolderDecides
    <3> QED
      BY <1>h, <3>2
  <2>2. notice' = notice /\ tries' = tries
    BY <1>h DEF Shown, Tried, Exists
  <2>3. CASE worker'[w].phase = "posting"
    BY <1>h, <2>1, <2>2, <2>3
  <2>4. CASE worker'[w].phase # "posting" /\ d \notin open \cup refused
    BY <1>h, <2>1, <2>2, <2>4
  <2>5. CASE worker'[w].phase # "posting" /\ d \in open \cup refused
    <3>1. Promise!Drop(d)
      BY <1>h, <2>1, <2>2, <2>5 DEF Promise!Drop
    <3> QED
      BY <1>n, <1>w, <1>h, <3>1 DEF Promise!Next
  <2> QED
    BY <2>3, <2>4, <2>5
<1>3. ASSUME NEW w \in Workers, Load(w) PROVE Step
  <2> DEFINE d == worker[w].delivery
  <2>1. /\ worker[w].phase = "claimed" /\ UNCHANGED <<report, dest, delivery, received>>
        /\ \A v \in Workers \ {w} : worker'[v] = worker[v]
        /\ worker[w] \in WorkerState
    BY <1>3, <1>t DEF Load
  <2>2. CASE ~Exists(d)
    <3>1. worker'[w].phase = "idle"
      BY <1>3, <1>t, <2>2 DEF Load, IdleWorker
    <3> QED
      BY <1>h, <2>1, <3>1
  <2>3. ASSUME Exists(d)
        PROVE  /\ worker'[w].delivery = d
               /\ worker'[w].phase = IF dest[d[1]] = "active" THEN "posting" ELSE "refused"
    BY <1>3, <1>t, <2>1, <2>3 DEF Load, WorkerState
  <2>4. CASE Exists(d) /\ dest[d[1]] = "active"
    BY <1>h, <2>1, <2>3, <2>4
  <2>5. CASE Exists(d) /\ dest[d[1]] # "active"
    <3>1. /\ d \in open
          /\ open' = open \ {d} /\ refused' = refused \cup {d}
      BY <1>w, <2>1, <2>3, <2>5, HolderDecides
    <3>2. notice' = notice /\ tries' = tries
      BY <2>1 DEF Shown, Tried, Exists
    <3>3. notice[d] = "owed"
      BY <1>w, <2>1, <2>5, ShownNone DEF LeaseInv, HoldersAreCurrent, Exists
    <3>4. Promise!Refuse(d)
      BY <2>1, <2>5, <3>1, <3>2, <3>3 DEF Promise!Refuse
    <3> QED
      BY <1>n, <1>w, <2>1, <3>4 DEF Promise!Next
  <2> QED
    BY <2>2, <2>4, <2>5
<1>4. ASSUME NEW w \in Workers, Post(w) PROVE Step
  <2> DEFINE d == worker[w].delivery
  <2>1. /\ worker[w].phase = "posting" /\ UNCHANGED <<report, dest, delivery>>
        /\ \A v \in Workers \ {w} : worker'[v] = worker[v]
        /\ worker[w] \in WorkerState
        /\ received' \in {received, [received EXCEPT ![d] = @ + 1]}
    BY <1>4, <1>t DEF Post
  <2>2. worker'[w].phase \in {"ok", "error"} /\ worker'[w].delivery = d
    BY <1>4, <1>t, <2>1 DEF Post, WorkerState
  <2>3. CASE received' = received
    BY <1>h, <2>1, <2>2, <2>3
  <2>4. CASE received' = [received EXCEPT ![d] = @ + 1]
    <3>1. /\ d \in open /\ d \notin refused
          /\ open' = open \ {d} /\ refused' = refused \ {d}
      BY <1>w, <2>1, <2>2, HolderDecides
    <3>2. notice' = notice /\ tries' = tries
      BY <2>1 DEF Shown, Tried, Exists
    <3>3. Promise!Arrive(d)
      BY <2>1, <2>4, <3>1, <3>2 DEF Promise!Arrive
    <3> QED
      BY <1>n, <1>w, <2>1, <3>3 DEF Promise!Next
  <2> QED
    BY <2>1, <2>3, <2>4
<1>5. ASSUME NEW w \in Workers, CrashWorker(w) PROVE Step
  BY <1>h, <1>t, <1>5 DEF CrashWorker, IdleWorker
<1>6. ASSUME NEW w \in Workers, Settle(w) PROVE Step
  <2>d. PICK d \in Deliveries : d = worker[w].delivery
    BY OutboxRanges
  <2> DEFINE new == Outcome(worker[w].phase, worker[w].seen)
  <2>1. /\ worker[w].phase \in {"ok", "refused", "error"} /\ UNCHANGED <<report, dest, received>>
        /\ worker'[w].phase = "idle"
        /\ \A v \in Workers \ {w} : worker'[v] = worker[v]
    BY <1>6, <1>t DEF Settle, IdleWorker
  <2>2. CASE ~Exists(d)
    <3>1. UNCHANGED delivery
      BY <1>6, <2>d, <2>2 DEF Settle
    <3> QED
      BY <1>h, <2>1, <3>1
  <2>3. CASE Exists(d)
    <3>1. d \in Deliveries /\ delivery[d] \in DeliveryRow
      BY <1>t
    <3>2. delivery[d].status = "sending" /\ worker[w].seen = delivery[d]
      BY <2>d, <2>1, <2>3 DEF LeaseInv, HoldersAreCurrent, Exists
    <3>3. /\ new.status \in {"pending", "delivered", "failed"}
          /\ worker[w].phase = "ok" => new.status = "delivered"
          /\ worker[w].phase = "refused" => new.status = "failed"
          /\ worker[w].phase = "error" =>
               new.status = IF delivery[d].attempts < MaxDeliveryAttempts THEN "pending" ELSE "failed"
      BY <2>1, <3>2 DEF Outcome, AfterError
    <3>4. delivery' = [delivery EXCEPT ![d] = OrmWrite(@, worker[w].seen, new.status, new.next)]
      BY <1>6, <2>d, <2>3 DEF Settle
    <3> HIDE DEF new
    <3>5. /\ delivery'[d].status = new.status
          /\ delivery'[d].attempts = delivery[d].attempts
          /\ \A e \in Deliveries \ {d} : delivery'[e] = delivery[e]
      BY <1>t, <3>1, <3>2, <3>3, <3>4 DEF OrmWrite, DeliveryRow
    <3>6. /\ d \notin open
          /\ d \in refused <=> worker[w].phase = "refused"
          /\ open' = open \ {d} /\ refused' = refused \ {d}
      BY <1>w, <2>d, <2>1, HolderDecides
    <3>7. /\ notice[d] = "owed" /\ tries[d] = delivery[d].attempts
          /\ tries' = tries
          /\ new.status = "pending" => notice' = notice
          /\ new.status # "pending" => notice' = [notice EXCEPT ![d] = new.status]
      <4>1. \A e \in Deliveries \ {d} : Shown(e)' = Shown(e) /\ Tried(e)' = Tried(e)
        BY <2>1, <3>5, ShownSame
      <4>2. Shown(d) = "owed" /\ Tried(d) = delivery[d].attempts
        BY <2>3, <3>2 DEF Shown, Tried
      <4>3. Shown(d)' = IF new.status = "pending" THEN "owed" ELSE new.status
        BY <3>3, <3>5 DEF Shown, Exists
      <4>4. Tried(d)' = Tried(d)
        BY <2>3, <3>3, <3>5 DEF Tried, Exists
      <4> QED
        BY <3>1, <4>1, <4>2, <4>3, <4>4
    <3>8. CASE worker[w].phase = "ok"
      <4>1. received[d] > 0
        BY <2>d, <3>8 DEF SendInv, OkWasReceived
      <4>2. Promise!Deliver(d)
        BY <2>1, <3>3, <3>6, <3>7, <3>8, <4>1 DEF Promise!Deliver
      <4> QED
        BY <1>n, <3>1, <4>2 DEF Promise!Next
    <3>9. CASE worker[w].phase = "refused"
      <4>1. Promise!Fail(d)
        BY <2>1, <3>3, <3>6, <3>7, <3>9 DEF Promise!Fail
      <4> QED
        BY <1>n, <3>1, <4>1 DEF Promise!Next
    <3>10. CASE worker[w].phase = "error" /\ delivery[d].attempts < MaxDeliveryAttempts
      <4>1. notice' = notice
        BY <3>3, <3>7, <3>10
      <4> QED
        BY <2>1, <3>6, <3>7, <3>10, <4>1
    <3>11. CASE worker[w].phase = "error" /\ ~(delivery[d].attempts < MaxDeliveryAttempts)
      <4>1. tries[d] >= MaxDeliveryAttempts
        BY <3>1, <3>7, <3>11, OutboxRanges, LeaseRanges
      <4>2. notice' = [notice EXCEPT ![d] = "failed"]
        BY <3>3, <3>7, <3>11
      <4>3. Promise!Fail(d)
        BY <2>1, <3>6, <3>7, <3>11, <4>1, <4>2 DEF Promise!Fail
      <4> QED
        BY <1>n, <3>1, <4>3 DEF Promise!Next
    <3> QED
      BY <2>1, <3>8, <3>9, <3>10, <3>11
  <2> QED
    BY <2>2, <2>3
\* Rows that are gone void their notices.
<1>g. ASSUME UNCHANGED <<worker, received>>, NEW gone, delivery' = Cascaded(gone),
             \A d \in Deliveries : report'[d[2]] = "absent" <=> report[d[2]] = "absent"
      PROVE  Promise!Void(gone)
  <2>1. \A d \in Deliveries :
          /\ Shown(d)' = IF d \in gone /\ Shown(d) # "none" THEN "void" ELSE Shown(d)
          /\ Tried(d)' = IF d \in gone THEN 0 ELSE Tried(d)
    <3> SUFFICES ASSUME NEW d \in Deliveries
                 PROVE  /\ Shown(d)' = IF d \in gone /\ Shown(d) # "none" THEN "void" ELSE Shown(d)
                        /\ Tried(d)' = IF d \in gone THEN 0 ELSE Tried(d)
      OBVIOUS
    <3>1. CASE d \in gone
      BY <1>g, <3>1, ShownNone DEF Cascaded, AbsentRow, Shown, Tried, Exists
    <3>2. CASE d \notin gone
      BY <1>g, <3>2, ShownSame DEF Cascaded
    <3> QED
      BY <3>1, <3>2
  <2>2. /\ notice' = [d \in Deliveries |->
                       IF d \in gone /\ notice[d] # "none" THEN "void" ELSE notice[d]]
        /\ tries' = [d \in Deliveries |-> IF d \in gone THEN 0 ELSE tries[d]]
    BY <2>1
  <2>3. open' = open /\ refused' = refused
    BY <1>g, InPhaseSame
  <2> QED
    BY <1>n, <1>g, <2>2, <2>3 DEF Promise!Void
<1>7. ASSUME NEW r \in Reports, DeleteReport(r) PROVE Step
  <2>1. Promise!Void({d \in Deliveries : d[2] \in {r}})
    BY <1>7, <1>g, <1>t, DeliveryParts DEF DeleteReport
  <2>2. Promise!DeleteReports({r})
    BY <1>n, <1>7, <2>1 DEF DeleteReport, Promise!DeleteReports
  <2> QED
    BY <2>2 DEF Promise!Next
<1>8. ASSUME DeleteExpired PROVE Step
  <2>1. Promise!Void({d \in Deliveries : d[2] \in purge})
    BY <1>8, <1>g, <1>t, DeliveryParts DEF DeleteExpired, SendInv, PurgeHasReports
  <2>2. Promise!DeleteReports(purge)
    BY <1>n, <1>8, <2>1 DEF DeleteExpired, Promise!DeleteReports
  <2> QED
    BY <2>2, OutboxRanges DEF Promise!Next
<1>9. ASSUME NEW x \in Destinations, DeleteDestination(x) PROVE Step
  <2>1. Promise!Void({d \in Deliveries : d[1] = x})
    BY <1>9, <1>g DEF DeleteDestination
  <2>2. Promise!DeleteDestination(x)
    BY <1>n, <1>9, <2>1 DEF DeleteDestination, Promise!DeleteDestination
  <2> QED
    BY <2>2 DEF Promise!Next
<1>10. ASSUME NEW x \in Destinations, UpdateDestination(x) PROVE Step
  <2>1. UNCHANGED <<report, delivery, worker, received>>
    BY <1>10 DEF UpdateDestination
  <2>2. notice' = notice /\ tries' = tries
    BY <2>1 DEF Shown, Tried, Exists
  <2>3. open' = open /\ refused' = refused
    BY <2>1, InPhaseSame
  <2>4. Promise!Switch(x)
    BY <1>10, <2>1, <2>2, <2>3 DEF UpdateDestination, Promise!Switch
  <2> QED
    BY <2>4 DEF Promise!Next
<1>11. ASSUME NEW d \in Deliveries, Expire(d) PROVE Step
  <2>1. \A e \in Deliveries : /\ delivery'[e].status = delivery[e].status
                              /\ delivery'[e].attempts = delivery[e].attempts
    BY <1>11, <1>t DEF Expire, DeliveryRow
  <2> QED
    BY <1>q, <1>11, <2>1 DEF Expire
<1>12. ASSUME NEW r \in Reports, AgeReport(r) PROVE Step
  BY <1>q, <1>t, <1>12, DeliveryParts DEF AgeReport
<1>13. ASSUME NEW d \in Deliveries, Dispatch(d) \/ LoseMessage(d) PROVE Step
  BY <1>q, <1>13 DEF Dispatch, LoseMessage
<1>14. ASSUME NEW w \in Workers, NEW d \in Deliveries, Ignore(w, d) PROVE Step
  BY <1>q, <1>14 DEF Ignore
<1>15. ASSUME SelectExpired PROVE Step
  BY <1>q, <1>15 DEF SelectExpired
<1>16. ASSUME NEW o \in Operators PROVE FALSE
  BY <1>16 DEF Prompt
<1>17. ASSUME UNCHANGED vars PROVE Step
  BY <1>q, <1>17 DEF vars
<1>18. Step
  BY <1>1, <1>2, <1>3, <1>4, <1>5, <1>6, <1>7, <1>8, <1>9, <1>10, <1>11, <1>12, <1>13, <1>14,
     <1>15, <1>16, <1>17 DEF Next, Attempt
<1> QED
  BY <1>18 DEF Promise!vars

\* While attempts end before their lease does and nobody retries by hand, readers
\* of the table and owners of destinations see what DeliveryPromise allows them to
\* see and nothing else, whatever is duplicated, lost or crashes.
THEOREM KeepsPromise == Prompt => (Spec => RefinesPromise)
<1> SUFFICES ASSUME Prompt PROVE Spec => RefinesPromise
  OBVIOUS
<1>1. Init => Promise!Init
  BY NoticesAreDeliveries
     DEF Init, Promise!Init, Shown, Tried, Exists, InPhase, Attempting, AbsentRow, IdleWorker,
         Deliveries
<1>2. TypeOK /\ SendInv /\ LeaseInv /\ [Next]_vars => [Promise!Next]_Promise!vars
  BY PromiseStep
<1>3. Spec => [](TypeOK /\ SendInv /\ LeaseInv)
  BY LeasesHold
<1> QED
  BY <1>1, <1>2, <1>3, PTL DEF Spec, RefinesPromise, Promise!Spec
=============================================================================
