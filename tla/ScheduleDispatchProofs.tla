------------------------ MODULE ScheduleDispatchProofs ------------------------
(***************************************************************************)
(* Proofs about ScheduleDispatch, for any number of schedules and passes,  *)
(* every length of time and every bound on the backfill.                   *)
(***************************************************************************)
EXTENDS ScheduleDispatch, FiniteSetTheorems, WellFoundedInduction, TLAPS

-----------------------------------------------------------------------------
(* Instants                                                                 *)

\* A set of numbers has a least element.
LEMMA Least ==
    ASSUME NEW T \in SUBSET Nat, T # {}
    PROVE  \E x \in T : \A y \in T : x <= y
<1> DEFINE R == OpToRel(<, Nat)
<1>1. \A x, y \in Nat : x < y => <<x, y>> \in R
  BY DEF OpToRel
<1>2. IsWellFoundedOn(R, Nat)
  BY NatLessThanWellFounded
<1> HIDE DEF R
<1>3. PICK x \in T : \A y \in T : ~ (<<y, x>> \in R)
  BY <1>2, WFMin
<1>4. \A y \in T : ~ (y < x)
  <2> SUFFICES ASSUME NEW y \in T, y < x PROVE FALSE
    OBVIOUS
  <2>1. <<y, x>> \in R
    BY <1>1
  <2> QED
    BY <2>1, <1>3
<1> QED
  BY <1>4

\* A set of instants has a last one.
LEMMA Greatest ==
    ASSUME NEW T \in SUBSET Instants, T # {}
    PROVE  \E x \in T : \A y \in T : y <= x
<1> DEFINE ahead == {MaxTime - y : y \in T}
<1>b. MaxTime \in Nat /\ \A y \in T : y \in Nat /\ MaxTime - y \in Nat
  BY BoundsAssumption DEF Instants
<1>1. ahead \in SUBSET Nat /\ ahead # {}
  BY <1>b
<1>2. PICK a \in ahead : \A b \in ahead : a <= b
  BY <1>1, Least
<1>3. PICK x \in T : a = MaxTime - x
  OBVIOUS
<1>4. \A y \in T : MaxTime - x <= MaxTime - y
  BY <1>2, <1>3
<1> QED
  BY <1>b, <1>4

LEMMA LatestIsIn ==
    ASSUME NEW T \in SUBSET Instants, T # {}
    PROVE  Latest(T) \in T
BY Greatest DEF Latest

LEMMA InstantsAreFinite ==
    ASSUME NEW T \in SUBSET Instants
    PROVE  IsFiniteSet(T) /\ Cardinality(T) \in Nat
<1>1. IsFiniteSet(Instants)
  BY BoundsAssumption, FS_Interval DEF Instants
<1> QED
  BY <1>1, FS_Subset, FS_CardinalityType

\* The newest n instants of a set contain n that follow an instant, if the set does.
LEMMA NewestOfMany ==
    ASSUME NEW S \in SUBSET Instants, NEW n \in Nat, NEW t \in Instants,
           Cardinality({u \in S : u > t}) >= n
    PROVE  Cardinality({u \in Newest(n, S) : u > t}) >= n
<1> DEFINE later == {u \in S : u > t}
           kept == {u \in Newest(n, S) : u > t}
<1>1. kept \subseteq later
  BY DEF Newest
<1>2. CASE later \ kept = {}
  <2>1. kept = later
    BY <1>1, <1>2
  <2> QED
    BY <2>1
<1>3. CASE later \ kept # {}
  <2>1. PICK m \in later \ kept : \A v \in later \ kept : v <= m
    BY <1>3, Greatest
  <2>2. m \in S /\ m > t /\ m \notin Newest(n, S) /\ m \in Nat /\ t \in Nat
    BY <2>1, BoundsAssumption DEF Instants
  <2>3. {v \in S : v > m} \subseteq kept
    <3> SUFFICES ASSUME NEW v \in S, v > m PROVE v \in kept
      OBVIOUS
    <3>1. v \in later /\ ~ (v <= m)
      BY <2>2, BoundsAssumption DEF Instants
    <3> QED
      BY <3>1, <2>1
  <2>4. ~ (Cardinality({v \in S : v > m}) < n)
    BY <2>2 DEF Newest
  <2>5. IsFiniteSet(kept) /\ Cardinality(kept) \in Nat
    BY InstantsAreFinite DEF Newest
  <2>6. /\ Cardinality({v \in S : v > m}) <= Cardinality(kept)
        /\ Cardinality({v \in S : v > m}) \in Nat
    BY <2>3, <2>5, FS_Subset, InstantsAreFinite
  <2> QED
    BY <2>4, <2>5, <2>6
<1> QED
  BY <1>2, <1>3

-----------------------------------------------------------------------------
(* Type correctness                                                         *)

\* Claims that are committed are of a schedule that had something due.
TypeInv == TypeOK /\ \A p \in Passes : pass[p].phase = "claimed" => pass[p].window # {}

LEMMA IdlePassType == IdlePass \in PassState
<1>1. SomeSchedule \in Schedules
  BY BoundsAssumption DEF SomeSchedule
<1> QED
  BY <1>1, BoundsAssumption DEF IdlePass, PassState, ScheduleRow, Instants

LEMMA InitTypeInv == Init => TypeInv
<1> SUFFICES ASSUME Init PROVE TypeInv
  OBVIOUS
<1>1. schedule \in [Schedules -> ScheduleRow]
  BY BoundsAssumption, CronsAssumption DEF Init, ScheduleRow, Instants
<1>2. pass \in [Passes -> PassState]
  BY IdlePassType DEF Init
<1>3. \A p \in Passes : pass[p].phase # "claimed"
  BY DEF Init, IdlePass
<1>4. now \in Instants /\ skipped \subseteq Occurrences
  BY BoundsAssumption DEF Init, Instants
<1>5. job \in [Occurrences -> JobStatus]
  BY DEF Init, JobStatus
<1>6. faults \in 0 .. MaxFaults /\ edits \in 0 .. MaxEdits
  BY BoundsAssumption DEF Init
<1> QED
  BY <1>1, <1>2, <1>3, <1>4, <1>5, <1>6 DEF TypeInv, TypeOK

\* The occurrences a pass considers are occurrences.
LEMMA WindowType ==
    ASSUME NEW row \in ScheduleRow, NEW at \in Instants
    PROVE  /\ Due(row, at) \in SUBSET (1 .. MaxTime)
           /\ DueOccurrences(row, at) \in SUBSET Due(row, at)
BY DEF Due, DueOccurrences, Newest, ScheduleRow

LEMMA NextTypeInv == TypeInv /\ [Next]_vars => TypeInv'
<1> SUFFICES ASSUME TypeInv, [Next]_vars PROVE TypeInv'
  OBVIOUS
<1>t. TypeOK
  BY DEF TypeInv
<1>b. MaxTime \in Nat /\ MaxFaults \in Nat /\ MaxEdits \in Nat /\ 1 .. MaxTime \subseteq Instants
  BY BoundsAssumption DEF Instants
<1>1. ASSUME NEW p \in Passes, NEW new \in PassState, new.phase # "claimed" \/ new.window # {},
             pass' = [pass EXCEPT ![p] = new]
      PROVE  /\ pass' \in [Passes -> PassState]
             /\ \A q \in Passes : pass'[q].phase = "claimed" => pass'[q].window # {}
  BY <1>1 DEF TypeInv, TypeOK
<1>2. ASSUME NEW p \in Passes, Begin(p) PROVE TypeInv'
  <2> DEFINE new == [phase |-> "running", now |-> now,
                     todo |-> {s \in Schedules : schedule[s].state = "active"},
                     rows |-> schedule, at |-> SomeSchedule, window |-> {}]
  <2>1. SomeSchedule \in Schedules
    BY BoundsAssumption DEF SomeSchedule
  <2>2. new \in PassState
    BY <2>1, <1>t DEF PassState, TypeOK
  <2>3. pass' = [pass EXCEPT ![p] = new]
    BY <1>2 DEF Begin
  <2>4. UNCHANGED <<now, schedule, job, skipped, faults, edits>>
    BY <1>2 DEF Begin, counters
  <2> QED
    BY <1>1, <2>2, <2>3, <2>4, <1>t DEF TypeInv, TypeOK
<1>3. ASSUME NEW p \in Passes, NEW s \in Schedules, Skip(p, s) PROVE TypeInv'
  BY <1>3, <1>t DEF Skip, counters, TypeInv, TypeOK, PassState
<1>4. ASSUME NEW p \in Passes, NEW s \in Schedules, Claim(p, s) PROVE TypeInv'
  <2> DEFINE row == pass[p].rows[s]
             window == DueOccurrences(row, pass[p].now)
             new == [phase |-> "claimed", now |-> pass[p].now, todo |-> pass[p].todo \ {s},
                     rows |-> pass[p].rows, at |-> s, window |-> window]
  <2>1. row \in ScheduleRow /\ pass[p].now \in Instants
    BY <1>t DEF TypeOK, PassState
  <2>2. Due(row, pass[p].now) \subseteq 1 .. MaxTime /\ window \subseteq 1 .. MaxTime
    BY <2>1, WindowType
  <2> HIDE DEF row, window
  <2>3. new \in PassState
    BY <2>2, <1>t DEF PassState, TypeOK
  <2>4. pass' = [pass EXCEPT ![p] = new] /\ window # {}
    BY <1>4, <1>t DEF Claim, TypeOK, PassState, row, window
  <2>5. job' \in [Occurrences -> JobStatus]
    BY <1>4, <1>t DEF Claim, TypeOK, JobStatus
  <2>6. skipped' \subseteq Occurrences
    BY <1>4, <1>t, <2>2 DEF Claim, TypeOK, Occurrences, row
  <2>7. UNCHANGED <<now, schedule, faults, edits>>
    BY <1>4 DEF Claim, counters
  <2> QED
    BY <1>1, <2>3, <2>4, <2>5, <2>6, <2>7, <1>t DEF TypeInv, TypeOK
<1>5. ASSUME NEW p \in Passes, Advance(p) PROVE TypeInv'
  <2>1. pass[p].phase = "claimed" /\ UNCHANGED <<now, job, skipped, faults, edits>>
    BY <1>5 DEF Advance, counters
  <2>2. CASE schedule[pass[p].at].state = "deleted"
    BY <1>5, <2>1, <2>2, <1>1, <1>t, IdlePassType DEF Advance, TypeInv, TypeOK, IdlePass
  <2>3. CASE schedule[pass[p].at].state # "deleted"
    <3>1. Latest(pass[p].window) \in Instants
      <4>1. pass[p].window \in SUBSET Instants /\ pass[p].window # {}
        BY <1>b, <1>t, <2>1 DEF TypeInv, TypeOK, PassState
      <4> QED
        BY <4>1, LatestIsIn
    <3>2. schedule' \in [Schedules -> ScheduleRow]
      <4> DEFINE s == pass[p].at
                 t == Latest(pass[p].window)
                 new == [state |-> schedule[s].state, cursor |-> t, cron |-> schedule[s].cron]
      <4>1. s \in Schedules /\ schedule[s] \in ScheduleRow
        BY <1>t DEF TypeOK, PassState
      <4> HIDE DEF s, t
      <4>2. new \in ScheduleRow
        BY <4>1, <3>1 DEF ScheduleRow, t
      <4>3. schedule' = [schedule EXCEPT ![s].cursor = t]
        BY <1>5, <2>3 DEF Advance, s, t
      <4>4. [schedule[s] EXCEPT !.cursor = t] = new
        BY <4>1 DEF ScheduleRow
      <4> QED
        BY <4>1, <4>2, <4>3, <4>4, <1>t DEF TypeOK
    <3>3. pass' \in [Passes -> PassState] /\ pass'[p].phase = "running"
      <4> DEFINE new == [pass[p] EXCEPT !.phase = "running", !.window = {}]
      <4>1. pass[p] \in PassState
        BY <1>t DEF TypeOK
      <4>2. new \in PassState /\ new.phase = "running"
        BY <4>1 DEF PassState
      <4>3. pass' = [pass EXCEPT ![p] = new]
        BY <1>5, <2>3 DEF Advance
      <4> QED
        BY <4>2, <4>3, <1>t DEF TypeOK
    <3>4. \A q \in Passes \ {p} : pass'[q] = pass[q]
      BY <1>5, <2>3, <1>t DEF Advance, TypeOK
    <3> QED
      BY <2>1, <3>2, <3>3, <3>4, <1>t DEF TypeInv, TypeOK
  <2> QED
    BY <2>2, <2>3
<1>6. ASSUME NEW p \in Passes, End(p) \/ \E s \in Schedules : Raise(p, s) PROVE TypeInv'
  BY <1>6, <1>1, <1>t, IdlePassType DEF End, Raise, counters, TypeInv, TypeOK, IdlePass
<1>7. ASSUME NEW s \in Schedules, NEW t \in 1 .. MaxTime, Finish(s, t) PROVE TypeInv'
  BY <1>7, <1>b, <1>t DEF Finish, counters, TypeInv, TypeOK, JobStatus, ScheduleRow
<1>8. ASSUME NEW s \in Schedules, NEW t \in 1 .. MaxTime, FinishUnrecorded(s, t) PROVE TypeInv'
  <2>1. job' \in [Occurrences -> JobStatus] /\ UNCHANGED <<now, schedule, pass, skipped, edits>>
    BY <1>8, <1>t DEF FinishUnrecorded, TypeOK, JobStatus
  <2>2. faults' \in 0 .. MaxFaults
    BY <1>8, <1>b, <1>t DEF FinishUnrecorded, TypeOK
  <2> QED
    BY <2>1, <2>2, <1>t DEF TypeInv, TypeOK
<1>9. ASSUME NEW s \in Schedules, NEW cron \in Crons, NEW state \in {"active", "inactive"},
             UpdateSchedule(s, cron, state)
      PROVE  TypeInv'
  <2> DEFINE new == [state |-> state, cursor |-> schedule[s].cursor, cron |-> cron]
  <2>1. new \in ScheduleRow
    BY <1>t, CronsAssumption DEF TypeOK, ScheduleRow
  <2>2. schedule' = [schedule EXCEPT ![s] = new]
    BY <1>9 DEF UpdateSchedule
  <2>3. edits' \in 0 .. MaxEdits /\ UNCHANGED <<now, job, pass, skipped, faults>>
    BY <1>9, <1>b, <1>t DEF UpdateSchedule, TypeOK
  <2> QED
    BY <2>1, <2>2, <2>3, <1>t DEF TypeInv, TypeOK
<1>10. ASSUME NEW s \in Schedules, DeleteSchedule(s) PROVE TypeInv'
  BY <1>10, <1>b, <1>t DEF DeleteSchedule, TypeInv, TypeOK, ScheduleRow
<1>11. CASE Tick
  BY <1>11, <1>b, <1>t DEF Tick, counters, TypeInv, TypeOK, Instants
<1>12. ASSUME NEW p \in Passes, CrashPass(p) PROVE TypeInv'
  BY <1>12, <1>1, <1>b, <1>t, IdlePassType DEF CrashPass, TypeInv, TypeOK, IdlePass
<1>13. CASE UNCHANGED vars
  BY <1>13, <1>t DEF vars, counters, TypeInv, TypeOK
<1> QED
  BY <1>2, <1>3, <1>4, <1>5, <1>6, <1>7, <1>8, <1>9, <1>10, <1>11, <1>12, <1>13
     DEF Next, Serve

\* Type correctness: the schedules, the jobs and what every pass has read stay in their
\* domains.
THEOREM DispatchTypeCorrect == Spec => []TypeOK
<1>1. Spec => []TypeInv
  BY InitTypeInv, NextTypeInv, PTL DEF Spec
<1> QED
  BY <1>1, PTL DEF TypeInv

-----------------------------------------------------------------------------
(* No occurrence is lost                                                    *)

\* No edit changes an expression.
Steady == MaxEdits = 0 \/ ~EditCrons

\* An occurrence of s has a job, or was given up for as many newer ones as a pass may
\* claim.  Jobs are never deleted, so this lasts.
Covered(s, t) ==
    \/ t \in Claimed(s)
    \/ Cardinality({u \in Claimed(s) : u > t}) >= MaxBackfillOccurrences

\* An instant that the cursor of s may be at.
Passed(s, i) == \A t \in schedule[s].cron : t <= i => Covered(s, t)

Exists(s) == schedule[s].state # "deleted"

CursorPassed == \A s \in Schedules : Exists(s) => Passed(s, schedule[s].cursor)

\* A finishing job may move the cursor to its own occurrence.
JobsPassed == \A s \in Schedules : Exists(s) => \A t \in Claimed(s) : Passed(s, t)

\* What a pass has read is out of date, but not wrong: it names an instant that the
\* cursor was at.
RowsPassed ==
    \A p \in Passes, s \in Schedules :
        pass[p].phase # "idle" /\ Exists(s) =>
            pass[p].rows[s].cron = schedule[s].cron /\ Passed(s, pass[p].rows[s].cursor)

\* The instant a pass is about to move the cursor to is that of a job.
WindowsClaimed ==
    \A p \in Passes :
        pass[p].phase = "claimed" /\ Exists(pass[p].at) =>
            pass[p].window \subseteq Claimed(pass[p].at)

\* Inductive: whatever the cursor is set to next, by this pass, another one or a job,
\* it passes only what is covered.
DispatchInv == CursorPassed /\ JobsPassed /\ RowsPassed /\ WindowsClaimed

LEMMA InitDispatchInv == Init => DispatchInv
<1> SUFFICES ASSUME Init PROVE DispatchInv
  OBVIOUS
<1>1. \A s \in Schedules : schedule[s].cron \in Crons /\ schedule[s].cursor = 0
  BY DEF Init
<1>2. \A s \in Schedules : \A t \in schedule[s].cron : ~ (t <= 0)
  BY <1>1, CronsAssumption
<1>3. \A s \in Schedules : Claimed(s) = {}
  BY DEF Init, Claimed, Occurrences
<1>4. \A p \in Passes : pass[p].phase = "idle"
  BY DEF Init, IdlePass
<1> QED
  BY <1>1, <1>2, <1>3, <1>4
     DEF DispatchInv, CursorPassed, JobsPassed, RowsPassed, WindowsClaimed, Passed

LEMMA ClaimedAreInstants == \A s : Claimed(s) \in SUBSET Instants
BY BoundsAssumption DEF Claimed, Instants

\* Jobs stay, so what is covered stays covered.
LEMMA CoveredStays ==
    ASSUME NEW s \in Schedules, Claimed(s) \subseteq Claimed(s)'
    PROVE  \A t : Covered(s, t) => Covered(s, t)'
<1> SUFFICES ASSUME NEW t, Cardinality({u \in Claimed(s) : u > t}) >= MaxBackfillOccurrences
             PROVE  Cardinality({u \in Claimed(s)' : u > t}) >= MaxBackfillOccurrences
  BY DEF Covered
<1> DEFINE before == {u \in Claimed(s) : u > t}
           after == {u \in Claimed(s)' : u > t}
<1>1. Claimed(s)' \in SUBSET Instants
  BY BoundsAssumption DEF Claimed, Instants
<1>2. IsFiniteSet(after) /\ Cardinality(after) \in Nat
  BY <1>1, InstantsAreFinite
<1>3. Cardinality(before) \in Nat
  BY ClaimedAreInstants, InstantsAreFinite
<1>4. Cardinality(before) <= Cardinality(after)
  BY <1>2, FS_Subset
<1> QED
  BY <1>2, <1>3, <1>4, BoundsAssumption

\* A step that leaves an expression alone leaves passed instants passed.
LEMMA PassedStays ==
    ASSUME NEW s \in Schedules, Claimed(s) \subseteq Claimed(s)',
           schedule'[s].cron = schedule[s].cron
    PROVE  \A i : Passed(s, i) => Passed(s, i)'
BY CoveredStays DEF Passed

\* An occurrence between the cursor a pass has read and one of its window is in the
\* window, or older than a full window.
LEMMA WindowIsFull ==
    ASSUME NEW row \in ScheduleRow, NEW at \in Instants, NEW u \in DueOccurrences(row, at),
           NEW t \in row.cron, t <= u, ~ (t <= row.cursor), t \notin DueOccurrences(row, at)
    PROVE  Cardinality({v \in DueOccurrences(row, at) : v > t}) >= MaxBackfillOccurrences
<1> DEFINE due == Due(row, at)
<1>1. due \in SUBSET (1 .. MaxTime) /\ DueOccurrences(row, at) \in SUBSET due
  BY WindowType
<1>2. t \in Instants /\ row.cursor \in Instants /\ due \in SUBSET Instants
  BY <1>1, BoundsAssumption DEF ScheduleRow, Instants
<1>3. t \in due
  <2>1. u <= at /\ u \in Nat /\ at \in Nat /\ t \in Nat /\ row.cursor \in Nat
    BY <1>1, <1>2, BoundsAssumption DEF Due, Instants
  <2> QED
    BY <2>1 DEF Due
<1>4. ~ (Cardinality({v \in due : v > t}) < MaxBackfillOccurrences)
  BY <1>3 DEF DueOccurrences, Newest
<1>5. Cardinality({v \in due : v > t}) \in Nat
  BY <1>2, InstantsAreFinite
<1>6. Cardinality({v \in due : v > t}) >= MaxBackfillOccurrences
  BY <1>4, <1>5, BoundsAssumption
<1> QED
  BY <1>2, <1>6, BoundsAssumption, NewestOfMany DEF DueOccurrences

\* With the jobs of a window, everything up to an occurrence of it is covered, if
\* everything up to the cursor that was read is.
LEMMA WindowCovers ==
    ASSUME NEW row \in ScheduleRow, NEW at \in Instants, NEW claimed \in SUBSET Instants,
           DueOccurrences(row, at) \subseteq claimed,
           NEW u \in DueOccurrences(row, at), NEW t \in row.cron, t <= u, ~ (t <= row.cursor)
    PROVE  t \in claimed \/ Cardinality({v \in claimed : v > t}) >= MaxBackfillOccurrences
<1> SUFFICES ASSUME t \notin DueOccurrences(row, at)
             PROVE  Cardinality({v \in claimed : v > t}) >= MaxBackfillOccurrences
  OBVIOUS
<1> DEFINE kept == {v \in DueOccurrences(row, at) : v > t}
           later == {v \in claimed : v > t}
<1>1. Cardinality(kept) >= MaxBackfillOccurrences
  BY WindowIsFull
<1>2. IsFiniteSet(later) /\ Cardinality(later) \in Nat /\ Cardinality(kept) \in Nat
  BY InstantsAreFinite
<1>3. Cardinality(kept) <= Cardinality(later)
  BY <1>2, FS_Subset
<1> QED
  BY <1>1, <1>2, <1>3, BoundsAssumption

\* A step in which no job appears, no expression changes, no pass reads, and no cursor
\* moves but to the occurrence of a job.
LEMMA QuietStep ==
    ASSUME TypeInv, DispatchInv,
           \A s \in Schedules : Claimed(s)' = Claimed(s),
           \A s \in Schedules : schedule'[s].cron = schedule[s].cron /\ (Exists(s)' => Exists(s)),
           \A s \in Schedules : \/ schedule'[s].cursor = schedule[s].cursor
                                \/ schedule'[s].cursor \in Claimed(s),
           \A q \in Passes :
               \/ pass'[q].phase = "idle"
               \/ /\ pass[q].phase # "idle" /\ pass'[q].rows = pass[q].rows
                  /\ pass'[q].phase = "claimed" =>
                         /\ pass[q].phase = "claimed"
                         /\ pass'[q].at = pass[q].at /\ pass'[q].window = pass[q].window
    PROVE  DispatchInv'
<1>1. \A s \in Schedules : \A i : Passed(s, i) => Passed(s, i)'
  BY PassedStays
<1>2. JobsPassed'
  BY <1>1 DEF DispatchInv, JobsPassed
<1>3. CursorPassed'
  <2> SUFFICES ASSUME NEW s \in Schedules, Exists(s)'
               PROVE  \A t \in schedule'[s].cron : t <= schedule'[s].cursor => Covered(s, t)'
    BY DEF CursorPassed, Passed
  <2>1. \A i : (\A t \in schedule[s].cron : t <= i => Covered(s, t)) =>
               \A t \in schedule'[s].cron : t <= i => Covered(s, t)'
    BY <1>1 DEF Passed
  <2>2. \A t \in schedule[s].cron : t <= schedule[s].cursor => Covered(s, t)
    BY DEF DispatchInv, CursorPassed, Passed
  <2>3. \A i \in Claimed(s) : \A t \in schedule[s].cron : t <= i => Covered(s, t)
    BY DEF DispatchInv, JobsPassed, Passed
  <2> QED
    BY <2>1, <2>2, <2>3
<1>4. RowsPassed'
  <2> SUFFICES ASSUME NEW q \in Passes, NEW s \in Schedules, pass'[q].phase # "idle", Exists(s)'
               PROVE  /\ pass'[q].rows[s].cron = schedule'[s].cron
                      /\ \A t \in schedule'[s].cron : t <= pass'[q].rows[s].cursor => Covered(s, t)'
    BY DEF RowsPassed, Passed
  <2>1. \A i : (\A t \in schedule[s].cron : t <= i => Covered(s, t)) =>
               \A t \in schedule'[s].cron : t <= i => Covered(s, t)'
    BY <1>1 DEF Passed
  <2>2. /\ pass[q].rows[s].cron = schedule[s].cron
        /\ \A t \in schedule[s].cron : t <= pass[q].rows[s].cursor => Covered(s, t)
    BY DEF DispatchInv, RowsPassed, Passed
  <2> QED
    BY <2>1, <2>2
<1>5. WindowsClaimed'
  <2> SUFFICES ASSUME NEW q \in Passes, pass'[q].phase = "claimed",
                      schedule'[pass'[q].at].state # "deleted"
               PROVE  \A t \in pass'[q].window : /\ t \in 1 .. MaxTime
                                                 /\ job'[<<pass'[q].at, t>>] # "absent"
    BY DEF WindowsClaimed, Exists, Claimed
  <2>1. pass[q].phase = "claimed" /\ pass'[q].at = pass[q].at /\ pass'[q].window = pass[q].window
    OBVIOUS
  <2>2. pass[q].at \in Schedules
    BY DEF TypeInv, TypeOK, PassState
  <2>3. pass[q].window \subseteq Claimed(pass[q].at)
    BY <2>1, <2>2 DEF DispatchInv, WindowsClaimed, Exists
  <2>4. \A s \in Schedules : \A t \in Claimed(s) : t \in 1 .. MaxTime /\ job'[<<s, t>>] # "absent"
    BY DEF Claimed
  <2> QED
    BY <2>1, <2>2, <2>3, <2>4
<1> QED
  BY <1>2, <1>3, <1>4, <1>5 DEF DispatchInv

LEMMA ClaimStep ==
    ASSUME TypeInv, DispatchInv, NEW p \in Passes, NEW s \in Schedules, Claim(p, s)
    PROVE  DispatchInv'
<1> DEFINE row == pass[p].rows[s]
           window == DueOccurrences(row, pass[p].now)
<1>t. TypeOK /\ row \in ScheduleRow /\ pass[p].now \in Instants
  BY DEF TypeInv, TypeOK, PassState
<1>1. \A r \in Schedules : schedule'[r] = schedule[r] /\ Exists(r)' = Exists(r)
  BY DEF Claim, Exists
<1>2. \A r \in Schedules : /\ Claimed(r) \subseteq Claimed(r)'
                           /\ r # s => Claimed(r)' = Claimed(r)
  BY <1>t DEF Claim, Claimed, TypeOK, Occurrences, JobStatus
<1>w. window \subseteq 1 .. MaxTime
  BY <1>t, WindowType
<1>3. Exists(s) => Claimed(s)' = Claimed(s) \cup window
  BY <1>t, <1>w DEF Claim, Claimed, TypeOK, Occurrences, JobStatus, Exists
<1>4. /\ \A r \in Schedules : \A t : Covered(r, t) => Covered(r, t)'
      /\ \A r \in Schedules : \A i : Passed(r, i) => Passed(r, i)'
  <2>1. \A r \in Schedules : \A t : Covered(r, t) => Covered(r, t)'
    BY <1>2, CoveredStays
  <2> QED
    BY <1>1, <2>1 DEF Passed
<1>5. CursorPassed'
  BY <1>1, <1>4 DEF DispatchInv, CursorPassed
<1>6. pass[p].phase = "running"
  BY DEF Claim
<1>7. JobsPassed'
  <2> SUFFICES ASSUME NEW r \in Schedules, Exists(r), NEW u \in Claimed(r)' PROVE Passed(r, u)'
    BY <1>1 DEF JobsPassed
  <2>1. CASE u \in Claimed(r)
    BY <2>1, <1>4 DEF DispatchInv, JobsPassed
  <2>2. CASE u \notin Claimed(r)
    <3>1. r = s /\ u \in window
      BY <2>2, <1>2, <1>3
    <3>2. row.cron = schedule'[s].cron
      BY <1>1, <1>6, <3>1 DEF DispatchInv, RowsPassed
    <3>3. window \subseteq Claimed(s)'
      BY <1>3, <3>1
    <3>4. ASSUME NEW v \in window PROVE Passed(s, v)'
      <4>1. \A t \in row.cron : t <= row.cursor => Covered(s, t)'
        BY <1>1, <1>4, <1>6, <3>1 DEF DispatchInv, RowsPassed, Passed
      <4> HIDE DEF row
      <4> SUFFICES ASSUME NEW t \in row.cron, t <= v PROVE Covered(s, t)'
        BY <3>2 DEF Passed
      <4>2. CASE t <= row.cursor
        BY <4>1, <4>2
      <4>3. CASE ~ (t <= row.cursor)
        <5>1. Claimed(s)' \in SUBSET Instants
          BY BoundsAssumption DEF Claimed, Instants
        <5> QED
          BY <1>t, <3>3, <4>3, <5>1, WindowCovers DEF Covered
      <4> QED
        BY <4>2, <4>3
    <3> QED
      BY <3>1, <3>4
  <2> QED
    BY <2>1, <2>2
<1>8. \A q \in Passes \ {p} : pass'[q] = pass[q] /\ pass[q].at \in Schedules
  BY <1>t DEF Claim, TypeOK, PassState
<1>9. pass'[p].rows = pass[p].rows /\ pass'[p].at = s /\ pass'[p].window = window
  BY <1>t DEF Claim, TypeOK, PassState
<1>10. RowsPassed'
  <2> SUFFICES ASSUME NEW q \in Passes, NEW r \in Schedules, pass'[q].phase # "idle", Exists(r)'
               PROVE  /\ pass'[q].rows[r].cron = schedule'[r].cron
                      /\ \A t \in schedule'[r].cron : t <= pass'[q].rows[r].cursor => Covered(r, t)'
    BY DEF RowsPassed, Passed
  <2>1. pass[q].phase # "idle" /\ pass'[q].rows = pass[q].rows
    BY <1>6, <1>8, <1>9
  <2>2. /\ pass[q].rows[r].cron = schedule[r].cron
        /\ \A t \in schedule[r].cron : t <= pass[q].rows[r].cursor => Covered(r, t)
    BY <1>1, <2>1 DEF DispatchInv, RowsPassed, Passed
  <2> QED
    BY <1>1, <1>4, <2>1, <2>2
<1>11. WindowsClaimed'
  <2> SUFFICES ASSUME NEW q \in Passes, pass'[q].phase = "claimed", Exists(pass[q].at)'
               PROVE  pass'[q].window \subseteq Claimed(pass[q].at)'
    BY DEF WindowsClaimed
  <2>1. CASE q = p
    BY <2>1, <1>1, <1>3, <1>9
  <2>2. CASE q # p
    BY <2>2, <1>1, <1>2, <1>8 DEF DispatchInv, WindowsClaimed
  <2> QED
    BY <2>1, <2>2
<1> QED
  BY <1>5, <1>7, <1>10, <1>11 DEF DispatchInv

LEMMA BeginStep ==
    ASSUME TypeInv, DispatchInv, NEW p \in Passes, Begin(p)
    PROVE  DispatchInv'
<1>1. UNCHANGED <<schedule, job>>
  BY DEF Begin
<1>2. \A s \in Schedules : \A i : Passed(s, i)' <=> Passed(s, i)
  BY <1>1 DEF Passed, Covered, Claimed
<1>3. /\ pass'[p].rows = schedule /\ pass'[p].phase = "running"
      /\ \A q \in Passes \ {p} : pass'[q] = pass[q]
  BY DEF Begin, TypeInv, TypeOK
<1>4. CursorPassed' /\ JobsPassed'
  BY <1>1, <1>2
     DEF DispatchInv, CursorPassed, JobsPassed, Exists, Claimed, Passed, Covered
<1>5. RowsPassed'
  <2> SUFFICES ASSUME NEW q \in Passes, NEW s \in Schedules, pass'[q].phase # "idle", Exists(s)
               PROVE  /\ pass'[q].rows[s].cron = schedule[s].cron
                      /\ \A t \in schedule[s].cron : t <= pass'[q].rows[s].cursor => Covered(s, t)
    BY <1>1 DEF RowsPassed, Passed, Covered, Claimed, Exists
  <2>1. CASE q = p
    BY <2>1, <1>3 DEF DispatchInv, CursorPassed, Passed
  <2>2. CASE q # p
    BY <2>2, <1>3 DEF DispatchInv, RowsPassed, Passed
  <2> QED
    BY <2>1, <2>2
<1>6. WindowsClaimed'
  BY <1>1, <1>3 DEF DispatchInv, WindowsClaimed, Exists, Claimed
<1> QED
  BY <1>4, <1>5, <1>6 DEF DispatchInv

LEMMA NextDispatchInv ==
    ASSUME Steady, TypeInv, DispatchInv, [Next]_vars
    PROVE  DispatchInv'
<1>t. TypeOK
  BY DEF TypeInv
<1>1. ASSUME NEW p \in Passes, Begin(p) PROVE DispatchInv'
  BY <1>1, BeginStep
<1>2. ASSUME NEW p \in Passes, NEW s \in Schedules, Skip(p, s) PROVE DispatchInv'
  <2>1. UNCHANGED <<schedule, job>>
    BY <1>2 DEF Skip
  <2>2. \A q \in Passes : /\ pass'[q].rows = pass[q].rows /\ pass'[q].phase = pass[q].phase
                          /\ pass'[q].at = pass[q].at /\ pass'[q].window = pass[q].window
    BY <1>2, <1>t DEF Skip, TypeOK, PassState
  <2> QED
    BY <2>1, <2>2, QuietStep DEF Claimed, Exists
<1>3. ASSUME NEW p \in Passes, NEW s \in Schedules, Claim(p, s) PROVE DispatchInv'
  BY <1>3, ClaimStep
<1>4. ASSUME NEW p \in Passes, Advance(p) PROVE DispatchInv'
  <2> DEFINE s == pass[p].at
             t == Latest(pass[p].window)
  <2>1. UNCHANGED job /\ pass[p].phase = "claimed" /\ s \in Schedules
    BY <1>4, <1>t DEF Advance, TypeOK, PassState
  <2>2. CASE schedule[s].state = "deleted"
    <3>1. UNCHANGED schedule
      BY <1>4, <2>2 DEF Advance
    <3>2. \A q \in Passes : pass'[q].phase = "idle" \/ pass'[q] = pass[q]
      BY <1>4, <2>2, <1>t DEF Advance, TypeOK, IdlePass
    <3> QED
      BY <2>1, <3>1, <3>2, QuietStep DEF Claimed, Exists
  <2>3. CASE schedule[s].state # "deleted"
    <3>1. t \in Claimed(s)
      <4>1. pass[p].window \in SUBSET Instants /\ pass[p].window # {}
        BY <2>1, <1>t, BoundsAssumption DEF TypeInv, TypeOK, PassState, Instants
      <4>2. t \in pass[p].window
        BY <4>1, LatestIsIn
      <4> QED
        BY <2>1, <2>3, <4>2 DEF DispatchInv, WindowsClaimed, Exists
    <3>2. \A r \in Schedules : /\ schedule'[r].state = schedule[r].state
                               /\ schedule'[r].cron = schedule[r].cron
                               /\ schedule'[r].cursor \in {schedule[r].cursor} \cup (IF r = s THEN {t} ELSE {})
      BY <1>4, <2>3, <1>t DEF Advance, TypeOK, ScheduleRow
    <3>3. \A q \in Passes : \/ pass'[q] = pass[q]
                            \/ /\ pass[q].phase # "idle" /\ pass'[q].rows = pass[q].rows
                               /\ pass'[q].phase = "running"
      BY <1>4, <2>1, <2>3, <1>t DEF Advance, TypeOK, PassState
    <3> HIDE DEF t, s
    <3>4. \A r \in Schedules : schedule'[r].cursor = schedule[r].cursor \/ schedule'[r].cursor \in Claimed(r)
      BY <3>1, <3>2
    <3>5. \A r \in Schedules : Claimed(r)' = Claimed(r) /\ (Exists(r)' => Exists(r))
      BY <2>1, <3>2 DEF Claimed, Exists
    <3> QED
      BY <3>2, <3>3, <3>4, <3>5, QuietStep
  <2> QED
    BY <2>2, <2>3
<1>5. ASSUME NEW p \in Passes, End(p) \/ CrashPass(p) \/ (\E s \in Schedules : Raise(p, s))
      PROVE  DispatchInv'
  <2>1. UNCHANGED <<schedule, job>>
    BY <1>5 DEF End, CrashPass, Raise
  <2>2. \A q \in Passes : pass'[q].phase = "idle" \/ pass'[q] = pass[q]
    BY <1>5, <1>t DEF End, CrashPass, Raise, TypeOK, IdlePass
  <2> QED
    BY <2>1, <2>2, QuietStep DEF Claimed, Exists
<1>6. ASSUME NEW s \in Schedules, NEW t \in 1 .. MaxTime, Finish(s, t) \/ FinishUnrecorded(s, t)
      PROVE  DispatchInv'
  <2>1. UNCHANGED pass /\ job[<<s, t>>] = "queued" /\ job' = [job EXCEPT ![<<s, t>>] = "finished"]
    BY <1>6 DEF Finish, FinishUnrecorded
  <2>2. t \in Claimed(s)
    BY <2>1 DEF Claimed
  <2>3. \A r \in Schedules : Claimed(r)' = Claimed(r)
    BY <2>1, <1>t DEF Claimed, TypeOK, Occurrences
  <2>4. \A r \in Schedules : /\ schedule'[r].state = schedule[r].state
                             /\ schedule'[r].cron = schedule[r].cron
                             /\ \/ schedule'[r].cursor = schedule[r].cursor
                                \/ r = s /\ schedule'[r].cursor = t
    BY <1>6, <1>t DEF Finish, FinishUnrecorded, TypeOK, ScheduleRow
  <2> QED
    BY <2>1, <2>2, <2>3, <2>4, QuietStep DEF Exists
<1>7. ASSUME NEW s \in Schedules, NEW cron \in Crons, NEW state \in {"active", "inactive"},
             UpdateSchedule(s, cron, state)
      PROVE  DispatchInv'
  <2>1. UNCHANGED <<job, pass>> /\ schedule[s].state # "deleted" /\ MaxEdits # 0
    BY <1>7, <1>t, BoundsAssumption DEF UpdateSchedule, TypeOK
  <2>2. cron = schedule[s].cron
    BY <1>7, <2>1 DEF Steady, UpdateSchedule
  <2>3. \A r \in Schedules : /\ schedule'[r].cron = schedule[r].cron
                             /\ schedule'[r].cursor = schedule[r].cursor
                             /\ r # s => schedule'[r].state = schedule[r].state
    BY <1>7, <2>2, <1>t DEF UpdateSchedule, TypeOK, ScheduleRow
  <2> QED
    BY <2>1, <2>3, QuietStep DEF Exists, Claimed
<1>8. ASSUME NEW s \in Schedules, DeleteSchedule(s) PROVE DispatchInv'
  <2>1. UNCHANGED <<job, pass>>
    BY <1>8 DEF DeleteSchedule
  <2>2. \A r \in Schedules : /\ schedule'[r].cron = schedule[r].cron
                             /\ schedule'[r].cursor = schedule[r].cursor
                             /\ schedule'[r].state \in {"deleted", schedule[r].state}
    BY <1>8, <1>t DEF DeleteSchedule, TypeOK, ScheduleRow
  <2> QED
    BY <2>1, <2>2, QuietStep DEF Exists, Claimed
<1>9. CASE Tick \/ UNCHANGED vars
  <2>1. UNCHANGED <<schedule, job, pass>>
    BY <1>9 DEF Tick, vars
  <2> QED
    BY <2>1, QuietStep DEF Exists, Claimed
<1> QED
  BY <1>1, <1>2, <1>3, <1>4, <1>5, <1>6, <1>7, <1>8, <1>9 DEF Next, Serve

\* No occurrence is lost, if no edit changes an expression, whatever passes overlap or
\* crash between claim and cursor, and wherever finishing jobs move the cursor.
THEOREM NothingIsLost == Steady => (Spec => []NoOccurrenceLost)
<1>1. TypeInv /\ DispatchInv => NoOccurrenceLost
  BY DEF DispatchInv, CursorPassed, Passed, Covered, Exists, NoOccurrenceLost
<1>2. Init => TypeInv /\ DispatchInv
  BY InitTypeInv, InitDispatchInv
<1> SUFFICES ASSUME Steady PROVE Spec => []NoOccurrenceLost
  OBVIOUS
<1>3. TypeInv /\ DispatchInv /\ [Next]_vars => (TypeInv /\ DispatchInv)'
  BY NextTypeInv, NextDispatchInv
<1> QED
  BY <1>1, <1>2, <1>3, PTL DEF Spec

-----------------------------------------------------------------------------
(* What is skipped stays skipped                                            *)

OnePass == \A p, q \in Passes : p = q

\* Up to instant i there are as many occurrences after t as a pass may claim.
Overtaken(cron, t, i) ==
    Cardinality({u \in cron : t < u /\ u <= i}) >= MaxBackfillOccurrences

\* A pass looks back from an instant that is not in the future.
PassTimes == \A p \in Passes : pass[p].now <= now

\* An occurrence that was skipped has no job, and whoever looks at its schedule again,
\* from now or from the instant the pass began at, finds enough newer ones.
SkippedAreOvertaken ==
    \A s \in Schedules, t \in 1 .. MaxTime : <<s, t>> \in skipped =>
        /\ job[<<s, t>>] = "absent"
        /\ Exists(s) => Overtaken(schedule[s].cron, t, now)
        /\ \A p \in Passes :
              pass[p].phase # "idle" /\ Exists(s) /\ s \in pass[p].todo =>
                  Overtaken(pass[p].rows[s].cron, t, pass[p].now)

SkipInv == PassTimes /\ SkippedAreOvertaken

LEMMA InitSkipInv ==
    ASSUME Init
    PROVE  SkipInv
<1>1. PassTimes
  BY BoundsAssumption DEF Init, IdlePass, PassTimes
<1>2. SkippedAreOvertaken
  BY DEF Init, SkippedAreOvertaken
<1> QED
  BY <1>1, <1>2 DEF SkipInv

\* A later instant has as many newer occurrences.
LEMMA OvertakenStays ==
    ASSUME NEW cron \in SUBSET (1 .. MaxTime), NEW t \in Nat, NEW i \in Nat, NEW k \in Nat,
           i <= k, Overtaken(cron, t, i)
    PROVE  Overtaken(cron, t, k)
<1> DEFINE early == {u \in cron : t < u /\ u <= i}
           late == {u \in cron : t < u /\ u <= k}
<1>m. MaxTime \in Nat /\ MaxBackfillOccurrences \in Nat
  BY BoundsAssumption
<1>1. late \in SUBSET Instants
  <2> SUFFICES ASSUME NEW u \in late PROVE u \in Instants
    OBVIOUS
  <2>1. u \in 1 .. MaxTime
    OBVIOUS
  <2> QED
    BY <1>m, <2>1 DEF Instants
<1>2. early \subseteq late
  <2> SUFFICES ASSUME NEW u \in early PROVE u \in late
    OBVIOUS
  <2>1. u \in 1 .. MaxTime /\ u \in cron /\ t < u /\ u <= i
    OBVIOUS
  <2>2. u \in Nat
    BY <1>m, <2>1
  <2>3. u <= k
    BY <2>1, <2>2
  <2> QED
    BY <2>1, <2>3
<1> HIDE DEF early, late
<1>3. /\ Cardinality(early) \in Nat /\ Cardinality(late) \in Nat
      /\ Cardinality(early) <= Cardinality(late)
  BY <1>1, <1>2, InstantsAreFinite, FS_Subset
<1>4. Cardinality(early) >= MaxBackfillOccurrences
  BY DEF Overtaken, early
<1>5. Cardinality(late) >= MaxBackfillOccurrences
  BY <1>m, <1>3, <1>4
<1> QED
  BY <1>5 DEF Overtaken, late

\* What a window leaves out is overtaken, and what is overtaken is in no window.
LEMMA WindowsAndOvertaken ==
    ASSUME NEW row \in ScheduleRow, NEW at \in Instants, NEW t \in Due(row, at)
    PROVE  t \in DueOccurrences(row, at) <=> ~ Overtaken(row.cron, t, at)
<1> DEFINE later == {u \in Due(row, at) : u > t}
           newer == {u \in row.cron : t < u /\ u <= at}
<1>1. /\ row.cron \subseteq 1 .. MaxTime /\ row.cursor \in Nat /\ at \in Nat
      /\ t \in row.cron /\ row.cursor < t /\ t \in Nat
  BY BoundsAssumption DEF ScheduleRow, Instants, Due
<1>2. later = newer
  <2>1. \A u \in row.cron : u \in Nat
    BY <1>1, BoundsAssumption
  <2> QED
    BY <1>1, <2>1 DEF Due
<1>3. newer \in SUBSET Instants
  BY <1>1, BoundsAssumption DEF Instants
<1>4. Cardinality(newer) \in Nat
  BY <1>3, InstantsAreFinite
<1>5. t \in DueOccurrences(row, at) <=> Cardinality(newer) < MaxBackfillOccurrences
  BY <1>2 DEF DueOccurrences, Newest
<1> QED
  BY <1>4, <1>5, BoundsAssumption DEF Overtaken

\* A step in which nothing is skipped, nothing skipped gets a job, no expression changes
\* and no pass reads.
LEMMA QuietSkipStep ==
    ASSUME TypeInv, SkipInv, skipped' = skipped, now' \in Nat, now <= now',
           \A o \in skipped : job'[o] = "absent",
           \A s \in Schedules : schedule'[s].cron = schedule[s].cron /\ (Exists(s)' => Exists(s)),
           \A q \in Passes :
               \/ pass'[q].phase = "idle" /\ pass'[q].now = 0
               \/ /\ pass'[q].phase # "idle" => pass[q].phase # "idle"
                  /\ pass'[q].rows = pass[q].rows /\ pass'[q].now = pass[q].now
                  /\ pass'[q].todo \subseteq pass[q].todo
    PROVE  SkipInv'
<1>1. /\ now \in Nat /\ \A q \in Passes : pass[q].now \in Nat
      /\ \A s \in Schedules : schedule[s].cron \in SUBSET (1 .. MaxTime)
  BY BoundsAssumption DEF TypeInv, TypeOK, Instants, PassState, ScheduleRow
<1>2. PassTimes'
  BY <1>1 DEF SkipInv, PassTimes
<1>3. SkippedAreOvertaken'
  <2> SUFFICES ASSUME NEW s \in Schedules, NEW t \in 1 .. MaxTime, <<s, t>> \in skipped
               PROVE  /\ job'[<<s, t>>] = "absent"
                      /\ Exists(s)' => Overtaken(schedule'[s].cron, t, now')
                      /\ \A q \in Passes :
                            pass'[q].phase # "idle" /\ Exists(s)' /\ s \in pass'[q].todo =>
                                Overtaken(pass'[q].rows[s].cron, t, pass'[q].now)
    BY DEF SkippedAreOvertaken, Overtaken
  <2>1. /\ Exists(s) => Overtaken(schedule[s].cron, t, now)
        /\ \A q \in Passes :
              pass[q].phase # "idle" /\ Exists(s) /\ s \in pass[q].todo =>
                  Overtaken(pass[q].rows[s].cron, t, pass[q].now)
    BY DEF SkipInv, SkippedAreOvertaken
  <2>2. t \in Nat
    BY BoundsAssumption
  <2>3. Exists(s)' => Overtaken(schedule'[s].cron, t, now')
    BY <1>1, <2>1, <2>2, OvertakenStays
  <2> QED
    BY <2>1, <2>3
<1> QED
  BY <1>2, <1>3 DEF SkipInv

LEMMA BeginSkipStep ==
    ASSUME TypeInv, SkipInv, NEW p \in Passes, Begin(p)
    PROVE  SkipInv'
<1>1. /\ UNCHANGED <<schedule, job, now, skipped>>
      /\ pass'[p].rows = schedule /\ pass'[p].now = now
      /\ \A q \in Passes \ {p} : pass'[q] = pass[q]
  BY DEF Begin, TypeInv, TypeOK
<1>2. PassTimes'
  BY <1>1, BoundsAssumption DEF SkipInv, PassTimes, TypeInv, TypeOK, Instants
<1>3. SkippedAreOvertaken'
  BY <1>1 DEF SkipInv, SkippedAreOvertaken, Exists, Overtaken
<1> QED
  BY <1>2, <1>3 DEF SkipInv

LEMMA ClaimSkipStep ==
    ASSUME OnePass, TypeInv, DispatchInv, SkipInv, NEW p \in Passes, NEW s \in Schedules,
           Claim(p, s)
    PROVE  SkipInv'
<1> DEFINE row == pass[p].rows[s]
           at == pass[p].now
           window == DueOccurrences(row, at)
<1>1. /\ row \in ScheduleRow /\ at \in Instants /\ now \in Instants /\ at <= now
      /\ job \in [Occurrences -> JobStatus] /\ at \in Nat /\ now \in Nat
  BY BoundsAssumption
     DEF TypeInv, TypeOK, PassState, SkipInv, PassTimes, Instants
<1>2. /\ pass[p].phase = "running" /\ s \in pass[p].todo /\ UNCHANGED <<now, schedule>>
      /\ job' = IF schedule[s].state = "deleted" THEN job
                ELSE [o \in Occurrences |->
                        IF o[1] = s /\ o[2] \in window /\ job[o] = "absent" THEN "queued" ELSE job[o]]
      /\ skipped' = skipped \cup ({s} \X ((Due(row, at) \ window) \ Claimed(s)))
  BY DEF Claim
<1>3. /\ pass'[p].todo = pass[p].todo \ {s} /\ pass'[p].rows = pass[p].rows
      /\ pass'[p].now = pass[p].now /\ \A q \in Passes : q = p
  BY DEF Claim, OnePass, TypeInv, TypeOK, PassState
<1>4. PassTimes'
  BY <1>2, <1>3 DEF SkipInv, PassTimes
<1>5. Exists(s) => row.cron = schedule[s].cron
  BY <1>2 DEF DispatchInv, RowsPassed
<1>6. ASSUME NEW r \in Schedules, NEW t \in 1 .. MaxTime, <<r, t>> \in skipped
      PROVE  /\ job'[<<r, t>>] = "absent"
             /\ Exists(r) => Overtaken(schedule[r].cron, t, now)
             /\ \A q \in Passes : Exists(r) /\ r \in pass'[q].todo =>
                    Overtaken(pass'[q].rows[r].cron, t, pass'[q].now)
  <2>1. /\ job[<<r, t>>] = "absent"
        /\ Exists(r) => Overtaken(schedule[r].cron, t, now)
        /\ Exists(r) /\ r \in pass[p].todo => Overtaken(pass[p].rows[r].cron, t, pass[p].now)
    BY <1>2, <1>6 DEF SkipInv, SkippedAreOvertaken
  <2>2. r = s /\ Exists(s) => t \notin window
    <3>1. Exists(s) /\ r = s => Overtaken(row.cron, t, at)
      BY <1>2, <2>1
    <3>2. window \subseteq Due(row, at)
      BY DEF DueOccurrences, Newest
    <3> QED
      BY <1>1, <3>1, <3>2, WindowsAndOvertaken
  <2>3. <<r, t>> \in Occurrences
    BY DEF Occurrences
  <2>4. job'[<<r, t>>] = "absent"
    BY <1>2, <2>1, <2>2, <2>3 DEF Exists
  <2> QED
    BY <1>3, <2>1, <2>4
<1>7. ASSUME NEW t \in (Due(row, at) \ window) \ Claimed(s)
      PROVE  /\ t \in 1 .. MaxTime
             /\ job'[<<s, t>>] = "absent"
             /\ Exists(s) => Overtaken(schedule[s].cron, t, now)
  <2>1. t \in 1 .. MaxTime /\ t \in Nat /\ row.cron \in SUBSET (1 .. MaxTime)
    BY <1>1, BoundsAssumption DEF Due, ScheduleRow
  <2>2. job[<<s, t>>] = "absent" /\ <<s, t>> \in Occurrences
    BY <2>1, <1>7 DEF Claimed, Occurrences
  <2>3. job'[<<s, t>>] = "absent"
    BY <1>2, <1>7, <2>2
  <2>4. Overtaken(row.cron, t, at)
    BY <1>1, <1>7, WindowsAndOvertaken
  <2>5. Overtaken(row.cron, t, now)
    BY <1>1, <2>1, <2>4, OvertakenStays
  <2> QED
    BY <1>5, <2>1, <2>3, <2>5
<1> HIDE DEF window
<1>8. SkippedAreOvertaken'
  <2> SUFFICES ASSUME NEW r \in Schedules, NEW t \in 1 .. MaxTime, <<r, t>> \in skipped'
               PROVE  /\ job'[<<r, t>>] = "absent"
                      /\ Exists(r)' => Overtaken(schedule'[r].cron, t, now')
                      /\ \A q \in Passes :
                            pass'[q].phase # "idle" /\ Exists(r)' /\ r \in pass'[q].todo =>
                                Overtaken(pass'[q].rows[r].cron, t, pass'[q].now)
    BY DEF SkippedAreOvertaken, Overtaken
  <2>1. Exists(r)' <=> Exists(r)
    BY <1>2 DEF Exists
  <2>2. CASE <<r, t>> \in skipped
    BY <1>2, <1>6, <2>1, <2>2
  <2>3. CASE r = s /\ t \in (Due(row, at) \ window) \ Claimed(s)
    BY <1>2, <1>3, <1>7, <2>1, <2>3
  <2> QED
    BY <1>2, <2>2, <2>3
<1> QED
  BY <1>4, <1>8 DEF SkipInv

LEMMA NextSkipInv ==
    ASSUME Steady, OnePass, TypeInv, DispatchInv, SkipInv, [Next]_vars
    PROVE  SkipInv'
<1>t. /\ TypeOK /\ now \in Nat /\ \A o \in skipped : o \in Occurrences /\ job[o] = "absent"
      /\ IdlePass.phase = "idle" /\ IdlePass.now = 0
  <2>1. \A o \in skipped : o \in Occurrences /\ job[o] = "absent"
    <3> SUFFICES ASSUME NEW o \in skipped PROVE o \in Occurrences /\ job[o] = "absent"
      OBVIOUS
    <3>1. PICK s \in Schedules, t \in 1 .. MaxTime : o = <<s, t>>
      BY DEF TypeInv, TypeOK, Occurrences
    <3> QED
      BY <3>1 DEF SkipInv, SkippedAreOvertaken, Occurrences
  <2> QED
    BY <2>1, BoundsAssumption DEF TypeInv, TypeOK, Instants, IdlePass
<1>1. ASSUME NEW p \in Passes, Begin(p) PROVE SkipInv'
  BY <1>1, BeginSkipStep
<1>2. ASSUME NEW p \in Passes, NEW s \in Schedules, Claim(p, s) PROVE SkipInv'
  BY <1>2, ClaimSkipStep
<1>3. ASSUME NEW p \in Passes, \/ \E s \in Schedules : Skip(p, s) \/ Raise(p, s)
                               \/ Advance(p) \/ End(p) \/ CrashPass(p)
      PROVE  SkipInv'
  <2>1. UNCHANGED <<now, job, skipped>>
    BY <1>3 DEF Skip, Raise, Advance, End, CrashPass
  <2>2. \A r \in Schedules : /\ schedule'[r].cron = schedule[r].cron
                             /\ schedule'[r].state = schedule[r].state
    BY <1>3, <1>t DEF Skip, Raise, Advance, End, CrashPass, TypeOK, ScheduleRow
  <2>3. \A q \in Passes : \/ pass'[q] = IdlePass
                          \/ /\ pass'[q].phase # "idle" => pass[q].phase # "idle"
                             /\ pass'[q].rows = pass[q].rows /\ pass'[q].now = pass[q].now
                             /\ pass'[q].todo \subseteq pass[q].todo
    BY <1>3, <1>t DEF Skip, Raise, Advance, End, CrashPass, TypeOK, PassState
  <2> QED
    BY <1>t, <2>1, <2>2, <2>3, QuietSkipStep DEF Exists
<1>4. ASSUME NEW s \in Schedules, NEW t \in 1 .. MaxTime, Finish(s, t) \/ FinishUnrecorded(s, t)
      PROVE  SkipInv'
  <2>1. /\ UNCHANGED <<now, pass, skipped>> /\ job[<<s, t>>] = "queued"
        /\ job' = [job EXCEPT ![<<s, t>>] = "finished"]
    BY <1>4 DEF Finish, FinishUnrecorded
  <2>2. \A o \in skipped : job'[o] = "absent"
    BY <1>t, <2>1 DEF TypeOK
  <2>3. \A r \in Schedules : /\ schedule'[r].cron = schedule[r].cron
                             /\ schedule'[r].state = schedule[r].state
    BY <1>4, <1>t DEF Finish, FinishUnrecorded, TypeOK, ScheduleRow
  <2> QED
    BY <1>t, <2>1, <2>2, <2>3, QuietSkipStep DEF Exists
<1>5. ASSUME NEW s \in Schedules, NEW cron \in Crons, NEW state \in {"active", "inactive"},
             UpdateSchedule(s, cron, state)
      PROVE  SkipInv'
  <2>1. UNCHANGED <<now, job, pass, skipped>> /\ schedule[s].state # "deleted" /\ MaxEdits # 0
    BY <1>5, <1>t, BoundsAssumption DEF UpdateSchedule, TypeOK
  <2>2. cron = schedule[s].cron
    BY <1>5, <2>1 DEF Steady, UpdateSchedule
  <2>3. \A r \in Schedules : /\ schedule'[r].cron = schedule[r].cron
                             /\ r # s => schedule'[r].state = schedule[r].state
    BY <1>5, <2>2, <1>t DEF UpdateSchedule, TypeOK, ScheduleRow
  <2> QED
    BY <1>t, <2>1, <2>3, QuietSkipStep DEF Exists
<1>6. ASSUME NEW s \in Schedules, DeleteSchedule(s) PROVE SkipInv'
  <2>1. UNCHANGED <<now, job, pass, skipped>>
    BY <1>6 DEF DeleteSchedule
  <2>2. \A r \in Schedules : /\ schedule'[r].cron = schedule[r].cron
                             /\ schedule'[r].state \in {"deleted", schedule[r].state}
    BY <1>6, <1>t DEF DeleteSchedule, TypeOK, ScheduleRow
  <2> QED
    BY <1>t, <2>1, <2>2, QuietSkipStep DEF Exists
<1>7. CASE Tick \/ UNCHANGED vars
  <2>1. UNCHANGED <<schedule, job, pass, skipped>> /\ now' \in Nat /\ now <= now'
    BY <1>7, <1>t DEF Tick, vars
  <2> QED
    BY <1>t, <2>1, QuietSkipStep DEF Exists
<1> QED
  BY <1>1, <1>2, <1>3, <1>4, <1>5, <1>6, <1>7 DEF Next, Serve

\* An occurrence that was skipped never runs, wherever crashes leave the cursor and
\* finishing jobs move it, if passes do not overlap and no edit changes an expression.
THEOREM SkippedStaySkipped == Steady /\ OnePass => (Spec => []SkippedForGood)
<1> SUFFICES ASSUME Steady, OnePass PROVE Spec => []SkippedForGood
  OBVIOUS
<1>1. Init => TypeInv /\ DispatchInv /\ SkipInv
  BY InitTypeInv, InitDispatchInv, InitSkipInv
<1>2. TypeInv /\ DispatchInv /\ SkipInv /\ [Next]_vars => (TypeInv /\ DispatchInv /\ SkipInv)'
  BY NextTypeInv, NextDispatchInv, NextSkipInv
<1>3. TypeInv /\ SkipInv => SkippedForGood
  <2> SUFFICES ASSUME TypeInv, SkipInv, NEW o \in skipped PROVE job[o] = "absent"
    BY DEF SkippedForGood
  <2>1. PICK s \in Schedules, t \in 1 .. MaxTime : o = <<s, t>>
    BY DEF TypeInv, TypeOK, Occurrences
  <2> QED
    BY <2>1 DEF SkipInv, SkippedAreOvertaken
<1> QED
  BY <1>1, <1>2, <1>3, PTL DEF Spec
-----------------------------------------------------------------------------
(* Passes that do not overlap implement OccurrenceFates                     *)

\* An occurrence of s that no pass will look at with effect again.
Settled(s, t) == t \in Claimed(s) \/ <<s, t>> \in skipped

SettledUpTo(s, i) == \A t \in schedule[s].cron : t <= i => Settled(s, t)

CursorSettled == \A s \in Schedules : Exists(s) => SettledUpTo(s, schedule[s].cursor)

JobsSettled == \A s \in Schedules : Exists(s) => \A t \in Claimed(s) : SettledUpTo(s, t)

RowsSettled ==
    \A p \in Passes, s \in Schedules :
        pass[p].phase # "idle" /\ Exists(s) => SettledUpTo(s, pass[p].rows[s].cursor)

\* Inductive, with DispatchInv: wherever the cursor is and whenever a pass read it, what
\* it has passed has a job or was skipped.  This is why the cursor can be left out.
SettleInv == CursorSettled /\ JobsSettled /\ RowsSettled

LEMMA InitSettleInv == Init => SettleInv
<1> SUFFICES ASSUME Init PROVE SettleInv
  OBVIOUS
<1>1. \A s \in Schedules : schedule[s].cron \in Crons /\ schedule[s].cursor = 0
  BY DEF Init
<1>2. \A s \in Schedules : \A t \in schedule[s].cron : ~ (t <= 0)
  BY <1>1, CronsAssumption
<1>3. \A s \in Schedules : Claimed(s) = {}
  BY DEF Init, Claimed, Occurrences
<1>4. \A p \in Passes : pass[p].phase = "idle"
  BY DEF Init, IdlePass
<1> QED
  BY <1>1, <1>2, <1>3, <1>4 DEF SettleInv, CursorSettled, JobsSettled, RowsSettled, SettledUpTo

\* A step that leaves expressions alone leaves settled instants settled.
LEMMA SettledStays ==
    ASSUME skipped \subseteq skipped',
           NEW s \in Schedules, Claimed(s) \subseteq Claimed(s)',
           schedule'[s].cron = schedule[s].cron
    PROVE  \A i : SettledUpTo(s, i) => \A t \in schedule'[s].cron : t <= i => Settled(s, t)'
BY DEF SettledUpTo, Settled

\* A step in which no job appears, no expression changes, no pass reads, and no cursor
\* moves but to the occurrence of a job.
LEMMA QuietSettleStep ==
    ASSUME SettleInv, skipped' = skipped,
           \A s \in Schedules : Claimed(s)' = Claimed(s),
           \A s \in Schedules : schedule'[s].cron = schedule[s].cron /\ (Exists(s)' => Exists(s)),
           \A s \in Schedules : \/ schedule'[s].cursor = schedule[s].cursor
                                \/ schedule'[s].cursor \in Claimed(s),
           \A q \in Passes : \/ pass'[q].phase = "idle"
                             \/ pass[q].phase # "idle" /\ pass'[q].rows = pass[q].rows
    PROVE  SettleInv'
<1>1. \A s \in Schedules : \A i :
        SettledUpTo(s, i) => \A t \in schedule'[s].cron : t <= i => Settled(s, t)'
  BY SettledStays
<1>2. \A s \in Schedules : Exists(s)' =>
        /\ SettledUpTo(s, schedule[s].cursor)
        /\ \A t \in Claimed(s) : SettledUpTo(s, t)
        /\ \A q \in Passes : pass[q].phase # "idle" => SettledUpTo(s, pass[q].rows[s].cursor)
  BY DEF SettleInv, CursorSettled, JobsSettled, RowsSettled
<1>3. JobsSettled'
  BY <1>1, <1>2 DEF JobsSettled, SettledUpTo
<1>4. CursorSettled'
  <2> SUFFICES ASSUME NEW s \in Schedules, Exists(s)'
               PROVE  \A t \in schedule'[s].cron : t <= schedule'[s].cursor => Settled(s, t)'
    BY DEF CursorSettled, SettledUpTo
  <2> QED
    BY <1>1, <1>2
<1>5. RowsSettled'
  <2> SUFFICES ASSUME NEW q \in Passes, NEW s \in Schedules, pass'[q].phase # "idle", Exists(s)'
               PROVE  \A t \in schedule'[s].cron : t <= pass'[q].rows[s].cursor => Settled(s, t)'
    BY DEF RowsSettled, SettledUpTo
  <2> QED
    BY <1>1, <1>2
<1> QED
  BY <1>3, <1>4, <1>5 DEF SettleInv

LEMMA BeginSettleStep ==
    ASSUME TypeInv, SettleInv, NEW p \in Passes, Begin(p)
    PROVE  SettleInv'
<1>1. /\ UNCHANGED <<schedule, job, skipped>> /\ pass'[p].rows = schedule
      /\ \A q \in Passes \ {p} : pass'[q] = pass[q]
  BY DEF Begin, TypeInv, TypeOK
<1>2. \A s \in Schedules : /\ Claimed(s)' = Claimed(s) /\ Exists(s)' = Exists(s)
                           /\ \A t : Settled(s, t)' = Settled(s, t)
  BY <1>1 DEF Claimed, Exists, Settled
<1>3. CursorSettled' /\ JobsSettled'
  BY <1>1, <1>2 DEF SettleInv, CursorSettled, JobsSettled, SettledUpTo
<1>4. RowsSettled'
  <2> SUFFICES ASSUME NEW q \in Passes, NEW s \in Schedules, pass'[q].phase # "idle", Exists(s)
               PROVE  \A t \in schedule[s].cron : t <= pass'[q].rows[s].cursor => Settled(s, t)
    BY <1>1, <1>2 DEF RowsSettled, SettledUpTo
  <2> QED
    BY <1>1 DEF SettleInv, CursorSettled, RowsSettled, SettledUpTo
<1> QED
  BY <1>3, <1>4 DEF SettleInv

LEMMA ClaimSettleStep ==
    ASSUME TypeInv, DispatchInv, SettleInv, NEW p \in Passes, NEW s \in Schedules, Claim(p, s)
    PROVE  SettleInv'
<1> DEFINE row == pass[p].rows[s]
           at == pass[p].now
           window == DueOccurrences(row, at)
<1>t. TypeOK /\ row \in ScheduleRow /\ at \in Instants
  BY DEF TypeInv, TypeOK, PassState
<1>1. /\ UNCHANGED schedule /\ pass[p].phase = "running"
      /\ \A r \in Schedules : Exists(r)' = Exists(r)
      /\ skipped' = skipped \cup ({s} \X ((Due(row, at) \ window) \ Claimed(s)))
  BY DEF Claim, Exists
<1>2. \A r \in Schedules : /\ Claimed(r) \subseteq Claimed(r)'
                           /\ r # s => Claimed(r)' = Claimed(r)
  BY <1>t DEF Claim, Claimed, TypeOK, Occurrences, JobStatus
<1>w. window \subseteq 1 .. MaxTime /\ window \subseteq Due(row, at)
  BY <1>t, WindowType
<1>3. Exists(s) => Claimed(s)' = Claimed(s) \cup window
  BY <1>t, <1>w DEF Claim, Claimed, TypeOK, Occurrences, JobStatus, Exists
<1>4. \A r \in Schedules : \A i :
        SettledUpTo(r, i) => \A t \in schedule[r].cron : t <= i => Settled(r, t)'
  BY <1>1, <1>2, SettledStays
<1>5. /\ \A r \in Schedules : Exists(r) =>
           /\ SettledUpTo(r, schedule[r].cursor)
           /\ \A t \in Claimed(r) : SettledUpTo(r, t)
           /\ \A q \in Passes : pass[q].phase # "idle" => SettledUpTo(r, pass[q].rows[r].cursor)
      /\ Exists(s) => row.cron = schedule[s].cron
  BY <1>1 DEF SettleInv, CursorSettled, JobsSettled, RowsSettled, DispatchInv, RowsPassed
<1>6. ASSUME Exists(s), NEW u \in window, NEW t \in schedule[s].cron, t <= u
      PROVE  Settled(s, t)'
  <2>1. CASE t <= row.cursor
    BY <1>1, <1>4, <1>5, <1>6, <2>1
  <2>2. CASE ~ (t <= row.cursor)
    <3>1. t \in row.cron /\ row.cron \subseteq 1 .. MaxTime /\ t \in Nat /\ row.cursor \in Nat
          /\ u \in Nat /\ at \in Nat
      BY <1>t, <1>w, <1>5, <1>6, BoundsAssumption DEF ScheduleRow, Instants
    <3>2. u <= at
      BY <1>w DEF Due
    <3>3. row.cursor < t /\ t <= at
      BY <1>6, <2>2, <3>1, <3>2
    <3>4. t \in Due(row, at)
      BY <3>1, <3>3 DEF Due
    <3> QED
      BY <1>1, <1>2, <1>3, <1>6, <3>4 DEF Settled
  <2> QED
    BY <2>1, <2>2
<1>7. CursorSettled'
  BY <1>1, <1>4, <1>5 DEF CursorSettled, SettledUpTo
<1>8. JobsSettled'
  <2> SUFFICES ASSUME NEW r \in Schedules, Exists(r), NEW u \in Claimed(r)',
                      NEW t \in schedule[r].cron, t <= u
               PROVE  Settled(r, t)'
    BY <1>1 DEF JobsSettled, SettledUpTo
  <2>1. CASE u \in Claimed(r)
    BY <1>4, <1>5, <2>1
  <2>2. CASE u \notin Claimed(r)
    <3>1. r = s /\ u \in window
      BY <1>2, <1>3, <2>2
    <3> QED
      BY <1>6, <3>1
  <2> QED
    BY <2>1, <2>2
<1>9. \A q \in Passes : pass'[q].rows = pass[q].rows /\ (pass'[q].phase # "idle" => pass[q].phase # "idle")
  BY <1>t DEF Claim, TypeOK, PassState
<1>10. RowsSettled'
  <2> SUFFICES ASSUME NEW q \in Passes, NEW r \in Schedules, pass'[q].phase # "idle", Exists(r)
               PROVE  \A t \in schedule[r].cron : t <= pass[q].rows[r].cursor => Settled(r, t)'
    BY <1>1, <1>9 DEF RowsSettled, SettledUpTo
  <2> QED
    BY <1>4, <1>5, <1>9
<1> QED
  BY <1>7, <1>8, <1>10 DEF SettleInv

\* A cursor moves only to the occurrence of a job, and steps other than reading and
\* claiming change nothing else that matters here.
LEMMA CursorMoves ==
    ASSUME Steady, TypeInv, DispatchInv, [Next]_vars,
           \A p \in Passes : ~ Begin(p) /\ \A s \in Schedules : ~ Claim(p, s)
    PROVE  /\ skipped' = skipped
           /\ \A s \in Schedules :
                 /\ Claimed(s)' = Claimed(s)
                 /\ schedule'[s].cron = schedule[s].cron /\ (Exists(s)' => Exists(s))
                 /\ schedule'[s].cursor = schedule[s].cursor \/ schedule'[s].cursor \in Claimed(s)
           /\ \A q \in Passes : \/ pass'[q].phase = "idle"
                                \/ pass[q].phase # "idle" /\ pass'[q].rows = pass[q].rows
<1> DEFINE Moves ==
             /\ skipped' = skipped
             /\ \A s \in Schedules :
                   /\ Claimed(s)' = Claimed(s)
                   /\ schedule'[s].cron = schedule[s].cron /\ (Exists(s)' => Exists(s))
                   /\ schedule'[s].cursor = schedule[s].cursor \/ schedule'[s].cursor \in Claimed(s)
             /\ \A q \in Passes : \/ pass'[q].phase = "idle"
                                  \/ pass[q].phase # "idle" /\ pass'[q].rows = pass[q].rows
<1>t. TypeOK
  BY DEF TypeInv
<1>1. ASSUME NEW p \in Passes, NEW s \in Schedules, Skip(p, s) PROVE Moves
  <2>1. UNCHANGED <<schedule, job, skipped>>
    BY <1>1 DEF Skip
  <2>2. \A q \in Passes : pass'[q].rows = pass[q].rows /\ pass'[q].phase = pass[q].phase
    BY <1>1, <1>t DEF Skip, TypeOK, PassState
  <2> QED
    BY <2>1, <2>2 DEF Claimed, Exists
<1>2. ASSUME NEW p \in Passes, Advance(p) PROVE Moves
  <2>s. PICK s \in Schedules : s = pass[p].at
    BY <1>t DEF TypeOK, PassState
  <2> DEFINE t == Latest(pass[p].window)
  <2>1. UNCHANGED <<job, skipped>> /\ pass[p].phase = "claimed"
    BY <1>2 DEF Advance
  <2>2. t \in pass[p].window
    <3>1. pass[p].window \in SUBSET Instants /\ pass[p].window # {}
      BY <2>1, <1>t, BoundsAssumption DEF TypeInv, TypeOK, PassState, Instants
    <3> QED
      BY <3>1, LatestIsIn
  <2>3. Exists(s) => t \in Claimed(s)
    BY <2>s, <2>1, <2>2 DEF DispatchInv, WindowsClaimed
  <2> HIDE DEF t
  <2>4. \A q \in Passes : \/ pass'[q].phase = "idle"
                          \/ pass[q].phase # "idle" /\ pass'[q].rows = pass[q].rows
                          \/ pass'[q] = pass[q]
    BY <1>2, <1>t DEF Advance, TypeOK, PassState, IdlePass
  <2>5. \A r \in Schedules : /\ schedule'[r].state = schedule[r].state
                             /\ schedule'[r].cron = schedule[r].cron
                             /\ \/ schedule'[r].cursor = schedule[r].cursor
                                \/ r = s /\ Exists(s) /\ schedule'[r].cursor = t
    <3>1. schedule' \in {schedule, [schedule EXCEPT ![s].cursor = t]} /\ (schedule' = schedule \/ Exists(s))
      BY <1>2, <2>s DEF Advance, Exists, t
    <3> QED
      BY <1>t, <3>1 DEF TypeOK, ScheduleRow
  <2>6. \A q \in Passes : \/ pass'[q].phase = "idle"
                          \/ pass[q].phase # "idle" /\ pass'[q].rows = pass[q].rows
    BY <2>4
  <2> QED
    BY <2>1, <2>3, <2>5, <2>6 DEF Claimed, Exists
<1>3. ASSUME NEW p \in Passes, End(p) \/ CrashPass(p) \/ (\E s \in Schedules : Raise(p, s))
      PROVE  Moves
  <2>1. UNCHANGED <<schedule, job, skipped>>
    BY <1>3 DEF End, CrashPass, Raise
  <2>2. \A q \in Passes : pass'[q].phase = "idle" \/ pass'[q] = pass[q]
    BY <1>3, <1>t DEF End, CrashPass, Raise, TypeOK, IdlePass
  <2> QED
    BY <2>1, <2>2 DEF Claimed, Exists
<1>4. ASSUME NEW s \in Schedules, NEW t \in 1 .. MaxTime, Finish(s, t) \/ FinishUnrecorded(s, t)
      PROVE  Moves
  <2>1. /\ UNCHANGED <<pass, skipped>> /\ job[<<s, t>>] = "queued"
        /\ job' = [job EXCEPT ![<<s, t>>] = "finished"]
    BY <1>4 DEF Finish, FinishUnrecorded
  <2>2. t \in Claimed(s)
    BY <2>1 DEF Claimed
  <2>3. \A r \in Schedules : Claimed(r)' = Claimed(r)
    BY <2>1, <1>t DEF Claimed, TypeOK, Occurrences
  <2>4. \A r \in Schedules : /\ schedule'[r].state = schedule[r].state
                             /\ schedule'[r].cron = schedule[r].cron
                             /\ \/ schedule'[r].cursor = schedule[r].cursor
                                \/ r = s /\ schedule'[r].cursor = t
    BY <1>4, <1>t DEF Finish, FinishUnrecorded, TypeOK, ScheduleRow
  <2> QED
    BY <2>1, <2>2, <2>3, <2>4 DEF Exists
<1>5. ASSUME NEW s \in Schedules, NEW cron \in Crons, NEW state \in {"active", "inactive"},
             UpdateSchedule(s, cron, state)
      PROVE  Moves
  <2>1. UNCHANGED <<job, pass, skipped>> /\ schedule[s].state # "deleted" /\ MaxEdits # 0
    BY <1>5, <1>t, BoundsAssumption DEF UpdateSchedule, TypeOK
  <2>2. cron = schedule[s].cron
    BY <1>5, <2>1 DEF Steady, UpdateSchedule
  <2>3. \A r \in Schedules : /\ schedule'[r].cron = schedule[r].cron
                             /\ schedule'[r].cursor = schedule[r].cursor
                             /\ r # s => schedule'[r].state = schedule[r].state
    BY <1>5, <2>2, <1>t DEF UpdateSchedule, TypeOK, ScheduleRow
  <2> QED
    BY <2>1, <2>3, Zenon DEF Exists, Claimed
<1>6. ASSUME NEW s \in Schedules, DeleteSchedule(s) PROVE Moves
  <2>1. UNCHANGED <<job, pass, skipped>>
    BY <1>6 DEF DeleteSchedule
  <2>2. \A r \in Schedules : /\ schedule'[r].cron = schedule[r].cron
                             /\ schedule'[r].cursor = schedule[r].cursor
                             /\ schedule'[r].state \in {"deleted", schedule[r].state}
    BY <1>6, <1>t DEF DeleteSchedule, TypeOK, ScheduleRow
  <2> QED
    BY <2>1, <2>2 DEF Exists, Claimed
<1>7. ASSUME Tick \/ UNCHANGED vars PROVE Moves
  BY <1>7 DEF Tick, vars, Exists, Claimed
<1>8. Moves
  BY <1>1, <1>2, <1>3, <1>4, <1>5, <1>6, <1>7 DEF Next, Serve
<1> QED
  BY <1>8

LEMMA NextSettleInv ==
    ASSUME Steady, TypeInv, DispatchInv, SettleInv, [Next]_vars
    PROVE  SettleInv'
<1>1. ASSUME NEW p \in Passes, Begin(p) PROVE SettleInv'
  BY <1>1, BeginSettleStep
<1>2. ASSUME NEW p \in Passes, NEW s \in Schedules, Claim(p, s) PROVE SettleInv'
  BY <1>2, ClaimSettleStep
<1>3. CASE \A p \in Passes : ~ Begin(p) /\ \A s \in Schedules : ~ Claim(p, s)
  BY <1>3, CursorMoves, QuietSettleStep
<1> QED
  BY <1>1, <1>2, <1>3

LEMMA FateValue ==
    ASSUME NEW o
    PROVE  Fate(o) = IF job[o] # "absent" THEN job[o]
                     ELSE IF schedule[o[1]].state = "deleted" THEN "void"
                     ELSE IF o \in skipped THEN "skipped" ELSE "open"
BY DEF Fate

\* A pass that claims serves its schedule, as of the instant it began at.
LEMMA ClaimFates ==
    ASSUME TypeInv, DispatchInv, SkipInv, SettleInv, NEW p \in Passes, NEW s \in Schedules,
           Claim(p, s), Exists(s), NEW o \in Occurrences
    PROVE  Fate(o)' = IF /\ o[1] = s /\ o[2] \in schedule[s].cron /\ o[2] <= pass[p].now
                         /\ Fate(o) = "open"
                      THEN IF Overtaken(schedule[s].cron, o[2], pass[p].now) THEN "skipped" ELSE "queued"
                      ELSE Fate(o)
<1> DEFINE row == pass[p].rows[s]
           at == pass[p].now
           window == DueOccurrences(row, at)
<1>1. /\ row \in ScheduleRow /\ at \in Instants /\ job \in [Occurrences -> JobStatus]
      /\ o[2] \in 1 .. MaxTime /\ o[1] \in Schedules /\ o = <<o[1], o[2]>>
  BY DEF TypeInv, TypeOK, PassState, Occurrences
<1>2. /\ pass[p].phase = "running" /\ s \in pass[p].todo /\ UNCHANGED schedule
      /\ job' = [q \in Occurrences |->
                   IF q[1] = s /\ q[2] \in window /\ job[q] = "absent" THEN "queued" ELSE job[q]]
      /\ skipped' = skipped \cup ({s} \X ((Due(row, at) \ window) \ Claimed(s)))
  BY DEF Claim, Exists
<1>3. row.cron = schedule[s].cron
  BY <1>2 DEF DispatchInv, RowsPassed
<1>4. \A t \in Due(row, at) : t \in window <=> ~ Overtaken(row.cron, t, at)
  BY <1>1, WindowsAndOvertaken
<1>5. window \subseteq Due(row, at)
  BY <1>1, WindowType
<1>6. o[1] = s /\ Fate(o) = "open" =>
        (o[2] \in Due(row, at) <=> o[2] \in row.cron /\ o[2] <= at)
  <2> SUFFICES ASSUME o[1] = s, Fate(o) = "open", o[2] \in row.cron
               PROVE  row.cursor < o[2]
    BY DEF Due
  <2>1. ~ Settled(s, o[2])
    BY <1>1, FateValue DEF Settled, Claimed, JobStatus
  <2>2. SettledUpTo(s, row.cursor)
    BY <1>2 DEF SettleInv, RowsSettled
  <2>3. ~ (o[2] <= row.cursor)
    BY <1>3, <2>1, <2>2 DEF SettledUpTo
  <2>4. o[2] \in Nat /\ row.cursor \in Nat
    BY <1>1, BoundsAssumption DEF ScheduleRow, Instants
  <2> QED
    BY <2>3, <2>4
<1>7. o[1] = s /\ o \in skipped /\ job[o] = "absent" => o[2] \notin window
  <2> SUFFICES ASSUME o[1] = s, o \in skipped, o[2] \in window PROVE FALSE
    OBVIOUS
  <2>1. Overtaken(row.cron, o[2], at)
    BY <1>1, <1>2 DEF SkipInv, SkippedAreOvertaken
  <2> QED
    BY <1>4, <1>5, <2>1
<1> HIDE DEF row, window
<1>8. /\ job'[o] = IF o[1] = s /\ o[2] \in window /\ job[o] = "absent" THEN "queued" ELSE job[o]
      /\ o \in skipped' <=> \/ o \in skipped
                            \/ o[1] = s /\ o[2] \in Due(row, at) \ window /\ job[o] = "absent"
  BY <1>1, <1>2 DEF Claimed
<1>9. /\ Fate(o)' = IF job'[o] # "absent" THEN job'[o]
                    ELSE IF schedule[o[1]].state = "deleted" THEN "void"
                    ELSE IF o \in skipped' THEN "skipped" ELSE "open"
      /\ job[o] # "open" /\ (o[1] = s => schedule[o[1]].state # "deleted")
  BY <1>1, <1>2 DEF Fate, JobStatus, Exists
<1>10. CASE o[1] # s
  BY <1>8, <1>9, <1>10, FateValue
<1>11. CASE o[1] = s /\ Fate(o) # "open"
  BY <1>7, <1>8, <1>9, <1>11, FateValue
<1>12. CASE o[1] = s /\ Fate(o) = "open"
  <2>1. job[o] = "absent" /\ o \notin skipped
    BY <1>9, <1>12, FateValue
  <2> QED
    BY <1>3, <1>4, <1>5, <1>6, <1>8, <1>9, <1>12, <2>1
<1> QED
  BY <1>10, <1>11, <1>12

\* Each step of the passes, jobs and operators is a step of OccurrenceFates, or changes
\* nothing of what it shows.
LEMMA FateStep ==
    ASSUME Steady, OnePass, TypeInv, DispatchInv, SkipInv, SettleInv, [Next]_vars
    PROVE  [Fates!Next]_Fates!vars
<1> DEFINE cron == [s \in Schedules |-> schedule[s].cron]
           fate == [o \in Occurrences |-> Fate(o)]
           Step == Fates!Next \/ UNCHANGED <<now, cron, fate>>
<1>t. TypeOK
  BY DEF TypeInv
<1>o. Fates!Occurrences = Occurrences
  BY DEF Fates!Occurrences, Occurrences
<1>c. \A S : Fates!Cardinality(S) = Cardinality(S)
  BY Zenon DEF Fates!Cardinality, Cardinality
<1>p. \A o \in Occurrences : o[1] \in Schedules /\ o[2] \in 1 .. MaxTime /\ o = <<o[1], o[2]>>
  BY DEF Occurrences
<1>q. ASSUME UNCHANGED <<now, job, skipped>>,
             \A r \in Schedules : /\ schedule'[r].cron = schedule[r].cron
                                  /\ schedule'[r].state = "deleted" <=> schedule[r].state = "deleted"
      PROVE  Step
  <2>1. \A o \in Occurrences : Fate(o)' = Fate(o)
    BY <1>p, <1>q DEF Fate
  <2> QED
    BY <1>q, <2>1
<1>1. ASSUME NEW p \in Passes,
             Begin(p) \/ (\E s \in Schedules : Skip(p, s) \/ Raise(p, s)) \/ Advance(p) \/ End(p)
             \/ CrashPass(p)
      PROVE  Step
  <2>1. UNCHANGED <<now, job, skipped>>
    BY <1>1 DEF Begin, Skip, Raise, Advance, End, CrashPass
  <2>2. \A r \in Schedules : /\ schedule'[r].cron = schedule[r].cron
                             /\ schedule'[r].state = schedule[r].state
    BY <1>1, <1>t DEF Begin, Skip, Raise, Advance, End, CrashPass, TypeOK, ScheduleRow
  <2> QED
    BY <1>q, <2>1, <2>2
<1>2. ASSUME NEW p \in Passes, NEW s \in Schedules, Claim(p, s) PROVE Step
  <2>1. UNCHANGED <<now, schedule>>
    BY <1>2 DEF Claim
  <2>2. CASE ~ Exists(s)
    <3>1. UNCHANGED job
      BY <1>2, <2>2 DEF Claim, Exists
    <3>2. \A o \in Occurrences : o[1] # s => (o \in skipped' <=> o \in skipped)
      BY <1>2, <1>p DEF Claim
    <3>3. \A o \in Occurrences : Fate(o)' = Fate(o)
      BY <2>1, <2>2, <3>1, <3>2 DEF Fate, Exists
    <3> QED
      BY <2>1, <3>3
  <2>3. CASE Exists(s)
    <3>1. PICK at \in 0 .. MaxTime : at = pass[p].now /\ at <= now
      BY <1>t DEF TypeOK, PassState, Instants, SkipInv, PassTimes
    <3>2. \A o \in Occurrences :
            Fate(o)' = IF o[1] = s /\ o[2] \in cron[s] /\ o[2] <= at /\ Fate(o) = "open"
                       THEN IF Overtaken(cron[s], o[2], at) THEN "skipped" ELSE "queued"
                       ELSE Fate(o)
      BY <1>2, <2>3, <3>1, ClaimFates
    <3>3. \A t : Fates!Overtaken(s, t, at) <=> Overtaken(cron[s], t, at)
      BY <1>c DEF Fates!Overtaken, Overtaken
    <3>4. fate' = [o \in Occurrences |->
                     IF o[1] = s /\ o[2] \in cron[s] /\ o[2] <= at /\ fate[o] = "open"
                     THEN IF Fates!Overtaken(s, o[2], at) THEN "skipped" ELSE "queued"
                     ELSE fate[o]]
      BY <3>2, <3>3
    <3>5. Fates!Serve(s, at)
      BY <1>o, <2>1, <3>1, <3>4 DEF Fates!Serve
    <3> QED
      BY <3>1, <3>5 DEF Fates!Next
  <2> QED
    BY <2>2, <2>3
<1>3. ASSUME NEW s \in Schedules, NEW t \in 1 .. MaxTime, Finish(s, t) \/ FinishUnrecorded(s, t)
      PROVE  Step
  <2> DEFINE o == <<s, t>>
  <2>1. /\ UNCHANGED <<now, skipped>> /\ o \in Occurrences /\ job[o] = "queued"
        /\ job' = [job EXCEPT ![o] = "finished"]
    BY <1>3 DEF Finish, FinishUnrecorded, Occurrences
  <2>2. \A r \in Schedules : /\ schedule'[r].cron = schedule[r].cron
                             /\ schedule'[r].state = schedule[r].state
    BY <1>3, <1>t DEF Finish, FinishUnrecorded, TypeOK, ScheduleRow
  <2>3. \A q \in Occurrences \ {o} : job'[q] = job[q]
    BY <1>t, <2>1 DEF TypeOK
  <2>4. job'[o] = "finished"
    BY <1>t, <2>1 DEF TypeOK
  <2> HIDE DEF o
  <2>5. \A q \in Occurrences \ {o} : Fate(q)' = Fate(q)
    BY <1>p, <2>1, <2>2, <2>3 DEF Fate
  <2>6. Fate(o) = "queued" /\ Fate(o)' = "finished"
    BY <2>1, <2>4 DEF Fate
  <2>7. cron' = cron /\ fate[o] = "queued" /\ fate' = [fate EXCEPT ![o] = "finished"]
    BY <2>1, <2>2, <2>5, <2>6
  <2>8. Fates!Finish(o)
    BY <2>1, <2>7 DEF Fates!Finish
  <2> QED
    BY <1>o, <2>1, <2>8 DEF Fates!Next
<1>4. ASSUME NEW s \in Schedules, NEW c \in Crons, NEW state \in {"active", "inactive"},
             UpdateSchedule(s, c, state)
      PROVE  Step
  <2>1. UNCHANGED <<now, job, pass, skipped>> /\ schedule[s].state # "deleted" /\ MaxEdits # 0
    BY <1>4, <1>t, BoundsAssumption DEF UpdateSchedule, TypeOK
  <2>2. c = schedule[s].cron
    BY <1>4, <2>1 DEF Steady, UpdateSchedule
  <2>3. \A r \in Schedules : /\ schedule'[r].cron = schedule[r].cron
                             /\ schedule'[r].state = "deleted" <=> schedule[r].state = "deleted"
    BY <1>4, <2>1, <2>2, <1>t DEF UpdateSchedule, TypeOK, ScheduleRow
  <2> QED
    BY <1>q, <2>1, <2>3
<1>5. ASSUME NEW s \in Schedules, DeleteSchedule(s) PROVE Step
  <2>1. UNCHANGED <<now, job, skipped>> /\ schedule[s].state # "deleted"
    BY <1>5 DEF DeleteSchedule
  <2>2. \A r \in Schedules : /\ schedule'[r].cron = schedule[r].cron
                             /\ schedule'[r].state = IF r = s THEN "deleted" ELSE schedule[r].state
    BY <1>5, <1>t DEF DeleteSchedule, TypeOK, ScheduleRow
  <2>3. \A o \in Occurrences : job[o] \in JobStatus
    BY <1>t DEF TypeOK
  <2>4. \A o \in Occurrences :
          Fate(o)' = IF o[1] = s /\ Fate(o) \notin {"queued", "finished"} THEN "void" ELSE Fate(o)
    BY <1>p, <2>1, <2>2, <2>3 DEF Fate, JobStatus
  <2>5. /\ cron' = cron
        /\ fate' = [o \in Occurrences |->
                      IF o[1] = s /\ fate[o] \notin {"queued", "finished"} THEN "void" ELSE fate[o]]
    BY <2>2, <2>4
  <2>6. Fates!Delete(s)
    BY <1>o, <2>1, <2>5 DEF Fates!Delete
  <2> QED
    BY <2>6 DEF Fates!Next
<1>6. ASSUME Tick PROVE Step
  <2>1. cron' = cron /\ fate' = fate
    BY <1>6 DEF Tick, Fate
  <2>2. Fates!Tick
    BY <1>6, <2>1 DEF Tick, Fates!Tick
  <2> QED
    BY <2>2 DEF Fates!Next
<1>7. ASSUME UNCHANGED vars PROVE Step
  BY <1>7, <1>q DEF vars
<1>8. Step
  BY <1>1, <1>2, <1>3, <1>4, <1>5, <1>6, <1>7 DEF Next, Serve
<1> QED
  BY <1>8 DEF Fates!vars

\* Where the cursor is does not matter: crashes between claim and cursor, jobs that move
\* it back and passes that read it earlier leave every schedule served as
\* OccurrenceFates says, if passes do not overlap and no edit changes an expression.
THEOREM CursorsAreInvisible == Steady /\ OnePass => (Spec => RefinesFates)
<1> SUFFICES ASSUME Steady, OnePass PROVE Spec => RefinesFates
  OBVIOUS
<1> DEFINE IInv == TypeInv /\ DispatchInv /\ SkipInv /\ SettleInv
<1>1. Init => IInv
  BY InitTypeInv, InitDispatchInv, InitSkipInv, InitSettleInv
<1>2. IInv /\ [Next]_vars => IInv'
  BY NextTypeInv, NextDispatchInv, NextSkipInv, NextSettleInv
<1>3. Init => Fates!Init
  <2> SUFFICES ASSUME Init PROVE Fates!Init
    OBVIOUS
  <2>1. \A s \in Schedules : schedule[s].cron \in Crons /\ schedule[s].state = "active"
    BY DEF Init
  <2>2. \A o \in Occurrences : o[1] \in Schedules
    BY DEF Occurrences
  <2>3. \A o \in Occurrences : Fate(o) = "open"
    BY <2>1, <2>2 DEF Init, Fate
  <2> QED
    BY <2>1, <2>3 DEF Init, Fates!Init, Fates!Occurrences, Occurrences
<1>4. IInv /\ [Next]_vars => [Fates!Next]_Fates!vars
  BY FateStep
<1> QED
  BY <1>1, <1>2, <1>3, <1>4, PTL DEF Spec, RefinesFates, Fates!Spec
=============================================================================
