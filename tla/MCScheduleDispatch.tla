-------------------------- MODULE MCScheduleDispatch --------------------------
(* Model-checking instance of ScheduleDispatch. *)
EXTENDS ScheduleDispatch

\* Cron expressions that name every instant, or none; and a sparser one beside them.
Never == {1 .. MaxTime, {}}
Mixed == Never \cup {{t \in 1 .. MaxTime : t % 2 = 0}}

\* One disturbance, a crash or an edit, in each behaviour.
OneDisturbance == Init /\ [][Next /\ faults' + edits' <= 1]_vars /\ Fairness
=============================================================================
