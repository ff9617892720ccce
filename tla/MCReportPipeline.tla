-------------------------- MODULE MCReportPipeline --------------------------
(* Model-checking instance of ReportPipeline and of PromptFacts.  They share no
   state, and a behaviour is one of either, so their states add up. *)
EXTENDS ReportPipeline, PromptFacts

CONSTANTS Ann, Bob, Cleo

VARIABLE explored  \* "pipeline" or "prompt"

allVars == <<explored, vars, factVars>>

Fetches == explored = "pipeline" /\ Next /\ UNCHANGED factVars
States == explored = "prompt" /\ BuildPrompt /\ UNCHANGED vars

\* One of the initial states of the pipeline, for the behaviours it has no part in.
Unasked ==
    /\ ask.connector = "jira" /\ ask.from = MaxTime /\ ask.budget = 0
    /\ \A r \in Ids : ask.updated[r] = MaxTime

PipelineInit ==
    \/ explored = "pipeline" /\ Init /\ tickets = <<>> /\ facts = NoFacts
    \/ explored = "prompt" /\ Init /\ Unasked /\ FactsInit

PipelineNext == (Fetches \/ States) /\ UNCHANGED explored

PipelineSpec == PipelineInit /\ [][PipelineNext]_allVars

\* Every variable of the two components holds values of its domain.
TypesOK == TypeOK /\ (explored = "prompt" => FactsTypeOK)

-----------------------------------------------------------------------------
(* Values of constants: ranks run against ids, and one line costs more than
   the others. *)

Tiers == <<2, 1, 0, 0>>

Costs == <<2, 3, 2, 2>>

\* Three tickets that differ in what risks depend on.
RiskyBacklogs ==
    [1 .. 3 -> [status : Statuses, assignee : {Nobody}, high : BOOLEAN, security : BOOLEAN,
                age : {StaleDays - 1, StaleDays}, refs : {{}}]]

\* Six tickets that differ in their owner: three owners may have 3, 2 and 1.
OwnedBacklogs ==
    [1 .. 6 -> [status : {"done"}, assignee : {Nobody, Ann, Bob, Cleo}, high : {FALSE},
                security : {FALSE}, age : {0}, refs : {{}}]]

\* Two tickets that name up to two references.
RelatedBacklogs ==
    [1 .. 2 -> [status : {"todo"}, assignee : {Ann}, high : {FALSE}, security : {TRUE},
                age : {0}, refs : SUBSET {"CVE", "KEY-1"}]]

SomeBacklogs == {<<>>} \cup RiskyBacklogs \cup OwnedBacklogs \cup RelatedBacklogs
=============================================================================
