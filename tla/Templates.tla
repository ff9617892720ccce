------------------------------ MODULE Templates ------------------------------
(***************************************************************************)
(* Report templates: uploads, edits that number the versions, the deletion *)
(* that first counts references, and the generations that load a template, *)
(* work, and store a copy of it with their report.                         *)
(*                                                                         *)
(* A step is one database statement up to its commit; what a session has   *)
(* read stays in its process's record.                                     *)
(***************************************************************************)
EXTENDS Naturals, TemplateIds

CONSTANTS
    Contents,     \* name and content of a template, together
    Editors,      \* requests to the edit route
    Deleters,     \* requests to the delete route
    Generations,  \* jobs, and direct generations, each with at most one report
    NoContent,    \* template_snapshot NULL
    MaxVersion    \* bound: the version edits stop at

ASSUME ContentsAssumption == NoContent \notin Contents /\ MaxVersion \in Nat \ {0}

VARIABLES
    template,    \* the report_templates table
    editor,      \* what each edit request has loaded and wants to write
    deleter,     \* how far each delete request is
    generation,  \* the report_jobs table, and what each generation has loaded
    report       \* the reports table: the report of each generation

templateVars == <<template, editor, deleter, generation, report>>

-----------------------------------------------------------------------------

TemplateRow ==
    [state : {"absent", "present", "deleted"}, version : 0 .. MaxVersion,
     content : Contents \cup {NoContent}]

EditorState ==
    [phase : {"idle", "editing"}, template : Templates \cup {NoTemplate},
     seen : TemplateRow, content : Contents \cup {NoContent}]

DeleterState ==
    [phase : {"idle", "loaded", "unreported", "unused"}, template : Templates \cup {NoTemplate}]

\* job: whether a report_jobs row stands for the generation.  asked: the template
\* of the request.  template: that of the job's row, or of the direct request.
GenerationState ==
    [phase : {"idle", "queued", "working", "failed", "done"},
     job : BOOLEAN,
     asked : Templates \cup {NoTemplate},
     template : Templates \cup {NoTemplate},
     seen : TemplateRow]

\* template NoTemplate and content NoContent: rendered with the default template.
ReportRow ==
    [exists : BOOLEAN, template : Templates \cup {NoTemplate},
     version : Nat, content : Contents \cup {NoContent}]

AbsentTemplate == [state |-> "absent", version |-> 0, content |-> NoContent]

IdleEditor == [phase |-> "idle", template |-> NoTemplate, seen |-> AbsentTemplate,
               content |-> NoContent]

IdleDeleter == [phase |-> "idle", template |-> NoTemplate]

TemplatesInit ==
    /\ template = [t \in Templates |-> AbsentTemplate]
    /\ editor = [e \in Editors |-> IdleEditor]
    /\ deleter = [d \in Deleters |-> IdleDeleter]
    /\ generation = [g \in Generations |->
                       [phase |-> "idle", job |-> FALSE, asked |-> NoTemplate,
                        template |-> NoTemplate, seen |-> AbsentTemplate]]
    /\ report = [g \in Generations |->
                   [exists |-> FALSE, template |-> NoTemplate, version |-> 0, content |-> NoContent]]

-----------------------------------------------------------------------------

Present(t) == t # NoTemplate /\ template[t].state = "present"

\* Jobs and reports whose foreign key names t.
JobsUsing(t) == {g \in Generations : generation[g].job /\ generation[g].template = t}
ReportsUsing(t) == {g \in Generations : report[g].exists /\ report[g].template = t}

\* Faulty variants of Edited: the version is left alone, or counted twice.
EditedInPlace(current, seen, content) ==
    [current EXCEPT !.content = IF content = seen.content THEN @ ELSE content]

EditedTwice(current, seen, content) ==
    [current EXCEPT !.version = seen.version + 2, !.content = content]

\* The row after an edit: the version the edit loaded, plus one, and the content if
\* it differs from the loaded one.
Edited(current, seen, content) ==
    [current EXCEPT !.version = seen.version + 1,
                    !.content = IF content = seen.content THEN @ ELSE content]

-----------------------------------------------------------------------------
(* The template routes                                                     *)

Upload(t, c) ==
    /\ template[t].state = "absent"
    /\ template' = [template EXCEPT ![t] = [state |-> "present", version |-> 1, content |-> c]]
    /\ UNCHANGED <<editor, deleter, generation, report>>

\* The row is loaded; the new content is validated in another thread.
LoadForEdit(e, t, c) ==
    /\ editor[e].phase = "idle"
    /\ Present(t)
    /\ template[t].version < MaxVersion
    /\ editor' = [editor EXCEPT ![e] = [phase |-> "editing", template |-> t,
                                        seen |-> template[t], content |-> c]]
    /\ UNCHANGED <<template, deleter, generation, report>>

\* An UPDATE of a row that is gone raises.
WriteEdit(e) ==
    LET t == editor[e].template IN
    /\ editor[e].phase = "editing"
    /\ template' = IF Present(t)
                   THEN [template EXCEPT ![t] = Edited(@, editor[e].seen, editor[e].content)]
                   ELSE template
    /\ editor' = [editor EXCEPT ![e] = IdleEditor]
    /\ UNCHANGED <<deleter, generation, report>>

\* Content that does not validate.
RejectEdit(e) ==
    /\ editor[e].phase = "editing"
    /\ editor' = [editor EXCEPT ![e] = IdleEditor]
    /\ UNCHANGED <<template, deleter, generation, report>>

LoadForDelete(d, t) ==
    /\ deleter[d].phase = "idle"
    /\ Present(t)
    /\ deleter' = [deleter EXCEPT ![d] = [phase |-> "loaded", template |-> t]]
    /\ UNCHANGED <<template, editor, generation, report>>

\* 409 as soon as one count is positive; the other one changes nothing.
CountReports(d) ==
    /\ deleter[d].phase = "loaded"
    /\ deleter' = [deleter EXCEPT ![d] = IF ReportsUsing(deleter[d].template) = {}
                                         THEN [@ EXCEPT !.phase = "unreported"]
                                         ELSE IdleDeleter]
    /\ UNCHANGED <<template, editor, generation, report>>

CountJobs(d) ==
    /\ deleter[d].phase = "unreported"
    /\ deleter' = [deleter EXCEPT ![d] = IF JobsUsing(deleter[d].template) = {}
                                         THEN [@ EXCEPT !.phase = "unused"]
                                         ELSE IdleDeleter]
    /\ UNCHANGED <<template, editor, generation, report>>

\* ON DELETE SET NULL takes the id out of the rows that name it, and leaves the
\* versions and copies of reports; a row deleted by another request raises.
DeleteUnused(d) ==
    LET t == deleter[d].template IN
    /\ deleter[d].phase = "unused"
    /\ deleter' = [deleter EXCEPT ![d] = IdleDeleter]
    /\ IF Present(t)
       THEN /\ template' = [template EXCEPT ![t].state = "deleted"]
            /\ generation' = [g \in Generations |->
                                IF g \in JobsUsing(t)
                                THEN [generation[g] EXCEPT !.template = NoTemplate]
                                ELSE generation[g]]
            /\ report' = [g \in Generations |->
                            IF g \in ReportsUsing(t)
                            THEN [report[g] EXCEPT !.template = NoTemplate]
                            ELSE report[g]]
       ELSE UNCHANGED <<template, generation, report>>
    /\ UNCHANGED editor

-----------------------------------------------------------------------------
(* Generations                                                             *)

\* A job is accepted: its row names the template, which has to exist.
Accept(g, t) ==
    /\ generation[g].phase = "idle"
    /\ t = NoTemplate \/ Present(t)
    /\ generation' = [generation EXCEPT ![g] = [@ EXCEPT !.phase = "queued", !.job = TRUE,
                                                         !.asked = t, !.template = t]]
    /\ UNCHANGED <<template, editor, deleter, report>>

\* POST /api/report/generate, or that of a profile with its template: no job.
Ask(g, t) ==
    /\ generation[g].phase = "idle"
    /\ generation' = [generation EXCEPT ![g] = [@ EXCEPT !.phase = "queued", !.asked = t,
                                                         !.template = t]]
    /\ UNCHANGED <<template, editor, deleter, report>>

Working(state, seen) == [state EXCEPT !.phase = "working", !.seen = seen]

\* generate_report loads the template the row names now.
Start(g) ==
    LET t == generation[g].template IN
    /\ generation[g].phase = "queued"
    /\ generation' = IF t = NoTemplate
                     THEN [generation EXCEPT ![g] = Working(@, AbsentTemplate)]
                     ELSE IF Present(t)
                     THEN [generation EXCEPT ![g] = Working(@, template[t])]
                     ELSE [generation EXCEPT ![g].phase = "failed"]
    /\ UNCHANGED <<template, editor, deleter, report>>

\* The id the session loaded, which a deletion meanwhile does not take away.
Loaded(g) == IF generation[g].seen.state = "absent" THEN NoTemplate ELSE generation[g].asked

\* Faulty variant of Persist: no copy is made.
PersistUncopied(g) ==
    LET t == Loaded(g) IN
    /\ generation[g].phase = "working"
    /\ t # NoTemplate => Present(t)
    /\ report' = [report EXCEPT ![g] =
                    [exists |-> TRUE, template |-> t, version |-> generation[g].seen.version,
                     content |-> NoContent]]
    /\ generation' = [generation EXCEPT ![g].phase = "done"]
    /\ UNCHANGED <<template, editor, deleter>>

\* The report is stored with the id, version and content of the loaded template.
Persist(g) ==
    LET t == Loaded(g) IN
    /\ generation[g].phase = "working"
    /\ t # NoTemplate => Present(t)
    /\ report' = [report EXCEPT ![g] =
                    [exists |-> TRUE, template |-> t, version |-> generation[g].seen.version,
                     content |-> generation[g].seen.content]]
    /\ generation' = [generation EXCEPT ![g].phase = "done"]
    /\ UNCHANGED <<template, editor, deleter>>

\* The attempt fails, in any way or because its template is gone; a job is tried
\* again or given up.
Fail(g) ==
    /\ generation[g].phase = "working"
    /\ \/ generation' = [generation EXCEPT ![g].phase = "failed"]
       \/ /\ generation[g].job
          /\ generation' = [generation EXCEPT ![g].phase = "queued"]
    /\ UNCHANGED <<template, editor, deleter, report>>

-----------------------------------------------------------------------------

TemplatesNext ==
    \/ \E t \in Templates, c \in Contents : Upload(t, c) \/ \E e \in Editors : LoadForEdit(e, t, c)
    \/ \E e \in Editors : WriteEdit(e) \/ RejectEdit(e)
    \/ \E d \in Deleters : CountReports(d) \/ CountJobs(d) \/ DeleteUnused(d)
    \/ \E d \in Deleters, t \in Templates : LoadForDelete(d, t)
    \/ \E g \in Generations, t \in Templates \cup {NoTemplate} : Accept(g, t) \/ Ask(g, t)
    \/ \E g \in Generations : Start(g) \/ Persist(g) \/ Fail(g)

TemplatesSpec == TemplatesInit /\ [][TemplatesNext]_templateVars

-----------------------------------------------------------------------------
(* Properties                                                              *)

\* Every variable holds values of its domain.
TemplatesTypeOK ==
    /\ template \in [Templates -> TemplateRow]
    /\ editor \in [Editors -> EditorState]
    /\ deleter \in [Deleters -> DeleterState]
    /\ generation \in [Generations -> GenerationState]
    /\ report \in [Generations -> ReportRow]

\* A report's template version tells which content it was rendered with: reports of
\* one version have one copy, and the template is that content until it is edited
\* (update_template's comment; it takes edits that do not overlap).
VersionNamesContent ==
    \A g \in Generations : report[g].exists /\ report[g].template # NoTemplate =>
        LET t == report[g].template IN
        /\ report[g].version = template[t].version => report[g].content = template[t].content
        /\ \A h \in Generations :
             report[h].exists /\ report[h].template = t /\ report[h].version = report[g].version
               => report[h].content = report[g].content

\* A report asked for with a template is rendered with the default only when that
\* template has been deleted.
NoSilentDefault ==
    \A g \in Generations :
        /\ report[g].exists /\ report[g].content = NoContent
        /\ generation[g].asked # NoTemplate
        => template[generation[g].asked].state = "deleted"
=============================================================================
