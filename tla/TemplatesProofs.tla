--------------------------- MODULE TemplatesProofs ---------------------------
(***************************************************************************)
(* Proofs about Templates, for any number of templates, requests,          *)
(* generations and versions, about ReportProfiles, the other rows that     *)
(* requests edit, for any number of profiles and updates, and about the    *)
(* five components of the API process side by side.                        *)
(***************************************************************************)
EXTENDS MCRequests, JobIntakeProofs, ConfigStoreProofs, RenderSlotsProofs, TLAPS

-----------------------------------------------------------------------------
(* Templates: domains, and where a report without a copy comes from.         *)

\* A row that can be loaded has a version and a content.
StoredTemplate(row) == row.version >= 1 /\ row.content \in Contents

\* What a request or a generation has loaded was a stored row then.
LoadsAreStored ==
    /\ \A t \in Templates : template[t].state = "present" => StoredTemplate(template[t])
    /\ \A e \in Editors : editor[e].phase = "editing" =>
          /\ editor[e].template \in Templates /\ editor[e].content \in Contents
          /\ editor[e].seen.version < MaxVersion
    /\ \A d \in Deleters : deleter[d].phase # "idle" => deleter[d].template \in Templates
    /\ \A g \in Generations : generation[g].seen.state # "absent" =>
          generation[g].seen.content \in Contents

\* A generation does without a template only if none was asked for, or since the one
\* asked for is gone.
DoesWithout(g) ==
    generation[g].asked # NoTemplate => template[generation[g].asked].state = "deleted"

\* A generation's row names what was asked for or nothing; what it has not loaded,
\* and what its report does not hold, it does without.
DefaultsAreExplained ==
    \A g \in Generations :
        /\ generation[g].template \in {generation[g].asked, NoTemplate}
        /\ generation[g].template = NoTemplate => DoesWithout(g)
        /\ generation[g].phase = "working" /\ generation[g].seen.state = "absent" => DoesWithout(g)
        /\ report[g].exists /\ report[g].content = NoContent => DoesWithout(g)

\* A generation that has not begun has no report, and one that has a report is over.
ReportsComeLast ==
    \A g \in Generations : report[g].exists => generation[g].phase = "done"

TemplatesInv == TemplatesTypeOK /\ LoadsAreStored /\ DefaultsAreExplained /\ ReportsComeLast

LEMMA InitTemplatesInv == TemplatesInit => TemplatesInv
<1> SUFFICES ASSUME TemplatesInit PROVE TemplatesInv
  OBVIOUS
<1> USE ContentsAssumption, NoTemplateAssumption DEF TemplatesInit, AbsentTemplate
<1>1. AbsentTemplate \in TemplateRow
  BY DEF TemplateRow
<1>2. TemplatesTypeOK
  BY <1>1 DEF TemplatesTypeOK, EditorState, DeleterState, GenerationState, ReportRow, IdleEditor,
              IdleDeleter
<1>3. LoadsAreStored
  BY DEF LoadsAreStored, IdleEditor, IdleDeleter
<1>4. DefaultsAreExplained /\ ReportsComeLast
  BY DEF DefaultsAreExplained, DoesWithout, ReportsComeLast
<1> QED
  BY <1>2, <1>3, <1>4 DEF TemplatesInv

\* A step that leaves generations and reports alone and un-deletes nothing keeps what
\* explains the defaults.
LEMMA TemplateStepExplains ==
    ASSUME TemplatesInv, UNCHANGED <<generation, report>>,
           \A t \in Templates : template[t].state = "deleted" => template'[t].state = "deleted"
    PROVE  DefaultsAreExplained' /\ ReportsComeLast'
<1>1. ReportsComeLast'
  BY DEF TemplatesInv, ReportsComeLast
<1>2. ASSUME NEW g \in Generations PROVE DoesWithout(g) => DoesWithout(g)'
  <2>1. generation[g].asked \in Templates \cup {NoTemplate}
    BY DEF TemplatesInv, TemplatesTypeOK, GenerationState
  <2> QED
    BY <2>1 DEF DoesWithout
<1> QED
  BY <1>1, <1>2 DEF TemplatesInv, DefaultsAreExplained

LEMMA UploadTemplatesInv ==
    ASSUME TemplatesInv, NEW t \in Templates, NEW c \in Contents, Upload(t, c)
    PROVE  TemplatesInv'
<1> USE ContentsAssumption DEF Upload
<1>1. [state |-> "present", version |-> 1, content |-> c] \in TemplateRow
  BY DEF TemplateRow
<1>2. TemplatesTypeOK'
  BY <1>1 DEF TemplatesInv, TemplatesTypeOK
<1>3. LoadsAreStored'
  BY DEF TemplatesInv, TemplatesTypeOK, LoadsAreStored, StoredTemplate
<1>4. DefaultsAreExplained' /\ ReportsComeLast'
  BY TemplateStepExplains DEF TemplatesInv, TemplatesTypeOK
<1> QED
  BY <1>2, <1>3, <1>4 DEF TemplatesInv

\* A step of an edit request that writes nothing.
LEMMA EditorStepInv ==
    ASSUME TemplatesInv, UNCHANGED <<template, deleter, generation, report>>,
           NEW e \in Editors, NEW state \in EditorState,
           editor' = [editor EXCEPT ![e] = state],
           state.phase = "editing" =>
               /\ state.template \in Templates /\ state.content \in Contents
               /\ state.seen.version < MaxVersion
    PROVE  TemplatesInv'
<1>1. TemplatesTypeOK'
  BY DEF TemplatesInv, TemplatesTypeOK
<1>2. LoadsAreStored'
  BY DEF TemplatesInv, TemplatesTypeOK, LoadsAreStored, StoredTemplate
<1>3. DefaultsAreExplained' /\ ReportsComeLast'
  BY TemplateStepExplains
<1> QED
  BY <1>1, <1>2, <1>3 DEF TemplatesInv

LEMMA IdleEditorIsTyped == IdleEditor \in EditorState /\ IdleEditor.phase = "idle"
BY ContentsAssumption DEF IdleEditor, EditorState, TemplateRow, AbsentTemplate

LEMMA LoadForEditTemplatesInv ==
    ASSUME TemplatesInv, NEW e \in Editors, NEW t \in Templates, NEW c \in Contents,
           LoadForEdit(e, t, c)
    PROVE  TemplatesInv'
<1> DEFINE state == [phase |-> "editing", template |-> t, seen |-> template[t], content |-> c]
<1>1. state \in EditorState
  BY DEF TemplatesInv, TemplatesTypeOK, EditorState
<1>2. editor' = [editor EXCEPT ![e] = state] /\ UNCHANGED <<template, deleter, generation, report>>
  BY DEF LoadForEdit
<1>3. state.template \in Templates /\ state.content \in Contents /\ state.seen.version < MaxVersion
  BY DEF LoadForEdit
<1> HIDE DEF state
<1> QED
  BY <1>1, <1>2, <1>3, EditorStepInv

LEMMA RejectEditTemplatesInv ==
    ASSUME TemplatesInv, NEW e \in Editors, RejectEdit(e)
    PROVE  TemplatesInv'
BY IdleEditorIsTyped, EditorStepInv DEF RejectEdit

\* The row an edit writes has the next version, and a content.
LEMMA EditedIsStored ==
    ASSUME NEW row \in TemplateRow, row.content \in Contents, NEW content \in Contents,
           NEW seen \in TemplateRow, seen.version < MaxVersion
    PROVE  LET edited == Edited(row, seen, content) IN
           /\ edited \in TemplateRow /\ StoredTemplate(edited)
           /\ edited.state = row.state /\ edited.version = seen.version + 1
<1>1. seen.version \in 0 .. MaxVersion
  BY DEF TemplateRow
<1>2. seen.version + 1 \in 1 .. MaxVersion
  BY <1>1, ContentsAssumption
<1> DEFINE version == seen.version + 1
           text == IF content = seen.content THEN row.content ELSE content
<1>3. text \in Contents
  OBVIOUS
<1>4. Edited(row, seen, content) = [row EXCEPT !.version = version, !.content = text]
  BY DEF Edited
<1>5. version \in 1 .. MaxVersion
  BY <1>2
<1> HIDE DEF version, text
<1>6. Edited(row, seen, content) = [state |-> row.state, version |-> version, content |-> text]
  BY <1>4 DEF TemplateRow
<1>7. row.state \in {"absent", "present", "deleted"}
  BY DEF TemplateRow
<1>8. [state |-> row.state, version |-> version, content |-> text] \in TemplateRow
  BY <1>3, <1>5, <1>7, ContentsAssumption DEF TemplateRow
<1> QED
  BY <1>3, <1>5, <1>6, <1>8 DEF StoredTemplate, version

LEMMA WriteEditTemplatesInv ==
    ASSUME TemplatesInv, NEW e \in Editors, WriteEdit(e)
    PROVE  TemplatesInv'
<1> DEFINE t == editor[e].template
           row == Edited(template[t], editor[e].seen, editor[e].content)
<1>1. CASE ~Present(t)
  BY <1>1, IdleEditorIsTyped, EditorStepInv DEF WriteEdit
<1>2. CASE Present(t)
  <2>1. /\ t \in Templates /\ editor[e].content \in Contents /\ editor[e].seen \in TemplateRow
        /\ editor[e].seen.version < MaxVersion
    BY <1>2 DEF WriteEdit, TemplatesInv, TemplatesTypeOK, LoadsAreStored, EditorState
  <2>2. /\ template[t] \in TemplateRow /\ template[t].state = "present"
        /\ template[t].content \in Contents
    BY <1>2, <2>1 DEF Present, TemplatesInv, TemplatesTypeOK, LoadsAreStored, StoredTemplate
  <2>3. row \in TemplateRow /\ row.state = "present" /\ StoredTemplate(row)
    BY <2>1, <2>2, EditedIsStored
  <2>4. /\ template' = [template EXCEPT ![t] = row]
        /\ editor' = [editor EXCEPT ![e] = IdleEditor]
        /\ UNCHANGED <<deleter, generation, report>>
    BY <1>2 DEF WriteEdit
  <2> HIDE DEF t, row
  <2>5. TemplatesTypeOK'
    BY <2>1, <2>3, <2>4, IdleEditorIsTyped DEF TemplatesInv, TemplatesTypeOK
  <2>6. LoadsAreStored'
    BY <2>1, <2>3, <2>4, IdleEditorIsTyped DEF TemplatesInv, TemplatesTypeOK, LoadsAreStored
  <2>7. DefaultsAreExplained' /\ ReportsComeLast'
    BY <2>1, <2>2, <2>4, TemplateStepExplains DEF TemplatesInv, TemplatesTypeOK
  <2> QED
    BY <2>5, <2>6, <2>7 DEF TemplatesInv
<1> QED
  BY <1>1, <1>2

\* A step of a delete request up to its last count.
LEMMA CountingTemplatesInv ==
    ASSUME TemplatesInv, NEW d \in Deleters,
           CountReports(d) \/ CountJobs(d) \/ \E t \in Templates : LoadForDelete(d, t)
    PROVE  TemplatesInv'
<1> USE DEF CountReports, CountJobs, LoadForDelete, IdleDeleter
<1>1. TemplatesTypeOK'
  BY DEF TemplatesInv, TemplatesTypeOK, DeleterState
<1>2. LoadsAreStored'
  BY DEF TemplatesInv, TemplatesTypeOK, DeleterState, LoadsAreStored, StoredTemplate
<1>3. DefaultsAreExplained' /\ ReportsComeLast'
  BY TemplateStepExplains
<1> QED
  BY <1>1, <1>2, <1>3 DEF TemplatesInv

LEMMA DeleteUnusedTemplatesInv ==
    ASSUME TemplatesInv, NEW d \in Deleters, DeleteUnused(d)
    PROVE  TemplatesInv'
<1> DEFINE t == deleter[d].template
<1> USE NoTemplateAssumption
<1>1. t \in Templates
  BY DEF DeleteUnused, TemplatesInv, LoadsAreStored
<1>2. deleter' = [deleter EXCEPT ![d] = IdleDeleter] /\ UNCHANGED editor
  BY DEF DeleteUnused
<1>3. IdleDeleter \in DeleterState /\ IdleDeleter.phase = "idle"
  BY DEF IdleDeleter, DeleterState
<1>4. CASE ~Present(t)
  <2>1. UNCHANGED <<template, generation, report>>
    BY <1>4 DEF DeleteUnused
  <2>2. TemplatesTypeOK' /\ LoadsAreStored'
    BY <1>2, <1>3, <2>1 DEF TemplatesInv, TemplatesTypeOK, LoadsAreStored, StoredTemplate
  <2>3. DefaultsAreExplained' /\ ReportsComeLast'
    BY <2>1, TemplateStepExplains
  <2> QED
    BY <2>2, <2>3 DEF TemplatesInv
<1>5. CASE Present(t)
  <2>1. template' = [template EXCEPT ![t].state = "deleted"]
    BY <1>5 DEF DeleteUnused
  <2>2. template[t] \in TemplateRow
    BY <1>1 DEF TemplatesInv, TemplatesTypeOK
  <2>3. ASSUME NEW g \in Generations
        PROVE  /\ generation'[g] = IF generation[g].job /\ generation[g].template = t
                                   THEN [generation[g] EXCEPT !.template = NoTemplate]
                                   ELSE generation[g]
               /\ report'[g] = IF report[g].exists /\ report[g].template = t
                               THEN [report[g] EXCEPT !.template = NoTemplate]
                               ELSE report[g]
    BY <1>5 DEF DeleteUnused, JobsUsing, ReportsUsing
  <2>4. ASSUME NEW g \in Generations
        PROVE  /\ generation[g] \in GenerationState /\ report[g] \in ReportRow
               /\ generation'[g] \in GenerationState /\ report'[g] \in ReportRow
               /\ generation'[g].asked = generation[g].asked
               /\ generation'[g].phase = generation[g].phase
               /\ generation'[g].seen = generation[g].seen
               /\ generation'[g].template =
                      IF generation[g].job /\ generation[g].template = t
                      THEN NoTemplate ELSE generation[g].template
               /\ report'[g].exists = report[g].exists
               /\ report'[g].content = report[g].content
    <3>1. generation[g] \in GenerationState /\ report[g] \in ReportRow
      BY DEF TemplatesInv, TemplatesTypeOK
    <3> HIDE DEF t
    <3> QED
      BY <2>3, <3>1 DEF GenerationState, ReportRow
  <2>5. /\ DOMAIN generation' = Generations /\ generation' = [g \in Generations |-> generation'[g]]
        /\ DOMAIN report' = Generations /\ report' = [g \in Generations |-> report'[g]]
    BY <1>5 DEF DeleteUnused
  <2> HIDE DEF t
  <2>6. TemplatesTypeOK'
    <3>1. template' \in [Templates -> TemplateRow]
      BY <1>1, <2>1, <2>2 DEF TemplatesInv, TemplatesTypeOK, TemplateRow
    <3>2. generation' \in [Generations -> GenerationState] /\ report' \in [Generations -> ReportRow]
      BY <2>4, <2>5
    <3> QED
      BY <1>2, <1>3, <3>1, <3>2 DEF TemplatesInv, TemplatesTypeOK
  <2>7. /\ template'[t].state = "deleted"
        /\ \A s \in Templates : template'[s].state = "present" => template'[s] = template[s]
        /\ \A s \in Templates : template[s].state = "deleted" => template'[s].state = "deleted"
    BY <1>1, <2>1, <2>2 DEF TemplatesInv, TemplatesTypeOK, TemplateRow
  <2>8. LoadsAreStored'
    BY <1>2, <1>3, <2>4, <2>7 DEF TemplatesInv, TemplatesTypeOK, LoadsAreStored, StoredTemplate
  <2>9. ASSUME NEW g \in Generations PROVE DoesWithout(g) => DoesWithout(g)'
    <3>1. generation[g].asked \in Templates \cup {NoTemplate}
      BY DEF TemplatesInv, TemplatesTypeOK, GenerationState
    <3> QED
      BY <2>4, <2>7, <3>1 DEF DoesWithout
  <2>10. ASSUME NEW g \in Generations, generation[g].template = t PROVE DoesWithout(g)'
    <3>1. generation[g].asked \in {t, NoTemplate}
      BY <1>1, <2>10 DEF TemplatesInv, DefaultsAreExplained
    <3> QED
      BY <2>4, <2>7, <3>1 DEF DoesWithout
  <2>11. DefaultsAreExplained'
    BY <2>4, <2>9, <2>10 DEF TemplatesInv, DefaultsAreExplained
  <2>12. ReportsComeLast'
    BY <2>4 DEF TemplatesInv, ReportsComeLast
  <2> QED
    BY <2>6, <2>8, <2>11, <2>12 DEF TemplatesInv
<1> QED
  BY <1>4, <1>5

\* A step of one generation, whose new state and report are explained.
LEMMA GenerationStepInv ==
    ASSUME TemplatesInv, UNCHANGED <<template, editor, deleter>>,
           NEW g \in Generations, NEW state \in GenerationState, NEW row \in ReportRow,
           generation' = [generation EXCEPT ![g] = state],
           report' = [report EXCEPT ![g] = row],
           state.template \in {state.asked, NoTemplate},
           state.seen.state # "absent" => state.seen.content \in Contents,
           row.exists => state.phase = "done",
           \/ state.template = NoTemplate
           \/ state.phase = "working" /\ state.seen.state = "absent"
           \/ row.exists /\ row.content = NoContent
           => (state.asked # NoTemplate => template[state.asked].state = "deleted")
    PROVE  TemplatesInv'
<1>1. TemplatesTypeOK'
  BY DEF TemplatesInv, TemplatesTypeOK
<1>2. /\ generation'[g] = state /\ report'[g] = row
      /\ \A h \in Generations \ {g} :
            generation'[h] = generation[h] /\ report'[h] = report[h]
  BY DEF TemplatesInv, TemplatesTypeOK
<1>3. LoadsAreStored'
  BY <1>2 DEF TemplatesInv, TemplatesTypeOK, LoadsAreStored, StoredTemplate
<1>4. DefaultsAreExplained'
  BY <1>2 DEF TemplatesInv, DefaultsAreExplained, DoesWithout
<1>5. ReportsComeLast'
  BY <1>2 DEF TemplatesInv, ReportsComeLast
<1> QED
  BY <1>1, <1>3, <1>4, <1>5 DEF TemplatesInv

LEMMA BeginTemplatesInv ==
    ASSUME TemplatesInv, NEW g \in Generations, NEW t \in Templates \cup {NoTemplate},
           Accept(g, t) \/ Ask(g, t)
    PROVE  TemplatesInv'
<1>1. generation[g] \in GenerationState /\ report[g] \in ReportRow
  BY DEF TemplatesInv, TemplatesTypeOK
<1>2. PICK job \in BOOLEAN :
        generation' = [generation EXCEPT ![g] =
                         [generation[g] EXCEPT !.phase = "queued", !.job = job, !.asked = t,
                                               !.template = t]]
  <2>1. CASE Accept(g, t)
    <3>1. generation' = [generation EXCEPT ![g] =
                           [generation[g] EXCEPT !.phase = "queued", !.job = TRUE, !.asked = t,
                                                 !.template = t]]
      BY <2>1 DEF Accept
    <3> QED
      BY <3>1, TRUE \in BOOLEAN
  <2>2. CASE Ask(g, t)
    <3>1. [generation[g] EXCEPT !.phase = "queued", !.asked = t, !.template = t]
            = [generation[g] EXCEPT !.phase = "queued", !.job = generation[g].job, !.asked = t,
                                    !.template = t]
      BY <1>1 DEF GenerationState
    <3>2. generation[g].job \in BOOLEAN
      BY <1>1 DEF GenerationState
    <3> QED
      BY <2>2, <3>1, <3>2 DEF Ask
  <2> QED
    BY <2>1, <2>2
<1> DEFINE state == [generation[g] EXCEPT !.phase = "queued", !.job = job, !.asked = t,
                                          !.template = t]
<1>3. generation' = [generation EXCEPT ![g] = state]
  BY <1>2
<1>4. state \in GenerationState
  BY <1>1 DEF GenerationState
<1>5. ~report[g].exists
  BY DEF Accept, Ask, TemplatesInv, ReportsComeLast
<1>6. /\ UNCHANGED <<template, editor, deleter>>
      /\ report' = [report EXCEPT ![g] = report[g]]
  BY DEF Accept, Ask, TemplatesInv, TemplatesTypeOK
<1>7. generation[g].seen.state # "absent" => generation[g].seen.content \in Contents
  BY DEF TemplatesInv, LoadsAreStored
<1>8. /\ state.phase = "queued" /\ state.asked = t /\ state.template = t
      /\ state.seen = generation[g].seen
  BY <1>1 DEF GenerationState
<1> HIDE DEF state
<1> QED
  BY <1>1, <1>3, <1>4, <1>5, <1>6, <1>7, <1>8, GenerationStepInv

LEMMA StartTemplatesInv ==
    ASSUME TemplatesInv, NEW g \in Generations, Start(g)
    PROVE  TemplatesInv'
<1> DEFINE t == generation[g].template
           state(phase, seen) == [generation[g] EXCEPT !.phase = phase, !.seen = seen]
<1>1. generation[g] \in GenerationState /\ report[g] \in ReportRow
  BY DEF TemplatesInv, TemplatesTypeOK
<1>2. ~report[g].exists /\ generation[g].phase = "queued"
  BY DEF Start, TemplatesInv, ReportsComeLast
<1>3. UNCHANGED <<template, editor, deleter>> /\ report' = [report EXCEPT ![g] = report[g]]
  BY DEF Start, TemplatesInv, TemplatesTypeOK
<1>4. PICK phase \in {"working", "failed"}, seen \in TemplateRow :
        /\ generation' = [generation EXCEPT ![g] = state(phase, seen)]
        /\ seen.state # "absent" => seen.content \in Contents
        /\ phase = "working" /\ seen.state = "absent" => t = NoTemplate
  <2>1. CASE t = NoTemplate
    <3>1. generation' = [generation EXCEPT ![g] = state("working", AbsentTemplate)]
      BY <2>1 DEF Start, Working
    <3>2. AbsentTemplate \in TemplateRow /\ AbsentTemplate.state = "absent"
      BY ContentsAssumption DEF AbsentTemplate, TemplateRow
    <3> QED
      BY <2>1, <3>1, <3>2
  <2>2. CASE Present(t)
    <3>1. t \in Templates /\ template[t] \in TemplateRow /\ template[t].state = "present"
          /\ template[t].content \in Contents
      BY <1>1, <2>2 DEF Present, GenerationState, TemplatesInv, TemplatesTypeOK, LoadsAreStored,
                        StoredTemplate
    <3>2. generation' = [generation EXCEPT ![g] = state("working", template[t])]
      BY <2>2 DEF Start, Present, Working
    <3> QED
      BY <3>1, <3>2
  <2>3. CASE t # NoTemplate /\ ~Present(t)
    <3>1. generation' = [generation EXCEPT ![g] = state("failed", generation[g].seen)]
      <4>1. state("failed", generation[g].seen) = [generation[g] EXCEPT !.phase = "failed"]
        BY <1>1 DEF GenerationState
      <4> HIDE DEF state
      <4> QED
        BY <2>3, <4>1 DEF Start
    <3>2. /\ generation[g].seen \in TemplateRow
          /\ generation[g].seen.state # "absent" => generation[g].seen.content \in Contents
      BY <1>1 DEF GenerationState, TemplatesInv, LoadsAreStored
    <3> QED
      BY <3>1, <3>2
  <2> QED
    BY <2>1, <2>2, <2>3 DEF Present
<1>5. state(phase, seen) \in GenerationState
  BY <1>1 DEF GenerationState
<1>6. /\ t \in {generation[g].asked, NoTemplate}
      /\ t = NoTemplate => (generation[g].asked # NoTemplate =>
                               template[generation[g].asked].state = "deleted")
  BY DEF TemplatesInv, DefaultsAreExplained, DoesWithout
<1>7. /\ state(phase, seen).phase = phase /\ state(phase, seen).seen = seen
      /\ state(phase, seen).asked = generation[g].asked /\ state(phase, seen).template = t
  BY <1>1 DEF GenerationState
<1> HIDE DEF state
<1> QED
  BY <1>1, <1>2, <1>3, <1>4, <1>5, <1>6, <1>7, GenerationStepInv

LEMMA PersistTemplatesInv ==
    ASSUME TemplatesInv, NEW g \in Generations, Persist(g)
    PROVE  TemplatesInv'
<1> DEFINE seen == generation[g].seen
           state == [generation[g] EXCEPT !.phase = "done"]
           row == [exists |-> TRUE, template |-> Loaded(g), version |-> seen.version,
                   content |-> seen.content]
<1>1. generation[g] \in GenerationState /\ seen \in TemplateRow
  BY DEF TemplatesInv, TemplatesTypeOK, GenerationState
<1>2. /\ UNCHANGED <<template, editor, deleter>>
      /\ report' = [report EXCEPT ![g] = row] /\ generation' = [generation EXCEPT ![g] = state]
      /\ generation[g].phase = "working"
  BY DEF Persist, TemplatesInv, TemplatesTypeOK
<1>3. /\ state \in GenerationState /\ state.phase = "done" /\ state.seen = seen
      /\ state.asked = generation[g].asked /\ state.template = generation[g].template
  BY <1>1 DEF GenerationState
<1>4. row \in ReportRow
  BY <1>1, ContentsAssumption DEF ReportRow, TemplateRow, GenerationState, Loaded
<1>5. seen.state # "absent" => seen.content \in Contents
  BY DEF TemplatesInv, LoadsAreStored
<1>6. row.exists /\ row.content = NoContent => seen.state = "absent"
  BY <1>5, ContentsAssumption
<1>7. /\ generation[g].template \in {generation[g].asked, NoTemplate}
      /\ generation[g].template = NoTemplate \/ seen.state = "absent"
         => (generation[g].asked # NoTemplate =>
               template[generation[g].asked].state = "deleted")
  BY <1>2 DEF TemplatesInv, DefaultsAreExplained, DoesWithout
<1> HIDE DEF state, row, seen
<1> QED
  BY <1>2, <1>3, <1>4, <1>5, <1>6, <1>7, GenerationStepInv

LEMMA FailTemplatesInv ==
    ASSUME TemplatesInv, NEW g \in Generations, Fail(g)
    PROVE  TemplatesInv'
<1> DEFINE state(phase) == [generation[g] EXCEPT !.phase = phase]
<1>1. generation[g] \in GenerationState /\ report[g] \in ReportRow
  BY DEF TemplatesInv, TemplatesTypeOK
<1>2. ~report[g].exists
  BY DEF Fail, TemplatesInv, ReportsComeLast
<1>3. UNCHANGED <<template, editor, deleter>> /\ report' = [report EXCEPT ![g] = report[g]]
  BY DEF Fail, TemplatesInv, TemplatesTypeOK
<1>4. PICK phase \in {"queued", "failed"} : generation' = [generation EXCEPT ![g] = state(phase)]
  BY DEF Fail, TemplatesInv, TemplatesTypeOK
<1>5. /\ state(phase) \in GenerationState /\ state(phase).phase = phase
      /\ state(phase).seen = generation[g].seen
      /\ state(phase).asked = generation[g].asked
      /\ state(phase).template = generation[g].template
  BY <1>1 DEF GenerationState
<1>6. /\ generation[g].seen.state # "absent" => generation[g].seen.content \in Contents
      /\ generation[g].template \in {generation[g].asked, NoTemplate}
      /\ generation[g].template = NoTemplate
         => (generation[g].asked # NoTemplate =>
               template[generation[g].asked].state = "deleted")
  BY DEF TemplatesInv, LoadsAreStored, DefaultsAreExplained, DoesWithout
<1> HIDE DEF state
<1> QED
  BY <1>1, <1>2, <1>3, <1>4, <1>5, <1>6, GenerationStepInv

LEMMA NextTemplatesInv == TemplatesInv /\ [TemplatesNext]_templateVars => TemplatesInv'
<1> SUFFICES ASSUME TemplatesInv, [TemplatesNext]_templateVars PROVE TemplatesInv'
  OBVIOUS
<1>1. CASE UNCHANGED templateVars
  <2>1. TemplatesTypeOK' /\ LoadsAreStored'
    BY <1>1 DEF TemplatesInv, TemplatesTypeOK, LoadsAreStored, StoredTemplate, templateVars
  <2>2. DefaultsAreExplained' /\ ReportsComeLast'
    BY <1>1, TemplateStepExplains DEF templateVars
  <2> QED
    BY <2>1, <2>2 DEF TemplatesInv
<1>2. CASE TemplatesNext
  BY <1>2, UploadTemplatesInv, LoadForEditTemplatesInv, RejectEditTemplatesInv,
     WriteEditTemplatesInv, CountingTemplatesInv, DeleteUnusedTemplatesInv, BeginTemplatesInv,
     StartTemplatesInv, PersistTemplatesInv, FailTemplatesInv
     DEF TemplatesNext
<1> QED
  BY <1>1, <1>2

\* Type correctness, with versions that stay within the bound on edits.
THEOREM TemplatesTypeCorrect == TemplatesSpec => []TemplatesTypeOK
<1>1. TemplatesInv => TemplatesTypeOK
  BY DEF TemplatesInv
<1> QED
  BY <1>1, InitTemplatesInv, NextTemplatesInv, PTL DEF TemplatesSpec

\* However edits, deletions, failures and further attempts interleave, a report that was
\* asked for with a template falls back to the default only when that template is gone.
THEOREM DefaultsAreNotSilent == TemplatesSpec => []NoSilentDefault
<1>1. TemplatesInv => NoSilentDefault
  BY DEF TemplatesInv, DefaultsAreExplained, DoesWithout, NoSilentDefault
<1> QED
  BY <1>1, InitTemplatesInv, NextTemplatesInv, PTL DEF TemplatesSpec

-----------------------------------------------------------------------------
(* While edits do not overlap, a version of a template names one content.    *)

EditsDoNotOverlap == \A e, f \in Editors : e = f

Text(row) == [version |-> row.version, content |-> row.content]

\* The texts of t that anything holds: its row, reports, and generations at work.
Copies(t) ==
    (IF template[t].state = "absent" THEN {} ELSE {Text(template[t])})
    \cup {Text(report[g]) : g \in ReportsUsing(t)}
    \cup {Text(generation[g].seen) :
            g \in {h \in Generations : generation[h].phase = "working" /\ Loaded(h) = t}}

\* No copy is newer than the row, and a version has one content.
CopiesAgree(t) ==
    /\ template[t].state = "absent" => Copies(t) = {}
    /\ \A c \in Copies(t) : c.version <= template[t].version
    /\ \A c, d \in Copies(t) : c.version = d.version => c.content = d.content

\* What an edit has loaded is not stale.
EditsAreCurrent ==
    \A e \in Editors : editor[e].phase = "editing" =>
        LET t == editor[e].template IN
        /\ template[t].state # "absent"
        /\ Text(template[t]) = Text(editor[e].seen)

VersionsInv == TemplatesInv /\ (\A t \in Templates : CopiesAgree(t)) /\ EditsAreCurrent

\* What counts as a copy, without the comprehensions.
LEMMA CopyCases ==
    ASSUME NEW t
    PROVE  /\ template[t].state # "absent" => Text(template[t]) \in Copies(t)
           /\ \A g \in Generations :
                 /\ report[g].exists /\ report[g].template = t => Text(report[g]) \in Copies(t)
                 /\ generation[g].phase = "working" /\ Loaded(g) = t
                       => Text(generation[g].seen) \in Copies(t)
           /\ \A c \in Copies(t) :
                 \/ template[t].state # "absent" /\ c = Text(template[t])
                 \/ \E g \in Generations :
                       report[g].exists /\ report[g].template = t /\ c = Text(report[g])
                 \/ \E g \in Generations :
                       /\ generation[g].phase = "working" /\ Loaded(g) = t
                       /\ c = Text(generation[g].seen)
BY DEF Copies, ReportsUsing

LEMMA CopiesAreTexts ==
    ASSUME TemplatesTypeOK, NEW t \in Templates
    PROVE  \A c \in Copies(t) : c.version \in Nat
<1>1. /\ template[t].version \in Nat
      /\ \A g \in Generations : report[g].version \in Nat /\ generation[g].seen.version \in Nat
  BY ContentsAssumption DEF TemplatesTypeOK, TemplateRow, ReportRow, GenerationState
<1>2. \A row : Text(row).version = row.version
  BY DEF Text
<1> QED
  BY <1>1, <1>2, CopyCases

\* A step that makes no copy of t and leaves its text alone.
LEMMA NoNewCopies ==
    ASSUME NEW t \in Templates, CopiesAgree(t), Copies(t)' \subseteq Copies(t),
           template'[t].version = template[t].version,
           template'[t].state = "absent" => template[t].state = "absent"
    PROVE  CopiesAgree(t)'
BY DEF CopiesAgree

LEMMA InitVersionsInv == TemplatesInit => VersionsInv
<1> SUFFICES ASSUME TemplatesInit PROVE VersionsInv
  OBVIOUS
<1>1. ASSUME NEW t \in Templates PROVE Copies(t) = {}
  BY CopyCases DEF TemplatesInit, AbsentTemplate
<1>2. EditsAreCurrent
  BY DEF TemplatesInit, IdleEditor, EditsAreCurrent
<1> QED
  BY <1>1, <1>2, InitTemplatesInv DEF VersionsInv, CopiesAgree

\* A step of requests alone: templates, generations and reports stay.
LEMMA RequestStepVersions ==
    ASSUME VersionsInv, UNCHANGED <<template, generation, report>>
    PROVE  \A t \in Templates : CopiesAgree(t)'
<1> SUFFICES ASSUME NEW t \in Templates PROVE CopiesAgree(t)'
  OBVIOUS
<1>1. Copies(t)' = Copies(t)
  BY DEF Copies, ReportsUsing, Loaded
<1> QED
  BY <1>1, NoNewCopies DEF VersionsInv

\* A step of generations that leaves the templates' texts alone.
LEMMA QuietEdits ==
    ASSUME VersionsInv, UNCHANGED editor,
           \A t \in Templates : /\ Text(template[t])' = Text(template[t])
                                /\ template'[t].state = "absent" => template[t].state = "absent"
    PROVE  EditsAreCurrent'
<1>1. ASSUME NEW e \in Editors, editor[e].phase = "editing" PROVE editor[e].template \in Templates
  BY <1>1 DEF VersionsInv, TemplatesInv, LoadsAreStored
<1> QED
  BY <1>1 DEF VersionsInv, EditsAreCurrent, Text

LEMMA UploadVersions ==
    ASSUME VersionsInv, NEW u \in Templates, NEW c \in Contents, Upload(u, c)
    PROVE  (\A t \in Templates : CopiesAgree(t)') /\ EditsAreCurrent'
<1> USE DEF Upload
<1>1. template \in [Templates -> TemplateRow]
  BY DEF VersionsInv, TemplatesInv, TemplatesTypeOK
<1>2. ASSUME NEW t \in Templates, t # u PROVE CopiesAgree(t)'
  <2>1. template'[t] = template[t]
    BY <1>1, <1>2
  <2>2. Copies(t)' = Copies(t)
    BY <2>1 DEF Copies, ReportsUsing, Loaded
  <2> QED
    BY <2>1, <2>2, NoNewCopies DEF VersionsInv
<1>3. CopiesAgree(u)'
  <2>1. Copies(u) = {}
    BY DEF VersionsInv, CopiesAgree
  <2>2. template'[u] = [state |-> "present", version |-> 1, content |-> c]
    BY <1>1
  <2>3. Copies(u)' \subseteq {Text(template'[u])}
    BY <2>1, <2>2 DEF Copies, ReportsUsing, Loaded
  <2> QED
    BY <2>2, <2>3 DEF CopiesAgree, Text
<1>4. EditsAreCurrent'
  BY <1>1 DEF VersionsInv, TemplatesInv, LoadsAreStored, EditsAreCurrent, Text
<1> QED
  BY <1>2, <1>3, <1>4

\* An edit that overlaps no other one writes a version that no copy has.
LEMMA WriteEditVersions ==
    ASSUME VersionsInv, EditsDoNotOverlap, NEW e \in Editors, WriteEdit(e)
    PROVE  (\A t \in Templates : CopiesAgree(t)') /\ EditsAreCurrent'
<1>1. PICK u : u = editor[e].template
  OBVIOUS
<1>2. PICK row : row = Edited(template[u], editor[e].seen, editor[e].content)
  OBVIOUS
<1>3. EditsAreCurrent'
  BY IdleEditorIsTyped DEF EditsDoNotOverlap, WriteEdit, VersionsInv, TemplatesInv, TemplatesTypeOK,
     EditsAreCurrent
<1>4. UNCHANGED <<generation, report>>
  BY DEF WriteEdit
<1>5. CASE ~Present(u)
  BY <1>1, <1>3, <1>5, RequestStepVersions DEF WriteEdit
<1>6. CASE Present(u)
  <2>1. /\ u \in Templates /\ editor[e].content \in Contents /\ editor[e].seen \in TemplateRow
        /\ editor[e].seen.version < MaxVersion
    BY <1>1, <1>6, <1>2 DEF WriteEdit, VersionsInv, TemplatesInv, TemplatesTypeOK, LoadsAreStored, EditorState
  <2>2. /\ template[u] \in TemplateRow /\ template[u].state = "present"
        /\ template[u].content \in Contents
    BY <1>1, <1>6, <2>1 DEF Present, VersionsInv, TemplatesInv, TemplatesTypeOK, LoadsAreStored,
                      StoredTemplate
  <2>3. row.state = "present" /\ row.version = editor[e].seen.version + 1
    BY <1>2, <2>1, <2>2, EditedIsStored
  <2>4. editor[e].seen.version = template[u].version /\ template[u].version \in Nat
    <3>1. Text(template[u]) = Text(editor[e].seen)
      BY <1>1 DEF WriteEdit, VersionsInv, EditsAreCurrent
    <3> QED
      BY <2>2, <3>1 DEF Text, TemplateRow
  <2>5. template' = [template EXCEPT ![u] = row]
    BY <1>1, <1>6, <1>2 DEF WriteEdit
  <2>6. /\ template'[u] = row
        /\ \A t \in Templates \ {u} : template'[t] = template[t]
    BY <2>1, <2>5 DEF VersionsInv, TemplatesInv, TemplatesTypeOK
  <2>7. ASSUME NEW t \in Templates, t # u PROVE CopiesAgree(t)'
    <3>1. Copies(t)' = Copies(t)
      BY <1>4, <2>6, <2>7 DEF Copies, ReportsUsing, Loaded
    <3> QED
      BY <2>6, <2>7, <3>1, NoNewCopies DEF VersionsInv
  <2>8. CopiesAgree(u)'
    <3>1. Copies(u)' \subseteq Copies(u) \cup {Text(row)}
      BY <1>4, <2>6 DEF Copies, ReportsUsing, Loaded
    <3>2. \A c \in Copies(u) : c.version \in Nat /\ c.version < row.version
      BY <2>1, <2>3, <2>4, CopiesAreTexts DEF VersionsInv, TemplatesInv, CopiesAgree
    <3>3. Text(row).version = row.version /\ row.version \in Nat
      BY <2>3, <2>4 DEF Text
    <3>4. \A c, d \in Copies(u) : c.version = d.version => c.content = d.content
      BY <2>1 DEF VersionsInv, CopiesAgree
    <3>5. template'[u].state = "present" /\ template'[u].version = row.version
      BY <2>3, <2>6
    <3>6. \A c \in Copies(u)' : c \in Copies(u) \/ c = Text(row)
      BY <3>1
    <3>7. \A c \in Copies(u)' : c.version <= row.version
      BY <3>2, <3>3, <3>6
    <3>8. \A c, d \in Copies(u)' : c.version = d.version => c.content = d.content
      BY <3>2, <3>3, <3>4, <3>6
    <3> QED
      BY <3>5, <3>7, <3>8 DEF CopiesAgree
  <2> QED
    BY <1>3, <2>7, <2>8
<1> QED
  BY <1>5, <1>6

\* The copies of t after a step of one generation that leaves templates alone.
LEMMA GenerationStepVersions ==
    ASSUME VersionsInv, UNCHANGED <<template, editor>>, NEW g \in Generations,
           \A h \in Generations \ {g} : generation'[h] = generation[h] /\ report'[h] = report[h],
           \A t \in Templates :
               /\ report'[g].exists /\ report'[g].template = t => Text(report'[g]) \in Copies(t)
               /\ generation'[g].phase = "working" /\ Loaded(g)' = t
                     => Text(generation'[g].seen) \in Copies(t)
    PROVE  (\A t \in Templates : CopiesAgree(t)') /\ EditsAreCurrent'
<1>1. EditsAreCurrent'
  BY DEF VersionsInv, EditsAreCurrent
<1>2. ASSUME NEW t \in Templates PROVE CopiesAgree(t)'
  <2>1. ASSUME NEW h \in Generations \ {g} PROVE Loaded(h)' = Loaded(h)
    BY DEF Loaded
  <2>2. ASSUME NEW c \in Copies(t)' PROVE c \in Copies(t)
    <3>1. \/ template[t].state # "absent" /\ c = Text(template[t])
          \/ \E h \in Generations :
                report'[h].exists /\ report'[h].template = t /\ c = Text(report'[h])
          \/ \E h \in Generations :
                /\ generation'[h].phase = "working" /\ Loaded(h)' = t
                /\ c = Text(generation'[h].seen)
      BY <2>2 DEF Copies, ReportsUsing
    <3>2. CASE template[t].state # "absent" /\ c = Text(template[t])
      BY <3>2, CopyCases
    <3>3. ASSUME NEW h \in Generations,
                 \/ report'[h].exists /\ report'[h].template = t /\ c = Text(report'[h])
                 \/ /\ generation'[h].phase = "working" /\ Loaded(h)' = t
                    /\ c = Text(generation'[h].seen)
          PROVE  c \in Copies(t)
      BY <2>1, <3>3, CopyCases
    <3> QED
      BY <3>1, <3>2, <3>3
  <2> QED
    BY <2>2, NoNewCopies DEF VersionsInv
<1> QED
  BY <1>1, <1>2

\* Neither a generation at work nor a new report.
LEMMA WorklessStepVersions ==
    ASSUME VersionsInv, NEW g \in Generations, NEW t \in Templates \cup {NoTemplate},
           Accept(g, t) \/ Ask(g, t) \/ Fail(g)
    PROVE  (\A u \in Templates : CopiesAgree(u)') /\ EditsAreCurrent'
<1>1. UNCHANGED <<template, editor, report>>
  BY DEF Accept, Ask, Fail
<1>2. /\ generation'[g].phase # "working"
      /\ \A h \in Generations \ {g} : generation'[h] = generation[h]
  BY DEF Accept, Ask, Fail, VersionsInv, TemplatesInv, TemplatesTypeOK, GenerationState
<1>3. \A u \in Templates :
        report[g].exists /\ report[g].template = u => Text(report[g]) \in Copies(u)
  BY CopyCases
<1> QED
  BY <1>1, <1>2, <1>3, GenerationStepVersions

LEMMA StartVersions ==
    ASSUME VersionsInv, NEW g \in Generations, Start(g)
    PROVE  (\A t \in Templates : CopiesAgree(t)') /\ EditsAreCurrent'
<1>1. UNCHANGED <<template, editor, report>>
  BY DEF Start
<1>2. generation \in [Generations -> GenerationState]
  BY DEF VersionsInv, TemplatesInv, TemplatesTypeOK
<1>3. \A h \in Generations \ {g} : generation'[h] = generation[h]
  BY <1>2 DEF Start
<1>4. \A t \in Templates :
        report[g].exists /\ report[g].template = t => Text(report[g]) \in Copies(t)
  BY CopyCases
<1>5. ASSUME NEW t \in Templates, generation'[g].phase = "working", Loaded(g)' = t
      PROVE  Text(generation'[g].seen) \in Copies(t)
  <2>1. PICK u : u = generation[g].template
    OBVIOUS
  <2>2. generation[g].asked = t
    <3>1. generation'[g].asked = t
      BY <1>5, NoTemplateAssumption DEF Loaded
    <3>2. generation'[g].asked = generation[g].asked
      BY <1>2 DEF Start, Working, GenerationState
    <3> QED
      BY <3>1, <3>2
  <2>3. CASE u = NoTemplate
    <3>1. generation'[g].seen = AbsentTemplate
      BY <1>2, <2>1, <2>3 DEF Start, Working, GenerationState
    <3> QED
      BY <1>5, <3>1, NoTemplateAssumption DEF Loaded, AbsentTemplate
  <2>4. CASE Present(u)
    <3>1. u = t
      BY <2>1, <2>2, <2>4 DEF VersionsInv, TemplatesInv, DefaultsAreExplained, Present
    <3>2. generation'[g].seen = template[t]
      BY <1>2, <2>1, <2>4, <3>1 DEF Start, Present, Working, GenerationState
    <3>3. template[t].state # "absent"
      BY <2>4, <3>1 DEF Present
    <3> QED
      BY <3>2, <3>3, CopyCases
  <2>5. CASE u # NoTemplate /\ ~Present(u)
    BY <1>2, <1>5, <2>1, <2>5 DEF Start, Present, GenerationState
  <2> QED
    BY <2>3, <2>4, <2>5 DEF Present
<1> QED
  BY <1>1, <1>3, <1>4, <1>5, GenerationStepVersions

LEMMA PersistVersions ==
    ASSUME VersionsInv, NEW g \in Generations, Persist(g)
    PROVE  (\A t \in Templates : CopiesAgree(t)') /\ EditsAreCurrent'
<1>1. /\ generation \in [Generations -> GenerationState]
      /\ report \in [Generations -> ReportRow]
  BY DEF VersionsInv, TemplatesInv, TemplatesTypeOK
<1>2. UNCHANGED <<template, editor>>
  BY DEF Persist
<1>3. /\ generation'[g].phase = "done"
      /\ \A h \in Generations \ {g} : generation'[h] = generation[h] /\ report'[h] = report[h]
  BY <1>1 DEF Persist, GenerationState
<1>4. /\ report'[g].template = Loaded(g)
      /\ Text(report'[g]) = Text(generation[g].seen)
      /\ generation[g].phase = "working"
  BY <1>1 DEF Persist, Text
<1>5. \A t \in Templates :
        report'[g].exists /\ report'[g].template = t => Text(report'[g]) \in Copies(t)
  BY <1>4, CopyCases
<1> QED
  BY <1>2, <1>3, <1>5, GenerationStepVersions

LEMMA DeleteUnusedVersions ==
    ASSUME VersionsInv, NEW d \in Deleters, DeleteUnused(d)
    PROVE  (\A t \in Templates : CopiesAgree(t)') /\ EditsAreCurrent'
<1>1. PICK u : u = deleter[d].template
  OBVIOUS
<1>2. CASE ~Present(u)
  <2>1. UNCHANGED <<template, editor, generation, report>>
    BY <1>1, <1>2 DEF DeleteUnused
  <2> QED
    BY <2>1, RequestStepVersions, QuietEdits
<1>3. CASE Present(u)
  <2>1. u \in Templates
    BY <1>1 DEF DeleteUnused, VersionsInv, TemplatesInv, LoadsAreStored
  <2>2. /\ template \in [Templates -> TemplateRow]
        /\ generation \in [Generations -> GenerationState]
        /\ report \in [Generations -> ReportRow]
    BY DEF VersionsInv, TemplatesInv, TemplatesTypeOK
  <2>3. template' = [template EXCEPT ![u].state = "deleted"] /\ UNCHANGED editor
    BY <1>1, <1>3 DEF DeleteUnused
  <2>4. ASSUME NEW t \in Templates
        PROVE  /\ Text(template[t])' = Text(template[t])
               /\ template'[t].state = "absent" => template[t].state = "absent"
               /\ template'[t].version = template[t].version
               /\ template'[t].state # "absent" /\ template[t].state = "absent" => FALSE
    BY <1>3, <2>1, <2>2, <2>3 DEF Text, TemplateRow, Present
  <2>5. ASSUME NEW g \in Generations
        PROVE  /\ generation'[g] \in {generation[g], [generation[g] EXCEPT !.template = NoTemplate]}
               /\ report'[g] \in {report[g], [report[g] EXCEPT !.template = NoTemplate]}
    BY <1>1, <1>3 DEF DeleteUnused
  <2>6. ASSUME NEW g \in Generations
        PROVE  /\ generation'[g].phase = generation[g].phase
               /\ generation'[g].seen = generation[g].seen
               /\ generation'[g].asked = generation[g].asked
               /\ report'[g].exists = report[g].exists
               /\ Text(report[g])' = Text(report[g])
               /\ report'[g].template \in {report[g].template, NoTemplate}
    BY <2>2, <2>5 DEF GenerationState, ReportRow, Text
  <2>7. ASSUME NEW g \in Generations PROVE Loaded(g)' = Loaded(g)
    BY <2>6 DEF Loaded
  <2>8. ASSUME NEW t \in Templates PROVE CopiesAgree(t)'
    <3>1. Copies(t)' \subseteq Copies(t)
      <4>1. t # NoTemplate
        BY NoTemplateAssumption
      <4> QED
        BY <2>4, <2>6, <2>7, <4>1 DEF Copies, ReportsUsing
    <3> QED
      BY <2>4, <3>1, NoNewCopies DEF VersionsInv
  <2> QED
    BY <2>3, <2>4, <2>8, QuietEdits
<1> QED
  BY <1>2, <1>3

LEMMA NextVersionsInv ==
    ASSUME EditsDoNotOverlap
    PROVE  VersionsInv /\ [TemplatesNext]_templateVars => VersionsInv'
<1> SUFFICES ASSUME VersionsInv, [TemplatesNext]_templateVars
             PROVE  (\A t \in Templates : CopiesAgree(t)') /\ EditsAreCurrent'
  BY NextTemplatesInv DEF VersionsInv
<1>1. CASE UNCHANGED templateVars
  BY <1>1, RequestStepVersions, QuietEdits DEF templateVars
<1>2. ASSUME NEW e \in Editors, NEW t \in Templates, NEW c \in Contents, LoadForEdit(e, t, c)
      PROVE  (\A u \in Templates : CopiesAgree(u)') /\ EditsAreCurrent'
  <2>1. EditsAreCurrent'
    BY <1>2 DEF LoadForEdit, Present, VersionsInv, TemplatesInv, TemplatesTypeOK, EditsAreCurrent
  <2> QED
    BY <1>2, <2>1, RequestStepVersions DEF LoadForEdit
<1>3. ASSUME NEW e \in Editors, RejectEdit(e)
      PROVE  (\A u \in Templates : CopiesAgree(u)') /\ EditsAreCurrent'
  <2>1. EditsAreCurrent'
    BY <1>3, IdleEditorIsTyped
       DEF RejectEdit, VersionsInv, TemplatesInv, TemplatesTypeOK, EditsAreCurrent
  <2> QED
    BY <1>3, <2>1, RequestStepVersions DEF RejectEdit
<1>4. ASSUME NEW d \in Deleters,
             CountReports(d) \/ CountJobs(d) \/ \E t \in Templates : LoadForDelete(d, t)
      PROVE  (\A u \in Templates : CopiesAgree(u)') /\ EditsAreCurrent'
  <2>1. UNCHANGED <<template, editor, generation, report>>
    BY <1>4 DEF CountReports, CountJobs, LoadForDelete
  <2> QED
    BY <2>1, RequestStepVersions, QuietEdits
<1>5. CASE TemplatesNext
  BY <1>2, <1>3, <1>4, <1>5, UploadVersions, WriteEditVersions, DeleteUnusedVersions,
     WorklessStepVersions, StartVersions, PersistVersions
     DEF TemplatesNext
<1> QED
  BY <1>1, <1>5

\* While edits do not overlap, the version in a report tells which content it was
\* rendered with, whatever deletions and further attempts there are.
THEOREM VersionsNameContents == EditsDoNotOverlap => (TemplatesSpec => []VersionNamesContent)
<1> SUFFICES ASSUME EditsDoNotOverlap PROVE TemplatesSpec => []VersionNamesContent
  OBVIOUS
<1>1. VersionsInv => VersionNamesContent
  <2> SUFFICES ASSUME VersionsInv, NEW g \in Generations, report[g].exists,
                      report[g].template # NoTemplate
               PROVE  LET t == report[g].template IN
                      /\ report[g].version = template[t].version =>
                            report[g].content = template[t].content
                      /\ \A h \in Generations :
                            /\ report[h].exists /\ report[h].template = t
                            /\ report[h].version = report[g].version
                            => report[h].content = report[g].content
    BY DEF VersionNamesContent
  <2>1. PICK t \in Templates : t = report[g].template
    BY DEF VersionsInv, TemplatesInv, TemplatesTypeOK, ReportRow
  <2>2. \A h \in Generations :
          report[h].exists /\ report[h].template = t => Text(report[h]) \in Copies(t)
    BY CopyCases
  <2>3. Text(template[t]) \in Copies(t)
    BY <2>1, <2>2, CopyCases DEF VersionsInv, CopiesAgree
  <2>4. \A c, d \in Copies(t) : c.version = d.version => c.content = d.content
    BY DEF VersionsInv, CopiesAgree
  <2>5. \A row : Text(row).version = row.version /\ Text(row).content = row.content
    BY DEF Text
  <2> QED
    BY <2>1, <2>2, <2>3, <2>4, <2>5
<1>2. VersionsInv /\ [TemplatesNext]_templateVars => VersionsInv'
  BY NextVersionsInv
<1> QED
  BY <1>1, <1>2, InitVersionsInv, PTL DEF TemplatesSpec

-----------------------------------------------------------------------------
(* Profiles.                                                                 *)

\* An update that has loaded a profile has a row and a patch for it.
LoadsAreRows ==
    \A u \in Updates : update[u].phase = "loaded" =>
        update[u].profile \in Profiles /\ update[u].seen \in Rows /\ update[u].patch \in Patches

ProfilesInv == ProfilesTypeOK /\ LoadsAreRows /\ CompleteUnlessMixed

\* A row is a function on the fields, into the values of its columns.
LEMMA RowFunctions ==
    /\ \A row \in Rows : row = [f \in Fields |-> row[f]] /\ \A f \in Fields : row[f] \in ColumnValues[f]
    /\ \A value : (\A f \in Fields : value[f] \in ColumnValues[f]) => [f \in Fields |-> value[f]] \in Rows
<1>1. \A f \in Fields : ColumnValues[f] \subseteq UNION {ColumnValues[g] : g \in Fields}
  OBVIOUS
<1>2. ASSUME NEW value, \A f \in Fields : value[f] \in ColumnValues[f]
      PROVE  [f \in Fields |-> value[f]] \in Rows
  <2>1. [f \in Fields |-> value[f]] \in [Fields -> UNION {ColumnValues[f] : f \in Fields}]
    BY <1>1, <1>2
  <2> QED
    BY <1>2, <2>1 DEF Rows
<1> QED
  BY <1>2 DEF Rows

LEMMA OverlayIsRow ==
    ASSUME NEW row \in Rows, NEW patch \in Patches
    PROVE  Overlay(row, patch) \in Rows
<1>1. \A f \in Fields : Overlay(row, patch)[f] \in ColumnValues[f]
  BY RowFunctions, RowsAssumption DEF Overlay
<1>2. Overlay(row, patch) = [f \in Fields |-> Overlay(row, patch)[f]]
  BY DEF Overlay
<1> QED
  BY <1>1, <1>2, RowFunctions

LEMMA OrmWriteIsRow ==
    ASSUME NEW current \in Rows, NEW seen \in Rows, NEW wanted \in Rows
    PROVE  /\ OrmWrite(current, seen, wanted) \in Rows
           /\ current = seen => OrmWrite(current, seen, wanted) = wanted
           /\ \A f \in Fields : wanted[f] = seen[f] => OrmWrite(current, seen, wanted)[f] = current[f]
<1> DEFINE written == OrmWrite(current, seen, wanted)
<1>1. written = [f \in Fields |-> IF wanted[f] = seen[f] THEN current[f] ELSE wanted[f]]
  BY DEF OrmWrite
<1>2. \A f \in Fields : written[f] \in ColumnValues[f]
  BY <1>1, RowFunctions
<1>3. written = [f \in Fields |-> written[f]]
  BY <1>1
<1>4. wanted = [f \in Fields |-> wanted[f]]
  BY RowFunctions
<1>5. current = seen => \A f \in Fields : written[f] = wanted[f]
  BY <1>1
<1>6. \A f \in Fields : wanted[f] = seen[f] => written[f] = current[f]
  BY <1>1
<1> HIDE DEF written
<1>7. written \in Rows
  BY <1>2, <1>3, RowFunctions
<1>8. current = seen => written = wanted
  BY <1>3, <1>4, <1>5
<1> QED
  BY <1>6, <1>7, <1>8 DEF written

\* The scope does not depend on the template.
LEMMA TemplateIsNoScope ==
    ASSUME NEW row \in Rows
    PROVE  LET dropped == [row EXCEPT !["template_id"] = NoTemplate] IN
           dropped \in Rows /\ (ValidScope(dropped) <=> ValidScope(row))
<1> DEFINE dropped == [row EXCEPT !["template_id"] = NoTemplate]
<1>1. "template_id" \in Fields /\ NoTemplate \in ColumnValues["template_id"]
  BY DEF Fields, ColumnValues
<1>2. row = [f \in Fields |-> row[f]] /\ \A f \in Fields : row[f] \in ColumnValues[f]
  BY RowFunctions
<1>3. /\ dropped = [f \in Fields |-> dropped[f]]
      /\ \A f \in Fields : dropped[f] = IF f = "template_id" THEN NoTemplate ELSE row[f]
  BY <1>2
<1> HIDE DEF dropped
<1>4. \A f \in Fields : dropped[f] \in ColumnValues[f]
  BY <1>1, <1>2, <1>3
<1>5. dropped \in Rows
  BY <1>3, <1>4, RowFunctions
<1>6. /\ dropped["board_id"] = row["board_id"] /\ dropped["sprint_id"] = row["sprint_id"]
      /\ dropped["connector"] = row["connector"]
  BY <1>3 DEF Fields
<1>7. ValidScope(dropped) <=> ValidScope(row)
  BY <1>6 DEF ValidScope
<1> QED
  BY <1>5, <1>7 DEF dropped

LEMMA InitProfilesInv == ProfilesInit => ProfilesInv
BY RowsAssumption
   DEF ProfilesInit, ProfilesInv, ProfilesTypeOK, LoadsAreRows, CompleteUnlessMixed, UpdateState,
       IdleUpdate, Exists

\* What a write does to the profile it was loaded for.
LEMMA WrittenProfile ==
    ASSUME ProfilesInv, NEW u \in Updates, Write(u), NEW p, p = update[u].profile,
           profile' # profile
    PROVE  LET wanted == Overlay(update[u].seen, update[u].patch) IN
           /\ p \in Profiles /\ profile[p] \in Rows /\ wanted \in Rows /\ ValidScope(wanted)
           /\ profile' = [profile EXCEPT ![p] = OrmWrite(@, update[u].seen, wanted)]
           /\ OrmWrite(profile[p], update[u].seen, wanted) \in Rows
           /\ profile[p] = update[u].seen => profile'[p] = wanted
           /\ mixed' = IF profile[p] = update[u].seen THEN mixed ELSE mixed \cup {p}
<1> DEFINE wanted == Overlay(update[u].seen, update[u].patch)
<1>1. p \in Profiles /\ update[u].seen \in Rows /\ update[u].patch \in Patches
  BY DEF Write, ProfilesInv, LoadsAreRows
<1>2. wanted \in Rows
  BY <1>1, OverlayIsRow
<1>3. /\ Exists(p) /\ ValidScope(wanted)
      /\ profile' = [profile EXCEPT ![p] = OrmWrite(@, update[u].seen, wanted)]
      /\ mixed' = IF profile[p] = update[u].seen THEN mixed ELSE mixed \cup {p}
  BY DEF Write, Validates
<1>4. profile \in [Profiles -> Rows \cup {Absent, Gone}]
  BY DEF ProfilesInv, ProfilesTypeOK
<1>5. profile[p] \in Rows
  BY <1>1, <1>3, <1>4 DEF Exists
<1> HIDE DEF wanted
<1>6. /\ OrmWrite(profile[p], update[u].seen, wanted) \in Rows
      /\ profile[p] = update[u].seen => OrmWrite(profile[p], update[u].seen, wanted) = wanted
  BY <1>1, <1>2, <1>5, OrmWriteIsRow
<1>7. profile'[p] = OrmWrite(profile[p], update[u].seen, wanted)
  BY <1>1, <1>3, <1>4
<1> QED
  BY <1>1, <1>2, <1>3, <1>5, <1>6, <1>7 DEF wanted

LEMMA WriteProfilesInv ==
    ASSUME ProfilesInv, NEW u \in Updates, Write(u)
    PROVE  ProfilesInv'
<1>1. PICK p : p = update[u].profile
  OBVIOUS
<1>2. [IdleUpdate EXCEPT !.phase = "over"] \in UpdateState
  BY DEF UpdateState, IdleUpdate
<1>3. update' = [update EXCEPT ![u] = [IdleUpdate EXCEPT !.phase = "over"]] /\ present' = present
  BY DEF Write
<1>4. update' \in [Updates -> UpdateState] /\ LoadsAreRows'
  BY <1>2, <1>3 DEF ProfilesInv, ProfilesTypeOK, LoadsAreRows, IdleUpdate
<1>5. CASE profile' = profile
  <2>1. mixed \subseteq mixed' /\ mixed' \subseteq Profiles
    BY DEF Write, ProfilesInv, ProfilesTypeOK, LoadsAreRows
  <2> QED
    BY <1>3, <1>4, <1>5, <2>1 DEF ProfilesInv, ProfilesTypeOK, CompleteUnlessMixed, Exists
<1>6. CASE profile' # profile
  <2>1. PICK row, wanted \in Rows :
          /\ p \in Profiles /\ row \in Rows /\ ValidScope(wanted)
          /\ profile' = [profile EXCEPT ![p] = row]
          /\ profile[p] = update[u].seen => profile'[p] = wanted
          /\ mixed' = IF profile[p] = update[u].seen THEN mixed ELSE mixed \cup {p}
    BY <1>1, <1>6, WrittenProfile
  <2>2. ProfilesTypeOK'
    BY <1>3, <1>4, <2>1 DEF ProfilesInv, ProfilesTypeOK
  <2>3. CompleteUnlessMixed'
    BY <2>1 DEF ProfilesInv, ProfilesTypeOK, CompleteUnlessMixed, Exists
  <2> QED
    BY <1>4, <2>2, <2>3 DEF ProfilesInv
<1> QED
  BY <1>5, <1>6

LEMMA DropTemplateProfilesInv ==
    ASSUME ProfilesInv, NEW t \in Templates, DropTemplate(t)
    PROVE  ProfilesInv'
<1>1. UNCHANGED <<update, mixed>> /\ present' \subseteq Templates
  BY DEF DropTemplate, ProfilesInv, ProfilesTypeOK
<1>2. ASSUME NEW p \in Profiles
      PROVE  /\ profile'[p] \in Rows \cup {Absent, Gone}
             /\ Exists(p)' => Exists(p) /\ (ValidScope(profile[p]) => ValidScope(profile'[p]))
  <2>1. profile[p] \in Rows \cup {Absent, Gone}
    BY DEF ProfilesInv, ProfilesTypeOK
  <2>2. profile'[p] = IF Exists(p) /\ profile[p]["template_id"] = t
                      THEN [profile[p] EXCEPT !["template_id"] = NoTemplate]
                      ELSE profile[p]
    BY DEF DropTemplate
  <2> QED
    BY <2>1, <2>2, TemplateIsNoScope DEF Exists
<1>3. profile' = [p \in Profiles |-> profile'[p]]
  BY DEF DropTemplate
<1>4. profile' \in [Profiles -> Rows \cup {Absent, Gone}]
  BY <1>2, <1>3
<1> QED
  BY <1>1, <1>2, <1>4 DEF ProfilesInv, ProfilesTypeOK, LoadsAreRows, CompleteUnlessMixed

LEMMA NextProfilesInv == ProfilesInv /\ [ProfilesNext]_profileVars => ProfilesInv'
<1> SUFFICES ASSUME ProfilesInv, [ProfilesNext]_profileVars PROVE ProfilesInv'
  OBVIOUS
<1>1. ASSUME NEW p \in Profiles, NEW draft \in Drafts, Create(p, draft) PROVE ProfilesInv'
  BY <1>1, RowsAssumption
     DEF Create, ProfilesInv, ProfilesTypeOK, LoadsAreRows, CompleteUnlessMixed, Exists
<1>2. ASSUME NEW u \in Updates, NEW p \in Profiles, NEW patch \in Patches, Load(u, p, patch)
      PROVE  ProfilesInv'
  <2>1. profile[p] \in Rows
    BY <1>2 DEF Load, Exists, ProfilesInv, ProfilesTypeOK
  <2>2. [phase |-> "loaded", profile |-> p, seen |-> profile[p], patch |-> patch] \in UpdateState
    BY <2>1 DEF UpdateState
  <2> QED
    BY <1>2, <2>1, <2>2
       DEF Load, ProfilesInv, ProfilesTypeOK, LoadsAreRows, CompleteUnlessMixed, Exists
<1>3. ASSUME NEW p \in Profiles, DeleteProfile(p) PROVE ProfilesInv'
  BY <1>3 DEF DeleteProfile, ProfilesInv, ProfilesTypeOK, LoadsAreRows, CompleteUnlessMixed, Exists
<1>4. CASE UNCHANGED profileVars
  BY <1>4 DEF profileVars, ProfilesInv, ProfilesTypeOK, LoadsAreRows, CompleteUnlessMixed, Exists
<1> QED
  BY <1>1, <1>2, <1>3, <1>4, WriteProfilesInv, DropTemplateProfilesInv DEF ProfilesNext

\* Type correctness of profiles and of what updates have loaded.
THEOREM ProfilesTypeCorrect == ProfilesSpec => []ProfilesTypeOK
<1>1. ProfilesInv => ProfilesTypeOK
  BY DEF ProfilesInv
<1> QED
  BY <1>1, InitProfilesInv, NextProfilesInv, PTL DEF ProfilesSpec

\* A profile that no update wrote over another write can be generated from.
THEOREM UnmixedProfilesAreComplete == ProfilesSpec => []CompleteUnlessMixed
<1>1. ProfilesInv => CompleteUnlessMixed
  BY DEF ProfilesInv
<1> QED
  BY <1>1, InitProfilesInv, NextProfilesInv, PTL DEF ProfilesSpec

\* The end of an update changes no field it does not carry, and no other profile; it
\* brings no deleted one back.
THEOREM UpdatesKeepTheRest == ProfilesSpec => UpdateLeavesTheRest
<1> DEFINE Rest(u) ==
             update[u].phase = "loaded" /\ update'[u].phase = "over" =>
                \A p \in Profiles :
                   /\ ~Exists(p) => profile'[p] = profile[p]
                   /\ Exists(p) => \A f \in Fields : profile'[p][f] # profile[p][f] =>
                         p = update[u].profile /\ f \in DOMAIN update[u].patch
<1>1. ASSUME ProfilesInv, [ProfilesNext]_profileVars, NEW u \in Updates PROVE Rest(u)
  <2>1. update \in [Updates -> UpdateState] /\ profile \in [Profiles -> Rows \cup {Absent, Gone}]
    BY <1>1 DEF ProfilesInv, ProfilesTypeOK
  <2>2. CASE update'[u] = update[u] \/ update'[u].phase = "loaded"
    BY <2>2
  <2>3. CASE Write(u) /\ profile' # profile
    <3>1. PICK q : q = update[u].profile
      OBVIOUS
    <3>2. PICK wanted \in Rows :
            /\ wanted = Overlay(update[u].seen, update[u].patch)
            /\ q \in Profiles /\ profile[q] \in Rows /\ Exists(q) /\ update[u].seen \in Rows
            /\ profile' = [profile EXCEPT ![q] = OrmWrite(@, update[u].seen, wanted)]
      BY <1>1, <2>3, <3>1, WrittenProfile DEF Write, ProfilesInv, LoadsAreRows
    <3>3. \A f \in Fields \ DOMAIN update[u].patch : wanted[f] = update[u].seen[f]
      BY <3>2 DEF Overlay
    <3>4. \A f \in Fields : wanted[f] = update[u].seen[f] => profile'[q][f] = profile[q][f]
      BY <2>1, <3>2, OrmWriteIsRow
    <3>5. \A p \in Profiles \ {q} : profile'[p] = profile[p]
      BY <2>1, <3>2
    <3>6. \A p \in Profiles : ~Exists(p) => profile'[p] = profile[p]
      BY <3>2, <3>5
    <3>7. \A p \in Profiles : Exists(p) =>
             \A f \in Fields : profile'[p][f] # profile[p][f] =>
                p = update[u].profile /\ f \in DOMAIN update[u].patch
      BY <3>1, <3>3, <3>4, <3>5
    <3> QED
      BY <3>6, <3>7
  <2>4. CASE Write(u) /\ profile' = profile
    BY <2>4
  <2>5. CASE \E v \in Updates \ {u} : Write(v)
    <3>1. update'[u] = update[u]
      BY <2>1, <2>5 DEF Write
    <3> QED
      BY <2>2, <3>1
  <2>6. ASSUME NEW v \in Updates, NEW p \in Profiles, NEW patch \in Patches, Load(v, p, patch)
        PROVE  update'[u] = update[u] \/ update'[u].phase = "loaded"
    BY <2>1, <2>6 DEF Load
  <2>7. CASE UNCHANGED update
    BY <2>2, <2>7
  <2> QED
    BY <1>1, <2>2, <2>3, <2>4, <2>5, <2>6, <2>7
       DEF ProfilesNext, Create, DeleteProfile, DropTemplate, profileVars
<1>2. ProfilesInv /\ [ProfilesNext]_profileVars => \A u \in Updates : Rest(u)
  BY <1>1
<1>3. ProfilesSpec => [][\A u \in Updates : Rest(u)]_profileVars
  BY <1>2, InitProfilesInv, NextProfilesInv, PTL DEF ProfilesSpec
<1> QED
  BY <1>3 DEF UpdateLeavesTheRest

-----------------------------------------------------------------------------
(* The components of the API process side by side.                           *)

\* The invariants of the five components.
RequestsInv == TypeOK /\ StoreTypeOK /\ SlotsInv /\ TemplatesInv /\ ProfilesInv

\* Type correctness of the API process: whatever one component does leaves the others in
\* their domains.
THEOREM RequestsTypeCorrect == RequestsSpec => []TypesOK
<1>1. RequestsInit => RequestsInv
  BY InitTypeOK, InitStoreTypeOK, InitSlotsInv, InitTemplatesInv, InitProfilesInv
     DEF RequestsInit, RequestsInv
<1>2. RequestsInv /\ [RequestsNext]_allVars => RequestsInv'
  <2>1. [RequestsNext]_allVars => /\ [Next]_vars /\ [StoreNext]_storeVars /\ [SlotsNext]_slotVars
                                  /\ [TemplatesNext]_templateVars /\ [ProfilesNext]_profileVars
    BY DEF RequestsNext, Intakes, Stores, Renders, Edits, Bundles, allVars
  <2> QED
    BY <2>1, NextTypeOK, NextStoreTypeOK, NextSlotsInv, NextTemplatesInv, NextProfilesInv
       DEF RequestsInv
<1>3. RequestsInv => TypesOK
  BY SlotsInvTypes DEF RequestsInv, TypesOK, TemplatesInv, ProfilesInv
<1> QED
  BY <1>1, <1>2, <1>3, PTL DEF RequestsSpec
=============================================================================
