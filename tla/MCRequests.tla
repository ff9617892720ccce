------------------------------ MODULE MCRequests ------------------------------
(* Model-checking instance of what the API process does besides publishing
   jobs and webhooks: five components that share no state.  A behaviour is one
   of a single component, so their states add up instead of multiplying. *)
EXTENDS JobIntake, ConfigStore, RenderSlots, Templates, ReportProfiles, TLC

CONSTANTS
    Explored,   \* the components whose behaviours are explored
    n1, n2, t1  \* names and a template of the profiles below

VARIABLE component  \* the component whose behaviour this is

allVars == <<component, vars, storeVars, slotVars, templateVars, profileVars>>

Intakes ==
    component = "intake" /\ Next /\ UNCHANGED <<storeVars, slotVars, templateVars, profileVars>>
Stores ==
    component = "store" /\ StoreNext /\ UNCHANGED <<vars, slotVars, templateVars, profileVars>>
Renders ==
    component = "slots" /\ SlotsNext /\ UNCHANGED <<vars, storeVars, templateVars, profileVars>>
Edits ==
    component = "templates" /\ TemplatesNext /\ UNCHANGED <<vars, storeVars, slotVars, profileVars>>
Bundles ==
    component = "profiles" /\ ProfilesNext /\ UNCHANGED <<vars, storeVars, slotVars, templateVars>>

RequestsInit ==
    /\ component \in Explored
    /\ Init /\ (component # "intake" => templates = {})
    /\ StoreInit /\ SlotsInit /\ TemplatesInit /\ ProfilesInit

RequestsNext == (Intakes \/ Stores \/ Renders \/ Edits \/ Bundles) /\ UNCHANGED component

RequestsSpec ==
    RequestsInit /\ [][RequestsNext]_allVars /\ StoreFairness /\ SlotsFairness

\* Every variable of the five components holds values of its domain.
TypesOK == TypeOK /\ StoreTypeOK /\ SlotsTypeOK /\ TemplatesTypeOK /\ ProfilesTypeOK

-----------------------------------------------------------------------------
(* Values of constants                                                       *)

\* The settings of the Jira form are saved together, those of the others alone.
SettingKeys == {"JIRA_URL", "JIRA_API_TOKEN", "GITHUB_PAT"}
SettingGroups == {{"JIRA_URL", "JIRA_API_TOKEN"}, {"GITHUB_PAT"}}

Row(name, connector, board, sprint, t) ==
    [name |-> name, connector |-> connector, board_id |-> board, sprint_id |-> sprint,
     template_id |-> t]

\* Two profiles with different connectors, one with a template.
SomeDrafts ==
    {Row(n1, "jira", "key", "digits", t1), Row(n2, "github", "repo", "", NoTemplate)}

\* Updates that turn a profile to another connector, with and without the scope it
\* needs, take a part of its scope away, give it a sprint_id that only Asana takes,
\* rename it, or choose a template.
SomePatches ==
    {[connector |-> "github", board_id |-> "repo"], [connector |-> "asana"],
     [connector |-> "asana", board_id |-> "", sprint_id |-> "gid"],
     [connector |-> "jira", board_id |-> ""], [board_id |-> ""], [board_id |-> "key"],
     [sprint_id |-> ""], [sprint_id |-> "digits"], [sprint_id |-> "gid"],
     [name |-> n2], [template_id |-> t1], [template_id |-> NoTemplate]}
==============================================================================
