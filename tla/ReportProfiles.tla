---------------------------- MODULE ReportProfiles ----------------------------
(***************************************************************************)
(* Report profiles: named bundles of a connector, a scope and a template.  *)
(* An update carries some of the fields; the handler loads the row, checks *)
(* that the row with these fields is a valid profile, and stores it.       *)
(*                                                                         *)
(* The load and the write of an update are two steps, each one statement   *)
(* up to its commit.  A refused request changes nothing and is no step,    *)
(* unless it ends an update.  Output format and assigned_means_in_progress *)
(* are columns that nothing depends on and are left out.                   *)
(***************************************************************************)
EXTENDS TemplateIds

CONSTANTS
    Profiles,    \* ids of the report_profiles rows
    Updates,     \* requests to the update route
    Names,       \* names of profiles
    Absent,      \* a row not inserted yet, and what an idle update has loaded
    Gone,        \* a deleted row: ids do not come again
    Drafts,      \* the rows that create requests ask for
    Patches      \* the fields that update requests carry, with their values

VARIABLES
    profile,  \* the report_profiles table
    update,   \* what each update request has loaded and wants to write
    present,  \* the templates that exist
    mixed     \* history: the profiles written by an update after another write

profileVars == <<profile, update, present, mixed>>

-----------------------------------------------------------------------------

Fields == {"name", "connector", "board_id", "sprint_id", "template_id"}

\* An identifier is its shape: "key" a Jira project key, "repo" an owner/repo, "digits"
\* up to ten digits, "gid" eleven to nineteen.  No identifier has two of them.
Shapes == {"key", "repo", "digits", "gid"}

\* The shapes each connector takes for its board_id and for its sprint_id.
BoardShapes == [jira |-> {"key"}, asana |-> {"digits", "gid"}, github |-> {"repo"}]
SprintShapes == [jira |-> {"digits"}, asana |-> {"digits", "gid"}, github |-> {"digits"}]

\* The values of a column; "" stands for NULL, to which validation turns blanks.
ColumnValues ==
    [name |-> Names, connector |-> DOMAIN BoardShapes,
     board_id |-> Shapes \cup {""}, sprint_id |-> Shapes \cup {""},
     template_id |-> Templates \cup {NoTemplate}]

Rows == {row \in [Fields -> UNION {ColumnValues[f] : f \in Fields}] :
           \A f \in Fields : row[f] \in ColumnValues[f]}

\* What CreateReportProfileRequest and UpdateReportProfileRequest let through.
ASSUME RowsAssumption ==
    /\ Absent # Gone /\ {Absent, Gone} \cap Rows = {}
    /\ Drafts \subseteq Rows
    /\ \A patch \in Patches :
          DOMAIN patch \subseteq Fields /\ \A f \in DOMAIN patch : patch[f] \in ColumnValues[f]

UpdateState ==
    [phase : {"idle", "loaded", "over"}, profile : Profiles \cup {Absent},
     seen : Rows \cup {Absent}, patch : Patches \cup {Absent}]

IdleUpdate == [phase |-> "idle", profile |-> Absent, seen |-> Absent, patch |-> Absent]

\* validate_connector_scope, for identifiers in a shape of some connector.
ValidScope(row) ==
    /\ row["board_id"] # "" \/ row["sprint_id"] # ""
    /\ row["connector"] = "github" => row["board_id"] # ""
    /\ row["board_id"] \in BoardShapes[row["connector"]] \cup {""}
    /\ row["sprint_id"] \in SprintShapes[row["connector"]] \cup {""}

\* A row with the fields of a request in place of its own.
Overlay(row, patch) ==
    [f \in Fields |-> IF f \in DOMAIN patch THEN patch[f] ELSE row[f]]

\* Faulty variant of Validates: only what the request carries is checked.
ValidatesPatch(row, patch) ==
    {"board_id", "sprint_id"} \cap DOMAIN patch # {} => ValidScope(Overlay(row, patch))

\* A partial update has to form a complete profile with the row it was loaded from.
Validates(row, patch) == ValidScope(Overlay(row, patch))

\* Faulty variant of OrmWrite: every column is written.
OrmWriteAll(current, seen, wanted) == wanted

\* The UPDATE statement carries the columns whose value differs from the loaded one.
OrmWrite(current, seen, wanted) ==
    [f \in Fields |-> IF wanted[f] = seen[f] THEN current[f] ELSE wanted[f]]

Exists(p) == profile[p] \notin {Absent, Gone}

\* The unique name and the template's foreign key, of which the handlers report
\* either as a name that exists.
MeetsConstraints(p, row) ==
    /\ \A q \in Profiles \ {p} : Exists(q) => profile[q]["name"] # row["name"]
    /\ row["template_id"] \in present \cup {NoTemplate}

ProfilesInit ==
    /\ profile = [p \in Profiles |-> Absent]
    /\ update = [u \in Updates |-> IdleUpdate]
    /\ present = Templates
    /\ mixed = {}

-----------------------------------------------------------------------------

Create(p, draft) ==
    /\ profile[p] = Absent
    /\ ValidScope(draft) /\ MeetsConstraints(p, draft)
    /\ profile' = [profile EXCEPT ![p] = draft]
    /\ UNCHANGED <<update, present, mixed>>

Load(u, p, patch) ==
    /\ update[u].phase = "idle"
    /\ Exists(p)
    /\ update' = [update EXCEPT ![u] = [phase |-> "loaded", profile |-> p, seen |-> profile[p],
                                        patch |-> patch]]
    /\ UNCHANGED <<profile, present, mixed>>

\* The validated row is committed.  A row that is gone or a constraint that fails
\* makes the commit raise, unless there is nothing to write.
Write(u) ==
    LET p == update[u].profile
        seen == update[u].seen
        wanted == Overlay(seen, update[u].patch) IN
    /\ update[u].phase = "loaded"
    /\ update' = [update EXCEPT ![u] = [IdleUpdate EXCEPT !.phase = "over"]]
    /\ IF /\ Validates(seen, update[u].patch)
          /\ Exists(p)
          /\ MeetsConstraints(p, OrmWrite(profile[p], seen, wanted))
       THEN /\ profile' = [profile EXCEPT ![p] = OrmWrite(@, seen, wanted)]
            /\ mixed' = IF profile[p] = seen THEN mixed ELSE mixed \cup {p}
       ELSE UNCHANGED <<profile, mixed>>
    /\ UNCHANGED present

DeleteProfile(p) ==
    /\ Exists(p)
    /\ profile' = [profile EXCEPT ![p] = Gone]
    /\ UNCHANGED <<update, present, mixed>>

\* DELETE /api/templates/{id} does not count profiles; ON DELETE SET NULL turns them
\* to the default template.
DropTemplate(t) ==
    /\ t \in present
    /\ present' = present \ {t}
    /\ profile' = [p \in Profiles |->
                     IF Exists(p) /\ profile[p]["template_id"] = t
                     THEN [profile[p] EXCEPT !["template_id"] = NoTemplate]
                     ELSE profile[p]]
    /\ UNCHANGED <<update, mixed>>

ProfilesNext ==
    \/ \E p \in Profiles, draft \in Drafts : Create(p, draft)
    \/ \E u \in Updates, p \in Profiles, patch \in Patches : Load(u, p, patch)
    \/ \E u \in Updates : Write(u)
    \/ \E p \in Profiles : DeleteProfile(p)
    \/ \E t \in Templates : DropTemplate(t)

ProfilesSpec == ProfilesInit /\ [][ProfilesNext]_profileVars

-----------------------------------------------------------------------------
(* Properties                                                              *)

\* Every variable holds values of its domain.
ProfilesTypeOK ==
    /\ profile \in [Profiles -> Rows \cup {Absent, Gone}]
    /\ update \in [Updates -> UpdateState]
    /\ present \subseteq Templates
    /\ mixed \subseteq Profiles

\* A stored profile can be generated from: "a partial update still has to form a
\* valid *complete* profile" (update_profile).
ProfilesComplete == \A p \in Profiles : Exists(p) => ValidScope(profile[p])

\* What update_profile's check against the loaded row does achieve: a profile is
\* complete unless one of its updates was written over another's.
CompleteUnlessMixed ==
    \A p \in Profiles : Exists(p) /\ p \notin mixed => ValidScope(profile[p])

\* "An update only touches what's provided" (UpdateReportProfileRequest): the end of
\* an update leaves the fields it does not carry as they are now, also those that
\* another update or the deletion of a template has changed since it loaded the row,
\* and a row deleted since does not come back.
UpdateLeavesTheRest ==
    [][\A u \in Updates : update[u].phase = "loaded" /\ update'[u].phase = "over" =>
          \A p \in Profiles :
             /\ ~Exists(p) => profile'[p] = profile[p]
             /\ Exists(p) => \A f \in Fields : profile'[p][f] # profile[p][f] =>
                   p = update[u].profile /\ f \in DOMAIN update[u].patch]_profileVars
=============================================================================
