------------------------------ MODULE JobIntake ------------------------------
(***************************************************************************)
(* POST /api/report/jobs: requests that create a queued job, or are given  *)
(* the job of an earlier request with the same idempotency key             *)
(* (create_report_job).  The three statements of a request - look for the  *)
(* key, insert, look again after an integrity error - interleave with      *)
(* those of other requests and with the deletion of templates.             *)
(*                                                                         *)
(* A job is named by the request that inserted it.  Jobs are never deleted.*)
(***************************************************************************)
EXTENDS Naturals, FiniteSets, TemplateIds

CONSTANTS
    Requests,  \* the requests, a client's repetitions included
    Keys,      \* idempotency keys
    NoKey,     \* a request without idempotency key
    NoJob      \* the answer of a request that has none

ASSUME NamesAssumption == NoKey \notin Keys /\ NoJob \notin Requests

VARIABLES
    jobs,       \* the requests whose job is in report_jobs
    request,    \* what each request asks for and how far it is
    templates   \* the templates that exist

vars == <<jobs, request, templates>>

-----------------------------------------------------------------------------

\* "inserting": the key was not found.  "raced": the insert raised an integrity
\* error and was rolled back.  "refused": the handler raised.
RequestState ==
    [phase : {"idle", "inserting", "raced", "answered", "refused"},
     key : Keys \cup {NoKey},
     template : Templates \cup {NoTemplate},
     answer : Requests \cup {NoJob}]

IdleRequest == [phase |-> "idle", key |-> NoKey, template |-> NoTemplate, answer |-> NoJob]

Init ==
    /\ jobs = {}
    /\ request = [r \in Requests |-> IdleRequest]
    /\ templates \in SUBSET Templates

-----------------------------------------------------------------------------

\* The jobs whose idempotency_key is k; for NoKey the comparison is IS NULL.
WithKey(k) == {j \in jobs : request[j].key = k}

\* The constraints an insert has to meet: the template's foreign key and the
\* unique idempotency_key, which NULLs do not violate.
ReferenceExists(r) == request[r].template \in templates \cup {NoTemplate}

\* Faulty variant of KeyIsFree: idempotency_key is not unique.
KeyIsAnything(r) == TRUE

KeyIsFree(r) == request[r].key = NoKey \/ WithKey(request[r].key) = {}

-----------------------------------------------------------------------------

\* A request with a key whose job exists is answered with it; any other goes on to
\* insert.
Arrive(r, k, t) ==
    /\ request[r].phase = "idle"
    /\ k = NoKey \/ WithKey(k) = {}
    /\ request' = [request EXCEPT ![r].key = k, ![r].template = t, ![r].phase = "inserting"]
    /\ UNCHANGED <<jobs, templates>>

Replay(r, k, t) ==
    /\ request[r].phase = "idle"
    /\ k # NoKey
    /\ \E j \in WithKey(k) :
         request' = [request EXCEPT ![r] = [phase |-> "answered", key |-> k, template |-> t,
                                            answer |-> j]]
    /\ UNCHANGED <<jobs, templates>>

\* Faulty variant of Insert: the job is filed under the key.
InsertByKey(r) ==
    /\ request[r].phase = "inserting"
    /\ ReferenceExists(r) /\ KeyIsFree(r)
    /\ jobs' = jobs \cup {request[r].key}
    /\ request' = [request EXCEPT ![r].phase = "answered", ![r].answer = r]
    /\ UNCHANGED templates

\* The insert and its commit.
Insert(r) ==
    /\ request[r].phase = "inserting"
    /\ ReferenceExists(r) /\ KeyIsFree(r)
    /\ jobs' = jobs \cup {r}
    /\ request' = [request EXCEPT ![r].phase = "answered", ![r].answer = r]
    /\ UNCHANGED templates

\* Any constraint raises the same IntegrityError.
LoseRace(r) ==
    /\ request[r].phase = "inserting"
    /\ ~(ReferenceExists(r) /\ KeyIsFree(r))
    /\ request' = [request EXCEPT ![r].phase = "raced"]
    /\ UNCHANGED <<jobs, templates>>

\* Faulty variant of Fetch: the handler gives up.
FetchNothing(r) ==
    /\ request[r].phase = "raced"
    /\ request' = [request EXCEPT ![r].phase = "refused"]
    /\ UNCHANGED <<jobs, templates>>

\* After the rollback the key is looked for again; scalar_one raises unless there
\* is exactly one row.
Fetch(r) ==
    /\ request[r].phase = "raced"
    /\ IF Cardinality(WithKey(request[r].key)) = 1
       THEN \E j \in WithKey(request[r].key) :
              request' = [request EXCEPT ![r].phase = "answered", ![r].answer = j]
       ELSE request' = [request EXCEPT ![r].phase = "refused"]
    /\ UNCHANGED <<jobs, templates>>

\* DELETE /api/templates/{id}, as far as inserts notice it.
DeleteTemplate(t) ==
    /\ t \in templates
    /\ templates' = templates \ {t}
    /\ UNCHANGED <<jobs, request>>

-----------------------------------------------------------------------------

Next ==
    \/ \E r \in Requests, k \in Keys \cup {NoKey}, t \in Templates \cup {NoTemplate} :
         Arrive(r, k, t) \/ Replay(r, k, t)
    \/ \E r \in Requests : Insert(r) \/ LoseRace(r) \/ Fetch(r)
    \/ \E t \in Templates : DeleteTemplate(t)

Spec == Init /\ [][Next]_vars

-----------------------------------------------------------------------------
(* Properties                                                              *)

\* Every variable holds values of its domain.
TypeOK ==
    /\ jobs \subseteq Requests
    /\ request \in [Requests -> RequestState]
    /\ templates \subseteq Templates

\* However requests with one key interleave, all that are answered are answered
\* with the same job (idempotency_key of create_report_job).
SameKeySameJob ==
    \A r, s \in Requests :
        /\ request[r].phase = "answered" /\ request[s].phase = "answered"
        /\ request[r].key = request[s].key /\ request[r].key # NoKey
        => request[r].answer = request[s].answer

\* The loser of a race is given the winner's job instead of an error: a request
\* with a key is refused only when its template is missing.
LosersAreAnswered ==
    \A r \in Requests :
        request[r].phase = "refused" /\ request[r].key # NoKey
          => request[r].template \in Templates \ templates

=============================================================================
