---------------------------- MODULE JobIntakeProofs ----------------------------
(***************************************************************************)
(* Proofs about JobIntake, for every number of requests, keys and          *)
(* templates.                                                              *)
(***************************************************************************)
EXTENDS JobIntake, FiniteSetTheorems, TLAPS

-----------------------------------------------------------------------------
(* Type correctness                                                         *)

LEMMA InitTypeOK == Init => TypeOK
BY NamesAssumption DEF Init, TypeOK, RequestState, IdleRequest

LEMMA NextTypeOK == TypeOK /\ [Next]_vars => TypeOK'
<1> SUFFICES ASSUME TypeOK, [Next]_vars PROVE TypeOK'
  OBVIOUS
<1> USE DEF TypeOK, RequestState
<1>1. ASSUME NEW r \in Requests, NEW k \in Keys \cup {NoKey},
             NEW t \in Templates \cup {NoTemplate}, Arrive(r, k, t)
      PROVE  TypeOK'
  <2> DEFINE new == [request[r] EXCEPT !.key = k, !.template = t, !.phase = "inserting"]
  <2>1. new \in RequestState
    BY DEF RequestState
  <2>2. request' = [request EXCEPT ![r] = new] /\ UNCHANGED <<jobs, templates>>
    BY <1>1 DEF Arrive
  <2> QED
    BY <2>1, <2>2
<1>2. ASSUME NEW r \in Requests, NEW k \in Keys \cup {NoKey},
             NEW t \in Templates \cup {NoTemplate}, Replay(r, k, t)
      PROVE  TypeOK'
  BY <1>2 DEF Replay, WithKey
<1>3. ASSUME NEW r \in Requests, Insert(r) PROVE TypeOK'
  BY <1>3 DEF Insert
<1>4. ASSUME NEW r \in Requests, LoseRace(r) PROVE TypeOK'
  BY <1>4 DEF LoseRace
<1>5. ASSUME NEW r \in Requests, Fetch(r) PROVE TypeOK'
  <2>1. \A j \in WithKey(request[r].key) : j \in Requests
    BY DEF WithKey
  <2> QED
    BY <1>5, <2>1 DEF Fetch
<1>6. ASSUME NEW t \in Templates, DeleteTemplate(t) PROVE TypeOK'
  BY <1>6 DEF DeleteTemplate
<1>7. CASE UNCHANGED vars
  BY <1>7 DEF vars
<1> QED
  BY <1>1, <1>2, <1>3, <1>4, <1>5, <1>6, <1>7 DEF Next

\* Type correctness: the table and every request stay in their domains.
THEOREM IntakeTypeCorrect == Spec => []TypeOK
BY InitTypeOK, NextTypeOK, PTL DEF Spec

-----------------------------------------------------------------------------
(* Requests that share a key                                                *)

\* A job's request is over, so that the key of its row never changes.
JobsAreAnswered == \A j \in jobs : request[j].phase = "answered"

\* The unique constraint: no two jobs with one key.
KeysAreUnique ==
    \A i, j \in jobs : request[i].key = request[j].key /\ request[i].key # NoKey => i = j

\* A request with a key that is answered has a job of that key; one whose insert
\* failed has its template missing or its key taken; one refused, the first.
Accounted(r) ==
    request[r].key # NoKey =>
      CASE request[r].phase = "answered" ->
             request[r].answer \in jobs /\ request[request[r].answer].key = request[r].key
        [] request[r].phase = "raced" ->
             request[r].template \in Templates \ templates \/ WithKey(request[r].key) # {}
        [] request[r].phase = "refused" -> request[r].template \in Templates \ templates
        [] OTHER -> TRUE

\* Inductive: jobs and missing templates stay, so accounts do; and a key found once
\* is found in the same job by everyone.
KeyInv ==
    /\ JobsAreAnswered
    /\ KeysAreUnique
    /\ \A r \in Requests : Accounted(r)

LEMMA InitKeyInv == Init => KeyInv
BY DEF Init, KeyInv, JobsAreAnswered, KeysAreUnique, Accounted, IdleRequest

\* A key that is used is used by one job: scalar_one finds exactly one row.
LEMMA UsedKeyHasOneJob ==
    ASSUME KeysAreUnique, NEW k, k # NoKey, WithKey(k) # {}
    PROVE  Cardinality(WithKey(k)) = 1
<1>1. PICK j \in WithKey(k) : TRUE
  OBVIOUS
<1>2. WithKey(k) = {j}
  BY <1>1 DEF WithKey, KeysAreUnique
<1> QED
  BY <1>2, FS_Singleton

\* A request that a step leaves alone stays accounted for as long as jobs with their
\* keys and missing templates stay.
LEMMA OthersStayAccounted ==
    ASSUME TypeOK, KeyInv, NEW r \in Requests, r \notin jobs,
           \A s \in Requests \ {r} : request'[s] = request[s],
           jobs \subseteq jobs', templates' \subseteq templates
    PROVE  \A s \in Requests \ {r} : Accounted(s)'
<1> SUFFICES ASSUME NEW s \in Requests \ {r} PROVE Accounted(s)'
  OBVIOUS
<1>1. \A j \in jobs : j \in jobs' /\ request'[j] = request[j]
  BY DEF TypeOK
<1>2. \A k : WithKey(k) # {} => WithKey(k)' # {}
  BY <1>1 DEF WithKey
<1>3. Accounted(s) /\ request'[s] = request[s]
  BY DEF KeyInv
<1> QED
  BY <1>1, <1>2, <1>3 DEF Accounted

\* A step of r that inserts nothing keeps the table's keys unique.
LEMMA NoNewJob ==
    ASSUME TypeOK, KeyInv, NEW r \in Requests, r \notin jobs,
           \A s \in Requests \ {r} : request'[s] = request[s],
           UNCHANGED jobs
    PROVE  JobsAreAnswered' /\ KeysAreUnique'
BY DEF TypeOK, KeyInv, JobsAreAnswered, KeysAreUnique

LEMMA NextKeyInv == TypeOK /\ KeyInv /\ [Next]_vars => KeyInv'
<1> SUFFICES ASSUME TypeOK, KeyInv, [Next]_vars PROVE KeyInv'
  OBVIOUS
<1> USE NamesAssumption
<1>t. request \in [Requests -> RequestState] /\ jobs \subseteq Requests
  BY DEF TypeOK
<1>n. \A r \in Requests : request[r].phase # "answered" => r \notin jobs
  BY DEF KeyInv, JobsAreAnswered
<1>1. ASSUME NEW r \in Requests, NEW k \in Keys \cup {NoKey},
             NEW t \in Templates \cup {NoTemplate}, Arrive(r, k, t)
      PROVE  KeyInv'
  <2>1. /\ r \notin jobs /\ UNCHANGED <<jobs, templates>>
        /\ \A s \in Requests \ {r} : request'[s] = request[s]
    BY <1>1, <1>t, <1>n DEF Arrive
  <2>2. request'[r].phase = "inserting"
    BY <1>1, <1>t DEF Arrive, RequestState
  <2>3. Accounted(r)'
    BY <2>2 DEF Accounted
  <2> QED
    BY <2>1, <2>3, NoNewJob, OthersStayAccounted DEF KeyInv
<1>2. ASSUME NEW r \in Requests, NEW k \in Keys \cup {NoKey},
             NEW t \in Templates \cup {NoTemplate}, Replay(r, k, t)
      PROVE  KeyInv'
  <2>1. /\ r \notin jobs /\ UNCHANGED <<jobs, templates>>
        /\ \A s \in Requests \ {r} : request'[s] = request[s]
    BY <1>2, <1>t, <1>n DEF Replay
  <2>2. PICK j \in WithKey(k) :
           request'[r] = [phase |-> "answered", key |-> k, template |-> t, answer |-> j]
    BY <1>2, <1>t DEF Replay
  <2>3. j \in jobs' /\ request'[j].key = k
    BY <1>t, <2>1, <2>2 DEF WithKey
  <2>4. Accounted(r)'
    BY <2>2, <2>3 DEF Accounted
  <2> QED
    BY <2>1, <2>4, NoNewJob, OthersStayAccounted DEF KeyInv
<1>3. ASSUME NEW r \in Requests, Insert(r) PROVE KeyInv'
  <2>1. /\ r \notin jobs /\ jobs' = jobs \cup {r} /\ UNCHANGED templates
        /\ KeyIsFree(r)
        /\ \A s \in Requests \ {r} : request'[s] = request[s]
    BY <1>3, <1>t, <1>n DEF Insert
  <2>2. /\ request'[r].phase = "answered" /\ request'[r].answer = r
        /\ request'[r].key = request[r].key
    BY <1>3, <1>t DEF Insert, RequestState
  <2>3. JobsAreAnswered'
    BY <1>t, <2>1, <2>2 DEF KeyInv, JobsAreAnswered
  <2>4. KeysAreUnique'
    <3>1. \A j \in jobs : j # r /\ request'[j] = request[j]
      BY <1>t, <2>1
    <3>2. request[r].key # NoKey => \A j \in jobs : request[j].key # request[r].key
      BY <2>1 DEF KeyIsFree, WithKey
    <3> QED
      BY <2>1, <2>2, <3>1, <3>2 DEF KeyInv, KeysAreUnique
  <2>5. Accounted(r)'
    BY <2>1, <2>2 DEF Accounted
  <2> QED
    BY <2>1, <2>3, <2>4, <2>5, OthersStayAccounted DEF KeyInv
<1>4. ASSUME NEW r \in Requests, LoseRace(r) PROVE KeyInv'
  <2>1. /\ r \notin jobs /\ UNCHANGED <<jobs, templates>>
        /\ \A s \in Requests \ {r} : request'[s] = request[s]
        /\ ~ReferenceExists(r) \/ ~KeyIsFree(r)
    BY <1>4, <1>t, <1>n DEF LoseRace
  <2>2. /\ request'[r].phase = "raced"
        /\ request'[r].key = request[r].key /\ request'[r].template = request[r].template
    BY <1>4, <1>t DEF LoseRace, RequestState
  <2>3. ~ReferenceExists(r) => request[r].template \in Templates \ templates
    BY <1>t DEF ReferenceExists, RequestState
  <2>4. ~KeyIsFree(r) => \E j \in jobs' : request'[j].key = request'[r].key
    <3> SUFFICES ASSUME ~KeyIsFree(r) PROVE \E j \in jobs' : request'[j].key = request'[r].key
      OBVIOUS
    <3>1. PICK j \in jobs : request[j].key = request[r].key
      BY DEF KeyIsFree, WithKey
    <3>2. j \in jobs' /\ request'[j].key = request'[r].key
      BY <1>t, <2>1, <2>2, <3>1
    <3> QED
      BY <3>2
  <2>5. Accounted(r)'
    BY <2>1, <2>2, <2>3, <2>4 DEF Accounted, WithKey
  <2> QED
    BY <2>1, <2>5, NoNewJob, OthersStayAccounted DEF KeyInv
<1>5. ASSUME NEW r \in Requests, Fetch(r) PROVE KeyInv'
  <2> DEFINE k == request[r].key
  <2>1. /\ r \notin jobs /\ UNCHANGED <<jobs, templates>> /\ request[r].phase = "raced"
        /\ \A s \in Requests \ {r} : request'[s] = request[s]
    BY <1>5, <1>t, <1>n DEF Fetch
  <2>2. Accounted(r)'
    <3>1. CASE Cardinality(WithKey(k)) = 1
      <4>1. PICK j \in WithKey(k) :
               request' = [request EXCEPT ![r].phase = "answered", ![r].answer = j]
        BY <1>5, <3>1 DEF Fetch
      <4>2. /\ request'[r].phase = "answered" /\ request'[r].answer = j
            /\ request'[r].key = k
        BY <1>t, <4>1 DEF RequestState
      <4>3. j \in jobs' /\ request'[j].key = k
        BY <1>t, <2>1, <4>1 DEF WithKey
      <4> QED
        BY <4>2, <4>3 DEF Accounted
    <3>2. CASE Cardinality(WithKey(k)) # 1
      <4>1. request' = [request EXCEPT ![r].phase = "refused"]
        BY <1>5, <3>2 DEF Fetch
      <4>2. /\ request'[r].phase = "refused" /\ request'[r].key = k
            /\ request'[r].template = request[r].template
        BY <1>t, <4>1 DEF RequestState
      <4>3. k # NoKey => WithKey(k) = {}
        BY <3>2, UsedKeyHasOneJob DEF KeyInv
      <4>4. k # NoKey => request[r].template \in Templates \ templates
        BY <2>1, <4>3 DEF KeyInv, Accounted
      <4> QED
        BY <2>1, <4>2, <4>4 DEF Accounted
    <3> QED
      BY <3>1, <3>2
  <2> QED
    BY <2>1, <2>2, NoNewJob, OthersStayAccounted DEF KeyInv
<1>6. ASSUME UNCHANGED <<jobs, request>>, templates' \subseteq templates PROVE KeyInv'
  <2>1. \A k : WithKey(k)' = WithKey(k)
    BY <1>6 DEF WithKey
  <2>2. \A r \in Requests : Accounted(r)'
    BY <1>6, <2>1 DEF KeyInv, Accounted
  <2> QED
    BY <1>6, <2>2 DEF KeyInv, JobsAreAnswered, KeysAreUnique
<1>7. ASSUME NEW t \in Templates, DeleteTemplate(t) PROVE KeyInv'
  BY <1>6, <1>7 DEF DeleteTemplate
<1>8. CASE UNCHANGED vars
  BY <1>6, <1>8 DEF vars
<1> QED
  BY <1>1, <1>2, <1>3, <1>4, <1>5, <1>7, <1>8 DEF Next

\* However many requests share a key and whenever templates go away: all that are
\* answered have one job, and losing the race for a key is never an error.
THEOREM KeysAreSafe == Spec => [](SameKeySameJob /\ LosersAreAnswered)
<1>1. Spec => [](TypeOK /\ KeyInv)
  BY InitTypeOK, NextTypeOK, InitKeyInv, NextKeyInv, PTL DEF Spec
<1>2. TypeOK /\ KeyInv => SameKeySameJob /\ LosersAreAnswered
  <2> SUFFICES ASSUME KeyInv PROVE SameKeySameJob /\ LosersAreAnswered
    OBVIOUS
  <2>1. SameKeySameJob
    BY DEF SameKeySameJob, KeyInv, KeysAreUnique, Accounted
  <2>2. LosersAreAnswered
    BY DEF LosersAreAnswered, KeyInv, Accounted
  <2> QED
    BY <2>1, <2>2
<1> QED
  BY <1>1, <1>2, PTL
=============================================================================
