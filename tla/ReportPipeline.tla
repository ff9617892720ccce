--------------------------- MODULE ReportPipeline ---------------------------
(***************************************************************************)
(* How a report comes by its content: a connector pages through a source   *)
(* that changes meanwhile, the tickets are deduplicated and filtered by    *)
(* the reporting period, as many as the input budget allows are listed,    *)
(* and the report says whether anything was left out.                      *)
(*                                                                         *)
(* Records are numbered by age and a source serves the newest first.  A    *)
(* step is one page request with its answer, one turn of the loop that     *)
(* lists tickets, or another run of code between two awaits.  Texts,       *)
(* fields and authentication are left out.                                 *)
(***************************************************************************)
EXTENDS Naturals, FiniteSets

CONSTANTS
    InitialRecords,  \* how many records the source holds when the fetch begins
    MaxRecordId,     \* bound: the newest record that may be added
    MaxTime,         \* bound: the last instant of an update
    MaxEdits,        \* bound: changes of the source during the fetch
    PageSize, MaxPages, MaxRecords,  \* PAGE_SIZE, MAX_PAGES, MAX_RECORDS
    Budgets,         \* the input budgets tried
    Tier,            \* a record's tier: 0 blocked, 1 at risk, 2 neither
    Cost,            \* what a record's line costs of the input budget
    EmptyPages       \* whether Jira may answer an empty page before its last

Ids == 1 .. MaxRecordId

ASSUME RecordsAssumption ==
    InitialRecords \in Nat /\ MaxRecordId \in Nat \ {0} /\ InitialRecords <= MaxRecordId

ASSUME LimitsAssumption ==
    /\ {PageSize, MaxPages, MaxRecords} \subseteq Nat \ {0}
    /\ {MaxTime, MaxEdits} \cup Budgets \subseteq Nat

ASSUME RankAssumption ==
    Tier \in [Ids -> 0 .. 2] /\ Cost \in [Ids -> Nat \ {0}] /\ EmptyPages \in BOOLEAN

NoToken == 0

VARIABLES
    source,  \* the remote records, and when each was last updated
    ask,     \* what the report is asked for, and what the source was like then
    fetch,   \* the connector's loop
    report   \* the report, from its tickets to its status

vars == <<source, ask, fetch, report>>

-----------------------------------------------------------------------------

Copy == [id : Ids, updated : 0 .. MaxTime]

SourceState ==
    [records : SUBSET Ids, newest : 0 .. MaxRecordId, updated : [Ids -> 0 .. MaxTime],
     edits : 0 .. MaxEdits]

\* pulls: the issues of a repository that are pull requests.
AskState ==
    [connector : {"jira", "asana", "github"}, pulls : SUBSET Ids,
     from : 0 .. MaxTime, to : 0 .. MaxTime, budget : Budgets,
     updated : [Ids -> 0 .. MaxTime]]

\* page: the request the loop is at.  token: the records from it on are asked for.
FetchState ==
    [phase : {"fetching", "fetched", "over"}, page : 1 .. MaxPages,
     token : Ids, given : SUBSET Ids, copies : SUBSET Copy, count : Nat,
     truncated : BOOLEAN]

ReportState ==
    [phase : {"none", "listing", "prompted", "complete", "partial", "failed"},
     tickets : SUBSET Copy, listed : SUBSET Copy, used : Nat]

TypeOK ==
    source \in SourceState /\ ask \in AskState /\ fetch \in FetchState /\ report \in ReportState

Init ==
    /\ \E updated \in [Ids -> 0 .. MaxTime],
          connector \in {"jira", "asana", "github"},
          from \in 0 .. MaxTime, to \in 0 .. MaxTime, budget \in Budgets :
          \E pulls \in IF connector = "github" THEN SUBSET Ids ELSE {{}} :
             /\ from <= to
             /\ \A r \in Ids : r > InitialRecords => updated[r] = MaxTime
             /\ source = [records |-> 1 .. InitialRecords, newest |-> InitialRecords,
                          updated |-> updated, edits |-> 0]
             /\ ask = [connector |-> connector, pulls |-> pulls, from |-> from, to |-> to,
                       budget |-> budget, updated |-> updated]
    /\ fetch = [phase |-> "fetching", page |-> 1, token |-> MaxRecordId, given |-> {},
                copies |-> {}, count |-> 0, truncated |-> FALSE]
    /\ report = [phase |-> "none", tickets |-> {}, listed |-> {}, used |-> 0]

-----------------------------------------------------------------------------
(* What a source answers.                                                  *)

\* The newest n records of S.
Newest(n, S) == {r \in S : Cardinality({s \in S : s > r}) < n}

\* The records a cursor stands for are those from it on, however the list grows.
FromToken == {r \in source.records : r <= fetch.token}

\* A page number counts from the top of the list as it is now.
NumberedPage ==
    Newest(fetch.page * PageSize, source.records)
        \ Newest((fetch.page - 1) * PageSize, source.records)

\* A cursor may repeat what was served, up to a loop; it does not skip what was not.
Resumes(next, ids) == \A r \in FromToken \ ids : r <= next

-----------------------------------------------------------------------------
(* When a page ends the loop: because it is the last (Whole), or short of  *)
(* the end (Cut).  count is the number of tickets with this page.          *)

JiraWhole(count, ids, last) == last \/ (ids = {} /\ count < MaxRecords)

JiraCut(count, ids, last, next) ==
    /\ ~last
    /\ \/ count >= MaxRecords
       \/ ids # {} /\ (next = NoToken \/ next \in fetch.given \/ fetch.page = MaxPages)

AsanaWhole(next) == next = NoToken

\* Faulty variant: the loop has no page limit.
AsanaCutUnbounded(count, next) ==
    next # NoToken /\ (count >= MaxRecords \/ next \in fetch.given)

AsanaCut(count, next) ==
    /\ next # NoToken
    /\ count >= MaxRecords \/ next \in fetch.given \/ fetch.page = MaxPages

\* Faulty variant: the last page is recognised by its issues.
GithubWholeByIssues(ids) == Cardinality(ids \ ask.pulls) < PageSize

GithubWhole(ids) == Cardinality(ids) < PageSize

GithubCut(count, ids) ==
    ~GithubWhole(ids) /\ (count >= MaxRecords \/ fetch.page = MaxPages)

Copies(ids) == {[id |-> r, updated |-> source.updated[r]] : r \in ids}

\* The tickets of a page are kept, and the loop ends or asks for the next page.
TakePage(ids, whole, cut, next) ==
    LET taken == [fetch EXCEPT !.copies = @ \cup Copies(ids), !.count = @ + Cardinality(ids)] IN
    fetch' = IF whole \/ cut
             THEN [taken EXCEPT !.phase = "fetched", !.truncated = cut]
             ELSE [taken EXCEPT !.page = @ + 1, !.token = next, !.given = @ \cup {next}]

Fetching(connector) == fetch.phase = "fetching" /\ ask.connector = connector

\* One page of Jira's search.  isLast may be missing from the answer, and so may
\* the token of the next page.
JiraPage(n, last, next) ==
    LET ids == Newest(n, FromToken)
        count == fetch.count + Cardinality(ids) IN
    /\ Fetching("jira")
    /\ last => ids = FromToken
    /\ ids = {} => EmptyPages \/ FromToken = {}
    /\ next # NoToken => Resumes(next, ids)
    /\ TakePage(ids, JiraWhole(count, ids, last), JiraCut(count, ids, last, next), next)
    /\ UNCHANGED <<source, ask, report>>

\* One page of an Asana project or section: no offset means no further page.
AsanaPage(n, next) ==
    LET ids == Newest(n, FromToken)
        count == fetch.count + Cardinality(ids) IN
    /\ Fetching("asana")
    /\ IF next = NoToken THEN ids = FromToken ELSE Resumes(next, ids)
    /\ TakePage(ids, AsanaWhole(next), AsanaCut(count, next), next)
    /\ UNCHANGED <<source, ask, report>>

\* One numbered page of a GitHub repository: pull requests are no tickets, yet
\* they count for whether the page was full.
GithubPage ==
    LET ids == NumberedPage
        issues == ids \ ask.pulls
        count == fetch.count + Cardinality(issues) IN
    /\ Fetching("github")
    /\ TakePage(issues, GithubWhole(ids), GithubCut(count, ids), fetch.token)
    /\ UNCHANGED <<source, ask, report>>

\* A request fails: the first one fails the report, a later one truncates the fetch.
PageFails ==
    /\ fetch.phase = "fetching"
    /\ IF fetch.page = 1
       THEN /\ fetch' = [fetch EXCEPT !.phase = "over"]
            /\ report' = [report EXCEPT !.phase = "failed"]
       ELSE /\ fetch' = [fetch EXCEPT !.phase = "fetched", !.truncated = TRUE]
            /\ UNCHANGED report
    /\ UNCHANGED <<source, ask>>

\* A record of the answer lacks a field: the exception leaves the loop on any page.
RecordUnreadable ==
    /\ fetch.phase = "fetching"
    /\ fetch' = [fetch EXCEPT !.phase = "over"]
    /\ report' = [report EXCEPT !.phase = "failed"]
    /\ UNCHANGED <<source, ask>>

-----------------------------------------------------------------------------
(* From tickets to a report.                                               *)

\* dedupe_tickets: the last updated of the copies of a record.
Deduped(copies) ==
    {c \in copies : \A d \in copies : d.id = c.id => d.updated <= c.updated}

\* filter_by_period: an activity window, closed at both ends.
InPeriod(copies) == {c \in copies : ask.from <= c.updated /\ c.updated <= ask.to}

\* _ticket_rank_key: blocked first, then risks, then the rest, by id.
RanksBefore(c, d) ==
    \/ Tier[c.id] < Tier[d.id]
    \/ Tier[c.id] = Tier[d.id] /\ c.id < d.id

\* Faulty variant: the period is applied before the duplicates are removed.
SelectedBackwards(copies) == Deduped(InPeriod(copies))

Selected(copies) == InPeriod(Deduped(copies))

\* The fetch has returned: no ticket, or none of the period, fails the report.
Prepare ==
    LET tickets == Selected(fetch.copies) IN
    /\ fetch.phase = "fetched"
    /\ fetch' = [fetch EXCEPT !.phase = "over"]
    /\ report' = IF tickets = {}
                 THEN [report EXCEPT !.phase = "failed"]
                 ELSE [phase |-> "listing", tickets |-> tickets, listed |-> {}, used |-> 0]
    /\ UNCHANGED <<source, ask>>

Unlisted == report.tickets \ report.listed

\* The next of the ranked tickets.
IsNext(c) == c \in Unlisted /\ \A d \in Unlisted \ {c} : RanksBefore(c, d)

\* Faulty variant of Fits: the line that would exceed the budget is let through.
FitsExceeding(c) == report.used <= ask.budget \/ report.listed = {}

\* The first ticket is listed whatever it costs.
Fits(c) == report.used + Cost[c.id] <= ask.budget \/ report.listed = {}

\* One turn of the loop of build_prompt; the first ticket that does not fit ends it.
ListTicket(c) ==
    LET used == report.used + Cost[c.id] IN
    /\ report.phase = "listing" /\ IsNext(c)
    /\ report' = IF Fits(c)
                 THEN [phase |-> IF used >= ask.budget \/ Unlisted = {c}
                                 THEN "prompted" ELSE "listing",
                       tickets |-> report.tickets, listed |-> report.listed \cup {c},
                       used |-> used]
                 ELSE [report EXCEPT !.phase = "prompted"]
    /\ UNCHANGED <<source, ask, fetch>>

\* The provider answers, perhaps cut off at its token limit, and the report is stored.
Narrate(cutOff) ==
    LET excluded == Cardinality(report.tickets) - Cardinality(report.listed) IN
    /\ report.phase = "prompted"
    /\ report' = [report EXCEPT !.phase =
                    IF fetch.truncated \/ excluded > 0 \/ cutOff THEN "partial" ELSE "complete"]
    /\ UNCHANGED <<source, ask, fetch>>

\* The provider fails or answers with nothing, or the report cannot be stored.
NarrateFails ==
    /\ report.phase = "prompted"
    /\ report' = [report EXCEPT !.phase = "failed"]
    /\ UNCHANGED <<source, ask, fetch>>

-----------------------------------------------------------------------------
(* The source's users, while the fetch goes on.                            *)

Edit(records, newest, updated) ==
    /\ fetch.phase = "fetching" /\ source.edits < MaxEdits
    /\ source' = [records |-> records, newest |-> newest, updated |-> updated,
                  edits |-> source.edits + 1]
    /\ UNCHANGED <<ask, fetch, report>>

AddRecord ==
    /\ source.newest < MaxRecordId
    /\ Edit(source.records \cup {source.newest + 1}, source.newest + 1, source.updated)

UpdateRecord(r) ==
    /\ r \in source.records /\ source.updated[r] < MaxTime
    /\ Edit(source.records, source.newest, [source.updated EXCEPT ![r] = @ + 1])

RemoveRecord(r) ==
    /\ r \in source.records
    /\ Edit(source.records \ {r}, source.newest, source.updated)

Next ==
    \/ \E n \in 0 .. PageSize, last \in BOOLEAN, next \in Ids \cup {NoToken} :
          JiraPage(n, last, next)
    \/ \E n \in 0 .. PageSize, next \in Ids \cup {NoToken} : AsanaPage(n, next)
    \/ GithubPage
    \/ PageFails
    \/ RecordUnreadable
    \/ Prepare
    \/ \E c \in report.tickets : ListTicket(c)
    \/ \E cutOff \in BOOLEAN : Narrate(cutOff)
    \/ NarrateFails
    \/ AddRecord
    \/ \E r \in Ids : UpdateRecord(r) \/ RemoveRecord(r)

Spec == Init /\ [][Next]_vars

-----------------------------------------------------------------------------

Removed == (1 .. source.newest) \ source.records

WithinPeriod(time) == ask.from <= time /\ time <= ask.to

\* A report stored as complete lists every ticket that the source held all the
\* time and whose updates fell into the period before and after, whatever pages,
\* limits, repeated cursors and changes the fetch met (the loops of the
\* connectors, is_truncated in generate_report).  An issue that leaves a numbered
\* listing shifts the following ones past the next page, which no client can see:
\* GitHub's case is stated while none has.  It takes a Jira that answers no empty page
\* before its last (~EmptyPages): the code ends at one as if it were the last.
CompleteCoversSource ==
    report.phase = "complete" /\ (ask.connector = "github" => Removed = {}) =>
        \A r \in (1 .. InitialRecords) \ (ask.pulls \cup Removed) :
            WithinPeriod(ask.updated[r]) /\ WithinPeriod(source.updated[r]) =>
                \E c \in report.listed : c.id = r

\* What is listed of a record is the newest copy that any page brought, so an older
\* copy does not slip into a period that the record has left (dedupe_tickets
\* before filter_by_period).
NewestCopyIsListed ==
    \A c \in report.listed, d \in fetch.copies : c.id = d.id => d.updated <= c.updated

\* The tokens of the lines of S, which have none in common, and what they cost.
Tokens(S) == UNION {{c} \X (1 .. Cost[c.id]) : c \in S}
ListedCost(S) == Cardinality(Tokens(S))

\* The listing is the longest one that never prefers a lesser ticket: none that was
\* omitted ranks before a listed one, the budget is kept unless one ticket alone
\* exceeds it, and the next ticket would not have fitted (build_prompt).
BestTicketsAreListed ==
    LET omitted == report.tickets \ report.listed IN
    report.phase # "listing" =>
        /\ \A c \in omitted, d \in report.listed : RanksBefore(d, c)
        /\ report.tickets # {} => report.listed # {}
        /\ Cardinality(report.listed) > 1 => ListedCost(report.listed) <= ask.budget
        /\ \A c \in omitted :
              (\A d \in omitted \ {c} : RanksBefore(c, d)) =>
                  ListedCost(report.listed \cup {c}) > ask.budget
=============================================================================
