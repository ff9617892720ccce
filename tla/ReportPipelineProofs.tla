------------------------ MODULE ReportPipelineProofs ------------------------
(***************************************************************************)
(* Proofs about ReportPipeline, for every number of records, pages, edits, *)
(* limits and budgets, about what PromptFacts states of any backlog, and   *)
(* about both side by side.                                                *)
(***************************************************************************)
EXTENDS MCReportPipeline, FiniteSetTheorems, WellFoundedInduction, TLAPS

-----------------------------------------------------------------------------
(* The source and the copies of its records.                                 *)

\* Records are numbered as they come, and an update is never taken back.
SourceMoves ==
    /\ InitialRecords <= source.newest
    /\ source.records \subseteq 1 .. source.newest
    /\ \A r \in Ids : ask.updated[r] <= source.updated[r]

\* A copy is of a state its record has had during the fetch.
CopiesAreGenuine ==
    \A c \in fetch.copies : ask.updated[c.id] <= c.updated /\ c.updated <= source.updated[c.id]

\* The records that a complete report has to cover.
Held == (1 .. InitialRecords) \ (ask.pulls \cup Removed)

Copied(r) == \E c \in fetch.copies : c.id = r

\* Records before the page that the loop is at have been copied: those above the token,
\* and for numbered pages, while no record has left the list, those that have as many
\* newer ones as were asked for.
ServedAreCopied ==
    fetch.phase = "fetching" =>
        \A r \in Held :
            \/ ask.connector # "github" /\ r > fetch.token
            \/ /\ ask.connector = "github" /\ Removed = {}
               /\ source.newest - r < (fetch.page - 1) * PageSize
            => Copied(r)

\* A loop that has come to the end of the list has copied all of them.
WholeFetchCovers ==
    /\ fetch.phase # "fetching" /\ ~fetch.truncated /\ report.phase # "failed"
    /\ ask.connector = "github" => Removed = {}
    => \A r \in Held : Copied(r)

FetchInv == SourceMoves /\ CopiesAreGenuine /\ ServedAreCopied /\ WholeFetchCovers

-----------------------------------------------------------------------------
(* The report.                                                               *)

\* The tickets are those selected from the copies, as long as the report has not failed
\* and from then on.
TicketsAreSelected ==
    /\ fetch.phase # "over" => report.phase = "none"
    /\ report.phase = "none" => report.tickets = {}
    /\ report.tickets \subseteq Selected(fetch.copies)
    /\ report.phase \in {"listing", "prompted", "complete", "partial"} =>
          report.tickets = Selected(fetch.copies)
    /\ report.listed \subseteq report.tickets

\* A complete report is of a whole fetch and lists every ticket.
CompleteIsWhole ==
    report.phase = "complete" => ~fetch.truncated /\ report.listed = report.tickets

\* What is listed ranks before the rest and is within the budget, unless it is one
\* ticket; a list that is finished has no room for the next one.
ListIsBest ==
    /\ \A c \in Unlisted, d \in report.listed : RanksBefore(d, c)
    /\ IsFiniteSet(Tokens(report.listed)) /\ report.used = ListedCost(report.listed)
    /\ Cardinality(report.listed) > 1 => report.used <= ask.budget
    /\ report.phase # "listing" =>
          /\ report.tickets # {} => report.listed # {}
          /\ \A c \in Unlisted : IsNext(c) => report.used + Cost[c.id] > ask.budget

ReportInv == TicketsAreSelected /\ CompleteIsWhole /\ ListIsBest

PipelineInv == TypeOK /\ FetchInv /\ ReportInv
-----------------------------------------------------------------------------
(* Numbers and finite sets.                                                  *)

LEMMA Limits ==
    /\ PageSize \in Nat \ {0} /\ MaxPages \in Nat \ {0} /\ MaxRecords \in Nat \ {0}
    /\ MaxTime \in Nat /\ MaxEdits \in Nat /\ Budgets \subseteq Nat
    /\ InitialRecords \in Nat /\ MaxRecordId \in Nat \ {0} /\ InitialRecords <= MaxRecordId
BY LimitsAssumption, RecordsAssumption

LEMMA IdsAreFinite ==
    ASSUME NEW S \in SUBSET Ids
    PROVE  IsFiniteSet(S) /\ Cardinality(S) \in Nat
<1>1. IsFiniteSet(Ids)
  BY Limits, FS_Interval DEF Ids
<1> QED
  BY <1>1, FS_Subset, FS_CardinalityType

\* A set of numbers has a least element.
LEMMA Least ==
    ASSUME NEW T \in SUBSET Nat, T # {}
    PROVE  \E x \in T : \A y \in T : x <= y
<1> DEFINE R == OpToRel(<, Nat)
<1>1. \A x, y \in Nat : x < y => <<x, y>> \in R
  BY DEF OpToRel
<1>2. IsWellFoundedOn(R, Nat)
  BY NatLessThanWellFounded
<1> HIDE DEF R
<1>3. PICK x \in T : \A y \in T : ~ (<<y, x>> \in R)
  BY <1>2, WFMin
<1>4. \A y \in T : ~ (y < x)
  BY <1>1, <1>3
<1> QED
  BY <1>4

\* A set of numbers that are bounded has a greatest element.
LEMMA Greatest ==
    ASSUME NEW bound \in Nat, NEW T \in SUBSET (0 .. bound), T # {}
    PROVE  \E x \in T : \A y \in T : y <= x
<1> DEFINE ahead == {bound - y : y \in T}
<1>1. \A y \in T : y \in Nat /\ bound - y \in Nat
  OBVIOUS
<1>2. ahead \in SUBSET Nat /\ ahead # {}
  BY <1>1
<1>3. PICK a \in ahead : \A b \in ahead : a <= b
  BY <1>2, Least
<1>4. PICK x \in T : a = bound - x
  OBVIOUS
<1>5. \A y \in T : bound - x <= bound - y
  BY <1>3, <1>4
<1> QED
  BY <1>1, <1>5

-----------------------------------------------------------------------------
(* The pages.                                                                *)

\* What a page leaves the loop with.
LEMMA TakePageResult ==
    ASSUME TypeOK, NEW ids \in SUBSET source.records, NEW whole \in BOOLEAN,
           NEW cut \in BOOLEAN, NEW next, TakePage(ids, whole, cut, next),
           ~ (whole \/ cut) => next \in Ids /\ fetch.page # MaxPages
    PROVE  /\ fetch' \in FetchState
           /\ fetch'.copies = fetch.copies \cup Copies(ids)
           /\ whole \/ cut => fetch'.phase = "fetched" /\ fetch'.truncated = cut
           /\ ~ (whole \/ cut) => /\ fetch'.phase = fetch.phase /\ fetch'.page = fetch.page + 1
                                  /\ fetch'.token = next
<1>1. ids \subseteq Ids /\ source.updated \in [Ids -> 0 .. MaxTime]
  BY DEF TypeOK, SourceState
<1>2. Copies(ids) \subseteq Copy
  BY <1>1 DEF Copies, Copy
<1>3. Cardinality(ids) \in Nat
  BY <1>1, IdsAreFinite
<1>4. fetch.page \in 1 .. MaxPages /\ fetch.given \subseteq Ids
  BY DEF TypeOK, FetchState
<1> DEFINE taken == [fetch EXCEPT !.copies = @ \cup Copies(ids), !.count = @ + Cardinality(ids)]
<1>5. taken \in FetchState
  <2>1. fetch \in FetchState /\ fetch.copies \subseteq Copy /\ fetch.count \in Nat
    BY DEF TypeOK, FetchState
  <2>2. /\ fetch.copies \cup Copies(ids) \in SUBSET Copy
        /\ fetch.count + Cardinality(ids) \in Nat
    BY <2>1, <1>2, <1>3
  <2> QED
    BY <2>1, <2>2 DEF FetchState
<1>6. /\ taken.copies = fetch.copies \cup Copies(ids) /\ taken.phase = fetch.phase
      /\ taken.page = fetch.page /\ taken.given = fetch.given
  BY DEF TypeOK, FetchState
<1>7. fetch' = IF whole \/ cut
               THEN [taken EXCEPT !.phase = "fetched", !.truncated = cut]
               ELSE [taken EXCEPT !.page = @ + 1, !.token = next, !.given = @ \cup {next}]
  BY DEF TakePage
<1> HIDE DEF taken
<1>8. CASE whole \/ cut
  BY <1>5, <1>6, <1>7, <1>8 DEF FetchState
<1>9. CASE ~ (whole \/ cut)
  <2>1. fetch.page + 1 \in 1 .. MaxPages
    BY <1>4, <1>9, Limits
  <2> QED
    BY <2>1, <1>4, <1>5, <1>6, <1>7, <1>9 DEF FetchState
<1> QED
  BY <1>8, <1>9

\* A page that a cursor names: the loop has seen the end of the list, or is cut off, or
\* goes on where nothing is skipped.
TokenPageTaken(ids) ==
    /\ fetch.phase = "fetching" /\ ask.connector # "github"
    /\ fetch' \in FetchState /\ fetch'.copies = fetch.copies \cup Copies(ids)
    /\ \/ /\ fetch'.phase = "fetched"
          /\ fetch'.truncated \/ EmptyPages \/ FromToken \subseteq ids
       \/ fetch'.phase = "fetching" /\ Resumes(fetch'.token, ids)
    /\ UNCHANGED <<source, ask, report>>

LEMMA JiraPageTaken ==
    ASSUME TypeOK, NEW n \in 0 .. PageSize, NEW last \in BOOLEAN,
           NEW next \in Ids \cup {NoToken}, JiraPage(n, last, next)
    PROVE  \E ids \in SUBSET source.records : TokenPageTaken(ids)
<1> DEFINE ids == Newest(n, FromToken)
           count == fetch.count + Cardinality(ids)
           whole == JiraWhole(count, ids, last)
           cut == JiraCut(count, ids, last, next)
<1>1. ids \in SUBSET source.records /\ source.records \subseteq Ids
  BY DEF Newest, FromToken, TypeOK, SourceState
<1>2. count \in Nat /\ MaxRecords \in Nat
  BY <1>1, IdsAreFinite, Limits DEF TypeOK, FetchState
<1>3. /\ fetch.phase = "fetching" /\ ask.connector = "jira"
      /\ TakePage(ids, whole, cut, next) /\ UNCHANGED <<source, ask, report>>
  BY DEF JiraPage, Fetching
<1>4. /\ last => ids = FromToken
      /\ ids = {} => EmptyPages \/ FromToken = {}
      /\ next # NoToken => Resumes(next, ids)
  BY DEF JiraPage
<1> HIDE DEF ids, count
<1>5. whole \in BOOLEAN /\ cut \in BOOLEAN
  BY DEF JiraWhole, JiraCut
<1>6. ~ (whole \/ cut) => next \in Ids /\ fetch.page # MaxPages
  BY <1>2 DEF JiraWhole, JiraCut
<1>7. whole => EmptyPages \/ FromToken \subseteq ids
  BY <1>4 DEF JiraWhole
<1> HIDE DEF whole, cut
<1>8. /\ fetch' \in FetchState
      /\ fetch'.copies = fetch.copies \cup Copies(ids)
      /\ whole \/ cut => fetch'.phase = "fetched" /\ fetch'.truncated = cut
      /\ ~ (whole \/ cut) => fetch'.phase = fetch.phase /\ fetch'.token = next
  BY <1>1, <1>3, <1>5, <1>6, TakePageResult
<1>9. TokenPageTaken(ids)
  BY <1>3, <1>4, <1>6, <1>7, <1>8 DEF TokenPageTaken, NoToken, Ids
<1> QED
  BY <1>1, <1>9

LEMMA AsanaPageTaken ==
    ASSUME TypeOK, NEW n \in 0 .. PageSize, NEW next \in Ids \cup {NoToken},
           AsanaPage(n, next)
    PROVE  \E ids \in SUBSET source.records : TokenPageTaken(ids)
<1> DEFINE ids == Newest(n, FromToken)
           count == fetch.count + Cardinality(ids)
           whole == AsanaWhole(next)
           cut == AsanaCut(count, next)
<1>1. ids \in SUBSET source.records /\ source.records \subseteq Ids
  BY DEF Newest, FromToken, TypeOK, SourceState
<1>2. /\ fetch.phase = "fetching" /\ ask.connector = "asana"
      /\ TakePage(ids, whole, cut, next) /\ UNCHANGED <<source, ask, report>>
  BY DEF AsanaPage, Fetching
<1>3. IF next = NoToken THEN ids = FromToken ELSE Resumes(next, ids)
  BY DEF AsanaPage
<1> HIDE DEF ids, count
<1>4. whole \in BOOLEAN /\ cut \in BOOLEAN
  BY DEF AsanaWhole, AsanaCut
<1>5. /\ ~ (whole \/ cut) => next \in Ids /\ fetch.page # MaxPages
      /\ whole => FromToken \subseteq ids
  BY <1>3 DEF AsanaWhole, AsanaCut
<1> HIDE DEF whole, cut
<1>6. /\ fetch' \in FetchState
      /\ fetch'.copies = fetch.copies \cup Copies(ids)
      /\ whole \/ cut => fetch'.phase = "fetched" /\ fetch'.truncated = cut
      /\ ~ (whole \/ cut) => fetch'.phase = fetch.phase /\ fetch'.token = next
  BY <1>1, <1>2, <1>4, <1>5, TakePageResult
<1>7. TokenPageTaken(ids)
  BY <1>2, <1>3, <1>5, <1>6 DEF TokenPageTaken, NoToken, Ids
<1> QED
  BY <1>1, <1>7

\* A numbered page: the loop ends with one that is not full, or goes on with the next.
NumberedPageTaken ==
    /\ fetch.phase = "fetching" /\ ask.connector = "github"
    /\ fetch' \in FetchState /\ fetch'.copies = fetch.copies \cup Copies(NumberedPage \ ask.pulls)
    /\ \/ fetch'.phase = "fetched" /\ (fetch'.truncated \/ Cardinality(NumberedPage) < PageSize)
       \/ fetch'.phase = "fetching" /\ fetch'.page = fetch.page + 1
    /\ UNCHANGED <<source, ask, report>>

LEMMA GithubPageTaken ==
    ASSUME TypeOK, GithubPage
    PROVE  NumberedPageTaken
<1> DEFINE ids == NumberedPage
           issues == ids \ ask.pulls
           count == fetch.count + Cardinality(issues)
           whole == GithubWhole(ids)
           cut == GithubCut(count, ids)
<1>1. issues \in SUBSET source.records
  BY DEF Newest, NumberedPage
<1>2. /\ fetch.phase = "fetching" /\ ask.connector = "github"
      /\ TakePage(issues, whole, cut, fetch.token) /\ UNCHANGED <<source, ask, report>>
  BY DEF GithubPage, Fetching
<1> HIDE DEF issues, count
<1>3. whole \in BOOLEAN /\ cut \in BOOLEAN
  BY DEF GithubWhole, GithubCut
<1>4. /\ ~ (whole \/ cut) => fetch.token \in Ids /\ fetch.page # MaxPages
      /\ whole => Cardinality(ids) < PageSize
  BY DEF GithubWhole, GithubCut, TypeOK, FetchState
<1> HIDE DEF whole, cut
<1>5. /\ fetch' \in FetchState
      /\ fetch'.copies = fetch.copies \cup Copies(issues)
      /\ whole \/ cut => fetch'.phase = "fetched" /\ fetch'.truncated = cut
      /\ ~ (whole \/ cut) => fetch'.phase = fetch.phase /\ fetch'.page = fetch.page + 1
  BY <1>1, <1>2, <1>3, <1>4, TakePageResult
<1> QED
  BY <1>2, <1>4, <1>5 DEF NumberedPageTaken, issues

-----------------------------------------------------------------------------
(* Type correctness.                                                         *)

LEMMA InitTypeOK == Init => TypeOK
<1> SUFFICES ASSUME Init PROVE TypeOK
  OBVIOUS
<1> USE Limits
<1>1. source \in SourceState /\ ask \in AskState
  <2>1. PICK updated \in [Ids -> 0 .. MaxTime], connector \in {"jira", "asana", "github"},
             from \in 0 .. MaxTime, to \in 0 .. MaxTime, budget \in Budgets :
          \E pulls \in IF connector = "github" THEN SUBSET Ids ELSE {{}} :
             /\ source = [records |-> 1 .. InitialRecords, newest |-> InitialRecords,
                          updated |-> updated, edits |-> 0]
             /\ ask = [connector |-> connector, pulls |-> pulls, from |-> from, to |-> to,
                       budget |-> budget, updated |-> updated]
    BY DEF Init
  <2>2. PICK pulls \in SUBSET Ids :
          /\ source = [records |-> 1 .. InitialRecords, newest |-> InitialRecords,
                       updated |-> updated, edits |-> 0]
          /\ ask = [connector |-> connector, pulls |-> pulls, from |-> from, to |-> to,
                    budget |-> budget, updated |-> updated]
    BY <2>1
  <2>3. 1 .. InitialRecords \subseteq Ids /\ InitialRecords \in 0 .. MaxRecordId
        /\ 0 \in 0 .. MaxEdits
    BY DEF Ids
  <2> QED
    BY <2>2, <2>3 DEF SourceState, AskState
<1>2. fetch \in FetchState
  BY DEF Init, FetchState, Ids
<1>3. report \in ReportState
  BY DEF Init, ReportState
<1> QED
  BY <1>1, <1>2, <1>3 DEF TypeOK

LEMMA SelectedAreCopies ==
    Selected(fetch.copies) \subseteq fetch.copies
BY DEF Selected, InPeriod, Deduped

LEMMA ListTicketTypeOK ==
    ASSUME TypeOK, NEW c \in report.tickets, ListTicket(c)
    PROVE  report' \in ReportState
<1>1. /\ report.tickets \subseteq Copy /\ report.listed \subseteq Copy /\ report.used \in Nat
      /\ report \in ReportState
  BY DEF TypeOK, ReportState
<1>2. report.used + Cost[c.id] \in Nat /\ report.listed \cup {c} \subseteq Copy
  BY <1>1, RankAssumption DEF Copy
<1> DEFINE phase == IF report.used + Cost[c.id] >= ask.budget \/ Unlisted = {c}
                    THEN "prompted" ELSE "listing"
<1>3. phase \in {"prompted", "listing"}
  OBVIOUS
<1>4. report' = IF Fits(c)
                THEN [phase |-> phase, tickets |-> report.tickets,
                      listed |-> report.listed \cup {c}, used |-> report.used + Cost[c.id]]
                ELSE [report EXCEPT !.phase = "prompted"]
  BY DEF ListTicket
<1> HIDE DEF phase
<1> QED
  BY <1>1, <1>2, <1>3, <1>4 DEF ReportState

LEMMA EditTypeOK ==
    ASSUME TypeOK, NEW records \in SUBSET Ids, NEW newest \in 0 .. MaxRecordId,
           NEW updated \in [Ids -> 0 .. MaxTime], Edit(records, newest, updated)
    PROVE  TypeOK'
<1>1. source.edits + 1 \in 0 .. MaxEdits
  BY Limits DEF TypeOK, SourceState, Edit
<1>2. source' \in SourceState
  BY <1>1 DEF SourceState, Edit
<1> QED
  BY <1>2 DEF TypeOK, Edit

\* What the users of a source do to it.
LEMMA EditCases ==
    ASSUME TypeOK, AddRecord \/ \E r \in Ids : UpdateRecord(r) \/ RemoveRecord(r)
    PROVE  /\ fetch.phase = "fetching" /\ UNCHANGED <<ask, fetch, report>> /\ TypeOK'
           /\ \/ /\ source'.newest = source.newest + 1 /\ source'.updated = source.updated
                 /\ source'.records = source.records \cup {source.newest + 1}
              \/ /\ source'.newest = source.newest /\ source'.records = source.records
                 /\ \A r \in Ids : source.updated[r] <= source'.updated[r]
              \/ /\ source'.newest = source.newest /\ source'.updated = source.updated
                 /\ source'.records \subseteq source.records
<1>1. /\ source.records \in SUBSET Ids /\ source.newest \in 0 .. MaxRecordId
      /\ source.updated \in [Ids -> 0 .. MaxTime]
  BY DEF TypeOK, SourceState
<1>2. CASE AddRecord
  <2>1. source.newest + 1 \in Ids /\ source.newest + 1 \in 0 .. MaxRecordId
    BY <1>1, <1>2, Limits DEF AddRecord, Ids
  <2>2. Edit(source.records \cup {source.newest + 1}, source.newest + 1, source.updated)
    BY <1>2 DEF AddRecord
  <2>3. TypeOK'
    BY <1>1, <2>1, <2>2, EditTypeOK
  <2> QED
    BY <2>2, <2>3 DEF Edit
<1>3. ASSUME NEW r \in Ids, UpdateRecord(r)
      PROVE  /\ fetch.phase = "fetching" /\ UNCHANGED <<ask, fetch, report>> /\ TypeOK'
             /\ source'.newest = source.newest /\ source'.records = source.records
             /\ \A s \in Ids : source.updated[s] <= source'.updated[s]
  <2> DEFINE updated == [source.updated EXCEPT ![r] = @ + 1]
  <2>1. source.updated[r] + 1 \in 0 .. MaxTime
    BY <1>1, <1>3, Limits DEF UpdateRecord
  <2>2. updated \in [Ids -> 0 .. MaxTime] /\ \A s \in Ids : source.updated[s] <= updated[s]
    BY <1>1, <2>1
  <2>3. Edit(source.records, source.newest, updated)
    BY <1>3 DEF UpdateRecord
  <2> HIDE DEF updated
  <2>4. TypeOK'
    BY <1>1, <2>2, <2>3, EditTypeOK
  <2> QED
    BY <2>2, <2>3, <2>4 DEF Edit
<1>4. ASSUME NEW r \in Ids, RemoveRecord(r)
      PROVE  /\ fetch.phase = "fetching" /\ UNCHANGED <<ask, fetch, report>> /\ TypeOK'
             /\ source'.newest = source.newest /\ source'.updated = source.updated
             /\ source'.records \subseteq source.records
  <2>1. Edit(source.records \ {r}, source.newest, source.updated)
    BY <1>4 DEF RemoveRecord
  <2>2. TypeOK'
    BY <1>1, <2>1, EditTypeOK
  <2> QED
    BY <2>1, <2>2 DEF Edit
<1> QED
  BY <1>2, <1>3, <1>4

LEMMA NextTypeOK ==
    ASSUME TypeOK, [Next]_vars
    PROVE  TypeOK'
<1>1. ASSUME NEW n \in 0 .. PageSize, NEW last \in BOOLEAN, NEW next \in Ids \cup {NoToken},
             JiraPage(n, last, next)
      PROVE  TypeOK'
  BY <1>1, JiraPageTaken DEF TokenPageTaken, TypeOK
<1>2. ASSUME NEW n \in 0 .. PageSize, NEW next \in Ids \cup {NoToken}, AsanaPage(n, next)
      PROVE  TypeOK'
  BY <1>2, AsanaPageTaken DEF TokenPageTaken, TypeOK
<1>3. CASE GithubPage
  BY <1>3, GithubPageTaken DEF NumberedPageTaken, TypeOK
<1>4. CASE PageFails
  BY <1>4 DEF PageFails, TypeOK, FetchState, ReportState
<1>5. CASE RecordUnreadable
  BY <1>5 DEF RecordUnreadable, TypeOK, FetchState, ReportState
<1>6. CASE Prepare
  <2>1. Selected(fetch.copies) \in SUBSET Copy
    BY SelectedAreCopies DEF TypeOK, FetchState
  <2> QED
    BY <1>6, <2>1 DEF Prepare, TypeOK, FetchState, ReportState
<1>7. ASSUME NEW c \in report.tickets, ListTicket(c) PROVE TypeOK'
  BY <1>7, ListTicketTypeOK DEF ListTicket, TypeOK
<1>8. ASSUME NEW cutOff \in BOOLEAN, Narrate(cutOff) PROVE TypeOK'
  BY <1>8 DEF Narrate, TypeOK, ReportState
<1>9. CASE NarrateFails
  BY <1>9 DEF NarrateFails, TypeOK, ReportState
<1>10. CASE AddRecord \/ \E r \in Ids : UpdateRecord(r) \/ RemoveRecord(r)
  BY <1>10, EditCases
<1>11. CASE UNCHANGED vars
  BY <1>11 DEF vars, TypeOK
<1> QED
  BY <1>1, <1>2, <1>3, <1>4, <1>5, <1>6, <1>7, <1>8, <1>9, <1>10, <1>11 DEF Next

\* Every variable of the pipeline holds values of its domain, whatever the source does:
\* a loop asks for no page beyond MAX_PAGES and keeps to tokens that are records.
THEOREM PipelineTypeCorrect == Spec => []TypeOK
<1>1. TypeOK /\ [Next]_vars => TypeOK'
  BY NextTypeOK
<1> QED
  BY <1>1, InitTypeOK, PTL DEF Spec

-----------------------------------------------------------------------------
(* What the pages cover.                                                     *)

LEMMA InitFetchInv ==
    ASSUME Init
    PROVE  FetchInv
<1>1. TypeOK
  BY InitTypeOK
<1>2. /\ source.records = 1 .. InitialRecords /\ source.newest = InitialRecords
      /\ source.updated = ask.updated
      /\ fetch.phase = "fetching" /\ fetch.page = 1 /\ fetch.token = MaxRecordId
      /\ fetch.copies = {}
  BY DEF Init
<1>3. SourceMoves
  BY <1>1, <1>2, Limits DEF SourceMoves, TypeOK, AskState
<1>4. CopiesAreGenuine /\ WholeFetchCovers
  BY <1>2 DEF CopiesAreGenuine, WholeFetchCovers
<1>5. ServedAreCopied
  <2> SUFFICES ASSUME NEW r \in Held,
                      \/ r > fetch.token
                      \/ source.newest - r < (fetch.page - 1) * PageSize
               PROVE  FALSE
    BY DEF ServedAreCopied
  <2>1. r \in 1 .. InitialRecords
    BY DEF Held
  <2>2. (fetch.page - 1) * PageSize = 0
    BY <1>2, Limits
  <2> QED
    BY <1>2, <2>1, <2>2, Limits
<1> QED
  BY <1>3, <1>4, <1>5 DEF FetchInv

\* The copies of a page are genuine.
LEMMA PageIsGenuine ==
    ASSUME TypeOK, SourceMoves, CopiesAreGenuine, NEW ids \in SUBSET source.records,
           fetch'.copies = fetch.copies \cup Copies(ids), UNCHANGED <<source, ask>>
    PROVE  /\ SourceMoves' /\ CopiesAreGenuine'
           /\ \A r : Copied(r) => Copied(r)'
           /\ \A r \in ids : Copied(r)'
<1>1. SourceMoves'
  BY DEF SourceMoves
<1>2. ASSUME NEW r \in ids PROVE [id |-> r, updated |-> source.updated[r]] \in fetch'.copies
  BY <1>2 DEF Copies
<1>3. CopiesAreGenuine'
  <2> SUFFICES ASSUME NEW c \in fetch'.copies
               PROVE  ask.updated[c.id] <= c.updated /\ c.updated <= source.updated[c.id]
    BY DEF CopiesAreGenuine
  <2>1. CASE c \in fetch.copies
    BY <2>1 DEF CopiesAreGenuine
  <2>2. CASE c \in Copies(ids)
    <3>1. PICK r \in ids : c = [id |-> r, updated |-> source.updated[r]]
      BY <2>2 DEF Copies
    <3>2. r \in Ids /\ source.updated[r] \in 0 .. MaxTime
      BY DEF TypeOK, SourceState
    <3> QED
      BY <3>1, <3>2, Limits DEF SourceMoves
  <2> QED
    BY <2>1, <2>2
<1>4. \A r : Copied(r) => Copied(r)'
  BY DEF Copied
<1>5. \A r \in ids : Copied(r)'
  BY <1>2 DEF Copied
<1> QED
  BY <1>1, <1>3, <1>4, <1>5

\* A record that has to be covered is still in the source.
LEMMA HeldAreThere ==
    ASSUME TypeOK, SourceMoves, NEW r \in Held
    PROVE  /\ r \in source.records /\ r \in 1 .. source.newest /\ r \in Ids
           /\ r \in Nat /\ r \notin ask.pulls
<1>1. source.newest \in Nat /\ source.records \subseteq Ids
  BY Limits DEF TypeOK, SourceState
<1>2. r \in 1 .. InitialRecords /\ r \notin ask.pulls /\ r \notin Removed
  BY DEF Held
<1> QED
  BY <1>1, <1>2, Limits DEF Removed, SourceMoves

LEMMA TokenPageFetchInv ==
    ASSUME ~ EmptyPages, TypeOK, FetchInv, NEW ids \in SUBSET source.records,
           TokenPageTaken(ids)
    PROVE  FetchInv'
<1>1. /\ fetch.phase = "fetching" /\ ask.connector # "github" /\ UNCHANGED <<source, ask>>
      /\ SourceMoves /\ CopiesAreGenuine /\ ServedAreCopied
  BY DEF FetchInv, TokenPageTaken
<1>2. /\ SourceMoves' /\ CopiesAreGenuine'
      /\ \A r : Copied(r) => Copied(r)'
      /\ \A r \in ids : Copied(r)'
  BY <1>1, PageIsGenuine DEF TokenPageTaken
<1>3. Held' = Held
  BY <1>1 DEF Held, Removed
<1>4. ASSUME NEW r \in Held PROVE r \notin FromToken => Copied(r)
  <2>1. r \in source.records /\ r \in Nat /\ fetch.token \in Nat
    BY <1>1, HeldAreThere DEF TypeOK, FetchState, Ids
  <2>2. r \notin FromToken => r > fetch.token
    BY <2>1 DEF FromToken
  <2> QED
    BY <1>1, <2>2 DEF ServedAreCopied
<1>5. CASE fetch'.phase = "fetched"
  <2>1. fetch'.truncated \/ FromToken \subseteq ids
    BY <1>5 DEF TokenPageTaken
  <2>2. ~ fetch'.truncated => \A r \in Held : Copied(r)'
    BY <1>2, <1>4, <2>1
  <2> QED
    BY <1>2, <1>3, <1>5, <2>2 DEF FetchInv, ServedAreCopied, WholeFetchCovers
<1>6. CASE fetch'.phase = "fetching" /\ Resumes(fetch'.token, ids)
  <2>1. ASSUME NEW r \in Held, r > fetch'.token PROVE Copied(r)'
    <3>1. r \in Nat /\ fetch'.token \in Nat
      BY <1>1, HeldAreThere DEF TokenPageTaken, FetchState, Ids
    <3>2. r \notin FromToken \/ r \in ids
      BY <1>6, <2>1, <3>1 DEF Resumes
    <3> QED
      BY <1>2, <1>4, <3>2
  <2>2. ServedAreCopied'
    BY <1>1, <1>3, <2>1 DEF ServedAreCopied
  <2> QED
    BY <1>2, <1>6, <2>2 DEF FetchInv, WholeFetchCovers
<1> QED
  BY <1>5, <1>6 DEF TokenPageTaken

\* How many records are newer than one, while none has been removed.
LEMMA NewerRecords ==
    ASSUME NEW newest \in Nat, NEW r \in 1 .. newest
    PROVE  Cardinality({s \in 1 .. newest : s > r}) = newest - r
<1>1. {s \in 1 .. newest : s > r} = (r + 1) .. newest
  OBVIOUS
<1>2. Cardinality((r + 1) .. newest) = newest - r
  BY FS_Interval
<1> QED
  BY <1>1, <1>2

\* What a numbered page holds, while none has been removed.
LEMMA NumberedRecords ==
    ASSUME TypeOK, SourceMoves, Removed = {}
    PROVE  /\ source.records = 1 .. source.newest
           /\ NumberedPage = {r \in 1 .. source.newest :
                                /\ source.newest - r < fetch.page * PageSize
                                /\ ~ (source.newest - r < (fetch.page - 1) * PageSize)}
<1>1. source.newest \in Nat
  BY Limits DEF TypeOK, SourceState
<1>2. source.records = 1 .. source.newest
  BY DEF Removed, SourceMoves
<1>3. \A r \in 1 .. source.newest :
         Cardinality({s \in source.records : s > r}) = source.newest - r
  BY <1>1, <1>2, NewerRecords
<1> QED
  BY <1>2, <1>3 DEF NumberedPage, Newest

\* A numbered page that is not full is the last one.
LEMMA ShortPageIsLast ==
    ASSUME TypeOK, SourceMoves, Removed = {}, Cardinality(NumberedPage) < PageSize
    PROVE  \A r \in 1 .. source.newest : source.newest - r < fetch.page * PageSize
<1> DEFINE newest == source.newest
           above == (fetch.page - 1) * PageSize
           last == above + PageSize
<1>1. newest \in Nat /\ above \in Nat /\ PageSize \in Nat \ {0}
      /\ fetch.page * PageSize = last
  BY Limits DEF TypeOK, SourceState, FetchState
<1> SUFFICES ASSUME NEW r \in 1 .. newest, ~ (newest - r < last)
             PROVE  FALSE
  BY <1>1
<1>2. NumberedPage = {s \in 1 .. newest : newest - s < last /\ ~ (newest - s < above)}
  BY <1>1, NumberedRecords
<1> HIDE DEF above
<1> DEFINE page == (newest - last + 1) .. (newest - above)
<1>3. page \subseteq NumberedPage
  BY <1>1, <1>2
<1>4. Cardinality(page) = PageSize
  <2>1. /\ newest - last + 1 \in Int /\ newest - above \in Int
        /\ newest - last + 1 <= newest - above
        /\ (newest - above) - (newest - last + 1) + 1 = PageSize
    BY <1>1
  <2> QED
    BY <2>1, FS_Interval
<1>5. NumberedPage \subseteq Ids
  BY DEF NumberedPage, Newest, TypeOK, SourceState
<1>6. Cardinality(page) <= Cardinality(NumberedPage) /\ Cardinality(NumberedPage) \in Nat
  BY <1>3, <1>5, IdsAreFinite, FS_Subset
<1> QED
  BY <1>1, <1>4, <1>6

LEMMA NumberedPageFetchInv ==
    ASSUME TypeOK, FetchInv, NumberedPageTaken
    PROVE  FetchInv'
<1> DEFINE issues == NumberedPage \ ask.pulls
<1>1. /\ fetch.phase = "fetching" /\ ask.connector = "github" /\ UNCHANGED <<source, ask>>
      /\ SourceMoves /\ CopiesAreGenuine /\ ServedAreCopied
  BY DEF FetchInv, NumberedPageTaken
<1>2. issues \in SUBSET source.records
  BY DEF NumberedPage, Newest
<1>3. /\ SourceMoves' /\ CopiesAreGenuine'
      /\ \A r : Copied(r) => Copied(r)'
      /\ \A r \in issues : Copied(r)'
  BY <1>1, <1>2, PageIsGenuine DEF NumberedPageTaken
<1>4. Held' = Held /\ Removed' = Removed
  BY <1>1 DEF Held, Removed
<1>5. ASSUME Removed = {}, NEW r \in Held, source.newest - r < fetch.page * PageSize
      PROVE  Copied(r)'
  <2>1. r \in 1 .. source.newest /\ r \notin ask.pulls
    BY <1>1, HeldAreThere
  <2>2. CASE source.newest - r < (fetch.page - 1) * PageSize
    BY <1>1, <1>3, <1>5, <2>2 DEF ServedAreCopied
  <2>3. CASE ~ (source.newest - r < (fetch.page - 1) * PageSize)
    <3>1. r \in issues
      BY <1>1, <1>5, <2>1, <2>3, NumberedRecords
    <3> QED
      BY <1>3, <3>1
  <2> QED
    BY <2>2, <2>3
<1>6. CASE fetch'.phase = "fetched" /\ (fetch'.truncated \/ Cardinality(NumberedPage) < PageSize)
  <2>1. ASSUME ~ fetch'.truncated, Removed = {}, NEW r \in Held PROVE Copied(r)'
    <3>1. r \in 1 .. source.newest
      BY <1>1, HeldAreThere
    <3> QED
      BY <1>1, <1>5, <1>6, <2>1, <3>1, ShortPageIsLast
  <2> QED
    BY <1>1, <1>3, <1>4, <1>6, <2>1 DEF FetchInv, ServedAreCopied, WholeFetchCovers
<1>7. CASE fetch'.phase = "fetching" /\ fetch'.page = fetch.page + 1
  <2>1. (fetch'.page - 1) * PageSize = fetch.page * PageSize
    BY <1>7, Limits DEF TypeOK, FetchState
  <2>2. ServedAreCopied'
    BY <1>1, <1>4, <1>5, <2>1 DEF ServedAreCopied
  <2> QED
    BY <1>3, <1>7, <2>2 DEF FetchInv, WholeFetchCovers
<1> QED
  BY <1>6, <1>7 DEF NumberedPageTaken

LEMMA EditFetchInv ==
    ASSUME TypeOK, FetchInv, AddRecord \/ \E r \in Ids : UpdateRecord(r) \/ RemoveRecord(r)
    PROVE  FetchInv'
<1>1. /\ fetch.phase = "fetching" /\ UNCHANGED <<ask, fetch>>
      /\ SourceMoves /\ CopiesAreGenuine /\ ServedAreCopied
  BY EditCases DEF FetchInv
<1>2. /\ source.newest \in Nat /\ source.records \subseteq 1 .. source.newest
      /\ InitialRecords \in Nat /\ InitialRecords <= source.newest
      /\ \A r \in Ids : source.updated[r] \in Nat /\ source'.updated[r] \in Nat
                        /\ ask.updated[r] \in Nat /\ ask.updated[r] <= source.updated[r]
  BY <1>1, EditCases, Limits DEF TypeOK, SourceState, AskState, SourceMoves
<1>3. /\ source'.newest \in Nat /\ source.newest <= source'.newest
      /\ source'.records \subseteq 1 .. source'.newest
      /\ \A r \in Ids : source.updated[r] <= source'.updated[r]
      /\ Removed \subseteq Removed'
  <2>1. CASE /\ source'.newest = source.newest + 1 /\ source'.updated = source.updated
             /\ source'.records = source.records \cup {source.newest + 1}
    BY <1>2, <2>1 DEF Removed
  <2>2. CASE /\ source'.newest = source.newest /\ source'.records = source.records
             /\ \A r \in Ids : source.updated[r] <= source'.updated[r]
    BY <1>2, <2>2 DEF Removed
  <2>3. CASE /\ source'.newest = source.newest /\ source'.updated = source.updated
             /\ source'.records \subseteq source.records
    BY <1>2, <2>3 DEF Removed
  <2> QED
    BY <2>1, <2>2, <2>3, EditCases
<1>4. SourceMoves'
  BY <1>1, <1>2, <1>3 DEF SourceMoves
<1>5. CopiesAreGenuine'
  <2>1. \A c \in fetch.copies : c.id \in Ids /\ c.updated \in Nat
    BY Limits DEF TypeOK, FetchState, Copy
  <2> QED
    BY <1>1, <1>2, <1>3, <2>1 DEF CopiesAreGenuine
<1>6. ServedAreCopied'
  <2> SUFFICES ASSUME NEW r \in Held',
                      \/ ask.connector # "github" /\ r > fetch.token
                      \/ /\ ask.connector = "github" /\ Removed' = {}
                         /\ source'.newest - r < (fetch.page - 1) * PageSize
               PROVE  Copied(r)'
    BY <1>1 DEF ServedAreCopied
  <2>1. r \in Held
    BY <1>1, <1>3 DEF Held
  <2>2. r \in Nat /\ (fetch.page - 1) * PageSize \in Nat
    BY <1>1, <2>1, HeldAreThere, Limits DEF TypeOK, FetchState
  <2>3. \/ ask.connector # "github" /\ r > fetch.token
        \/ /\ ask.connector = "github" /\ Removed = {}
           /\ source.newest - r < (fetch.page - 1) * PageSize
    BY <1>2, <1>3, <2>2
  <2>4. Copied(r)
    BY <1>1, <2>1, <2>3 DEF ServedAreCopied
  <2> QED
    BY <1>1, <2>4 DEF Copied
<1>7. WholeFetchCovers'
  BY <1>1 DEF WholeFetchCovers
<1> QED
  BY <1>4, <1>5, <1>6, <1>7 DEF FetchInv

\* A step after the pages brings no copy, and what was whole stays whole.
LEMMA LaterFetchInv ==
    ASSUME FetchInv, UNCHANGED <<source, ask>>, fetch'.copies = fetch.copies,
           fetch'.phase # "fetching",
           fetch'.truncated \/ report'.phase = "failed"
           \/ (fetch.phase # "fetching" /\ ~ fetch.truncated /\ report.phase # "failed")
    PROVE  FetchInv'
<1>1. SourceMoves' /\ CopiesAreGenuine'
  BY DEF FetchInv, SourceMoves, CopiesAreGenuine
<1>2. ServedAreCopied'
  BY DEF ServedAreCopied
<1>3. Held' = Held /\ Removed' = Removed
  BY DEF Held, Removed
<1>4. WholeFetchCovers'
  BY <1>3 DEF FetchInv, WholeFetchCovers, Copied
<1> QED
  BY <1>1, <1>2, <1>4 DEF FetchInv

LEMMA NextFetchInv ==
    ASSUME ~ EmptyPages, TypeOK, FetchInv, TicketsAreSelected, [Next]_vars
    PROVE  FetchInv'
<1> USE DEF TypeOK, FetchState, ReportState
<1>1. ASSUME NEW n \in 0 .. PageSize, NEW last \in BOOLEAN, NEW next \in Ids \cup {NoToken},
             JiraPage(n, last, next)
      PROVE  FetchInv'
  BY <1>1, JiraPageTaken, TokenPageFetchInv
<1>2. ASSUME NEW n \in 0 .. PageSize, NEW next \in Ids \cup {NoToken}, AsanaPage(n, next)
      PROVE  FetchInv'
  BY <1>2, AsanaPageTaken, TokenPageFetchInv
<1>3. CASE GithubPage
  BY <1>3, GithubPageTaken, NumberedPageFetchInv
<1>4. CASE PageFails
  BY <1>4, LaterFetchInv DEF PageFails
<1>5. CASE RecordUnreadable
  BY <1>5, LaterFetchInv DEF RecordUnreadable
<1>6. CASE Prepare
  <2>1. /\ fetch.phase = "fetched" /\ report.phase = "none" /\ fetch'.phase = "over"
        /\ fetch'.copies = fetch.copies /\ fetch'.truncated = fetch.truncated
        /\ UNCHANGED <<source, ask>>
    BY <1>6 DEF Prepare, TicketsAreSelected
  <2> QED
    BY <2>1, LaterFetchInv
<1>7. ASSUME report.phase \in {"listing", "prompted"}, UNCHANGED <<source, ask, fetch>>
      PROVE  FetchInv'
  <2>1. fetch.phase = "over"
    BY <1>7 DEF TicketsAreSelected
  <2> QED
    BY <1>7, <2>1, LaterFetchInv
<1>8. CASE \E c \in report.tickets : ListTicket(c)
  BY <1>7, <1>8 DEF ListTicket
<1>9. CASE (\E cutOff \in BOOLEAN : Narrate(cutOff)) \/ NarrateFails
  BY <1>7, <1>9 DEF Narrate, NarrateFails
<1>10. CASE AddRecord \/ \E r \in Ids : UpdateRecord(r) \/ RemoveRecord(r)
  BY <1>10, EditFetchInv
<1>11. CASE UNCHANGED vars
  BY <1>11 DEF vars, FetchInv, SourceMoves, CopiesAreGenuine, ServedAreCopied,
               WholeFetchCovers, Held, Removed, Copied
<1> QED
  BY <1>1, <1>2, <1>3, <1>4, <1>5, <1>6, <1>8, <1>9, <1>10, <1>11 DEF Next

-----------------------------------------------------------------------------
(* The listing.                                                              *)

LEMMA CopiesAreFinite ==
    ASSUME NEW S \in SUBSET Copy
    PROVE  IsFiniteSet(S) /\ Cardinality(S) \in Nat
<1> DEFINE pairs == Ids \X (0 .. MaxTime)
           f == [p \in pairs |-> [id |-> p[1], updated |-> p[2]]]
<1>1. IsFiniteSet(pairs)
  <2>1. IsFiniteSet(Ids) /\ IsFiniteSet(0 .. MaxTime)
    BY Limits, IdsAreFinite, FS_Interval
  <2> QED
    BY <2>1, FS_Product
<1>2. f \in Surjection(pairs, Copy)
  <2>1. f \in [pairs -> Copy]
    BY DEF Copy
  <2>2. ASSUME NEW c \in Copy PROVE \E p \in pairs : f[p] = c
    <3>1. <<c.id, c.updated>> \in pairs /\ c = [id |-> c.id, updated |-> c.updated]
      BY DEF Copy
    <3>2. f[<<c.id, c.updated>>] = c
      BY <3>1
    <3> QED
      BY <3>1, <3>2
  <2> QED
    BY <2>1, <2>2 DEF Surjection
<1>3. IsFiniteSet(Copy)
  BY <1>1, <1>2, FS_Surjection
<1> QED
  BY <1>3, FS_Subset, FS_CardinalityType

\* A ticket that joins the list costs as much as its line.
LEMMA CostOfOneMore ==
    ASSUME NEW S \in SUBSET Copy, NEW c \in Copy, c \notin S, IsFiniteSet(Tokens(S))
    PROVE  /\ IsFiniteSet(Tokens(S \cup {c}))
           /\ ListedCost(S \cup {c}) = ListedCost(S) + Cost[c.id]
           /\ ListedCost(S) \in Nat /\ Cost[c.id] \in Nat \ {0}
<1> DEFINE line == {c} \X (1 .. Cost[c.id])
<1>1. Cost[c.id] \in Nat \ {0}
  BY RankAssumption DEF Copy
<1>2. IsFiniteSet(line) /\ Cardinality(line) = Cost[c.id]
  <2>1. IsFiniteSet({c}) /\ Cardinality({c}) = 1
    BY FS_Singleton
  <2>2. IsFiniteSet(1 .. Cost[c.id]) /\ Cardinality(1 .. Cost[c.id]) = Cost[c.id]
    <3>1. /\ IsFiniteSet(1 .. Cost[c.id])
          /\ Cardinality(1 .. Cost[c.id]) = IF 1 > Cost[c.id] THEN 0 ELSE Cost[c.id] - 1 + 1
      BY <1>1, FS_Interval
    <3> QED
      BY <1>1, <3>1
  <2>3. IsFiniteSet(line) /\ Cardinality(line) = 1 * Cost[c.id]
    BY <2>1, <2>2, FS_Product
  <2> QED
    BY <1>1, <2>3
<1>3. Tokens(S \cup {c}) = Tokens(S) \cup line
  BY DEF Tokens
<1>4. Tokens(S) \cap line = {}
  BY DEF Tokens
<1>5. Cardinality({}) = 0 /\ Cardinality(Tokens(S)) \in Nat
  BY FS_EmptySet, FS_CardinalityType
<1>6. /\ IsFiniteSet(Tokens(S) \cup line)
      /\ Cardinality(Tokens(S) \cup line)
           = Cardinality(Tokens(S)) + Cardinality(line) - Cardinality(Tokens(S) \cap line)
  BY <1>2, FS_Union
<1> HIDE DEF line
<1>7. Cardinality(Tokens(S) \cup line) = Cardinality(Tokens(S)) + Cost[c.id]
  BY <1>1, <1>2, <1>4, <1>5, <1>6
<1> QED
  BY <1>1, <1>3, <1>5, <1>6, <1>7 DEF ListedCost

LEMMA EmptyListCost == IsFiniteSet(Tokens({})) /\ ListedCost({}) = 0
<1>1. Tokens({}) = {}
  BY DEF Tokens
<1> QED
  BY <1>1, FS_EmptySet DEF ListedCost

\* Of two tickets at most one ranks before the other.
LEMMA RankIsStrict ==
    ASSUME NEW c \in Copy, NEW d \in Copy, RanksBefore(c, d)
    PROVE  ~ RanksBefore(d, c)
<1>1. Tier[c.id] \in 0 .. 2 /\ Tier[d.id] \in 0 .. 2 /\ c.id \in Nat /\ d.id \in Nat
  BY RankAssumption DEF Copy, Ids
<1> QED
  BY <1>1 DEF RanksBefore

LEMMA ListTicketIsBest ==
    ASSUME TypeOK, TicketsAreSelected, ListIsBest, NEW c \in report.tickets, ListTicket(c)
    PROVE  ListIsBest'
<1>1. /\ report.phase = "listing" /\ IsNext(c) /\ c \in Unlisted
      /\ \A e \in Unlisted \ {c} : RanksBefore(c, e)
      /\ UNCHANGED <<source, ask, fetch>>
  BY DEF ListTicket, IsNext
<1>2. /\ report.tickets \subseteq Copy /\ report.listed \subseteq report.tickets
      /\ report.used \in Nat /\ ask.budget \in Nat /\ c \in Copy /\ c \notin report.listed
  BY <1>1, Limits DEF TypeOK, ReportState, AskState, TicketsAreSelected, Unlisted
<1>3. /\ IsFiniteSet(Tokens(report.listed)) /\ report.used = ListedCost(report.listed)
      /\ Cardinality(report.listed) > 1 => report.used <= ask.budget
      /\ \A e \in Unlisted, d \in report.listed : RanksBefore(d, e)
  BY DEF ListIsBest
<1>4. CASE Fits(c)
  <2> DEFINE used == report.used + Cost[c.id]
  <2>1. /\ report'.tickets = report.tickets /\ report'.listed = report.listed \cup {c}
        /\ report'.used = used /\ Unlisted' = Unlisted \ {c}
        /\ report'.phase # "listing" => used >= ask.budget \/ Unlisted = {c}
    BY <1>4 DEF ListTicket, Unlisted
  <2>2. /\ IsFiniteSet(Tokens(report.listed \cup {c}))
        /\ used = ListedCost(report.listed \cup {c})
        /\ Cost[c.id] \in Nat \ {0}
    BY <1>2, <1>3, CostOfOneMore
  <2>3. IsFiniteSet(Tokens(report.listed)') /\ report'.used = ListedCost(report.listed)'
    BY <2>1, <2>2 DEF Tokens, ListedCost
  <2>4. ASSUME NEW e \in Unlisted', NEW d \in report'.listed PROVE RanksBefore(d, e)
    BY <1>1, <1>3, <2>1, <2>4
  <2>5. Cardinality(report'.listed) > 1 => report'.used <= ask.budget
    <3>1. CASE report.listed = {}
      <4>1. Cardinality(report'.listed) = 1
        BY <2>1, <3>1, FS_Singleton
      <4> QED
        BY <4>1
    <3>2. CASE report.listed # {}
      BY <1>4, <2>1, <3>2 DEF Fits
    <3> QED
      BY <3>1, <3>2
  <2>6. ASSUME report'.phase # "listing", NEW e \in Unlisted', IsNext(e)'
        PROVE  report'.used + Cost[e.id] > ask.budget
    <3>1. e \in Copy /\ e \in Unlisted \ {c}
      BY <1>2, <2>1 DEF Unlisted
    <3>2. used >= ask.budget
      BY <2>1, <2>6, <3>1
    <3>3. Cost[e.id] \in Nat \ {0} /\ used \in Nat
      BY <1>2, <2>2, <3>1, RankAssumption DEF Copy
    <3> QED
      BY <1>2, <2>1, <3>2, <3>3
  <2> QED
    BY <1>1, <2>1, <2>3, <2>4, <2>5, <2>6 DEF ListIsBest, RanksBefore
<1>5. CASE ~ Fits(c)
  <2>1. /\ report'.tickets = report.tickets /\ report'.listed = report.listed
        /\ report'.used = report.used /\ report'.phase = "prompted" /\ Unlisted' = Unlisted
    BY <1>5 DEF ListTicket, Unlisted, TypeOK, ReportState
  <2>2. /\ report.listed # {} /\ report.used + Cost[c.id] > ask.budget
    <3>1. Cost[c.id] \in Nat
      BY <1>2, RankAssumption DEF Copy
    <3> QED
      BY <1>2, <1>5, <3>1 DEF Fits
  <2>3. ASSUME NEW e \in Unlisted', IsNext(e)' PROVE e = c
    <3>1. e \in Unlisted /\ e \in Copy /\ (e # c => RanksBefore(e, c))
      BY <1>1, <1>2, <2>1, <2>3 DEF IsNext, Unlisted, RanksBefore
    <3>2. e # c => RanksBefore(c, e)
      BY <1>1, <3>1
    <3> QED
      BY <1>2, <3>1, <3>2, RankIsStrict
  <2>4. IsFiniteSet(Tokens(report.listed)') /\ report'.used = ListedCost(report.listed)'
    BY <1>3, <2>1 DEF Tokens, ListedCost
  <2> QED
    BY <1>1, <1>3, <2>1, <2>2, <2>3, <2>4 DEF ListIsBest, RanksBefore
<1> QED
  BY <1>4, <1>5

\* A step that lists nothing keeps the list, unless it would leave the loop by itself.
LEMMA OtherStepIsBest ==
    ASSUME ListIsBest, report'.tickets = report.tickets, report'.listed = report.listed,
           report'.used = report.used, UNCHANGED ask,
           report.phase = "listing" => report'.phase = "listing"
    PROVE  ListIsBest'
<1>1. Unlisted' = Unlisted
  BY DEF Unlisted
<1>2. \A c : IsNext(c)' <=> IsNext(c)
  BY <1>1 DEF IsNext, RanksBefore
<1>3. Tokens(report.listed)' = Tokens(report.listed)
  BY DEF Tokens
<1> QED
  BY <1>1, <1>2, <1>3 DEF ListIsBest, ListedCost, RanksBefore

LEMMA SelectionStays ==
    ASSUME fetch'.copies = fetch.copies, UNCHANGED ask
    PROVE  Selected(fetch.copies)' = Selected(fetch.copies)
BY DEF Selected, InPeriod, Deduped

\* No ticket is selected before the fetch has returned, nor by a step that fails the report.
LEMMA UnselectedReportInv ==
    ASSUME TypeOK, ReportInv, report.phase = "none", UNCHANGED ask,
           \/ UNCHANGED report /\ fetch'.phase \in {"fetching", "fetched"}
           \/ report' = [report EXCEPT !.phase = "failed"] /\ fetch'.phase = "over"
    PROVE  ReportInv'
<1>1. /\ report.tickets = {} /\ report.listed = {}
      /\ report'.tickets = {} /\ report'.listed = {} /\ report'.used = report.used
      /\ \/ report'.phase = "none" /\ fetch'.phase \in {"fetching", "fetched"}
         \/ report'.phase = "failed" /\ fetch'.phase = "over"
  BY DEF ReportInv, TicketsAreSelected, TypeOK, ReportState
<1>2. TicketsAreSelected' /\ CompleteIsWhole'
  BY <1>1 DEF TicketsAreSelected, CompleteIsWhole
<1>3. ListIsBest'
  BY <1>1, OtherStepIsBest DEF ReportInv
<1> QED
  BY <1>2, <1>3 DEF ReportInv

LEMMA PrepareReportInv ==
    ASSUME TypeOK, ReportInv, Prepare
    PROVE  ReportInv'
<1>1. /\ fetch.phase = "fetched" /\ report.phase = "none" /\ UNCHANGED ask
      /\ fetch'.phase = "over" /\ fetch'.copies = fetch.copies
  BY DEF Prepare, ReportInv, TicketsAreSelected, TypeOK, FetchState
<1>2. CASE Selected(fetch.copies) = {}
  BY <1>1, <1>2, UnselectedReportInv DEF Prepare
<1>3. CASE Selected(fetch.copies) # {}
  <2>1. report' = [phase |-> "listing", tickets |-> Selected(fetch.copies), listed |-> {},
                   used |-> 0]
    BY <1>3 DEF Prepare
  <2>2. TicketsAreSelected' /\ CompleteIsWhole'
    BY <1>1, <2>1, SelectionStays DEF TicketsAreSelected, CompleteIsWhole
  <2>3. Tokens(report.listed)' = Tokens({})
    BY <2>1 DEF Tokens
  <2>4. Cardinality({}) = 0
    BY FS_EmptySet
  <2>5. ListIsBest'
    BY <2>1, <2>3, <2>4, EmptyListCost DEF ListIsBest, ListedCost
  <2> QED
    BY <2>2, <2>5 DEF ReportInv
<1> QED
  BY <1>2, <1>3

LEMMA ListTicketReportInv ==
    ASSUME TypeOK, ReportInv, NEW c \in report.tickets, ListTicket(c)
    PROVE  ReportInv'
<1>1. /\ report.phase = "listing" /\ UNCHANGED <<ask, fetch>>
      /\ report'.phase \in {"listing", "prompted"} /\ report'.tickets = report.tickets
      /\ report'.listed \subseteq report.listed \cup {c}
  BY DEF ListTicket, TypeOK, ReportState
<1>2. TicketsAreSelected' /\ CompleteIsWhole'
  BY <1>1, SelectionStays DEF ReportInv, TicketsAreSelected, CompleteIsWhole
<1> QED
  BY <1>2, ListTicketIsBest DEF ReportInv

\* The steps after the listing change nothing but the phase.
LEMMA NarrateReportInv ==
    ASSUME TypeOK, ReportInv, (\E cutOff \in BOOLEAN : Narrate(cutOff)) \/ NarrateFails
    PROVE  ReportInv'
<1>1. /\ report.phase = "prompted" /\ UNCHANGED <<ask, fetch>>
      /\ report'.phase \in {"complete", "partial", "failed"}
      /\ report'.tickets = report.tickets /\ report'.listed = report.listed
      /\ report'.used = report.used
  BY DEF Narrate, NarrateFails, TypeOK, ReportState
<1>2. TicketsAreSelected'
  BY <1>1, SelectionStays DEF ReportInv, TicketsAreSelected
<1>3. CompleteIsWhole'
  <2> SUFFICES ASSUME report'.phase = "complete"
               PROVE  ~ fetch.truncated /\ report.listed = report.tickets
    BY <1>1 DEF CompleteIsWhole
  <2>1. /\ ~ fetch.truncated
        /\ ~ (Cardinality(report.tickets) - Cardinality(report.listed) > 0)
    BY DEF Narrate, NarrateFails, TypeOK, ReportState
  <2>2. report.tickets \in SUBSET Copy /\ report.listed \in SUBSET report.tickets
    BY DEF TypeOK, ReportState, ReportInv, TicketsAreSelected
  <2>3. /\ IsFiniteSet(report.tickets)
        /\ Cardinality(report.tickets) \in Nat /\ Cardinality(report.listed) \in Nat
    BY <2>2, CopiesAreFinite
  <2>4. /\ Cardinality(report.listed) <= Cardinality(report.tickets)
        /\ Cardinality(report.tickets) = Cardinality(report.listed)
             => report.tickets = report.listed
    BY <2>2, <2>3, FS_Subset
  <2> QED
    BY <2>1, <2>3, <2>4
<1>4. ListIsBest'
  BY <1>1, OtherStepIsBest DEF ReportInv
<1> QED
  BY <1>2, <1>3, <1>4 DEF ReportInv

LEMMA InitReportInv ==
    ASSUME Init
    PROVE  ReportInv
<1>1. /\ fetch.phase = "fetching" /\ report.phase = "none" /\ report.tickets = {}
      /\ report.listed = {} /\ report.used = 0
  BY DEF Init
<1>2. Cardinality({}) = 0
  BY FS_EmptySet
<1>3. ListIsBest
  BY <1>1, <1>2, EmptyListCost DEF ListIsBest, Unlisted
<1> QED
  BY <1>1, <1>3 DEF ReportInv, TicketsAreSelected, CompleteIsWhole

LEMMA NextReportInv ==
    ASSUME TypeOK, ReportInv, [Next]_vars
    PROVE  ReportInv'
<1> DEFINE NoneYet == fetch.phase # "over" => report.phase = "none"
<1>0. NoneYet
  BY DEF ReportInv, TicketsAreSelected
<1>1. ASSUME NEW n \in 0 .. PageSize, NEW last \in BOOLEAN, NEW next \in Ids \cup {NoToken},
             JiraPage(n, last, next)
      PROVE  ReportInv'
  BY <1>0, <1>1, JiraPageTaken, UnselectedReportInv DEF TokenPageTaken
<1>2. ASSUME NEW n \in 0 .. PageSize, NEW next \in Ids \cup {NoToken}, AsanaPage(n, next)
      PROVE  ReportInv'
  BY <1>0, <1>2, AsanaPageTaken, UnselectedReportInv DEF TokenPageTaken
<1>3. CASE GithubPage
  BY <1>0, <1>3, GithubPageTaken, UnselectedReportInv DEF NumberedPageTaken
<1>4. CASE PageFails
  <2>1. /\ report.phase = "none" /\ UNCHANGED ask
        /\ \/ report' = [report EXCEPT !.phase = "failed"] /\ fetch'.phase = "over"
           \/ UNCHANGED report /\ fetch'.phase = "fetched"
    BY <1>0, <1>4 DEF PageFails, TypeOK, FetchState
  <2> QED
    BY <2>1, UnselectedReportInv
<1>5. CASE RecordUnreadable
  <2>1. /\ report.phase = "none" /\ UNCHANGED ask
        /\ report' = [report EXCEPT !.phase = "failed"] /\ fetch'.phase = "over"
    BY <1>0, <1>5 DEF RecordUnreadable, TypeOK, FetchState
  <2> QED
    BY <2>1, UnselectedReportInv
<1>6. CASE Prepare
  BY <1>6, PrepareReportInv
<1>7. CASE \E c \in report.tickets : ListTicket(c)
  BY <1>7, ListTicketReportInv
<1>8. CASE (\E cutOff \in BOOLEAN : Narrate(cutOff)) \/ NarrateFails
  BY <1>8, NarrateReportInv
<1>9. CASE AddRecord \/ \E r \in Ids : UpdateRecord(r) \/ RemoveRecord(r)
  BY <1>0, <1>9, EditCases, UnselectedReportInv
<1>10. CASE UNCHANGED vars
  <2>1. TicketsAreSelected' /\ CompleteIsWhole'
    BY <1>10, SelectionStays DEF vars, ReportInv, TicketsAreSelected, CompleteIsWhole
  <2>2. ListIsBest'
    BY <1>10, OtherStepIsBest DEF vars, ReportInv
  <2> QED
    BY <2>1, <2>2 DEF ReportInv
<1> QED
  BY <1>1, <1>2, <1>3, <1>4, <1>5, <1>6, <1>7, <1>8, <1>9, <1>10 DEF Next

-----------------------------------------------------------------------------
(* What a report holds.                                                      *)

LEMMA ReportInvariant == Spec => [](TypeOK /\ ReportInv)
<1>1. Init => TypeOK /\ ReportInv
  BY InitTypeOK, InitReportInv
<1>2. TypeOK /\ ReportInv /\ [Next]_vars => (TypeOK /\ ReportInv)'
  BY NextTypeOK, NextReportInv
<1> QED
  BY <1>1, <1>2, PTL DEF Spec

\* The copy of a record that is listed is the newest that any page brought.
THEOREM ListedCopiesAreNewest == Spec => []NewestCopyIsListed
<1>1. TypeOK /\ ReportInv => NewestCopyIsListed
  <2> SUFFICES ASSUME ReportInv, NEW c \in report.listed, NEW d \in fetch.copies,
                      c.id = d.id
               PROVE  d.updated <= c.updated
    BY DEF NewestCopyIsListed
  <2>1. c \in Deduped(fetch.copies)
    BY DEF ReportInv, TicketsAreSelected, Selected, InPeriod
  <2> QED
    BY <2>1 DEF Deduped
<1> QED
  BY <1>1, ReportInvariant, PTL

\* The list is the longest run of the ranking that the budget has room for.
THEOREM ListingIsBest == Spec => []BestTicketsAreListed
<1>1. TypeOK /\ ReportInv => BestTicketsAreListed
  <2> SUFFICES ASSUME TypeOK, ReportInv, report.phase # "listing"
               PROVE  BestTicketsAreListed
    BY DEF BestTicketsAreListed
  <2> DEFINE omitted == report.tickets \ report.listed
  <2>1. omitted = Unlisted
    BY DEF Unlisted
  <2>2. /\ report.tickets \in SUBSET Copy /\ report.listed \in SUBSET Copy
        /\ IsFiniteSet(Tokens(report.listed)) /\ report.used = ListedCost(report.listed)
        /\ \A c \in Unlisted : IsNext(c) => report.used + Cost[c.id] > ask.budget
    BY DEF TypeOK, ReportState, ReportInv, ListIsBest
  <2>3. ASSUME NEW c \in omitted, \A d \in omitted \ {c} : RanksBefore(c, d)
        PROVE  ListedCost(report.listed \cup {c}) > ask.budget
    <3>1. report.used + Cost[c.id] > ask.budget
      BY <2>1, <2>2, <2>3 DEF IsNext
    <3>2. ListedCost(report.listed \cup {c}) = ListedCost(report.listed) + Cost[c.id]
      BY <2>2, CostOfOneMore
    <3> QED
      BY <2>2, <3>1, <3>2
  <2> QED
    BY <2>1, <2>2, <2>3 DEF BestTicketsAreListed, ReportInv, ListIsBest
<1> QED
  BY <1>1, ReportInvariant, PTL

\* A record is among the tickets of a whole fetch if its updates were in the period.
LEMMA CopiedIsSelected ==
    ASSUME TypeOK, SourceMoves, CopiesAreGenuine, NEW r \in Ids, Copied(r),
           WithinPeriod(ask.updated[r]), WithinPeriod(source.updated[r])
    PROVE  \E c \in Selected(fetch.copies) : c.id = r
<1> DEFINE mine == {c \in fetch.copies : c.id = r}
           times == {c.updated : c \in mine}
<1>1. \A c \in fetch.copies : c \in Copy /\ c.updated \in 0 .. MaxTime
  BY DEF TypeOK, FetchState, Copy
<1>2. times \in SUBSET (0 .. MaxTime) /\ times # {}
  BY <1>1 DEF Copied
<1>3. PICK time \in times : \A other \in times : other <= time
  BY <1>2, Limits, Greatest
<1>4. PICK c \in mine : c.updated = time
  OBVIOUS
<1>5. c \in Deduped(fetch.copies)
  BY <1>3, <1>4 DEF Deduped
<1>6. /\ ask.updated[r] <= c.updated /\ c.updated <= source.updated[r]
      /\ ask.from <= ask.updated[r] /\ source.updated[r] <= ask.to
  BY DEF CopiesAreGenuine, WithinPeriod
<1>7. /\ {ask.from, ask.to, ask.updated[r], source.updated[r], c.updated} \subseteq Nat
  BY <1>1, Limits DEF TypeOK, AskState, SourceState
<1>8. ask.from <= c.updated /\ c.updated <= ask.to
  BY <1>6, <1>7
<1> QED
  BY <1>5, <1>8 DEF Selected, InPeriod

\* A complete report leaves out no record that was there all the time and in the period,
\* unless Jira may answer with an empty page before its last.
THEOREM CompleteReportsCover == ~ EmptyPages => (Spec => []CompleteCoversSource)
<1> SUFFICES ASSUME ~ EmptyPages PROVE Spec => []CompleteCoversSource
  OBVIOUS
<1>1. Init => PipelineInv
  BY InitTypeOK, InitFetchInv, InitReportInv DEF PipelineInv
<1>2. PipelineInv /\ [Next]_vars => PipelineInv'
  <2>1. PipelineInv => TypeOK /\ FetchInv /\ ReportInv /\ TicketsAreSelected
    BY DEF PipelineInv, ReportInv
  <2>2. TypeOK /\ FetchInv /\ ReportInv /\ TicketsAreSelected /\ [Next]_vars
          => TypeOK' /\ FetchInv' /\ ReportInv'
    BY NextTypeOK, NextFetchInv, NextReportInv
  <2> QED
    BY <2>1, <2>2 DEF PipelineInv
<1>3. PipelineInv => CompleteCoversSource
  <2> SUFFICES ASSUME PipelineInv, report.phase = "complete",
                      ask.connector = "github" => Removed = {},
                      NEW r \in Held,
                      WithinPeriod(ask.updated[r]), WithinPeriod(source.updated[r])
               PROVE  \E c \in report.listed : c.id = r
    BY DEF CompleteCoversSource, Held
  <2>1. /\ TypeOK /\ SourceMoves /\ CopiesAreGenuine /\ WholeFetchCovers
        /\ TicketsAreSelected /\ CompleteIsWhole
    BY DEF PipelineInv, FetchInv, ReportInv
  <2>2. /\ fetch.phase # "fetching" /\ ~ fetch.truncated
        /\ report.listed = Selected(fetch.copies)
    BY <2>1 DEF TicketsAreSelected, CompleteIsWhole
  <2>3. r \in Ids /\ Copied(r)
    BY <2>1, <2>2, HeldAreThere DEF WholeFetchCovers
  <2> QED
    BY <2>1, <2>2, <2>3, CopiedIsSelected
<1> QED
  BY <1>1, <1>2, <1>3, PTL DEF Spec

-----------------------------------------------------------------------------
(* What the prompt states.                                                   *)

\* The facts are those of the backlog that the report is about.
FactsInv ==
    /\ tickets \in Backlogs
    /\ facts # NoFacts =>
           /\ facts.counts = [status \in Statuses |-> Cardinality(WithStatus(status))]
           /\ facts.unassigned = Len(tickets) - Cardinality(Assigned)
           /\ facts.note = LoadNote
           /\ facts.blocked = WithStatus("blocked")
           /\ facts.risks = RiskList
           /\ facts.related = Related

LEMMA InitFactsInv == FactsInit => FactsInv
BY DEF FactsInit, FactsInv

LEMMA NextFactsInv == FactsInv /\ [BuildPrompt]_factVars => FactsInv'
<1> SUFFICES ASSUME FactsInv, [BuildPrompt]_factVars PROVE FactsInv'
  OBVIOUS
<1>1. tickets' = tickets /\ Here' = Here
  BY DEF BuildPrompt, factVars, Here
<1>2. LoadNote' = LoadNote /\ RiskList' = RiskList /\ Related' = Related /\ Assigned' = Assigned
  BY <1>1 DEF LoadNote, Assigned, Owners, Load, Owned, RunnerUp, RiskList, Risks, Place,
              RisksBefore, Related
<1>3. \A status : WithStatus(status)' = WithStatus(status)
  BY <1>1 DEF WithStatus
<1>4. CASE UNCHANGED facts
  BY <1>1, <1>2, <1>3, <1>4 DEF FactsInv
<1>5. CASE BuildPrompt
  BY <1>1, <1>2, <1>3, <1>5 DEF BuildPrompt, FactsInv
<1> QED
  BY <1>4, <1>5 DEF factVars

LEMMA FactsInvariant == FactsSpec => []FactsInv
BY InitFactsInv, NextFactsInv, PTL DEF FactsSpec

LEMMA BacklogIsFinite ==
    ASSUME FactsInv, NEW S \in SUBSET Here
    PROVE  /\ IsFiniteSet(S) /\ Cardinality(S) \in 0 .. Len(tickets)
           /\ Here = 1 .. Len(tickets) /\ Len(tickets) \in Nat
<1>1. tickets \in Seq(Range(tickets))
  BY BacklogsAssumption DEF FactsInv
<1>2. Here = 1 .. Len(tickets) /\ Len(tickets) \in Nat
  BY <1>1 DEF Here
<1>3. IsFiniteSet(Here) /\ Cardinality(Here) = Len(tickets)
  <2>1. /\ IsFiniteSet(1 .. Len(tickets))
        /\ Cardinality(1 .. Len(tickets)) = IF 1 > Len(tickets) THEN 0 ELSE Len(tickets) - 1 + 1
    BY <1>2, FS_Interval
  <2> QED
    BY <1>2, <2>1
<1>4. IsFiniteSet(S) /\ Cardinality(S) <= Cardinality(Here) /\ Cardinality(S) \in Nat
  BY <1>3, FS_Subset, FS_CardinalityType
<1> QED
  BY <1>2, <1>3, <1>4

LEMMA OwnersAreFinite ==
    ASSUME FactsInv
    PROVE  /\ IsFiniteSet(Owners)
           /\ \A p \in Owners : Load(p) \in 0 .. Len(tickets)
<1> DEFINE people == {tickets[i].assignee : i \in Here}
           f == [i \in Here |-> tickets[i].assignee]
<1>1. IsFiniteSet(Here)
  BY BacklogIsFinite
<1>2. f \in Surjection(Here, people)
  BY DEF Surjection
<1>3. IsFiniteSet(people)
  BY <1>1, <1>2, FS_Surjection
<1>4. IsFiniteSet(Owners)
  BY <1>3, FS_Subset DEF Owners
<1>5. \A p \in Owners : Load(p) \in 0 .. Len(tickets)
  BY BacklogIsFinite DEF Load, Owned
<1> QED
  BY <1>4, <1>5

\* The greatest and the least of some loads.
LEMMA Extremes ==
    ASSUME NEW bound \in Nat, NEW T \in SUBSET (0 .. bound), T # {}
    PROVE  /\ Max(T) \in T /\ \A n \in T : n <= Max(T)
           /\ Min(T) \in T /\ \A n \in T : Min(T) <= n
<1>1. \E x \in T : \A y \in T : x >= y
  BY Greatest
<1>2. \E x \in T : \A y \in T : x <= y
  BY Least
<1>3. Max(T) \in T /\ \A n \in T : Max(T) >= n
  BY <1>1 DEF Max
<1>4. Min(T) \in T /\ \A n \in T : Min(T) <= n
  BY <1>2 DEF Min
<1> QED
  BY <1>3, <1>4

\* The load note is given exactly if one owner leads all others, and names that owner,
\* that load and the next-highest one.
THEOREM LoadNotesAreTrue == FactsSpec => []LoadNoteIsTrue
<1>1. FactsInv => LoadNoteIsTrue
  <2> SUFFICES ASSUME FactsInv, facts # NoFacts PROVE LoadNoteIsTrue
    BY DEF LoadNoteIsTrue
  <2> DEFINE loads == {Load(p) : p \in Owners}
             top == Max(loads)
             holders == {p \in Owners : Load(p) = top}
             Several == Cardinality(Owners) > 1
             Leads(p) == \A q \in Owners \ {p} : Load(q) < Load(p)
             Given == Several /\ top > Min(loads) /\ Cardinality(holders) = 1
             note == [holder |-> CHOOSE p \in holders : TRUE, load |-> top,
                      others |-> RunnerUp(top)]
  <2>1. facts.note = IF Given THEN note ELSE NoNote
    BY DEF FactsInv, LoadNote
  <2>2. /\ Len(tickets) \in Nat /\ loads \in SUBSET (0 .. Len(tickets)) /\ IsFiniteSet(Owners)
        /\ \A p \in Owners : Load(p) \in loads /\ Load(p) \in Nat
        /\ \A n \in loads : n \in Nat
    BY OwnersAreFinite, BacklogIsFinite
  <2>3. ASSUME Several
        PROVE  /\ Owners # {} /\ \A p \in Owners : Owners \ {p} # {}
               /\ loads # {}
    <3>1. Cardinality({}) = 0 /\ \A p : Cardinality({p}) = 1
      BY FS_EmptySet, FS_Singleton
    <3>2. Cardinality(Owners) # 0 /\ Cardinality(Owners) # 1
      BY <2>3
    <3>3. Owners # {} /\ \A p : Owners # {p}
      BY <3>1, <3>2
    <3> QED
      BY <3>3
  <2> HIDE DEF loads
  <2>4. ASSUME Several
        PROVE  /\ top \in loads /\ \A n \in loads : n <= top
               /\ Min(loads) \in loads /\ \A n \in loads : Min(loads) <= n
    BY <2>2, <2>3, <2>4, Extremes
  <2>5. ASSUME Several, NEW p \in Owners, Leads(p) PROVE Given
    <3>1. PICK q \in Owners \ {p} : TRUE
      BY <2>3, <2>5
    <3>2. Load(q) < Load(p) /\ Load(p) <= top /\ Min(loads) <= Load(q)
      BY <2>2, <2>4, <2>5, <3>1
    <3>3. top > Min(loads)
      <4>1. top \in Nat /\ Min(loads) \in Nat /\ Load(p) \in Nat /\ Load(q) \in Nat
        BY <2>2, <2>4, <2>5, <3>1
      <4> QED
        BY <3>2, <4>1
    <3>4. ASSUME NEW r \in Owners, Load(r) = top PROVE r = p
      BY <2>2, <2>5, <3>2, <3>4
    <3>5. PICK r \in Owners : Load(r) = top
      BY <2>4, <2>5 DEF loads
    <3>6. holders = {p}
      BY <3>4, <3>5
    <3> QED
      BY <2>5, <3>3, <3>6, FS_Singleton
  <2>6. ASSUME Given
        PROVE  \E p \in Owners :
                  /\ Leads(p) /\ note.holder = p /\ Load(p) = top
                  /\ \A q \in Owners \ {p} : Load(q) <= note.others
                  /\ \E q \in Owners \ {p} : Load(q) = note.others
                  /\ note.others < top
    <3>1. /\ top \in loads /\ \A n \in loads : n <= top
          /\ Min(loads) \in loads /\ \A n \in loads : Min(loads) <= n
      BY <2>4, <2>6
    <3>2. PICK p : holders = {p}
      <4>1. IsFiniteSet(holders)
        BY <2>2, FS_Subset
      <4> QED
        BY <2>6, <4>1, FS_Singleton
    <3>3. p \in Owners /\ Load(p) = top /\ note.holder = p
      BY <3>2
    <3>4. ASSUME NEW q \in Owners \ {p}
          PROVE  Load(q) < top /\ Load(q) \in loads \ {top}
      BY <2>2, <3>1, <3>2, <3>4
    <3>5. loads \ {top} # {} /\ loads \ {top} \in SUBSET (0 .. Len(tickets))
      <4>1. top \in Nat /\ Min(loads) \in Nat /\ top > Min(loads)
        BY <2>2, <2>6, <3>1
      <4>2. Min(loads) # top
        BY <4>1
      <4> QED
        BY <2>2, <3>1, <4>2
    <3>6. /\ note.others \in loads \ {top} /\ \A n \in loads \ {top} : n <= note.others
      BY <2>2, <3>5, Extremes DEF RunnerUp, loads
    <3>7. PICK q \in Owners : Load(q) = note.others
      BY <3>6 DEF loads
    <3> HIDE DEF note
    <3>8. q \in Owners \ {p} /\ note.others < top
      BY <3>3, <3>4, <3>6, <3>7
    <3> QED
      BY <3>3, <3>4, <3>6, <3>7, <3>8
  <2>7. Given => note # NoNote
    <3> SUFFICES ASSUME Given PROVE note # NoNote
      OBVIOUS
    <3>1. /\ note.holder \in Owners /\ note.load \in Nat /\ note.others \in Nat
          /\ note = [holder |-> note.holder, load |-> note.load, others |-> note.others]
      BY <2>2, <2>6
    <3>2. \A p \in Owners : p \in {ticket.assignee : ticket \in Range(tickets)}
      BY DEF Owners, Here, Range
    <3>3. NoNote \notin [holder : {ticket.assignee : ticket \in Range(tickets)},
                         load : Nat, others : Nat]
      BY BacklogsAssumption DEF FactsInv
    <3> QED
      BY <3>1, <3>2, <3>3
  <2>8. note.load = top
    OBVIOUS
  <2> HIDE DEF Given, note
  <2>9. CASE Given
    BY <2>1, <2>6, <2>7, <2>8, <2>9 DEF LoadNoteIsTrue, Given
  <2>10. CASE ~ Given
    <3>1. facts.note = NoNote /\ ~ (Several /\ \E p \in Owners : Leads(p))
      BY <2>1, <2>5, <2>10
    <3> QED
      BY <3>1 DEF LoadNoteIsTrue
  <2> QED
    BY <2>9, <2>10
<1> QED
  BY <1>1, FactsInvariant, PTL

\* The order of the tiers.
LEMMA TierOrderValues ==
    /\ TierOrder["CRITICAL"] = 0 /\ TierOrder["HIGH"] = 1 /\ TierOrder["MEDIUM"] = 2
BY DEF TierOrder

LEMMA RisksAreOrdered ==
    ASSUME FactsInv, NEW i \in Risks, NEW j \in Risks
    PROVE  /\ TierOrder[RiskTier(tickets[i])] \in Nat /\ i \in Nat
           /\ ~ RisksBefore(i, i)
           /\ i # j => RisksBefore(i, j) \/ RisksBefore(j, i)
           /\ \A k \in Risks : RisksBefore(i, j) /\ RisksBefore(j, k) => RisksBefore(i, k)
<1> DEFINE order(k) == TierOrder[RiskTier(tickets[k])]
<1>1. \A k \in Risks : k \in Nat
  BY BacklogIsFinite DEF Risks
<1>2. \A k \in Risks : order(k) \in Nat
  BY TierOrderValues DEF Risks, RiskTier
<1>3. \A k, l : RisksBefore(k, l) <=> order(k) < order(l) \/ (order(k) = order(l) /\ k < l)
  BY DEF RisksBefore
<1> HIDE DEF order
<1>4. /\ ~ RisksBefore(i, i)
      /\ i # j => RisksBefore(i, j) \/ RisksBefore(j, i)
      /\ \A k \in Risks : RisksBefore(i, j) /\ RisksBefore(j, k) => RisksBefore(i, k)
  BY <1>1, <1>2, <1>3
<1> QED
  BY <1>1, <1>2, <1>4 DEF order

LEMMA PlacesFollowRisks ==
    ASSUME FactsInv, NEW i \in Risks
    PROVE  /\ Place(i) \in 1 .. Cardinality(Risks)
           /\ \A j \in Risks : RisksBefore(i, j) => Place(i) < Place(j)
<1> DEFINE Ahead(j) == {k \in Risks : RisksBefore(k, j)}
<1>1. /\ IsFiniteSet(Risks) /\ Cardinality(Risks) \in Nat
      /\ \A j : IsFiniteSet(Ahead(j)) /\ Cardinality(Ahead(j)) \in Nat
  BY BacklogIsFinite DEF Risks
<1>2. \A j : Place(j) = Cardinality(Ahead(j)) + 1
  BY DEF Place
<1>3. Place(i) \in 1 .. Cardinality(Risks)
  <2>1. Ahead(i) \subseteq Risks \ {i}
    BY RisksAreOrdered
  <2>2. IsFiniteSet(Risks \ {i}) /\ Cardinality(Risks \ {i}) = Cardinality(Risks) - 1
    BY <1>1, FS_RemoveElement
  <2>3. Cardinality(Ahead(i)) <= Cardinality(Risks) - 1
    BY <2>1, <2>2, FS_Subset
  <2> QED
    BY <1>1, <1>2, <2>3
<1>4. ASSUME NEW j \in Risks, RisksBefore(i, j) PROVE Place(i) < Place(j)
  <2>1. Ahead(i) \subseteq Ahead(j) \ {i} /\ i \in Ahead(j)
    BY <1>4, RisksAreOrdered
  <2>2. IsFiniteSet(Ahead(j) \ {i}) /\ Cardinality(Ahead(j) \ {i}) = Cardinality(Ahead(j)) - 1
    BY <1>1, <2>1, FS_RemoveElement
  <2>3. Cardinality(Ahead(i)) <= Cardinality(Ahead(j)) - 1
    BY <2>1, <2>2, FS_Subset
  <2> HIDE DEF Ahead
  <2> QED
    BY <1>1, <1>2, <2>3
<1> QED
  BY <1>3, <1>4

\* Every place is taken by one risk, and the list has it there.
LEMMA RiskListPlaces ==
    ASSUME FactsInv
    PROVE  /\ RiskList \in [1 .. Cardinality(Risks) -> Risks]
           /\ \A n \in 1 .. Cardinality(Risks) : Place(RiskList[n]) = n
           /\ \A i \in Risks : RiskList[Place(i)] = i
           /\ Len(RiskList) = Cardinality(Risks)
<1> DEFINE total == Cardinality(Risks)
           f == [i \in Risks |-> Place(i)]
<1>1. IsFiniteSet(Risks) /\ total \in Nat
  BY BacklogIsFinite DEF Risks
<1>2. \A i \in Risks : Place(i) \in 1 .. total
  BY PlacesFollowRisks
<1>3. ASSUME NEW i \in Risks, NEW j \in Risks, Place(i) = Place(j) PROVE i = j
  <2>1. ~ (Place(i) < Place(j)) /\ ~ (Place(j) < Place(i))
    BY <1>2, <1>3
  <2> QED
    BY <2>1, PlacesFollowRisks, RisksAreOrdered
<1>4. \A n \in 1 .. total : \E i \in Risks : Place(i) = n
  <2>1. f \in Injection(Risks, 1 .. total)
    BY <1>2, <1>3 DEF Injection, IsInjective
  <2>2. IsFiniteSet(1 .. total) /\ Cardinality(1 .. total) = total
    <3>1. IsFiniteSet(1 .. total) /\ Cardinality(1 .. total) = IF 1 > total THEN 0 ELSE total - 1 + 1
      BY <1>1, FS_Interval
    <3> QED
      BY <1>1, <3>1
  <2>3. f \in Surjection(Risks, 1 .. total)
    BY <2>1, <2>2, FS_Injection
  <2> QED
    BY <2>3 DEF Surjection
<1> HIDE DEF f
<1>5. \A n \in 1 .. total : RiskList[n] \in Risks /\ Place(RiskList[n]) = n
  BY <1>4 DEF RiskList
<1>6. RiskList \in [1 .. total -> Risks]
  BY <1>5 DEF RiskList
<1>7. \A i \in Risks : RiskList[Place(i)] = i
  BY <1>2, <1>3, <1>5
<1>8. Len(RiskList) = total
  BY <1>1, <1>6
<1> QED
  BY <1>5, <1>6, <1>7, <1>8

\* The risk section names every risk once, the worse before the less bad and those that
\* are alike in the order of the input.
THEOREM RisksRankByTier == FactsSpec => []RisksAreRanked
<1>1. FactsInv => RisksAreRanked
  <2> SUFFICES ASSUME FactsInv, facts # NoFacts PROVE RisksAreRanked
    BY DEF RisksAreRanked
  <2> DEFINE risks == RiskList
             named == {facts.risks[n] : n \in DOMAIN facts.risks}
             Stuck(i) == tickets[i].status = "blocked"
             Loud(i) == Alarming(tickets[i])
             AsBad(i, j) == (Stuck(j) => Stuck(i)) /\ (Loud(j) => Loud(i))
  <2>1. facts.risks = RiskList
    BY DEF FactsInv
  <2>2. named = Risks /\ DOMAIN facts.risks = 1 .. Cardinality(Risks)
    <3>1. /\ RiskList \in [1 .. Cardinality(Risks) -> Risks]
          /\ \A i \in Risks : RiskList[Place(i)] = i /\ Place(i) \in 1 .. Cardinality(Risks)
      BY RiskListPlaces, PlacesFollowRisks
    <3> QED
      BY <2>1, <3>1
  <2>3. Risks = {i \in Here : Stuck(i) \/ IsStale(tickets[i])}
    BY DEF Risks, RiskTier
  <2>4. ASSUME NEW i \in Risks, NEW j \in Risks, AsBad(i, j), AsBad(j, i) => i < j, i # j
        PROVE  RisksBefore(i, j)
    <3> DEFINE order(k) == TierOrder[RiskTier(tickets[k])]
    <3>1. \A k \in Risks :
            /\ Stuck(k) /\ Loud(k) => order(k) = 0
            /\ Stuck(k) /\ ~ Loud(k) => order(k) = 1
            /\ ~ Stuck(k) /\ Loud(k) => order(k) = 1
            /\ ~ Stuck(k) /\ ~ Loud(k) => order(k) = 2
      BY TierOrderValues DEF Risks, RiskTier
    <3> HIDE DEF order, Stuck, Loud
    <3>2. order(i) < order(j) \/ (order(i) = order(j) /\ i < j)
      BY <2>4, <3>1
    <3> QED
      BY <3>2 DEF RisksBefore, order
  <2>5. ASSUME NEW m \in DOMAIN facts.risks, NEW n \in DOMAIN facts.risks,
               LET i == facts.risks[m]
                   j == facts.risks[n] IN
               AsBad(i, j) /\ (AsBad(j, i) => i < j) /\ i # j
        PROVE  m < n
    <3>1. /\ RiskList[m] \in Risks /\ RiskList[n] \in Risks
          /\ Place(RiskList[m]) = m /\ Place(RiskList[n]) = n
      BY <2>1, <2>2, RiskListPlaces
    <3>2. RisksBefore(RiskList[m], RiskList[n])
      BY <2>1, <2>4, <2>5, <3>1
    <3> QED
      BY <3>1, <3>2, PlacesFollowRisks
  <2>6. Len(facts.risks) = Cardinality(named)
    BY <2>1, <2>2, RiskListPlaces
  <2> QED
    BY <2>2, <2>3, <2>5, <2>6 DEF RisksAreRanked
<1> QED
  BY <1>1, FactsInvariant, PTL


-----------------------------------------------------------------------------
(* Both components side by side.                                             *)

\* A load note names an owner.
LEMMA NotesNameOwners ==
    ASSUME FactsInv, LoadNote # NoNote
    PROVE  LoadNote.holder \in Owners
<1> DEFINE top == Max({Load(p) : p \in Owners})
           holders == {p \in Owners : Load(p) = top}
<1>1. /\ Cardinality(holders) = 1
      /\ LoadNote = [holder |-> CHOOSE p \in holders : TRUE, load |-> top, others |-> RunnerUp(top)]
  BY DEF LoadNote
<1>2. Cardinality({}) = 0
  BY FS_EmptySet
<1>3. \A S : Cardinality(S) = 1 => (CHOOSE p \in S : TRUE) \in S
  <2> SUFFICES ASSUME NEW S, Cardinality(S) = 1 PROVE \E p : p \in S
    OBVIOUS
  <2>1. S # {}
    BY <1>2
  <2> QED
    BY <2>1
<1>4. (CHOOSE p \in holders : TRUE) \in holders
  BY <1>1, <1>3
<1>5. LoadNote.holder = CHOOSE p \in holders : TRUE
  BY <1>1
<1> QED
  BY <1>4, <1>5

LEMMA FactsAreTyped == FactsInv => FactsTypeOK
<1> SUFFICES ASSUME FactsInv, facts # NoFacts PROVE FactsTypeOK
  BY DEF FactsInv, FactsTypeOK
<1>1. /\ Len(tickets) \in Nat
      /\ \A S \in SUBSET Here : Cardinality(S) \in 0 .. Len(tickets)
  BY BacklogIsFinite
<1>2. (\A status : WithStatus(status) \in SUBSET Here) /\ Assigned \in SUBSET Here
  BY DEF WithStatus, Assigned, Owned
<1>3. facts.counts \in [Statuses -> 0 .. Len(tickets)]
  BY <1>1, <1>2 DEF FactsInv
<1>4. facts.unassigned \in 0 .. Len(tickets)
  <2>1. Cardinality(Assigned) \in 0 .. Len(tickets)
    BY <1>1, <1>2
  <2> QED
    BY <1>1, <2>1 DEF FactsInv
<1>5. facts.note # NoNote => facts.note.holder \in Owners
  BY NotesNameOwners DEF FactsInv
<1>6. Range(facts.risks) \subseteq Here
  <2>1. RiskList \in [1 .. Cardinality(Risks) -> Risks]
    BY RiskListPlaces
  <2> QED
    BY <2>1 DEF FactsInv, Range, Risks
<1>7. UNION {related.group : related \in facts.related} \subseteq Here
  <2>1. \A related \in Related : related.group \subseteq Here
    <3> SUFFICES ASSUME NEW related \in Related PROVE related.group \subseteq Here
      OBVIOUS
    <3>1. PICK ref : related = [ref |-> ref, group |-> {i \in Here : ref \in tickets[i].refs}]
      BY DEF Related
    <3>2. related.group = {i \in Here : ref \in tickets[i].refs}
      BY <3>1
    <3> QED
      BY <3>2
  <2> QED
    BY <2>1 DEF FactsInv
<1> QED
  BY <1>2, <1>3, <1>4, <1>5, <1>6, <1>7 DEF FactsInv, FactsTypeOK

\* Type correctness of pipeline and prompt side by side: a step of one leaves the domains
\* of the other, and the counts of the prompt never exceed the tickets.
THEOREM PipelineAndPromptTypeCorrect == PipelineSpec => []TypesOK
<1> DEFINE IInv == TypeOK /\ (explored = "prompt" => FactsInv)
<1>1. PipelineInit => IInv
  BY InitTypeOK, InitFactsInv DEF PipelineInit
<1>2. IInv /\ [PipelineNext]_allVars => IInv'
  <2> SUFFICES ASSUME IInv, [PipelineNext]_allVars PROVE IInv'
    OBVIOUS
  <2>1. explored' = explored /\ [Next]_vars /\ (explored = "prompt" => [BuildPrompt]_factVars)
    BY DEF PipelineNext, Fetches, States, allVars
  <2> QED
    BY <2>1, NextTypeOK, NextFactsInv
<1>3. IInv => TypesOK
  BY FactsAreTyped DEF TypesOK
<1> QED
  BY <1>1, <1>2, <1>3, PTL DEF PipelineSpec
=============================================================================
