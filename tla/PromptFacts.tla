----------------------------- MODULE PromptFacts -----------------------------
(***************************************************************************)
(* What the prompt states about the tickets of a report: who owns how      *)
(* many, which are blocked, which are at risk and in what order, which     *)
(* belong together (build_prompt).  The rules the prompt gives to the LLM  *)
(* forbid it to compute any of this, so the report repeats what is stated. *)
(*                                                                         *)
(* A ticket is a record of what the facts depend on, and its place in the  *)
(* sequence stands for its id.  Which tickets are listed within the input  *)
(* budget is in ReportPipeline.                                            *)
(***************************************************************************)
EXTENDS Naturals, FiniteSets, FiniteSetsExt, SequencesExt

CONSTANTS
    Backlogs,   \* the inputs tried: sequences of tickets
    Nobody,     \* assignee None
    NoNote,     \* no load note
    NoFacts,    \* before the prompt is built
    StaleDays   \* STALE_DAYS_THRESHOLD

\* The tickets are a list, and None is no note on any of its assignees.
ASSUME BacklogsAssumption ==
    \A backlog \in Backlogs :
        /\ backlog \in Seq(Range(backlog))
        /\ NoNote \notin [holder : {ticket.assignee : ticket \in Range(backlog)},
                         load : Nat, others : Nat]

VARIABLES
    tickets,  \* the tickets of the report, in the order they were fetched
    facts     \* what the prompt states about them

factVars == <<tickets, facts>>

-----------------------------------------------------------------------------
(* Risks                                                                     *)

\* A ticket.  high: a priority that counts as high.  security: a label or an
\* advisory's identifier says so.  age: whole days since the last update.  refs:
\* the advisories and issues that title and description name.

Statuses == {"todo", "in_progress", "blocked", "done"}

Here == DOMAIN tickets

WithStatus(status) == {i \in Here : tickets[i].status = status}

\* Work that stands still: a ticket that is not begun, or done, is never stale.
IsStale(t) == t.age >= StaleDays /\ t.status \in {"in_progress", "blocked"}

Alarming(t) == t.high \/ t.security

\* Faulty variant of RiskTier: staleness is looked at first.
RiskTierStaleFirst(t) ==
    IF IsStale(t) THEN IF Alarming(t) THEN "HIGH" ELSE "MEDIUM"
    ELSE IF t.status = "blocked" THEN IF Alarming(t) THEN "CRITICAL" ELSE "HIGH"
    ELSE "none"

\* The tier of a ticket, blocked tickets first.
RiskTier(t) ==
    IF t.status = "blocked" THEN IF Alarming(t) THEN "CRITICAL" ELSE "HIGH"
    ELSE IF IsStale(t) THEN IF Alarming(t) THEN "HIGH" ELSE "MEDIUM"
    ELSE "none"

TierOrder == [CRITICAL |-> 0, HIGH |-> 1, MEDIUM |-> 2]

Risks == {i \in Here : RiskTier(tickets[i]) # "none"}

\* Tickets of a tier stay in the order of the input: the sort is stable.
RisksBefore(i, j) ==
    LET a == TierOrder[RiskTier(tickets[i])]
        b == TierOrder[RiskTier(tickets[j])] IN
    a < b \/ (a = b /\ i < j)

Place(i) == Cardinality({j \in Risks : RisksBefore(j, i)}) + 1

RiskList == [n \in 1 .. Cardinality(Risks) |-> CHOOSE i \in Risks : Place(i) = n]

\* The references that more than one ticket makes, with the tickets.
Related ==
    LET refs == UNION {tickets[i].refs : i \in Here}
        Group(ref) == {i \in Here : ref \in tickets[i].refs} IN
    {[ref |-> ref, group |-> Group(ref)] : ref \in {r \in refs : Cardinality(Group(r)) > 1}}

-----------------------------------------------------------------------------
(* Ownership                                                                 *)

Owned(person) == {i \in Here : tickets[i].assignee = person}

\* The keys of assignee_map: those who own a ticket.
Owners == {tickets[i].assignee : i \in Here} \ {Nobody}

Load(person) == Cardinality(Owned(person))

\* A ticket is on one owner's list at most: the lengths of the lists add up to these.
Assigned == UNION {Owned(person) : person \in Owners}

\* Faulty variant of RunnerUp: the lowest of the other loads.
LowestLoad(top) == Min({Load(p) : p \in Owners} \ {top})

\* The next-highest load, not the lowest.
RunnerUp(top) == Max({Load(p) : p \in Owners} \ {top})

\* Said when one person alone has more than everybody else.
LoadNote ==
    LET loads == {Load(p) : p \in Owners}
        top == Max(loads)
        holders == {p \in Owners : Load(p) = top} IN
    IF Cardinality(Owners) > 1 /\ top > Min(loads) /\ Cardinality(holders) = 1
    THEN [holder |-> CHOOSE p \in holders : TRUE, load |-> top, others |-> RunnerUp(top)]
    ELSE NoNote

-----------------------------------------------------------------------------

FactsTypeOK ==
    /\ tickets \in Backlogs
    /\ facts # NoFacts =>
           /\ facts.counts \in [Statuses -> 0 .. Len(tickets)]
           /\ facts.unassigned \in 0 .. Len(tickets)
           /\ facts.note # NoNote => facts.note.holder \in Owners
           /\ facts.blocked \cup Range(facts.risks) \subseteq Here
           /\ UNION {related.group : related \in facts.related} \subseteq Here

FactsInit ==
    /\ tickets \in Backlogs
    /\ facts = NoFacts

BuildPrompt ==
    /\ facts = NoFacts
    /\ facts' = [counts |-> [status \in Statuses |-> Cardinality(WithStatus(status))],
                 unassigned |-> Len(tickets) - Cardinality(Assigned),
                 note |-> LoadNote,
                 blocked |-> WithStatus("blocked"),
                 risks |-> RiskList,
                 related |-> Related]
    /\ UNCHANGED tickets

FactsSpec == FactsInit /\ [][BuildPrompt]_factVars

-----------------------------------------------------------------------------
(* Safety                                                                    *)

\* The load note (prompt_builder.py:267) is given exactly if one of several owners has
\* more tickets than each other owner, and then its two numbers are that owner's
\* load and the highest of the others: an earlier version named the lowest.
LoadNoteIsTrue ==
    facts # NoFacts =>
        LET Leads(p) == \A q \in Owners \ {p} : Load(q) < Load(p) IN
        /\ facts.note = NoNote <=> ~ (Cardinality(Owners) > 1 /\ \E p \in Owners : Leads(p))
        /\ facts.note # NoNote =>
               LET rest == Owners \ {facts.note.holder} IN
               /\ facts.note.load = Load(facts.note.holder)
               /\ \A q \in rest : Load(q) <= facts.note.others
               /\ \E q \in rest : Load(q) = facts.note.others
               /\ facts.note.others < facts.note.load

\* The risk section (prompt_builder.py:293) names every blocked ticket and all begun work
\* that stands still, each once.  A ticket that is worse than another, because it is
\* blocked and the other only stale, or of high priority or a security matter and the
\* other neither, stands before it unless it is better in the other respect; of two
\* alike the one fetched first stands first.
RisksAreRanked ==
    facts # NoFacts =>
        LET named == {facts.risks[n] : n \in DOMAIN facts.risks}
            Stuck(i) == tickets[i].status = "blocked"
            Loud(i) == Alarming(tickets[i])
            AsBad(i, j) == (Stuck(j) => Stuck(i)) /\ (Loud(j) => Loud(i)) IN
        /\ named = {i \in Here : Stuck(i) \/ IsStale(tickets[i])}
        /\ Len(facts.risks) = Cardinality(named)
        /\ \A m, n \in DOMAIN facts.risks :
               LET i == facts.risks[m]
                   j == facts.risks[n] IN
               AsBad(i, j) /\ (AsBad(j, i) => i < j) /\ i # j => m < n
==============================================================================
