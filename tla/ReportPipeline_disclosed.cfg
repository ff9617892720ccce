SPECIFICATION PipelineSpec

CONSTANTS
    InitialRecords = 3
    MaxRecordId = 4
    MaxTime = 1
    MaxEdits = 2
    PageSize = 2
    MaxPages = 3
    MaxRecords = 3
    Budgets = {0, 4, 9}
    EmptyPages = FALSE
    Tier <- Tiers
    Cost <- Costs
    Backlogs <- SomeBacklogs
    Nobody = Nobody
    NoNote = NoNote
    NoFacts = NoFacts
    StaleDays = 3
    Ann = Ann
    Bob = Bob
    Cleo = Cleo

INVARIANTS
    TypesOK
    CompleteCoversSource
    NewestCopyIsListed
    BestTicketsAreListed
    LoadNoteIsTrue
    RisksAreRanked

CHECK_DEADLOCK FALSE
