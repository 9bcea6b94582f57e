SPECIFICATION LlmSpec
CONSTANTS
    Operation = {a, b}
    MaxCalls = 3
    MaxSet = 2
    Backoff = 2
    Calls = 2
    Retries = 1
    RetryLarger = TRUE
    MinRequests = 2
    Allowances = {2, 3}
    MaxRetries = 1
    MaxReloads = 1
    MaxScopes = 2
    MaxAnswers = 2
    Thread = {"t1", "t2"}
    Pinned = 1
    Others = {2}
    MaxLoads = 3
    MaxTurns = 2
    Starts <- SomeStarts
    Sources <- SomeSources
    MaxChanges = 2
    Lenses <- SomeLenses
    Modes <- SomeModes
    MaxSteps = 5
    Element <- SomeElements
    MaxElements = 2
    MaxChunks = 2
    Momentary = {"now"}
    Worktree = {"tree"}
    Description = {"the pull request"}
    Linked = {"b"}
    Code = {"ADR-7"}
    Settings <- SomeSettings
INVARIANT OptionalStaysOptional
CHECK_DEADLOCK FALSE
