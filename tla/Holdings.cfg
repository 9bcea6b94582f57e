SPECIFICATION HoldingsSpec
CONSTANTS
    Path = {"p", "q"}
    Exporter = {"o"}
    Version = {1, 2}
    User = "user"
    InScope <- Everywhere
    Form = {1, 2, 3}
    Slug <- OneSlug
    Parts <- OnePart
    Target = {"x"}
    Published <- Sources
    Document = {d, e}
    MaxRulings = 3
    Name = {"n", "m"}
    Listed = {"n"}
    Addr = {"public", "inner"}
    Blocked = {"inner"}
    Postures <- SomePostures
    Retries = 1
    MaxHops = 1
    MaxChanges = 2
    Line <- ExportLines
    MaxLines = 4
    NoteCap = 2
    Cap = 2
    Registry <- Registered
    Accepts <- Accepting
    MustNot <- Refusing
    Id = {"one", "two"}
    Type = {"J", "W"}
    Content = {"c", "d"}
    Emits <- Emitting
    Floor = 80
    MaxSteps = 4
    Term <- SomeTerms
    Triple <- SomeTriples
    Options <- Asked
    Stores <- SomeStores
    MaxOptions = 4
    Number <- Numbers
    Date <- Dates
    Fold <- Folded
    PartsOf <- Holding
    Normalise <- Normal
    Files <- SomeFiles
    Moves <- SomeMoves
    Override <- VariableOf
    Values = {7}
    Places <- SomePlaces
SYMMETRY Interchangeable
CHECK_DEADLOCK FALSE
INVARIANTS
    NothingLeavesUnvetted    QueriesAreAnswered
PROPERTIES ExportKnowsItsOwn  
