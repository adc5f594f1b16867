CONSTANTS
    a = a
    b = b
    Call = {a, b}
    e1 = e1
    Event = {e1}
    None = None
    Name <- MCName
    Exact = {}
    Inputs <- MCInputs
    SpecTokens = 10
    SummaryCap = 20
    RecentLimit = 2
    Leaves = {20, 90}
    Notice = 92
SPECIFICATION Spec
INVARIANTS
    BudgetKept
    NewestFirst
    ToolRunsStayWhole
    CapHolds
    TurnStaysLast
CHECK_DEADLOCK FALSE
