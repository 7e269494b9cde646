\* Two overlapping tasks, one session, three days in two weeks.
SPECIFICATION Spec
CONSTANTS
    Workers = {w1, w2}
    Signals = {long, short}
    None = None
    FirstBar = 2
    MaxBar = 6
    BarsPerDay = 2
    DaysPerWeek = 2
    Moves <- MCMoves
    StopLoss = 200
    TakeProfit = 400
    Slippage = 5
    DailyLimit = 500
    WeeklyCap = 1
    LosingLimit = 2
    LatencyLimit = 2
CONSTRAINT MCHorizon
SYMMETRY MCSymmetry
INVARIANTS
    TypeOK
    Books
    LosingRunIsCounted
    WeeklyCapHolds
    ReceiptsMatchTrades
PROPERTIES
    NoEntryPastALimit
    HaltsStick
    CommitsAreSerial
