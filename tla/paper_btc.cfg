\* The BTC lane against its checklist.
SPECIFICATION Spec
CONSTANTS
    Workers = {w1}
    Signals = {long, short}
    None = None
    FirstBar = 2
    MaxBar = 6
    BarsPerDay = 2
    DaysPerWeek = 2
    Moves <- MCMoves
    StopLoss = 200
    TakeProfit = 400
    Slippage = 5
    DailyLimit = 500
    WeeklyCap = 1
    LosingLimit = 2
    LatencyLimit = 2
SYMMETRY MCSymmetry
INVARIANT
    ExistingIsClosedFirst
