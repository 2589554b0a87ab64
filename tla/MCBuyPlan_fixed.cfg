SPECIFICATION PlanSpec
CONSTANTS
    N = 3
    Month = 2
    LastDay = 7
    MinPayment = 1
    CloseAfter = 4
    WarnDays = {2, 3}
    LastCloseAfter = 2
    LastWarnDays = {1}
    Draft = {1, 2, 3}
    Mode = {"gold", "equal"}
    Piece = {"ring", "band"}
    Start <- MCStart
    MarketPrice <- MCMarket
    PayAmount = {1, 3}
    RemindBefore = 1
    OverdueAfter = 1
    FinalBefore = 1
    Overlap = FALSE
    Case <- MCCase
PROPERTIES
    PriceIsFixed
CHECK_DEADLOCK FALSE
