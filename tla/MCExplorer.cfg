SPECIFICATION MCSpec
CONSTANTS
    NoKey = NoKey
    MaxHeight = 2
    Window = 2
    a = a
    b = b
    NoWallet = NoWallet
INVARIANTS
    RowsAreTrue
    PageIsTrue
    NothingIsSkipped
    ReservationsDiffer
    HistoryIsTrue
CHECK_DEADLOCK FALSE
