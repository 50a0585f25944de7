CONSTANTS
    Accounts = {"", "b", "*"}
    Amounts = {1, 2}
    MinDepths = {0, 1}
    OutArgs <- MCOutArgs
    Passphrases = {"", "p1", "p2"}
    KeyPoolSize = 1
    NoPass = NoPass
    Width = 8
    MaxEntries = 2
    Keys = {k0, k1}
    DefaultKey = k0
    Foreign = ext
    NoKey = NoKey
    NoLabel = NoLabel
    IntWidth = 4
    PageArgs <- MCPageArgs
SPECIFICATION Spec
INVARIANT
    ListTransactionsPage
CHECK_DEADLOCK FALSE
