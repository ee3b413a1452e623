CONSTANTS
    a1 = a1
    a2 = a2
    None = None
    Accounts = {a1, a2}
    Slots = {1, 2}
    Instructions <- SomeInstructions
    SeqSpan = 3
    Kinds <- SomeKinds
    BookCapacity = 2
    QueueCapacity = 5
    PruneLimits = {1, 4}
    coin_lot_size = 10
    pc_lot_size = 10000
    One = 16384
    Tier <- Tiers
    Balance = 100000
SPECIFICATION Spec
CHECK_DEADLOCK FALSE
INVARIANT AssertionsHold
INVARIANT FundsAreBacked
PROPERTY BookIsInOrder
