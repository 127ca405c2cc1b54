SPECIFICATION Spec
CONSTANTS
    a = a
    b = b
    Purchases <- TwoPurchases
    LoopPurchases <- OneInLoop
    Copies = 2
    Amounts <- AnyAmounts
    Price = 2
    Window = 1
    MaxNow = 1
    MaxLives = 2
    Seeds = 1
CHECK_DEADLOCK FALSE
INVARIANTS HonouredOncePerLife
PROPERTIES PurchasesAreSound
