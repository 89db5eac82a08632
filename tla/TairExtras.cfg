SPECIFICATION Spec
CONSTANTS
    Channels = {"ch"}
    Patterns = {"pat"}
    MsgCallbacks = {"f", "g"}
    MaxRequests = 3
    MaxMessages = 1
    MaxLosses = 2
    MaxCommands = 3
    MaxCalls = 5
    MaxCuts = 2
    FanNodes = {"A", "B", "C"}
INVARIANTS
    SubscriptionsAgree
    TransactionIsWhole
    KeysMissesAtMostTheLast
PROPERTIES
    PubSubEventuallyAgrees
    FanoutReturns
CHECK_DEADLOCK FALSE
