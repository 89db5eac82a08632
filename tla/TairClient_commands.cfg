SPECIFICATION Spec
CONSTANTS
    Nodes = {"A", "B"}
    NodesReplies <- MCNodesReplies
    RawArgvs <- MCRawArgvs
    MaxList = 2
    MaxAddrs = 3
    SLOTS_NUM = 2
    KeySlot <- MCKeySlot
INVARIANTS
    CallbackCalledOnce
    AnswersArrive
    RequestsReachTheirNode
