SPECIFICATION Spec
CONSTANTS
    ReplyStreams <- MCReplyStreams
    Junk <- MCJunk
    MaxChunk = 3
    PROTO_RESP_INLINE_MAX_SIZE = 12
    Byte = {1, 2}
    Junk_byte = 0
    kCheapPrependSize = 1
    kInitialSize = 1
    MaxWrite = 2
    MaxCapacity = 5
    RecordSize = 2
    MaxSends = 2
    MaxRecords = 2
    MaxStalls = 2
    MaxRefusals = 1
    tls_high_water_mark_ = 2
    ChannelLoops = {l1, l2}
    MaxAddFailures = 1
    MaxDelFailures = 1
    MaxStarts = 3
    Numbers = {"1", "2"}
    Texts = {"x", "COUNT", "ASC"}
    MaxList = 3
    NumKeys = 2
    Takers = {t1, t2, t3}
    MaxPuts = 4
    LruKeys = {k1, k2, k3}
    LruValues = {v1, v2}
    lru_capacity_ = 2
    MaxUses = 5
    init_tokens = 3
    tokens_per_second = 300
    strict_percent = 150
    MaxNow = 20
    MaxTokens = 4
    SLOT_COUNT = 2
    MapKeys = {0, 1, 2}
    SLOTS_NUM = 6
    SlotTexts <- MCSlotTexts
    AddressBits = 3
    NetworkIds = {n1, n2}
    MaxNetworks = 3
    PatternChars = {42, 45, 63, 91, 92, 93, 94, 97, 98}
    MatchTexts <- MCMatchTexts
    MaxPattern = 4
    LcsStrings <- MCLcsStrings
    LcsMinLengths = {0, 2}
    ULLONG_MAX = 255
    NumberBytes = {11, 10, 0, 1, 2, 5, 6, 7, 8, 9}
    MaxDigits = 4
    MemStreams <- MCMemStreams
    KEY_MAX_LENGTH = 2
    max_item_size = 2
    MaxPiece = 3
    LENGTH_MOD = 256
INVARIANTS
    CodecsAgree
    NetworkObjectsAreSafe
    NoSleepingTakerBesideElement
    WholeMapCalls
    ComputesAsDefined
PROPERTIES
    NetworkFinishes
CHECK_DEADLOCK FALSE
