SPECIFICATION Spec
CONSTANTS
    a = a
    b = b
    o1 = o1
    o2 = o2
    t = t
    Nodes = {a, b}
    Broadcast = Broadcast
    QueueCap = 1
    Leavers = {b}
    MaxLife = 2
    Lives <- TwoLives
    MaxSends = 2
    Objects = {o1, o2}
    Types = {t}
    Wildcard = Wildcard
    MaxTuples = 2
    MaxReply = 2
    Size <- Sizes
    Offers <- OffersB
    Lookups <- AsksB
INVARIANTS
    TypeOK Directory ListenerStays ReplyFaithful NothingStuck
    LookupAnswered
PROPERTIES
    DatagramSpec
CHECK_DEADLOCK FALSE
