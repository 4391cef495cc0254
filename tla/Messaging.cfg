CONSTANTS
    NUL = NUL
    NULL = NULL
    Garbage = Garbage
    a = a
    b = b
    near = near
    far = far
    yes = yes
    no = no
    PacketMax = 4
    PipeSize = 12
    MaxQueue = 1
    SeqNums = 2
    InitErrors = 0
    Postings <- MCPostings
    Answers <- MCAnswers
    MaxPosts <- MCMaxPosts
    MaxConns = 2
    MaxEvents = 3
    MaxFaults = 1
SPECIFICATION MessagingSpec
INVARIANTS
    NoMutualBlock
    AssertionHolds
PROPERTIES
    ImplementsChannel
    QueueServed
CHECK_DEADLOCK FALSE
