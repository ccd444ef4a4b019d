SPECIFICATION FairSpec
CONSTANTS
    Publishers = {p1, p2}
    Subs = {s1, s2}
    Topics = {cmd, all}
    TopicAll = all
    TopicSets <- MCTopicSets
    BufSize = 1
    MaxEvents = 3
INVARIANTS
    TypeOK
    NoPanic
    FifoPerPublisher
PROPERTIES
    NobodySkipped
    PublishReturns
    WriterGetsLock
