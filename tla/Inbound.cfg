SPECIFICATION FairSpec
CONSTANTS
    V4Len = 1
    V6Len = 2
    Base = 16
    Digits <- MCDigits
    DomainBytes <- MCDomainBytes
    IpText <- MCIpText
    MapPrefix <- MCMapPrefix
    KeyLen = 2
    SaltLen = 2
    PadMax = 3
    Line <- MCLine
    CloseLine = 49
    HttpPort = 8
    HttpsPort = 33
    Intents <- MCIntents
    Tables <- MCTables
    Fixed <- MCFixed
    MaxHeader = 18
    MaxHead = 13
    Sni = 60
    Answers <- MCAnswers
    MaxAnswers = 2
    MaxGrams = 2
    None = None
INVARIANTS
    RequestAsSent
    PayloadIntact
    AcceptedWasListed
    GoodIsServed
PROPERTIES
    ClosedIsFinished
CHECK_DEADLOCK FALSE
