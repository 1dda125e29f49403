SPECIFICATION FairSpec
CONSTANTS
    t1 = t1
    t2 = t2
    k1 = k1
    k2 = k2
    Tags = {t1, t2}
    Ctrls = {k1, k2}
    Copiers = {p1}
    CIds = {c1}
    Chunks = {b1, b2}
    NodeOf <- TwoNodes
    Removable = {t2}
    DisableUpload = {k2}
    MaxLost = 1
    NoCounter = NoCounter
    NoTag = NoTag
    NoChunk = NoChunk
PROPERTIES
    TrafficIsTaken
