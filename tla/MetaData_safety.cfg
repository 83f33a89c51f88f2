CONSTANTS
    Keys <- MCKeys
    Values <- MCValues
    MaxSets = 3
    ServerKey <- MCServerKey
    ServerName <- MCServerName
    SetDataFrame <- MCSetDataFrame
    OnMetaDataName <- MCOnMetaData
    Name <- MCName
    Tids <- MCTids
    StreamNames <- MCStreamNames
    WireObjects <- MCWireObjects
    UrlAlphabet = {97, 58, 47}
    MaxUrlLen = 8
    UrlParts <- MCUrlParts
    Counts = {0, 7}
SPECIFICATION Spec
INVARIANT KeyOrderLaw
INVARIANT SizeLaw
INVARIANT MetaDataRelay
PROPERTY CommandsFollowCatalog
PROPERTY RepliesFollowCatalog
PROPERTY TcUrlLaw
PROPERTY ConnectExchange
PROPERTY SendFollowsScenarios
PROPERTY ChunkStreamRoundTrip
