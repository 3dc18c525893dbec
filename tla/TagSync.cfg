SPECIFICATION FairSpec
CONSTANTS
    u1 = u1
    s1 = s1
    x1 = x1
    v1 = v1
    Empty = Empty
    NoTag = NoTag
    Nil = Nil
    UserKeys <- MCUserKeys
    SystemKeys <- MCSystemKeys
    AwsKeys <- MCAwsKeys
    Values <- MCValues
    FlagSettings <- MCFlagSettings
    Limit <- MCLimit
INVARIANTS
    TypeOK
    SyncIsExact
    TagInv
PROPERTIES
    AwsTagsKept
    GoodTagsStay
    CrTagsKept
    TagsConverge
