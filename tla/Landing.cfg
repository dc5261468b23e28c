SPECIFICATION Spec
CONSTANTS
    Null = Null
    Absent = Absent
    Splits = {"train", "test"}
    RawRow <- MCRawRow
    Versions <- MCVersions
    ValidIds = {"a", "b", "c", "d"}
    CategoryRef <- MCCategoryRef
    Categories = {"grocery", "travel"}
    MaxAmt = 30
    MaxLat = 9
    MaxDistance = 20
    MaxAge = 10
    Year = 1
    MinRows = 2
    MaxRows = 6
    MaxRejectPercent = 34
    PeriodEnd = 11
    FreshFor = 3
    MaxLoads = 2
    MaxCrashes = 1
INVARIANTS
    LoadedAsDescribed
    SilverIsNewest
    NothingDropped
    SilverIsClean
    BreachIsAHole
    GoldFollowsSilver
PROPERTIES
    ReloadIsIdempotent
    HalfDownloadsHeal
CHECK_DEADLOCK FALSE
