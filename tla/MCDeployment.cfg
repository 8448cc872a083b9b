SPECIFICATION FairToolSpec
CONSTANTS
    Scenes <- MCScenes
    RoleNames <- MCRoleNames
INVARIANTS PricedFromAFeed AdapterHasItsAsset
PROPERTIES RedemptionNeverCutOff OptedOutIsKept RecordedMeansDone NoLockout EveryRunCompletes HandedOver
CHECK_DEADLOCK FALSE
