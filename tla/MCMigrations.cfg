CONSTANTS
    Instances = {i1, i2, i3}
    Files = 2
    Seeds <- MCSeeds
    FileOf <- MCFileOf2
    Unnamed <- MCUnnamed
    Objects <- MCObjects
    Creates <- MCCreates2
    Scripts <- MCScripts
    MaxCrashes = 2
SPECIFICATION FairSpec
INVARIANTS TypeOK RecordedWasExecuted ServingIsMigrated InOrder RunsAreBounded
PROPERTIES AllServe
