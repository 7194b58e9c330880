CONSTANTS
    Instances = {i1}
    Files = 1
    Seeds <- MCSeeds
    FileOf <- MCFileOf
    Unnamed <- MCUnnamed
    Objects <- MCObjects
    Creates <- MCCreates
    Scripts <- MCScripts
    MaxCrashes = 2
SPECIFICATION Spec
INVARIANT SeedsOnce
