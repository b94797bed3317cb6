\* Every request of the instance against every call of the instance.
SPECIFICATION Spec
CONSTANTS
    Segments <- MCSegments
    Globs <- MCGlobs
    Brackets <- MCBrackets
    GlobPairs <- MCGlobPairs
    NotPaths <- MCNotPaths
    FileNames <- MCFileNames
    Links <- MCLinks
    MaxFiles <- MCMaxFiles
    ToolSets <- MCToolSets
    TargetSets <- MCTargetSets
    Calls <- MCCalls
CHECK_DEADLOCK FALSE
INVARIANTS
    TypeOK
    AdmittedIsGranted
    ActsInsideScope
    SensitiveOnlyByHuman
    WithinCanonicalPolicy
