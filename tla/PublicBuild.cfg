SPECIFICATION BuildSpec
CONSTANTS
    InitialDisks <- MCInitialDisks
    Variants <- MCVariants
    Bodies <- MCBodies
    Unstamped = Unstamped
    Stale = Stale
    MaxEdits = 1
    MaxFaults = 2
    MayBeMissing = {"source", "template", "sw.js", "index.html", "js/version.js", "manifest.json"}
INVARIANTS
    BuiltIsCurrent
    CheckIsExact
PROPERTIES
    NoConflictReleased
