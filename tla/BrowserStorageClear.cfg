SPECIFICATION Spec
CONSTANTS
    v1 = v1
    v2 = v2
    NoValue = NoValue
    Unparsable = Unparsable
    NoRecord = NoRecord
    Keys = {"tabs", "theme"}
    TabsKey = "tabs"
    ThemeKey = "theme"
    Values = {v1, v2}
    InitialDisks <- FreshDisk
    MaxWrites = 2
INVARIANTS
    FallbackWritesRecovered
