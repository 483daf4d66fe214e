SPECIFICATION CacheSpec
CONSTANTS
    Assets = {"style.css", "manifest.json"}
    Versioned = {"style.css", "i18n.js"}
    Plain = {"manifest.json"}
    SessionPaths = {"/api/sync"}
    MaxRevision = 2
    MaxPuts = 2
INVARIANTS
    NothingStaleServed
    InstalledShellComplete
    OldCachesGone
