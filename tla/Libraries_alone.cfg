SPECIFICATION LibrariesSpec
CONSTANTS
    s1 = s1
    s2 = s2
    c1 = c1
    c3 = c3
    Services <- ServiceSet
    Starters <- StarterSet
    Stoppers <- StopperSet
    NoFile = NoFile
    Calls = {t1}
    MaxAttempts = 2
    MaxPosition = 1
    Rules <- MCRules
    Managed <- MCManaged
    Inputs <- MCInputs
    Root <- MCRoot
    Percents = {0, 50}
    Bucket = 10
    MaxRules = 2
    MaxVersion = 3
    Writers = {w1, w2}
    Deciders = {d1}
    Approvals = {a1}
    MaxBytes = 4
    Window = 2
    PageLimit = 1
    MaxEntries = 3
    MaxFiles = 3
    Processes = {p1, p2}
    Versions = {v1, v2}
    Editors = {e1, e2}
    Documents <- MCDocuments
    Settings <- MCSettings
    Multiline = {"two lines"}
    Named = {"local"}
INVARIANTS
    HolderKeepsGuard
    LifecycleIsGuarded
    PolicyIsObeyed
    ReadersSeeTheLog
    SettingsAreKept
    PointersNameWholeVersions
PROPERTIES
    RefusedOnlyByTheLiving
SYMMETRY Symmetry
CHECK_DEADLOCK FALSE
