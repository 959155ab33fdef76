CONSTANTS
    Cores = {1, 2}
    MaxIdentifiers = 2
    PlugNames = {n1}
    PlugVersions = {c1, c2, c3}
    PlugCalls = {r1, r2}
    Profiles = {r1, r2}
    SandCalls = {r1, r2}
    DeclaredPermissions = {perm1}
    OtherPermissions = {perm2}
    QuotaLimit = 2
    QuotaWindow = 2
    MaxTicks = 3
    Groups = {r1, r2}
    Members = {m1, m2}
    MlsCalls = {c1, c2, c3}
    Names = {1, 2}
    Texts = {1}
    MaxMade <- RowsMade
    MaxSeq = 3
    DefaultPage = 2
    MaxPage = 2
    o1 = o1
    o2 = o2
    e1 = e1
    e2 = e2
    Openers = {o1, o2}
    Exporters = {e1, e2}
    BinaryVersion <- BinaryVersions
    SourceRows = {"u", "n1", "n2", "e"}
    RowRefs <- Refs
    RowTable <- TableOf
    BadHashRows = {"n2"}
    MaxWrites = 1
SPECIFICATION PlatformSpec
INVARIANTS   GroupsSound  FilesComplete
PROPERTIES PublishedOnce
SYMMETRY PlatformSymmetry
CHECK_DEADLOCK FALSE
