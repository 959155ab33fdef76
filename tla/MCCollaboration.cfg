CONSTANTS
    Users = {u1, u2}
    WorkspaceIDs = {ws1, ws2}
    InvitationIDs = {1}
    WsRequests = {r1, r2}
    TopicCalls = {r1, r2}
    TopicTitles = {h1, h2}
    Subjects = {s1}
    MaxMessages = 2
    ExpiryMessages = 0
    RowIds = {1, 2, 3}
    RowKeys = {1, 2}
    PageLimit = 1
    Renames = {rename}
    RowTitles = {t1}
    CardRequests = {r1, r2}
    MaxCardRev = 4
    MaxCardLog = 3
    MaxCardEvents = 4
    CardBuffer = 1
    BacklogLimit = 2
    FeedbackIDs = {h1, h2}
    Agents = {a1, a2}
    FbBuffer = 1
    FileHashes = {h1, h2}
    FileOwners = {o1}
    FileUploads = {r1, r2}
    MaxFileRows = 3
    MaxUploads = 4
    FileSorts = {"created_asc"}
    FilePage = 1
    MaxFileSize = 4
    q1 = q1
    q2 = q2
    v1 = v1
    v2 = v2
    AccessUsers = {v1, v2}
    Requests = {q1, q2}
    SentBy <- Senders
    Sends <- Sending
    AccessNodes = {"n0", "n1"}
    RootNode = "n0"
    ProfileNames = {"a"}
SPECIFICATION CollabSpec
INVARIANTS MembershipEarned TopicsSingle PagesComplete  FilesKept
PROPERTIES NothingTakenBack
SYMMETRY CollabSymmetry
CHECK_DEADLOCK FALSE
