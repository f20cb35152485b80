\* The server and the operator's script append to a log, and two writes may
\* stop half way; up to three pages of threads are read while others post;
\* texts of up to five lines; directories with a file of every sort that the
\* two ends treat alike or not, changed twice by the operator.
SPECIFICATION Spec
CONSTANTS
    Writers = {server, script}
    Texts = {"whole", "split", "long"}
    Tears = {"cut", "bare", "midchar"}
    MaxBegun = 4
    MaxTears = 2
    ThreadsPerPage = 2
    PostsPerPage = 2
    MaxPosts = 6
    LinkPaths = {home}
    MaxNotice = 2
    MaxWritten = 4
    Paths = {home, onboard, linked, boards, files, notes, dots, odd}
    VnPaths = {home, onboard, linked}
    BoardPaths = {onboard, boards}
    ThereBoards = {boards}
    FilesPath = files
    DotPaths = {dots}
    OutPaths = {linked}
    OddPaths = {odd}
    Readers = {r1, r2}
    Words = {{r1}}
    MaxEdits = 2
INVARIANTS
    PostsStay
    UnreadTells
    PagingMissesNothing
    LinksStayServed
    ShownAsWritten
    ListedOpens
    AllowKeepsOut
PROPERTIES
    NewPostsAreNewer
    ImplementsBoard
CHECK_DEADLOCK FALSE
