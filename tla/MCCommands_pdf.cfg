SPECIFICATION Spec
CONSTANTS
    p1 = p1  p2 = p2
    bought = bought  loose = loose  other = other
    request = request  download = download
    ex = ex  x = x  dx = dx  px = px  y = y  dy = dy  z = z  dz = dz  n = n  pdf = pdf
    ax = ax  ay = ay  author = author  dir = dir
    front = front  stored = stored
    resourceX = resourceX  resourceD = resourceD
    None = None
    Procs = {p1, p2}
    Contents <- MCContents
    Ids <- MCIds
    ByTitle <- MCByTitle
    Store = {bought}
    Previews = {}
    Keyed = {bought}
    Named <- MCNamed
    Plain <- MCPlain
    Readable = {x, dx, y, dy, z, dz, n, pdf}
    HasSerial = TRUE
    Commands <- MCCommandSet
    Origins <- MCOrigins
    Paths = {ax, ay}
    Folders = {author}
    FolderOf <- MCFolderOf
    PathOf <- MCPathOf
    DeviceCopy <- MCDeviceCopy
    Resource <- MCResource
    Begins <- MCBegins
    Shown = {ex, x, dx, px, y, dy, z, dz, n}
    Directory = dir
    FirstTrees <- MCTrees
    FirstLocals <- MCLocals
    FirstKobos <- PdfKobos
    OwnerMoves <- MCOwnerMoves
    Requests = {request}
    Ordered <- MCOrdered
    Downloads = {download}
    Links = {front, stored}
    Offered <- MCOffered
    Answer <- MCAnswer
    Reachable = {front, stored}
    MaxRedirects = 1
    MaxRuns = 2
    MaxMishaps = 0
SYMMETRY Twice
CHECK_DEADLOCK FALSE
INVARIANT VerifiedCopiesAreSkipped
