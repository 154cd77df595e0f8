SPECIFICATION MCSpec
CONSTANTS
    amy = amy  bob = bob  plus = plus  minus = minus  more = more  r1 = r1  r2 = r2
    g1 = g1  g2 = g2  b1 = b1  b2 = b2  h1 = h1  h2 = h2  h3 = h3  y1 = y1  y2 = y2
    d1 = d1  d2 = d2  x1 = x1  e1 = e1  p1 = p1  p2 = p2
    spring = spring  fall = fall  batch = batch
    Students = {amy}
    Items = {minus}
    StudentOf <- MCStudentOf
    PointOf <- MCPointOf
    ReasonOf <- MCReasonOf
    Reasons = {r1, r2}
    FirstType <- MCFirstType
    Grants = {g2}
    Batches = {}
    Halves = {h1}
    ItemsOf <- MCItemsOf
    KeyOf <- MCKeyOf
    Keys = {spring}
    Syncs = {}
    Departures = {d1}
    Dismissals = {}
    ReasonEdits = {}
    Processes = {p1, p2}
    ProcessOf <- TwoProcesses
    Threshold <- MCThreshold
    MaxCases = 2
    MaxCrashes = 0
    None = None
    Awards = {}
    Filed = {}
    NoAward = NoAward
    MaxWordings = 2
    MaxRows = 3
    MaxSubmissions = 2
    MaxLost = 1
PROPERTIES DepartedAreNotHalved
CHECK_DEADLOCK FALSE
