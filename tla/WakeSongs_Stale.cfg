SPECIFICATION Spec
CONSTANTS
    r1 = r1  r2 = r2  r3 = r3  student = student  other = other  s1 = s1  s2 = s2
    e1 = e1  e2 = e2  g1 = g1  g2 = g2  g3 = g3  p1 = p1  p2 = p2
    Songs = {r1}
    Students = {student, other}
    RequesterOf <- Requesters
    Segments = {s1, s2}
    Editors = {e1}
    Conversions = {g1}
    SongOf <- AllAboutOne
    Processes = {p1}
    ProcessOf <- TwoProcesses
    MaxPending = 1
    MaxFaults = 0
    None = None
INVARIANTS NoStaleRecording
CHECK_DEADLOCK FALSE
