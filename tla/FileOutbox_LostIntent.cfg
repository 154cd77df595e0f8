SPECIFICATION Spec
CONSTANTS
    u1 = u1  u2 = u2  u3 = u3  v1 = v1  v2 = v2  d1 = d1  d2 = d2
    w1 = w1  w2 = w2  p1 = p1  p2 = p2
    notice = notice  profile = profile  wakeSong = wakeSong  owner = owner
    Uploads = {u1, u2}
    Deleters = {d1}
    Workers = {w1, w2}
    Processes = {p1, p2}
    Targets = {notice, profile, wakeSong}
    Kept = {profile, wakeSong}
    Profiles = {profile}
    Generated = {}
    Owners = {owner}
    TargetOf <- MCTargetOf
    OwnerOf <- OneOwner
    ProcessOf <- TwoProcesses
    Quota = 2
    BatchSize = 2
    LostAcks = TRUE
    MaxFaults = 1
    MaxOverruns = 0
    NoJob = NoJob
    Nobody = Nobody
INVARIANTS EveryIntentSurvives
CHECK_DEADLOCK FALSE
