SPECIFICATION MCSpec
CONSTANTS
    ann = ann  ben = ben  eve = eve  roomA = roomA  roomB = roomB
    ask = ask  move = move  swap = swap  draw = draw  cancel = cancel
    tab1 = tab1  tab2 = tab2  image = image  blank = blank  first = first  second = second
    edit = edit  voter = voter  yes = yes  no = no
    Students = {ann, ben, eve}
    Rooms = {roomA, roomB}
    Capacity <- MCCapacity
    Suits <- MCSuits
    ClassOf <- MCClassOf
    Creations = {ask}
    Moves = {move}
    Swaps = {swap}
    Draws = {draw}
    Cancellations = {cancel}
    About <- MCAbout
    To <- MCTo
    Positions = {1, 2}
    Enterable <- MCEnterable
    NoBed = NoBed
    Cases = {c1}
    Workers = {w1, w2}
    MaxSchedules = 2
    MaxTime = 1
    MaxDisturbances = 1
    BatchLimit = 2
    Pupils = {ann, ben}
    Applicant = ann
    Week = 2
    MaxEdits = 2
    MaxReviews = 4
    MaxDays = 3
    Signers = {ann, ben, eve}
    Threshold = 2
    MaxTexts = 2
    MaxTaps = 2
    Askings = {a1, a2}
    Checks = {v1, v2}
    Confirmations = {f1, f2}
    MaxAttempts = 2
    Wrong = Wrong
    NoCode = NoCode
    Offset = 9
    Horizon = 500
    Tabs = {tab1, tab2}
    ImagesOf <- MCImagesOf
    Documents = {blank, first, second}
    Blank = blank
    PollOf <- MCPollOf
    Edits = {edit}
    EditedTo <- MCEditedTo
    Voters = {voter}
    Choice <- MCChoice
    MaxTyped <- MCMaxTyped
    MaxFailedCalls = 1
    NoDocument = NoDocument
    p1 = p1  p2 = p2  p3 = p3  i1 = i1  i2 = i2  e1 = e1
    Writers = {p1, p2}
    Correctors = {p3}
    Numbered = {p1, p2}
    Pictures <- MCPictures
    Enclosures <- MCEnclosures
    MaxNotices = 2
    MaxUploads = 4
    MaxMishaps = 2
    Containers = {"api", "web"}
    MaxRelease = 3
    Retention = 2
    MaxBackups = 3
    MaxKills = 1
    m1 = m1  m2 = m2  m3 = m3  m4 = m4  pa = pa  pb = pb  may = may  june = june
    u1 = u1  u2 = u2  u3 = u3
    Processes = {pa, pb}
    Ranges = {may, june}
    Readers = {m1, m2, m3, m4}
    AtProcess <- MCAtProcess
    Wants <- MCWants
    TTL = 1
    StaleFor = 2
    Backoff = 1
    MaxEntries = 1
    MaxLoads = 1
    MaxClock = 3
    MaxOutages = 1
    Drafts <- MCDrafts
    Updates = {u1, u2, u3}
    ChangesOf <- MCChangesOf
    Deletions = {x0}
    ImportFiles <- MCFiles
    MaxEvents = 3
INVARIANTS
    ServicesTypeOK BedPlanIsSound SchedulesAreOneShot RequestIsTruthful PetitionIsHonest
    PostsAreSound ResetIsOrderly WeekIsSound SubmissionsAreSound ReleasesAreSound SchoolDataIsSound
CHECK_DEADLOCK FALSE
