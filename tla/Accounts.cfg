SPECIFICATION AccountsSpec
CONSTANTS
    ann = ann  ben = ben  admin = admin  teacher = teacher  student = student  edit = edit  view = view
    l1 = l1  l2 = l2  l3 = l3  q1 = q1  q2 = q2  k1 = k1  k2 = k2  k3 = k3  x1 = x1  x2 = x2  x3 = x3
    r1 = r1  r2 = r2  d1 = d1  d2 = d2  g1 = g1  o1 = o1
    Users = {ann, ben}
    Roles = {admin, teacher, student}
    Permissions = {edit, view}
    AdminRoles = {admin, teacher}
    AdminPermissions = {edit}
    SystemAdmin = admin
    Student = student
    InitialRoles <- MCInitialRoles
    InitialGrants <- MCInitialGrants
    Given <- MCGiven
    Withheld <- MCWithheld
    LegacyAdmins = {ben}
    Logins = {l1, l2, l3}
    Persistent = {l1}
    Requests = {q1, q2}
    ForAdmin = {q1}
    Continues = {k1, k2, k3}
    Exchanges = {x1, x2, x3}
    RoleChanges = {r1, r2}
    Deactivations = {d1, d2}
    GrantChanges = {g1}
    Logouts = {o1}
    UserOf <- MCUserOf
    ActorOf <- MCActorOf
    NewRoles <- MCNewRoles
    RoleOf <- MCRoleOf
    NewPermissions <- MCNewPermissions
    RequestOf <- MCRequestOf
    CodeOf <- MCCodeOf
    ShortTTL = 1
    LongTTL = 2
    MaxTime = 2
    MaxCrashes = 1
    None = None
    roll = roll  shift = shift  prep = prep  fix = fix  early = early  amend = amend  later = later
    rename = rename  renumber = renumber  add = add
    Enrollees = {1, 2, 3, 4}
    Nos = {1, 2, 3, 4}
    FirstNo <- MCFirstNo
    SchoolYears = {1, 2, 3}
    Imports = {roll, shift, prep, fix, early, amend, later}
    FileOf <- MCFileOf
    Corrections = {rename, renumber}
    CorrectTo <- MCCorrectTo
    Additions = {add}
    AddNo <- MCAddNo
    Retirable = {2}
    Erasable = {2}
    phone1 = phone1  phone2 = phone2  mail1 = mail1  s1 = s1  s2 = s2  s3 = s3  v1 = v1  c1 = c1  c2 = c2
    FirstCode = first
    Issues = {i1}
    Sends = {s1, s2, s3}
    Trials = {v1}
    Completions = {c1, c2}
    Contacts = {phone1, phone2, mail1}
    Kind <- MCKind
    SendTo <- MCSendTo
    Typed <- MCTyped
    MaxTries = 2
    MaxMishaps = 1
    Mistyped = Mistyped
    Nil = Nil
INVARIANTS
    ActivationsAreSound IdentitiesAreSound StaleSessionsAreExplained LogoutEndsItsSession HandoversAreUsedOnce AnAdministratorRemains
CHECK_DEADLOCK FALSE
