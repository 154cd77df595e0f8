SPECIFICATION Spec
CONSTANTS
    ann = ann  ben = ben  admin = admin  teacher = teacher  student = student  edit = edit  view = view
    l1 = l1  l2 = l2  l3 = l3  q1 = q1  q2 = q2  k1 = k1  k2 = k2  k3 = k3  x1 = x1  x2 = x2  x3 = x3
    r1 = r1  r2 = r2  d1 = d1  d2 = d2  g1 = g1  o1 = o1
    Users = {ann, ben}
    Roles = {admin, teacher, student}
    Permissions = {edit, view}
    AdminRoles = {admin, teacher}
    AdminPermissions = {edit}
    SystemAdmin = admin
    Student = student
    InitialRoles <- MCInitialRoles
    InitialGrants <- MCInitialGrants
    Given <- MCGiven
    Withheld <- MCWithheld
    LegacyAdmins = {ben}
    Logins = {l1, l2}
    Persistent = {l1}
    Requests = {}
    ForAdmin = {q1}
    Continues = {}
    Exchanges = {}
    RoleChanges = {r1}
    Deactivations = {}
    GrantChanges = {}
    Logouts = {}
    UserOf <- MCUserOf
    ActorOf <- MCActorOf
    NewRoles <- MCNewRoles
    RoleOf <- MCRoleOf
    NewPermissions <- MCNewPermissions
    RequestOf <- MCRequestOf
    CodeOf <- MCCodeOf
    ShortTTL = 1
    LongTTL = 2
    MaxTime = 1
    MaxCrashes = 0
    None = None
INVARIANTS GrantChangesEndSessions
CHECK_DEADLOCK FALSE
