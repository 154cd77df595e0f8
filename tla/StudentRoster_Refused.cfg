SPECIFICATION RosterScenesSpec
CONSTANTS
    roll = roll  shift = shift  prep = prep  fix = fix  early = early  amend = amend  later = later
    rename = rename  renumber = renumber  add = add
    Enrollees = {1, 2, 3, 4}
    Nos = {1, 2, 3, 4}
    FirstNo <- MCFirstNo
    SchoolYears = {1, 2, 3}
    Imports = {roll, shift, prep, fix, early, amend, later}
    FileOf <- MCFileOf
    Corrections = {rename, renumber}
    CorrectTo <- MCCorrectTo
    Additions = {add}
    AddNo <- MCAddNo
    Retirable = {2}
    Erasable = {2}
PROPERTIES ApplicableImportsAreApplied
CHECK_DEADLOCK FALSE
